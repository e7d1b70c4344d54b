-------------------------------- MODULE Card --------------------------------
(***************************************************************************)
(* lib/card.asm: card_init, card_read_block and card_write_block talking   *)
(* over SPI to an SD card that may be slow, refuse, break off, be pulled   *)
(* or be put back at any step.  The caller is lib/fat/fat.c, which turns   *)
(* the card off after every error but CARD_ERROR_OUT_OF_RANGE.             *)
(*                                                                         *)
(* Bytes on the bus are abstracted to what the driver tells apart: the R1  *)
(* responses "ok" (0x00), "idle" (0x01) and "error" (another bit), the     *)
(* data tokens, the data responses, and silence (0xff).                    *)
(***************************************************************************)
EXTENDS Integers

CONSTANTS Blocks,      \* block indices the driver is given
          CardBlocks,  \* blocks the card has
          Addressable, \* 2 ^ 23: blocks that a 32-bit byte address tells apart
          Data, NoData,
          CmdPolls,    \* 4: how often a response to a command is looked for
          TokenPolls   \* TIMEOUT_BLOCK, 20: the same for a data token

ASSUME CardAssumption ==
    /\ Blocks \subseteq Nat /\ Addressable \in Nat \ {0}
    /\ CardBlocks \subseteq Blocks \cap 0 .. Addressable - 1
    /\ NoData \notin Data
    /\ CmdPolls \in Nat \ {0}
    /\ TokenPolls \in Nat \ {0}

VARIABLES
    pc,       \* the driver's place
    op,       \* the function the driver is in
    addr,     \* the block index it was given
    cmd,      \* the command it sent last
    polls,    \* polls left before it gives up
    ret,      \* its result
    buffer,   \* cache_block
    power,    \* SPI_CTRL_EN_3V3
    present,  \* a card is in the socket
    mode,     \* the card: off, cold, native, idle or ready
    pending,  \* what the card still has to say
    stored,   \* the card's blocks
    pulled,   \* the card was pulled during this call (history)
    wasReady  \* the card was up when this call began (history)

driver == <<pc, op, addr, cmd, polls, ret, buffer>>
device == <<power, present, mode, pending, stored>>
history == <<pulled, wasReady>>
vars == <<pc, op, addr, cmd, polls, ret, buffer, power, present, mode, pending,
          stored, pulled, wasReady>>

\* The results of the two block functions; BlockLayer builds on these sets.
ReadResults == {"SUCCESS", "NO_CARD", "NOT_INITIALIZED", "TIMEOUT",
                "BLOCK_CMD_FAILED", "OUT_OF_RANGE", "LOCKED"}
WriteResults == {"SUCCESS", "NO_CARD", "NOT_INITIALIZED", "TIMEOUT",
                 "BLOCK_CMD_FAILED", "WRITE_ERROR", "CRC_ERROR",
                 "BAD_DATA_RESPONSE"}
InitResults == {"SUCCESS", "NO_CARD", "TIMEOUT", "RESET_FAILED", "ACMD_FAILED",
                "ACMD41_FAILED"}

-----------------------------------------------------------------------------
(***************************************************************************)
(* The card.  `pending' is the command it has to answer, "token" when the  *)
(* data of a read are to come, "data" when it expects data to write,       *)
(* "busy" while it programs them.                                          *)
(***************************************************************************)
PowerOff == power' = FALSE /\ mode' = "off" /\ pending' = "nothing"

\* What the card may answer to a command, and the mode it is in afterwards.
R1(c) ==
    IF mode = "off" THEN {}
    ELSE CASE c = "cmd0" -> IF mode = "cold" THEN {} ELSE {"idle", "error"}
           [] c \in {"cmd55", "cmd41"} ->
                IF mode \in {"idle", "ready"} THEN {"idle", "ok", "error"} ELSE {}
           [] c \in {"cmd17", "cmd24"} ->
                IF mode = "ready" THEN {"ok", "error"} ELSE {"idle"}

ModeAfter(c, r) ==
    CASE c = "cmd0" /\ r = "idle" -> "idle"
      [] c = "cmd41" /\ r = "ok" -> "ready"
      [] OTHER -> mode

PendingAfter(c, r) ==
    CASE c = "cmd17" /\ r = "ok" -> "token"
      [] c = "cmd24" /\ r = "ok" -> "data"
      [] OTHER -> "nothing"

\* The card puts r, its answer to the command it was sent, on the bus.
Answers(r) ==
    /\ present /\ pending \in {"cmd0", "cmd55", "cmd41", "cmd17", "cmd24"}
    /\ r \in R1(pending)
    /\ mode' = ModeAfter(pending, r)
    /\ pending' = PendingAfter(pending, r)

PullCard ==
    /\ present
    /\ present' = FALSE /\ mode' = "off" /\ pending' = "nothing"
    /\ pulled' = TRUE
    /\ UNCHANGED <<driver, power, stored, wasReady>>

\* A card put into a powered socket has not seen the clocks card_init sends.
InsertCard ==
    /\ ~present
    /\ present' = TRUE
    /\ mode' = IF power THEN "cold" ELSE "off"
    /\ UNCHANGED <<driver, power, pending, stored, history>>

CardFinishesWrite ==
    /\ pending = "busy"
    /\ pending' = "nothing"
    /\ UNCHANGED <<driver, power, present, mode, stored, history>>

-----------------------------------------------------------------------------
(* Calls and returns.                                                      *)

Idle == pc = "idle"

Begins(f, a) ==
    /\ Idle
    /\ pc' = "detect" /\ op' = f /\ addr' = a /\ ret' = "SUCCESS"
    /\ pulled' = FALSE
    /\ wasReady' = (mode = "ready")
    /\ UNCHANGED <<cmd, polls, device>>

CardInit == Begins("init", addr) /\ UNCHANGED buffer

CardReadBlock(a) == Begins("read", a) /\ UNCHANGED buffer

\* The caller has put the block's new content into cache_block.
CardWriteBlock(a) == Begins("write", a) /\ buffer' \in Data

Goto(p) == pc' = p /\ UNCHANGED ret

\* Jumps to the labels soft_error and error with a result.
SoftError(e) == pc' = "return" /\ ret' = e
Error(e) == pc' = "error" /\ ret' = e

ErrorPowersOff ==
    /\ pc = "error"
    /\ Goto("return")
    /\ PowerOff
    /\ UNCHANGED <<op, addr, cmd, polls, buffer, present, stored, history>>

\* The caller sees the result and applies set_fat_error to it.
Returns ==
    /\ pc = "return"
    /\ Goto("idle")
    /\ IF ret \in {"SUCCESS", "OUT_OF_RANGE"}
       THEN UNCHANGED <<power, mode, pending>>
       ELSE PowerOff
    /\ UNCHANGED <<op, addr, cmd, polls, buffer, present, stored, history>>

\* All three functions begin with the card detect switch.
Detect ==
    /\ pc = "detect"
    /\ IF ~present THEN Error("NO_CARD")
       ELSE Goto(CASE op = "init" -> "power_on"
                   [] op = "read" -> "cmd17"
                   [] op = "write" -> "cmd24")
    /\ UNCHANGED <<op, addr, cmd, polls, buffer, device, history>>

\* 3.3 V on with the card deselected, a millisecond, 80 clocks, select.
PowerOn ==
    /\ pc = "power_on"
    /\ Goto("cmd0")
    /\ power' = TRUE
    /\ mode' = IF present /\ mode \in {"off", "cold"} THEN "native" ELSE mode
    /\ UNCHANGED <<op, addr, cmd, polls, buffer, present, pending, stored, history>>

-----------------------------------------------------------------------------
(***************************************************************************)
(* Commands and responses.  A card in the middle of something else does    *)
(* not take a command.                                                     *)
(***************************************************************************)
Commands == {"cmd0", "cmd55", "cmd41", "cmd17", "cmd24"}

\* The block that the card is asked for: the argument of CMD17 and CMD24 is the
\* index shifted left by nine bits in four bytes, so that the index loses its nine
\* upper bits.
Asked == addr % Addressable

SendCommand ==
    /\ pc \in Commands
    /\ Goto("response")
    /\ cmd' = pc
    /\ polls' = CmdPolls
    /\ pending' = IF present /\ pending = "nothing" THEN pc ELSE pending
    /\ UNCHANGED <<op, addr, buffer, power, present, mode, stored, history>>

\* Mutant: the responses to all commands are polled without a limit.
ResponseSilentForever ==
    /\ pc = "response" /\ cmd \notin {"cmd55", "cmd41"}
    /\ UNCHANGED vars

\* A poll that reads 0xff.  CMD55 and CMD41 are polled without a limit.
ResponseSilent ==
    /\ pc = "response" /\ cmd \notin {"cmd55", "cmd41"}
    /\ \/ polls > 1 /\ polls' = polls - 1 /\ UNCHANGED <<pc, ret>>
       \/ /\ polls = 1 /\ UNCHANGED polls
          /\ IF cmd = "cmd0" THEN Error("TIMEOUT") ELSE SoftError("TIMEOUT")
    /\ UNCHANGED <<op, addr, cmd, buffer, device, history>>

\* Where each response leads.
AfterCmd0(r) == IF r = "idle" THEN Goto("cmd55") ELSE Error("RESET_FAILED")

AfterCmd55(r) == IF r = "error" THEN Error("ACMD_FAILED") ELSE Goto("cmd41")

AfterCmd41(r) ==
    CASE r = "ok" -> Goto("return")
      [] r = "idle" -> Goto("cmd55")
      [] r = "error" -> Error("ACMD41_FAILED")

\* Mutant: the idle bit of the response is not looked at.
AfterBlockCmdIdleIgnored(r, next) ==
    IF r = "error" THEN SoftError("BLOCK_CMD_FAILED") ELSE Goto(next)

AfterBlockCmd(r, next) ==
    CASE r = "ok" -> Goto(next)
      [] r = "idle" -> SoftError("NOT_INITIALIZED")
      [] r = "error" -> SoftError("BLOCK_CMD_FAILED")

Response(r) ==
    /\ pc = "response"
    /\ Answers(r)
    /\ CASE cmd = "cmd0" -> AfterCmd0(r) /\ UNCHANGED polls
         [] cmd = "cmd55" -> AfterCmd55(r) /\ UNCHANGED polls
         [] cmd = "cmd41" -> AfterCmd41(r) /\ UNCHANGED polls
         [] cmd = "cmd17" -> AfterBlockCmd(r, "token") /\ polls' = TokenPolls
         [] cmd = "cmd24" -> AfterBlockCmd(r, "send_block") /\ UNCHANGED polls
    /\ UNCHANGED <<op, addr, cmd, buffer, power, present, stored, history>>

-----------------------------------------------------------------------------
(* card_read_block after its command.                                      *)

\* Mutant: the count of polls is not compared with its limit.
TokenSilentUnchecked ==
    /\ pc = "token"
    /\ polls' = polls - 1
    /\ UNCHANGED <<pc, ret, op, addr, cmd, buffer, device, history>>

TokenSilent ==
    /\ pc = "token"
    /\ IF polls > 0 THEN polls' = polls - 1 /\ UNCHANGED <<pc, ret>>
       ELSE Error("TIMEOUT") /\ UNCHANGED polls
    /\ UNCHANGED <<op, addr, cmd, buffer, device, history>>

\* The error token of a card that cannot deliver the block (block_error).
TokenErrors == IF Asked \in CardBlocks THEN {"LOCKED", "BLOCK_CMD_FAILED"}
               ELSE {"OUT_OF_RANGE"}

TokenError ==
    /\ pc = "token" /\ polls > 0 /\ pending = "token"
    /\ \E e \in TokenErrors : SoftError(e)
    /\ pending' = "nothing"
    /\ UNCHANGED <<op, addr, cmd, polls, buffer, power, present, mode, stored, history>>

TokenArrives ==
    /\ pc = "token" /\ polls > 0 /\ pending = "token" /\ Asked \in CardBlocks
    /\ Goto("read_block")
    /\ UNCHANGED <<op, addr, cmd, polls, buffer, device, history>>

\* 512 bytes and the two of the checksum, which nobody compares: a card pulled
\* after its token leaves 0xff in the buffer.
ReadBlock ==
    /\ pc = "read_block"
    /\ buffer' = IF pending = "token" THEN stored[Asked] ELSE NoData
    /\ pending' = "nothing"
    /\ Goto("return")
    /\ UNCHANGED <<op, addr, cmd, polls, power, present, mode, stored, history>>

-----------------------------------------------------------------------------
(* card_write_block after its command.                                     *)

\* The data response; a card that is gone reads as 0x1f.
DataResponses ==
    IF pending = "data" THEN {"accepted", "WRITE_ERROR", "CRC_ERROR"}
    ELSE {"BAD_DATA_RESPONSE"}

\* Mutant: only a write error is told from success.
DataResultLax(r) == IF r = "WRITE_ERROR" THEN r ELSE "SUCCESS"

DataResult(r) == IF r = "accepted" THEN "SUCCESS" ELSE r

SendBlock ==
    /\ pc = "send_block"
    /\ \E r \in DataResponses :
        /\ pc' = "busy" /\ ret' = DataResult(r)
        /\ pending' = IF pending = "data" THEN "busy" ELSE pending
        /\ \/ r = "accepted" /\ Asked \in CardBlocks
              /\ stored' = [stored EXCEPT ![Asked] = buffer]
           \/ r # "accepted" /\ UNCHANGED stored
           \/ r # "accepted" /\ pending = "data" /\ Asked \in CardBlocks
              /\ stored' = [stored EXCEPT ![Asked] = buffer]
    /\ UNCHANGED <<op, addr, cmd, polls, buffer, power, present, mode, history>>

\* Mutant: the driver does not wait for the card to finish.
BusySkipped ==
    /\ pc = "busy"
    /\ Goto("return")
    /\ UNCHANGED <<op, addr, cmd, polls, buffer, device, history>>

\* send_block_busy_loop has no limit either.
BusyEnds ==
    /\ pc = "busy" /\ pending # "busy"
    /\ Goto("return")
    /\ UNCHANGED <<op, addr, cmd, polls, buffer, device, history>>

-----------------------------------------------------------------------------
Init ==
    /\ pc = "idle" /\ op = "init" /\ cmd = "cmd0" /\ ret = "SUCCESS"
    /\ addr \in CardBlocks
    /\ polls = 0
    /\ buffer = NoData
    /\ power = FALSE /\ present = TRUE /\ mode = "off" /\ pending = "nothing"
    /\ stored \in [CardBlocks -> Data]
    /\ pulled = FALSE /\ wasReady = FALSE

DriverStep ==
    \/ Detect \/ PowerOn \/ SendCommand \/ ResponseSilent
    \/ TokenSilent \/ TokenError \/ TokenArrives \/ ReadBlock
    \/ SendBlock \/ BusyEnds
    \/ ErrorPowersOff \/ Returns

BecomesReady == pc = "response" /\ cmd = "cmd41" /\ Response("ok")

Next ==
    \/ CardInit
    \/ \E a \in Blocks : CardReadBlock(a) \/ CardWriteBlock(a)
    \/ DriverStep
    \/ \E r \in {"ok", "idle", "error"} : Response(r)
    \/ CardFinishesWrite
    \/ PullCard
    \/ InsertCard

Spec == Init /\ [][Next]_vars

\* The driver runs on; a card that is in the socket answers, finishes its
\* writes, and does not stay in its idle state for ever.
FairSpec ==
    /\ Spec
    /\ WF_vars(DriverStep)
    /\ WF_vars(CardFinishesWrite)
    /\ WF_vars(\E r \in {"ok", "idle", "error"} : Response(r))
    /\ SF_vars(BecomesReady)

-----------------------------------------------------------------------------
Modes == {"off", "cold", "native", "idle", "ready"}

\* The driver and the card are well typed.
TypeOK ==
    /\ pc \in {"idle", "detect", "power_on", "response", "token", "read_block",
               "send_block", "busy", "error", "return"} \cup Commands
    /\ op \in {"init", "read", "write"} /\ addr \in Blocks /\ cmd \in Commands
    /\ polls \in 0 .. CmdPolls + TokenPolls
    /\ ret \in ReadResults \cup WriteResults \cup InitResults
    /\ buffer \in Data \cup {NoData}
    /\ power \in BOOLEAN /\ present \in BOOLEAN
    /\ mode \in Modes
    /\ mode # "off" => power /\ present
    /\ pending \in Commands \cup {"nothing", "token", "data", "busy"}
    /\ stored \in [CardBlocks -> Data]
    /\ pulled \in BOOLEAN /\ wasReady \in BOOLEAN

\* When card_read_block or card_write_block reports success and the card was not
\* pulled meanwhile, the card is initialized, it has the block of the given index
\* and holds in it what cache_block holds.  Of an index from 2^23 on this is true
\* only of the block that its lower 23 bits name (card.asm:331): the driver does
\* not refuse such an index.
SuccessMeansStored ==
    pc = "return" /\ ret = "SUCCESS" /\ op \in {"read", "write"} /\ ~pulled =>
        /\ mode = "ready"
        /\ addr < Addressable => addr \in CardBlocks /\ stored[addr] = buffer
        /\ addr >= Addressable => Asked \in CardBlocks /\ stored[Asked] = buffer

\* The driver never sends a command to a card that is still busy with, or still
\* answering, an earlier one; so no response is ever taken for that of another
\* command, in spite of timeouts and late answers.
CommandsInStep ==
    /\ pc \in Commands => pending = "nothing"
    /\ pc = "response" /\ pending # "nothing" => pending = cmd

\* A card that card_init did not bring up, or that was exchanged since, gives no
\* data and takes none: the results BlockLayer allows for a card not ready.
NotReadyRefused ==
    pc = "return" /\ op \in {"read", "write"} /\ ~wasReady =>
        ret \in {"NO_CARD", "NOT_INITIALIZED", "TIMEOUT"}

\* Every call during which the card stays in its socket returns: the loops
\* without a limit (CMD55, CMD41, the end of a write) hang only on a card that
\* was pulled.
ReturnsOrPulled == ~Idle ~> (Idle \/ pulled)
=============================================================================
