----------------------------- MODULE CardProofs -----------------------------
(***************************************************************************)
(* The card driver keeps in step with the card, reports success only for   *)
(* what the card holds, and is refused by a card it has not initialized:   *)
(* for every set of blocks and contents and every limit on the polls.      *)
(***************************************************************************)
EXTENDS Card, TLAPS

DataPhase == {"token", "read_block", "send_block", "busy"}

\* What the card may still have to say at each place of the driver.
InStep ==
    /\ pc \in {"idle", "detect", "power_on"} \cup Commands => pending = "nothing"
    /\ pc = "response" => pending \in {"nothing", cmd}
    /\ pc \in {"token", "read_block"} => pending \in {"nothing", "token"}
    /\ pc = "send_block" => pending \in {"nothing", "data"}
    /\ pc = "busy" => pending \in {"nothing", "busy"}
    /\ pc = "return" /\ ret \in {"SUCCESS", "OUT_OF_RANGE"} => pending = "nothing"
    /\ pc = "error" => ret # "SUCCESS"

\* The commands and the places that belong to each function.
CommandOf(c) ==
    /\ c \in {"cmd0", "cmd55", "cmd41"} => op = "init"
    /\ c = "cmd17" => op = "read"
    /\ c = "cmd24" => op = "write"

InFunction ==
    /\ pc = "power_on" => op = "init"
    /\ pc \in Commands => CommandOf(pc)
    /\ pc = "response" => CommandOf(cmd)
    /\ pc \in {"token", "read_block"} => op = "read"
    /\ pc \in {"send_block", "busy"} => op = "write"

Refusals == {"NO_CARD", "NOT_INITIALIZED", "TIMEOUT"}

\* A block function whose card was not up when it began gets nowhere.
Refused ==
    pc # "idle" /\ op \in {"read", "write"} /\ ~wasReady =>
        /\ mode # "ready"
        /\ pc \notin DataPhase
        /\ pc \in {"error", "return"} => ret \in Refusals

\* While the card is in its socket, it goes through the data phase with the
\* driver.
Together ==
    /\ pc \in DataPhase /\ ~pulled => mode = "ready"
    /\ pc = "read_block" => Asked \in CardBlocks
    /\ pc # "idle" /\ op = "write" => buffer \in Data
    /\ pc = "read_block" /\ ~pulled => pending = "token"
    /\ pc = "send_block" /\ ~pulled => pending = "data"
    /\ pc = "busy" /\ ret = "SUCCESS" /\ ~pulled =>
          Asked \in CardBlocks /\ stored[Asked] = buffer

\* SuccessMeansStored, with the block that the card was asked for.
Succeeded ==
    pc = "return" /\ ret = "SUCCESS" /\ op \in {"read", "write"} /\ ~pulled =>
        mode = "ready" /\ Asked \in CardBlocks /\ stored[Asked] = buffer

IInv == TypeOK /\ InStep /\ InFunction /\ Refused /\ Together /\ Succeeded


-----------------------------------------------------------------------------
USE DEF IInv, TypeOK, InStep, InFunction, CommandOf, Refused, Refusals, Together,
        Succeeded, DataPhase, Commands, Modes, ReadResults, WriteResults,
        InitResults, driver, device, history

Flags == power \in BOOLEAN /\ present \in BOOLEAN
           /\ pulled \in BOOLEAN /\ wasReady \in BOOLEAN

\* The initial states satisfy the inductive invariant.
LEMMA InitIInv == Init => IInv
<1> SUFFICES ASSUME Init PROVE IInv
  OBVIOUS
<1>1. Flags
  BY Zenon DEF Init, Flags
<1>2. TypeOK
  BY <1>1, CardAssumption DEF Init, Flags
<1>3. pc = "idle" /\ pending = "nothing"
  BY DEF Init
<1>4. QED
  BY <1>2, <1>3

\* The flags stay flags.  They have a lemma of their own because they are the
\* only part of the invariant where a step assigns truth values.
LEMMA FlagsStep == TypeOK /\ Next => Flags'
<1> SUFFICES ASSUME TypeOK, Next PROVE Flags'
  OBVIOUS
<1> USE DEF Flags
<1>1. CASE \E f, a : Begins(f, a)
  BY <1>1, Zenon DEF Begins
<1>2. CASE DriverStep
  <2>1. CASE ErrorPowersOff \/ Returns
    BY <2>1, Zenon DEF ErrorPowersOff, Returns, PowerOff
  <2>2. CASE PowerOn
    BY <2>2, Zenon DEF PowerOn
  <2>3. CASE Detect \/ SendCommand \/ ResponseSilent
    BY <2>3, Zenon DEF Detect, SendCommand, ResponseSilent
  <2>4. CASE TokenSilent \/ TokenError \/ TokenArrives \/ ReadBlock
    BY <2>4, Zenon DEF TokenSilent, TokenError, TokenArrives, ReadBlock
  <2>5. CASE SendBlock \/ BusyEnds
    BY <2>5, Zenon DEF SendBlock, BusyEnds
  <2>6. QED
    BY <1>2, <2>1, <2>2, <2>3, <2>4, <2>5 DEF DriverStep
<1>3. CASE \E r \in {"ok", "idle", "error"} : Response(r)
  BY <1>3, Zenon DEF Response
<1>4. CASE CardFinishesWrite \/ PullCard \/ InsertCard
  BY <1>4, Zenon DEF CardFinishesWrite, PullCard, InsertCard
<1>5. QED
  BY <1>1, <1>2, <1>3, <1>4 DEF Next, CardInit, CardReadBlock, CardWriteBlock

-----------------------------------------------------------------------------
\* A call begins: nothing is pending, and the history starts anew.
LEMMA BeginsStep ==
    ASSUME IInv, Flags', NEW f \in {"init", "read", "write"}, NEW a \in Blocks,
           Begins(f, a), buffer' \in Data \cup {NoData},
           f = "write" => buffer' \in Data
    PROVE  IInv'
BY DEF Begins, Idle, Flags

\* Detection, power and the sending of a command.
LEMMA CommandStep ==
    ASSUME IInv, Flags', Detect \/ PowerOn \/ SendCommand
    PROVE  IInv'
<1>1. CASE Detect
  BY <1>1 DEF Detect, Goto, Error, Flags
<1>2. CASE PowerOn
  BY <1>2 DEF PowerOn, Goto, Flags
<1>3. CASE SendCommand
  BY <1>3, CardAssumption DEF SendCommand, Goto, Flags
<1>4. QED
  BY <1>1, <1>2, <1>3

\* A poll that finds nothing: the last one ends the call with TIMEOUT, and the
\* caller switches the card off, so that a late answer finds nobody.
LEMMA SilentStep ==
    ASSUME IInv, Flags', ResponseSilent
    PROVE  IInv'
BY CardAssumption DEF ResponseSilent, Error, SoftError, Flags

\* A response.  Only CMD41, which belongs to card_init, brings a card up, and
\* only a card that is up answers a block command with "ok".
LEMMA ResponseStep ==
    ASSUME IInv, Flags', NEW r \in {"ok", "idle", "error"}, Response(r)
    PROVE  IInv'
<1>1. /\ pc = "response" /\ present /\ pending = cmd /\ r \in R1(cmd)
      /\ mode' = ModeAfter(cmd, r) /\ pending' = PendingAfter(cmd, r)
      /\ UNCHANGED <<op, addr, cmd, buffer, power, present, stored, history>>
  <2>1. pc = "response" /\ pending \in Commands
    BY DEF Response, Answers
  <2>2. pending = cmd
    BY <2>1
  <2>3. QED
    BY <2>1, <2>2 DEF Response, Answers
<1>2. mode # "off"
  BY <1>1 DEF R1
<1> USE <1>1, <1>2, CardAssumption
    DEF Goto, Error, SoftError, R1, ModeAfter, PendingAfter, Flags
<1>3. CASE cmd = "cmd0"
  <2>1. AfterCmd0(r) /\ UNCHANGED polls
    BY <1>3 DEF Response
  <2>2. QED
    BY <1>3, <2>1 DEF AfterCmd0
<1>4. CASE cmd = "cmd55"
  <2>1. AfterCmd55(r) /\ UNCHANGED polls
    BY <1>4 DEF Response
  <2>2. QED
    BY <1>4, <2>1 DEF AfterCmd55
<1>5. CASE cmd = "cmd41"
  <2>1. AfterCmd41(r) /\ UNCHANGED polls
    BY <1>5 DEF Response
  <2>2. QED
    BY <1>5, <2>1 DEF AfterCmd41
<1>6. CASE cmd = "cmd17"
  <2>1. AfterBlockCmd(r, "token") /\ polls' = TokenPolls
    BY <1>6 DEF Response
  <2>2. polls' \in 0 .. CmdPolls + TokenPolls
    BY <2>1
  <2>3. CASE r = "ok"
    BY <1>6, <2>1, <2>2, <2>3 DEF AfterBlockCmd
  <2>4. CASE r # "ok"
    BY <1>6, <2>1, <2>2, <2>4 DEF AfterBlockCmd
  <2>5. QED
    BY <2>3, <2>4
<1>7. CASE cmd = "cmd24"
  <2>1. AfterBlockCmd(r, "send_block") /\ UNCHANGED polls
    BY <1>7 DEF Response
  <2>2. QED
    BY <1>7, <2>1 DEF AfterBlockCmd
<1>8. QED
  BY <1>3, <1>4, <1>5, <1>6, <1>7

\* The card is asked for the same block while the call lasts.
LEMMA SameAsked == ASSUME UNCHANGED addr PROVE UNCHANGED Asked
BY DEF Asked

\* card_read_block after its command.
LEMMA ReadStep ==
    ASSUME IInv, Flags', TokenSilent \/ TokenError \/ TokenArrives \/ ReadBlock
    PROVE  IInv'
<1>1. CASE TokenSilent
  BY <1>1, CardAssumption DEF TokenSilent, Error, Flags
<1>2. CASE TokenError
  BY <1>2 DEF TokenError, TokenErrors, SoftError, Flags
<1>3. CASE TokenArrives
  BY <1>3, SameAsked DEF TokenArrives, Goto, Flags
<1>4. CASE ReadBlock
  BY <1>4, SameAsked DEF ReadBlock, Goto, Flags
<1>5. QED
  BY <1>1, <1>2, <1>3, <1>4

\* card_write_block after its command.
LEMMA WriteStep ==
    ASSUME IInv, Flags', SendBlock \/ BusyEnds
    PROVE  IInv'
<1>1. CASE SendBlock
  <2>1. PICK r \in DataResponses :
            /\ ret' = DataResult(r)
            /\ pending' = IF pending = "data" THEN "busy" ELSE pending
            /\ \/ r = "accepted" /\ Asked \in CardBlocks
                  /\ stored' = [stored EXCEPT ![Asked] = buffer]
               \/ r # "accepted" /\ UNCHANGED stored
               \/ r # "accepted" /\ pending = "data" /\ Asked \in CardBlocks
                  /\ stored' = [stored EXCEPT ![Asked] = buffer]
    BY <1>1 DEF SendBlock
  <2>2. stored' \in [CardBlocks -> Data]
    <3>1. buffer \in Data
      BY <1>1 DEF SendBlock
    <3>2. QED
      BY <2>1, <3>1
  <2>3. ret' = "SUCCESS" => Asked \in CardBlocks /\ stored'[Asked] = buffer
    BY <2>1 DEF DataResponses, DataResult
  <2>4. ret' \in WriteResults /\ pending' \in {"nothing", "busy"}
    BY <1>1, <2>1 DEF SendBlock, DataResponses, DataResult
  <2>5. QED
    BY <1>1, <2>2, <2>3, <2>4, SameAsked DEF SendBlock, Flags
<1>2. CASE BusyEnds
  BY <1>2, SameAsked DEF BusyEnds, Goto, Flags
<1>3. QED
  BY <1>1, <1>2

\* The end of a call.
LEMMA ReturnStep ==
    ASSUME IInv, Flags', ErrorPowersOff \/ Returns
    PROVE  IInv'
<1>1. CASE ErrorPowersOff
  BY <1>1 DEF ErrorPowersOff, Goto, PowerOff, Flags
<1>2. CASE Returns
  BY <1>2 DEF Returns, Goto, PowerOff, Flags
<1>3. QED
  BY <1>1, <1>2

\* What the card and the user do.
LEMMA DeviceStep ==
    ASSUME IInv, Flags', CardFinishesWrite \/ PullCard \/ InsertCard
    PROVE  IInv'
<1>1. CASE CardFinishesWrite
  BY <1>1, SameAsked DEF CardFinishesWrite, Flags
<1>2. CASE PullCard
  BY <1>2, SameAsked DEF PullCard, Flags
<1>3. CASE InsertCard
  BY <1>3, SameAsked DEF InsertCard, Flags
<1>4. QED
  BY <1>1, <1>2, <1>3

\* Every step preserves the inductive invariant.
LEMMA NextIInv == IInv /\ [Next]_vars => IInv'
<1> SUFFICES ASSUME IInv, [Next]_vars PROVE IInv'
  OBVIOUS
<1>1. CASE UNCHANGED vars
  BY <1>1, SameAsked DEF vars
<1>2. CASE Next
  <2>1. Flags'
    BY <1>2, FlagsStep
  <2>2. CASE CardInit
    BY <2>1, <2>2, BeginsStep DEF CardInit
  <2>3. ASSUME NEW a \in Blocks, CardReadBlock(a) PROVE IInv'
    BY <2>1, <2>3, BeginsStep DEF CardReadBlock
  <2>4. ASSUME NEW a \in Blocks, CardWriteBlock(a) PROVE IInv'
    BY <2>1, <2>4, BeginsStep DEF CardWriteBlock
  <2>5. CASE DriverStep
    BY <2>1, <2>5, CommandStep, SilentStep, ReadStep, WriteStep, ReturnStep
    DEF DriverStep
  <2>6. ASSUME NEW r \in {"ok", "idle", "error"}, Response(r) PROVE IInv'
    BY <2>1, <2>6, ResponseStep
  <2>7. CASE CardFinishesWrite \/ PullCard \/ InsertCard
    BY <2>1, <2>7, DeviceStep
  <2>8. QED
    BY <1>2, <2>2, <2>3, <2>4, <2>5, <2>6, <2>7 DEF Next
<1>3. QED
  BY <1>1, <1>2

-----------------------------------------------------------------------------
HIDE DEF IInv, TypeOK, InStep, InFunction, CommandOf, Refused, Refusals, Together,
         Succeeded, DataPhase, Commands, Modes, ReadResults,
         WriteResults, InitResults, driver, device, history

\* The inductive invariant holds in every reachable state of the driver.
THEOREM Invariance == Spec => []IInv
<1>1. Init => IInv
  BY InitIInv
<1>2. IInv /\ [Next]_vars => IInv'
  BY NextIInv
<1>3. QED
  BY <1>1, <1>2, PTL DEF Spec

\* The driver and the card are well typed, for every limit on the polls.
THEOREM TypeCorrect == Spec => []TypeOK
<1>1. IInv => TypeOK
  BY DEF IInv
<1>2. QED
  BY <1>1, Invariance, PTL

\* No command is sent while the card is busy or answering: the driver never
\* takes a late response for that of another command.
THEOREM AnswersInStep == Spec => []CommandsInStep
<1>1. IInv => CommandsInStep
  BY DEF IInv, InStep, Commands, CommandsInStep
<1>2. QED
  BY <1>1, Invariance, PTL

\* card_read_block and card_write_block report success only when the card in
\* the socket has the block they were asked for and holds in it what cache_block
\* holds; of an index that does not fit into the command, when this is so of the
\* block that the rest of the index names.
THEOREM SuccessIsStored == Spec => []SuccessMeansStored
<1>1. IInv => SuccessMeansStored
  <2> SUFFICES ASSUME IInv PROVE SuccessMeansStored
    OBVIOUS
  <2>1. addr \in Nat
    BY CardAssumption DEF IInv, TypeOK
  <2>2. addr < Addressable => Asked = addr
    BY <2>1, CardAssumption DEF Asked
  <2>3. QED
    BY <2>2 DEF IInv, Succeeded, SuccessMeansStored
<1>2. QED
  BY <1>1, Invariance, PTL

\* A card that card_init did not bring up is refused with one of the three
\* results BlockLayer allows for it.
THEOREM UninitializedRefused == Spec => []NotReadyRefused
<1>1. IInv => NotReadyRefused
  BY DEF IInv, Refused, Refusals, NotReadyRefused
<1>2. QED
  BY <1>1, Invariance, PTL
=============================================================================
