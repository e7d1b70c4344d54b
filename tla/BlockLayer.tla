----------------------------- MODULE BlockLayer -----------------------------
(***************************************************************************)
(* The one-block buffer of lib/fat/fat.c (cache_block, cache_block_addr,   *)
(* cache(), flush_cache(), set_fat_error()) on top of the block operations *)
(* of lib/card.asm.  The module has variables and the actions that change  *)
(* them, and no next-state relation: BlockCache and FatFile compose them.  *)
(*                                                                         *)
(* A memory card is a function from block addresses to block contents.     *)
(* The addresses are below 2^23: larger ones are another block's to the    *)
(* driver (Card!Asked).                                                    *)
(* `slot' is the card in the socket and `ready' says that this card is     *)
(* powered and was brought out of its idle state by card_init since it was *)
(* put there.                                                              *)
(***************************************************************************)
EXTENDS Integers

CONSTANTS NoCard,              \* the empty socket
          INVALID_BLOCK_ADDR,  \* 0xffffffff
          Unread,              \* content of cache_block nobody may look at
          ReadErrors,          \* what card_read_block may return in a run
          WriteErrors          \* what card_write_block may return in a run

VARIABLES disk,                \* the cards' contents
          slot,
          ready,
          cache_block_addr,
          cache_block

blockVars == <<disk, slot, ready, cache_block_addr, cache_block>>

(***************************************************************************)
(* The results of card_read_block and card_write_block other than          *)
(* CARD_SUCCESS.  Only the reading of a data token can report an address   *)
(* beyond the card.                                                        *)
(***************************************************************************)
CardReadErrors == {"NO_CARD", "NOT_INITIALIZED", "TIMEOUT",
                   "BLOCK_CMD_FAILED", "OUT_OF_RANGE", "LOCKED"}

CardWriteErrors == {"NO_CARD", "NOT_INITIALIZED", "TIMEOUT",
                    "BLOCK_CMD_FAILED", "WRITE_ERROR", "CRC_ERROR",
                    "BAD_DATA_RESPONSE"}

\* The errors found after the card was handed the data: it may have kept them.
DataPhaseErrors == {"WRITE_ERROR", "CRC_ERROR", "BAD_DATA_RESPONSE"}

\* A card that card_init did not bring up refuses every command.
NotReadyErrors == {"NO_CARD", "NOT_INITIALIZED", "TIMEOUT"}

ASSUME ErrorsAssumption ==
    /\ ReadErrors \subseteq CardReadErrors
    /\ WriteErrors \subseteq CardWriteErrors

(***************************************************************************)
(* set_fat_error: the error the program sees, and whether the card is left *)
(* powered.                                                                *)
(***************************************************************************)
FatError(r) ==
    CASE r = "NO_CARD" -> "NO_CARD"
      [] r = "NOT_INITIALIZED" -> "CARD_REINSERTED"
      [] r = "OUT_OF_RANGE" -> "FS_BROKEN"
      [] OTHER -> "CARD"

\* Mutant: the card stays powered after a rejected write.
PowerStaysOnWriteError(r) == r \in {"OUT_OF_RANGE", "WRITE_ERROR"}

PowerStays(r) == r = "OUT_OF_RANGE"

-----------------------------------------------------------------------------
Hit(a) == cache_block_addr = a

Load(a) == IF Hit(a) THEN cache_block ELSE disk[slot][a]

\* cache(a) returns true.
CacheOk(a) ==
    /\ Hit(a) \/ ready
    /\ cache_block_addr' = a
    /\ cache_block' = Load(a)
    /\ UNCHANGED <<disk, slot, ready>>

\* cache(a) returns false: card_read_block returned r.
CacheFails(a, r) ==
    /\ ~Hit(a)
    /\ r \in IF ready THEN ReadErrors ELSE NotReadyErrors
    /\ cache_block_addr' = INVALID_BLOCK_ADDR
    /\ cache_block' = Unread
    /\ ready' = (ready /\ PowerStays(r))
    /\ UNCHANGED <<disk, slot>>

\* cache() of an address past the end of the card: CARD_ERROR_OUT_OF_RANGE, the
\* one error after which the card stays powered.
CacheBeyondEnd ==
    /\ ready
    /\ cache_block_addr' = INVALID_BLOCK_ADDR
    /\ cache_block' = Unread
    /\ UNCHANGED <<disk, slot, ready>>

\* flush_cache() returns true with the buffer holding d for block a.
FlushOk(a, d) ==
    /\ ready
    /\ disk' = [disk EXCEPT ![slot][a] = d]
    /\ cache_block_addr' = a
    /\ cache_block' = d
    /\ UNCHANGED <<slot, ready>>

\* flush_cache() returns false: card_write_block returned r.  The buffer keeps
\* what could not be written.
FlushFails(a, d, r) ==
    /\ r \in IF ready THEN WriteErrors ELSE NotReadyErrors
    /\ \/ UNCHANGED disk
       \/ ready /\ r \in DataPhaseErrors /\ disk' = [disk EXCEPT ![slot][a] = d]
    /\ cache_block_addr' = a
    /\ cache_block' = d
    /\ ready' = (ready /\ PowerStays(r))
    /\ UNCHANGED slot

(***************************************************************************)
(* cache(a), a change of the buffer to d, flush_cache(): the shape of      *)
(* every write of the file system except the two in alloc_cluster that     *)
(* only retarget the buffer (FlushOk and FlushFails by themselves).        *)
(***************************************************************************)
UpdateOk(a, d) == (Hit(a) \/ ready) /\ FlushOk(a, d)

UpdateFlushFails(a, d, r) == (Hit(a) \/ ready) /\ FlushFails(a, d, r)

-----------------------------------------------------------------------------
\* fat_mount forgets the buffer and brings the card up; block a is the last
\* one it reads.
MountReads(a) ==
    /\ slot # NoCard
    /\ ready' = TRUE
    /\ cache_block_addr' = a
    /\ cache_block' = disk[slot][a]
    /\ UNCHANGED <<disk, slot>>

\* Mutant: the card stays powered when card_init fails.
MountStopsPowered(r) ==
    /\ r \in IF slot = NoCard THEN {"NO_CARD"} ELSE ReadErrors
    /\ ready' = TRUE
    /\ cache_block_addr' = INVALID_BLOCK_ADDR
    /\ cache_block' = Unread
    /\ UNCHANGED <<disk, slot>>

\* Mutant: fat_mount does not forget the buffer before it touches the card.
MountStopsWithBuffer(r) ==
    /\ r \in IF slot = NoCard THEN {"NO_CARD"} ELSE ReadErrors
    /\ ready' = PowerStays(r)
    /\ UNCHANGED <<disk, slot, cache_block_addr, cache_block>>

\* card_init or the first read fails.  A card that only rejected the address
\* of the partition stays powered.
MountStops(r) ==
    /\ r \in IF slot = NoCard THEN {"NO_CARD"} ELSE ReadErrors
    /\ ready' = PowerStays(r)
    /\ cache_block_addr' = INVALID_BLOCK_ADDR
    /\ cache_block' = Unread
    /\ UNCHANGED <<disk, slot>>

\* The computer is reset and calls fat_init; nobody has called card_init yet.
PowerUp ==
    /\ ready' = FALSE
    /\ cache_block_addr' = INVALID_BLOCK_ADDR
    /\ cache_block' = Unread
    /\ UNCHANGED <<disk, slot>>

\* The user pulls the card and puts one in.  The buffer is not told.
Pull ==
    /\ slot # NoCard
    /\ slot' = NoCard
    /\ ready' = FALSE
    /\ UNCHANGED <<disk, cache_block_addr, cache_block>>

Insert(c) ==
    /\ slot = NoCard
    /\ slot' = c
    /\ UNCHANGED <<disk, ready, cache_block_addr, cache_block>>

=============================================================================
