----------------------------- MODULE BlockCache -----------------------------
(***************************************************************************)
(* What the one-block buffer promises to the file system above it,         *)
(* whatever blocks that file system touches: while the card answers, the   *)
(* buffer agrees with the card that is in the socket.  The file system is  *)
(* any sequence of loads, updates, retargeted flushes and mounts.          *)
(***************************************************************************)
EXTENDS BlockLayer

CONSTANTS Cards, Blocks, Data

VARIABLE origin  \* the card a valid buffer was filled from (history)

vars == <<disk, slot, ready, cache_block_addr, cache_block, origin>>

ASSUME CacheAssumption ==
    /\ NoCard \notin Cards
    /\ INVALID_BLOCK_ADDR \notin Blocks

TypeOK ==
    /\ disk \in [Cards -> [Blocks -> Data]]
    /\ slot \in Cards \cup {NoCard}
    /\ ready \in BOOLEAN
    /\ cache_block_addr \in Blocks \cup {INVALID_BLOCK_ADDR}
    /\ cache_block \in Data \cup {Unread}
    /\ cache_block_addr \in Blocks => cache_block \in Data
    /\ origin \in Cards \cup {NoCard}
    /\ ready => slot \in Cards

Init ==
    /\ disk \in [Cards -> [Blocks -> Data]]
    /\ slot \in Cards \cup {NoCard}
    /\ ready = FALSE
    /\ cache_block_addr = INVALID_BLOCK_ADDR
    /\ cache_block = Unread
    /\ origin = NoCard

Owner(a) == IF Hit(a) THEN origin ELSE slot

Cache(a) == CacheOk(a) /\ origin' = Owner(a)

CacheError(a) ==
    /\ \E r \in CardReadErrors : CacheFails(a, r)
    /\ origin' = NoCard

BeyondEnd == CacheBeyondEnd /\ origin' = NoCard

Update(a) ==
    /\ cache_block' \in Data
    /\ UpdateOk(a, cache_block')
    /\ origin' = Owner(a)

UpdateError(a) ==
    /\ cache_block' \in Data
    /\ \E r \in CardWriteErrors : UpdateFlushFails(a, cache_block', r)
    /\ origin' = Owner(a)

\* alloc_cluster sets cache_block_addr to the twin of the FAT sector it has
\* just written and flushes the same bytes again.
Mirror(a) ==
    /\ cache_block_addr \in Blocks
    /\ FlushOk(a, cache_block)
    /\ UNCHANGED origin

MirrorError(a) ==
    /\ cache_block_addr \in Blocks
    /\ \E r \in CardWriteErrors : FlushFails(a, cache_block, r)
    /\ UNCHANGED origin

Mount(a) == MountReads(a) /\ origin' = slot

MountError == (\E r \in CardReadErrors : MountStops(r)) /\ origin' = NoCard

\* fat_init after a reset of the computer: an unmounted card, an empty buffer.
Reset == PowerUp /\ origin' = NoCard

PullCard == Pull /\ UNCHANGED origin

InsertCard == (\E c \in Cards : Insert(c)) /\ UNCHANGED origin

Next ==
    \/ \E a \in Blocks :
        \/ Cache(a) \/ CacheError(a)
        \/ Update(a) \/ UpdateError(a)
        \/ Mirror(a) \/ MirrorError(a)
        \/ Mount(a)
    \/ BeyondEnd
    \/ MountError
    \/ Reset
    \/ PullCard
    \/ InsertCard

Spec == Init /\ [][Next]_vars

-----------------------------------------------------------------------------
\* While the card answers, a valid buffer holds exactly what the card in the
\* socket holds at that address: a hit of cache() never returns old or foreign
\* bytes, in spite of failed reads, failed flushes, retargeting, exchanged cards
\* and resets.
Coherent ==
    ready /\ cache_block_addr \in Blocks =>
        cache_block = disk[slot][cache_block_addr]

\* While the card answers, a valid buffer was filled from this very card.
SameCard ==
    ready /\ cache_block_addr \in Blocks => origin = slot

\* flush_cache() never writes to a card bytes that were read from another one:
\* exchanging the card between cache() and flush_cache() cannot damage it.
OwnCardWrites ==
    [][\A c \in Cards : disk'[c] # disk[c] => c = slot /\ c = origin']_vars

=============================================================================
