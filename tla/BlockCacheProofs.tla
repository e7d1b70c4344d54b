-------------------------- MODULE BlockCacheProofs --------------------------
(***************************************************************************)
(* The promises of the one-block buffer, for every set of cards, blocks    *)
(* and contents and for every set of errors the card may report.           *)
(***************************************************************************)
EXTENDS BlockCache, TLAPS

USE DEF vars

(***************************************************************************)
(* Neither promise is inductive alone: that a hit is served from this card *)
(* needs the typing of the buffer, and that a flush goes to the card the   *)
(* bytes came from needs SameCard before the step.                         *)
(***************************************************************************)
IInv == TypeOK /\ Coherent /\ SameCard

\* Every write error of card.asm makes set_fat_error switch the card off, so a
\* buffer that could not be flushed is never taken for the card's content.
LEMMA WriteErrorsPowerOff ==
    ASSUME NEW r, r \in WriteErrors \cup NotReadyErrors
    PROVE  ~PowerStays(r)
BY ErrorsAssumption DEF CardWriteErrors, NotReadyErrors, PowerStays

\* A card that is not ready reports nothing that would leave it powered.
LEMMA NotReadyPowersOff ==
    ASSUME NEW r, r \in NotReadyErrors
    PROVE  ~PowerStays(r)
BY DEF NotReadyErrors, PowerStays

\* The initial states of fat_init satisfy the inductive invariant.
LEMMA InitIInv == Init => IInv
BY CacheAssumption DEF Init, IInv, TypeOK, Coherent, SameCard

\* Loading a block: a hit changes nothing, a miss reads the card in the socket.
LEMMA CacheStep ==
    ASSUME IInv, NEW a \in Blocks, Cache(a)
    PROVE  IInv'
<1>1. CASE Hit(a)
  BY <1>1 DEF IInv, TypeOK, Coherent, SameCard, Cache, CacheOk, Owner, Hit, Load
<1>2. CASE ~Hit(a)
  <2>1. disk[slot][a] \in Data
    BY <1>2 DEF IInv, TypeOK, Cache, CacheOk
  <2>2. QED
    BY <1>2, <2>1
    DEF IInv, TypeOK, Coherent, SameCard, Cache, CacheOk, Owner, Load
<1>3. QED
  BY <1>1, <1>2

\* A failed load leaves no valid buffer.
LEMMA CacheErrorStep ==
    ASSUME IInv, NEW a \in Blocks, CacheError(a)
    PROVE  IInv'
BY CacheAssumption DEF IInv, TypeOK, Coherent, SameCard, CacheError, CacheFails

\* A flush leaves the buffer and the block it was written to equal.
LEMMA FlushOkStep ==
    ASSUME IInv, NEW a \in Blocks, NEW d \in Data, FlushOk(a, d), origin' = slot
    PROVE  IInv'
<1>1. slot \in Cards
  BY DEF FlushOk, IInv, TypeOK
<1>2. disk' \in [Cards -> [Blocks -> Data]] /\ disk'[slot][a] = d
  BY <1>1 DEF FlushOk, IInv, TypeOK
<1>3. QED
  BY <1>1, <1>2 DEF FlushOk, IInv, TypeOK, Coherent, SameCard

\* An update of a loaded block.
LEMMA UpdateStep ==
    ASSUME IInv, NEW a \in Blocks, Update(a)
    PROVE  IInv'
<1>1. cache_block' \in Data /\ FlushOk(a, cache_block') /\ origin' = Owner(a)
  BY DEF Update, UpdateOk
<1>2. origin' = slot
  BY <1>1 DEF Owner, Hit, IInv, SameCard, FlushOk
<1>3. QED
  BY <1>1, <1>2, FlushOkStep

\* A failed flush switches the card off, whether or not the card kept the data.
LEMMA FlushFailsStep ==
    ASSUME IInv, NEW a \in Blocks, NEW d \in Data, NEW r,
           FlushFails(a, d, r), origin' \in Cards \cup {NoCard}
    PROVE  IInv'
<1>1. ~ready'
  BY WriteErrorsPowerOff DEF FlushFails
<1>2. disk' \in [Cards -> [Blocks -> Data]]
  BY DEF FlushFails, IInv, TypeOK
<1>3. QED
  BY <1>1, <1>2 DEF FlushFails, IInv, TypeOK, Coherent, SameCard

\* An update whose flush fails.
LEMMA UpdateErrorStep ==
    ASSUME IInv, NEW a \in Blocks, UpdateError(a)
    PROVE  IInv'
<1>1. /\ cache_block' \in Data
      /\ origin' = Owner(a)
      /\ \E r \in CardWriteErrors : FlushFails(a, cache_block', r)
  BY DEF UpdateError, UpdateFlushFails
<1>2. origin' \in Cards \cup {NoCard}
  BY <1>1 DEF Owner, IInv, TypeOK
<1>3. QED
  BY <1>1, <1>2, FlushFailsStep

\* A retargeted flush: the buffer stays valid, for the other copy of the FAT.
LEMMA MirrorStep ==
    ASSUME IInv, NEW a \in Blocks, Mirror(a)
    PROVE  IInv'
<1>1. cache_block \in Data /\ FlushOk(a, cache_block) /\ origin' = slot
  BY DEF Mirror, FlushOk, IInv, TypeOK, SameCard
<1>2. QED
  BY <1>1, FlushOkStep

\* A retargeted flush that fails.
LEMMA MirrorErrorStep ==
    ASSUME IInv, NEW a \in Blocks, MirrorError(a)
    PROVE  IInv'
<1>1. PICK r \in CardWriteErrors : FlushFails(a, cache_block, r)
  BY DEF MirrorError
<1>2. cache_block \in Data /\ origin' \in Cards \cup {NoCard}
  BY DEF MirrorError, IInv, TypeOK
<1>3. QED
  BY <1>1, <1>2, FlushFailsStep

\* fat_mount starts from an empty buffer and ends with one filled from the
\* card in the socket, or with none.
LEMMA MountStep ==
    ASSUME IInv, NEW a \in Blocks, Mount(a)
    PROVE  IInv'
BY DEF IInv, TypeOK, Coherent, SameCard, Mount, MountReads

\* A mount that stops leaves no valid buffer.
LEMMA MountErrorStep ==
    ASSUME IInv, MountError
    PROVE  IInv'
<1>1. PICK r \in CardReadErrors : MountStops(r)
  BY DEF MountError
<1>2. ready' => slot \in Cards
  BY <1>1 DEF MountStops, PowerStays, IInv, TypeOK
<1>3. QED
  BY <1>1, <1>2, CacheAssumption
  DEF MountError, MountStops, IInv, TypeOK, Coherent, SameCard, PowerStays

\* Reads past the end, resets and the user's hands: afterwards the card is not
\* ready or the buffer is not valid.
LEMMA OutsideStep ==
    ASSUME IInv, BeyondEnd \/ Reset \/ PullCard \/ InsertCard
    PROVE  IInv'
<1>1. ~ready' \/ cache_block_addr' = INVALID_BLOCK_ADDR
  BY CacheAssumption
  DEF IInv, TypeOK, BeyondEnd, CacheBeyondEnd, Reset, PowerUp, PullCard, Pull, InsertCard, Insert
<1>2. TypeOK'
  BY <1>1, CacheAssumption
  DEF IInv, TypeOK, BeyondEnd, CacheBeyondEnd, Reset, PowerUp, PullCard, Pull, InsertCard, Insert
<1>3. QED
  BY <1>1, <1>2, CacheAssumption DEF IInv, Coherent, SameCard

\* Every step of the buffer keeps the inductive invariant.
LEMMA NextIInv == IInv /\ [Next]_vars => IInv'
<1> SUFFICES ASSUME IInv, [Next]_vars PROVE IInv'
  OBVIOUS
<1>1. CASE UNCHANGED vars
  BY <1>1 DEF IInv, TypeOK, Coherent, SameCard
<1>2. ASSUME NEW a \in Blocks,
             Cache(a) \/ CacheError(a) \/ Update(a) \/ UpdateError(a)
               \/ Mirror(a) \/ MirrorError(a) \/ Mount(a)
      PROVE  IInv'
  BY <1>2, CacheStep, CacheErrorStep, UpdateStep, UpdateErrorStep, MirrorStep,
     MirrorErrorStep, MountStep
<1>3. QED
  BY <1>1, <1>2, MountErrorStep, OutsideStep DEF Next

\* The inductive invariant of cache() and flush_cache().
THEOREM Invariance == Spec => []IInv
BY InitIInv, NextIInv, PTL DEF Spec

\* The buffer, its address and the cards keep their types.
THEOREM TypeCorrect == Spec => []TypeOK
<1>1. IInv => TypeOK
  BY DEF IInv
<1>2. QED
  BY <1>1, Invariance, PTL

\* A hit of cache() returns what the card in the socket holds.
THEOREM CacheCoherence == Spec => []Coherent
<1>1. IInv => Coherent
  BY DEF IInv
<1>2. QED
  BY <1>1, Invariance, PTL

\* A valid buffer of a card that answers was filled from that card.
THEOREM BufferOfThisCard == Spec => []SameCard
<1>1. IInv => SameCard
  BY DEF IInv
<1>2. QED
  BY <1>1, Invariance, PTL

\* flush_cache() never carries bytes from one card to another.
THEOREM NoForeignWrites == Spec => OwnCardWrites
<1>1. ASSUME IInv, [Next]_vars
      PROVE  [\A c \in Cards : disk'[c] # disk[c] => c = slot /\ c = origin']_vars
  <2>1. CASE UNCHANGED vars
    BY <2>1
  <2>3. ASSUME NEW a \in Blocks, NEW d, NEW c \in Cards,
               ready, disk' = [disk EXCEPT ![slot][a] = d],
               \/ cache_block_addr \in Blocks /\ origin' = origin
               \/ origin' = Owner(a)
        PROVE  disk'[c] # disk[c] => c = slot /\ c = origin'
    <3>1. disk'[c] # disk[c] => c = slot
      BY <1>1, <2>3 DEF IInv, TypeOK
    <3>2. origin' = slot
      <4>1. CASE cache_block_addr \in Blocks /\ origin' = origin
        BY <1>1, <2>3, <4>1 DEF IInv, SameCard
      <4>2. CASE origin' = Owner(a) /\ Hit(a)
        BY <1>1, <2>3, <4>2 DEF IInv, SameCard, Owner, Hit
      <4>3. CASE origin' = Owner(a) /\ ~Hit(a)
        BY <4>3 DEF Owner
      <4>4. QED
        BY <2>3, <4>1, <4>2, <4>3
    <3>3. QED
      BY <3>1, <3>2
  <2>4. ASSUME NEW a \in Blocks, NEW c \in Cards,
               Cache(a) \/ CacheError(a) \/ Update(a) \/ UpdateError(a)
               \/ Mirror(a) \/ MirrorError(a) \/ Mount(a)
        PROVE  disk'[c] # disk[c] => c = slot /\ c = origin'
    <3>1. CASE Cache(a) \/ CacheError(a) \/ Mount(a)
      BY <3>1 DEF Cache, CacheOk, CacheError, CacheFails, Mount, MountReads
    <3>2. CASE Update(a)
      BY <3>2, <2>3 DEF Update, UpdateOk, FlushOk
    <3>3. CASE UpdateError(a)
      BY <3>3, <2>3 DEF UpdateError, UpdateFlushFails, FlushFails
    <3>4. CASE Mirror(a)
      BY <3>4, <2>3 DEF Mirror, FlushOk
    <3>5. CASE MirrorError(a)
      BY <3>5, <2>3 DEF MirrorError, FlushFails
    <3>6. QED
      BY <2>4, <3>1, <3>2, <3>3, <3>4, <3>5
  <2>5. CASE MountError \/ BeyondEnd \/ Reset \/ PullCard \/ InsertCard
    <3>1. disk' = disk
      BY <2>5
      DEF MountError, MountStops, BeyondEnd, CacheBeyondEnd, Reset, PowerUp, PullCard, Pull, InsertCard, Insert
    <3>2. QED
      BY <3>1
  <2>6. QED
    BY <1>1, <2>1, <2>4, <2>5 DEF Next
<1>2. QED
  BY <1>1, Invariance, PTL DEF Spec, OwnCardWrites
=============================================================================
