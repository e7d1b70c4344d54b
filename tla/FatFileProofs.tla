---------------------------- MODULE FatFileProofs ---------------------------
(***************************************************************************)
(* Proofs about the file layer, for every geometry of the volume, every    *)
(* set of files and descriptors, every card error and every moment of a    *)
(* reset.                                                                  *)
(*                                                                         *)
(* The first part proves that the state is well typed, and that the        *)
(* library uses the one-block buffer only in the ways BlockCache allows,   *)
(* so that the buffer's promises hold for it.                              *)
(*                                                                         *)
(* The second part states the invariant of the file allocation table and   *)
(* the descriptors, and what the operators of the model do to it.  The     *)
(* argument is about chains: some assignment of sequences of clusters to   *)
(* the files explains the whole state.  The FAT on the card links them in  *)
(* both of its copies but for the entry a running call is about to write,  *)
(* the directory entry of a file that nobody is changing fits its chain,   *)
(* and while the card answers every descriptor stands at a place of its    *)
(* file's chain.  FatSoundProofs has the steps of the calls.               *)
(***************************************************************************)
EXTENDS FatFileProperties, WellFoundedInduction, Sequences, TLAPS


\* The part of TypeOK that is about the card and the buffer.
BlockOK ==
    /\ disk \in [{Card} -> [VolumeBlocks -> BlockData]]
    /\ \A a \in VolumeBlocks : Volume[a] \in ContentOf(a)
    /\ slot = Card
    /\ ready \in BOOLEAN
    /\ cache_block_addr \in VolumeBlocks \cup {INVALID_BLOCK_ADDR}
    /\ cache_block_addr \in VolumeBlocks => cache_block \in ContentOf(cache_block_addr)

\* A step of the buffer's specification.
BufferStep == [BC!Next]_(BC!vars)

-----------------------------------------------------------------------------
(* The volume. *)

\* A non-empty set of natural numbers has a least element.
LEMMA MinExists ==
    ASSUME NEW S, S \subseteq Nat, S # {}
    PROVE  Min(S) \in S /\ \A y \in S : Min(S) <= y
<1>1. PICK x \in S : \A y \in S : ~(<<y, x>> \in OpToRel(<, Nat))
  BY WFMin, NatLessThanWellFounded
<1>2. ASSUME NEW y \in S PROVE x <= y
  <2>1. x \in Nat /\ y \in Nat
    OBVIOUS
  <2>2. y < x => <<y, x>> \in OpToRel(<, Nat)
    BY <2>1 DEF OpToRel
  <2>3. ~(y < x)
    BY <1>1, <2>2, Zenon
  <2> QED
    BY <2>1, <2>3
<1>3. \E z \in S : \A y \in S : z <= y
  BY <1>2
<1> QED
  BY <1>3 DEF Min

\* The smaller of two lengths.
LEMMA MinOfTwo ==
    ASSUME NEW a \in Nat, NEW b \in Nat
    PROVE  Min({a, b}) \in Nat /\ Min({a, b}) <= a /\ Min({a, b}) <= b
<1>1. {a, b} \subseteq Nat /\ {a, b} # {}
  OBVIOUS
<1> DEFINE m == Min({a, b})
<1>2. m \in {a, b} /\ \A y \in {a, b} : m <= y
  BY <1>1, MinExists
<1> HIDE DEF m
<1>3. m \in Nat /\ m <= a /\ m <= b
  BY <1>2
<1> QED
  BY <1>3 DEF m

\* Multiplication keeps the order of the factors.
LEMMA TimesGrows ==
    ASSUME NEW k \in Nat, NEW m \in Nat, NEW n \in Nat, m <= n
    PROVE  k * m \in Nat /\ k * n \in Nat /\ k * m <= k * n
<1>1. k * n = k * m + k * (n - m)
  OBVIOUS
<1>2. k * m \in Nat /\ k * n \in Nat /\ k * (n - m) \in Nat
  OBVIOUS
<1> QED
  BY <1>1, <1>2

\* EOC counts the entries of a whole FAT.
LEMMA EocFacts == EOC \in Nat /\ EOC >= EntriesPerSector /\ EOC > 2
<1>1. EntriesPerSector \in Nat /\ EntriesPerSector > 2 /\ SectorsPerFat \in Nat /\ 1 <= SectorsPerFat
  BY VolumeAssumption
<1>2. EntriesPerSector * 1 <= EntriesPerSector * SectorsPerFat
      /\ EntriesPerSector * SectorsPerFat \in Nat
  BY <1>1, TimesGrows
<1> QED
  BY <1>1, <1>2 DEF EOC

\* fat.c:337: the entry of a cluster number lies in a sector of the FAT unless
\* the number is the end-of-chain mark.
LEMMA SectorFacts ==
    ASSUME NEW c \in 0 .. EOC
    PROVE  /\ SectorOf(c) \in Nat
           /\ SectorOf(c) \in Sectors <=> c \in Entries
<1> DEFINE k == EntriesPerSector
           n == SectorsPerFat
           q == c \div k
           r == c % k
<1>1. k \in Nat /\ k > 0 /\ n \in Nat /\ n > 0
  BY VolumeAssumption
<1>2. c \in Nat
  BY EocFacts
<1>3. q \in Nat /\ r \in Nat /\ r < k /\ c = k * q + r
  BY <1>1, <1>2
<1> HIDE DEF q, r, k, n
<1>4. ASSUME c < k * n PROVE q < n
  <2>1. CASE n <= q
    <3>1. k * n <= k * q /\ k * n \in Nat /\ k * q \in Nat
      BY <1>1, <1>3, <2>1, TimesGrows
    <3> QED
      BY <1>3, <1>4, <3>1
  <2> QED
    BY <1>1, <1>3, <2>1
<1>5. ASSUME q < n PROVE c < k * n
  <2>1. q + 1 \in Nat /\ q + 1 <= n
    BY <1>1, <1>3, <1>5
  <2>2. k * (q + 1) <= k * n /\ k * (q + 1) \in Nat /\ k * n \in Nat
    BY <1>1, <2>1, TimesGrows
  <2>3. k * (q + 1) = k * q + k
    BY <1>1, <1>3
  <2>4. k * q \in Nat
    BY <1>1, <1>3
  <2> QED
    BY <1>1, <1>3, <2>2, <2>3, <2>4
<1>6. q < n <=> c < k * n
  BY <1>4, <1>5
<1>7. q \in 0 .. n - 1 <=> c \in 0 .. (k * n) - 1
  <2>1. k * n \in Nat
    BY <1>1
  <2> QED
    BY <1>1, <1>2, <1>3, <1>6, <2>1
<1> QED
  BY <1>3, <1>7 DEF SectorOf, Sectors, Entries, EOC, q, r, k, n

\* Every block's content is data of the volume.
LEMMA ContentIsData ==
    ASSUME NEW a \in VolumeBlocks
    PROVE  ContentOf(a) \subseteq BlockData
<1>1. CASE a \in FatBlocks
  <2>1. PICK copy \in {"fat0", "fat1"}, s \in Sectors : a = FatBlock(copy, s)
    BY <1>1 DEF FatBlocks
  <2>2. a[2] = s
    BY <2>1 DEF FatBlock
  <2> QED
    BY <1>1, <2>2 DEF ContentOf, BlockData
<1>2. CASE a \notin FatBlocks
  BY <1>2 DEF ContentOf, BlockData
<1> QED
  BY <1>1, <1>2

\* What the blocks of the volume hold.
LEMMA Contents ==
    /\ \A copy \in {"fat0", "fat1"}, s \in Sectors :
           /\ FatBlock(copy, s) \in VolumeBlocks
           /\ ContentOf(FatBlock(copy, s)) = [SectorEntries(s) -> 0 .. EOC]
    /\ \A copy \in {"fat0", "fat1"}, s \in Nat :
           FatBlock(copy, s) \in VolumeBlocks => s \in Sectors
    /\ DirBlock \in VolumeBlocks /\ ContentOf(DirBlock) = [Files -> DirEntry]
    /\ BootBlock \in VolumeBlocks
<1>1. ASSUME NEW copy \in {"fat0", "fat1"}, NEW s \in Sectors
      PROVE  /\ FatBlock(copy, s) \in VolumeBlocks
             /\ ContentOf(FatBlock(copy, s)) = [SectorEntries(s) -> 0 .. EOC]
  <2>1. FatBlock(copy, s) \in FatBlocks /\ FatBlock(copy, s)[2] = s
    BY DEF FatBlocks, FatBlock
  <2> QED
    BY <2>1 DEF VolumeBlocks, ContentOf
<1>2. ASSUME NEW copy \in {"fat0", "fat1"}, NEW s \in Nat, FatBlock(copy, s) \in VolumeBlocks
      PROVE  s \in Sectors
  BY <1>2 DEF VolumeBlocks, FatBlocks, DataBlocks, FatBlock, DirBlock, BootBlock, DataBlock
<1>3. DirBlock \in VolumeBlocks /\ DirBlock \notin FatBlocks /\ BootBlock \in VolumeBlocks
  BY DEF VolumeBlocks, FatBlocks, FatBlock, DirBlock, BootBlock
<1> QED
  BY <1>1, <1>2, <1>3 DEF ContentOf

-----------------------------------------------------------------------------
(***************************************************************************)
(* The buffer.  Each way in which the file layer touches it keeps blocks   *)
(* and buffer well typed and is a step of BlockCache.                      *)
(***************************************************************************)

\* What a block of the volume holds, in the buffer or on the card.
LEMMA LoadType ==
    ASSUME BlockOK, NEW a \in VolumeBlocks
    PROVE  Load(a) \in ContentOf(a)
BY DEF BlockOK, Load, Hit, Volume

\* cache(a) returns true.
LEMMA CachedStep ==
    ASSUME BlockOK, NEW a, Cached(a)
    PROVE  BlockOK' /\ BufferStep /\ a \in VolumeBlocks /\ Load(a) \in ContentOf(a)
<1>1. a \in VolumeBlocks /\ CacheOk(a)
  BY DEF Cached
<1>2. Load(a) \in ContentOf(a)
  BY <1>1, LoadType
<1>3. BlockOK'
  BY <1>1, <1>2 DEF BlockOK, CacheOk, Volume
<1>4. BC!Cache(a)
  BY <1>1, FileAssumption
  DEF BC!Cache, BC!CacheOk, BC!Owner, BC!Hit, BC!Load, CacheOk, Hit, Load, BlockOK
<1>5. BC!Next
  BY <1>1, <1>4 DEF BC!Next
<1> QED
  BY <1>1, <1>2, <1>3, <1>5 DEF BufferStep

\* A step that leaves card and buffer alone.
LEMMA BlocksUnchanged ==
    ASSUME BlockOK, UNCHANGED blockVars
    PROVE  BlockOK' /\ BufferStep
<1>1. BlockOK'
  BY DEF BlockOK, blockVars, Volume
<1>2. UNCHANGED BC!vars
  BY DEF BC!vars, blockVars
<1> QED
  BY <1>1, <1>2 DEF BufferStep

\* set_fat_error stores one of the errors of fat.h.
LEMMA FatErrorType == \A r : FatError(r) \in Errors
BY DEF FatError, Errors

\* cache(a) returns false: the buffer is invalid.
LEMMA CacheFailedStep ==
    ASSUME BlockOK, NEW a, CacheFailed(a)
    PROVE  BlockOK' /\ BufferStep /\ last_error' \in Errors
<1>1. CASE \E r \in CardReadErrors : CacheFails(a, r) /\ last_error' = FatError(r)
  <2>1. PICK r \in CardReadErrors : CacheFails(a, r) /\ last_error' = FatError(r)
    BY <1>1
  <2>2. ready' \in BOOLEAN
    BY <2>1 DEF CacheFails, BlockOK
  <2>3. BlockOK'
    BY <2>1, <2>2, FileAssumption DEF BlockOK, CacheFails, Volume
  <2>4. PICK b \in VolumeBlocks : ~Hit(b)
    <3>1. DirBlock # BootBlock /\ DirBlock \in VolumeBlocks /\ BootBlock \in VolumeBlocks
      BY Contents DEF DirBlock, BootBlock
    <3> QED
      BY <3>1 DEF Hit
  <2>5. BC!Next
    <3>1. BC!CacheError(b)
      BY <2>1, <2>4, FileAssumption
      DEF BC!CacheError, BC!CacheFails, BC!Hit, BC!CardReadErrors, BC!NotReadyErrors,
          BC!PowerStays, CacheFails, Hit, CardReadErrors, NotReadyErrors, PowerStays
    <3> QED
      BY <2>4, <3>1 DEF BC!Next
  <2> QED
    BY <2>1, <2>3, <2>5, FatErrorType DEF BufferStep
<1>2. CASE a \notin VolumeBlocks /\ CacheBeyondEnd /\ last_error' = "FS_BROKEN"
  <2>1. BlockOK'
    BY <1>2, FileAssumption DEF BlockOK, CacheBeyondEnd, Volume
  <2>2. BC!BeyondEnd
    BY <1>2, FileAssumption DEF BC!BeyondEnd, BC!CacheBeyondEnd, CacheBeyondEnd
  <2>3. BC!Next
    BY <2>2 DEF BC!Next
  <2> QED
    BY <1>2, <2>1, <2>3 DEF BufferStep, Errors
<1> QED
  BY <1>1, <1>2 DEF CacheFailed

\* flush_cache() returns true with d for block a in the buffer.
LEMMA FlushOkType ==
    ASSUME BlockOK, NEW a \in VolumeBlocks, NEW d \in ContentOf(a), FlushOk(a, d)
    PROVE  BlockOK'
<1>1. d \in BlockData
  BY ContentIsData
<1>2. /\ disk' = [disk EXCEPT ![Card][a] = d]
      /\ cache_block_addr' = a /\ cache_block' = d /\ slot' = Card /\ ready' = ready
  BY DEF FlushOk, BlockOK
<1>3. disk' \in [{Card} -> [VolumeBlocks -> BlockData]]
  BY <1>1, <1>2 DEF BlockOK
<1>4. \A b \in VolumeBlocks : disk'[Card][b] = IF b = a THEN d ELSE disk[Card][b]
  BY <1>2 DEF BlockOK
<1>5. \A b \in VolumeBlocks : disk'[Card][b] \in ContentOf(b)
  BY <1>4 DEF BlockOK, Volume
<1> QED
  BY <1>2, <1>3, <1>5 DEF BlockOK, Volume

\* flush_cache() returns false: the card may have taken the data or not.
LEMMA FlushFailsType ==
    ASSUME BlockOK, NEW a \in VolumeBlocks, NEW d \in ContentOf(a), NEW r,
           FlushFails(a, d, r)
    PROVE  BlockOK'
<1>1. d \in BlockData
  BY ContentIsData
<1>2. /\ disk' = disk \/ disk' = [disk EXCEPT ![Card][a] = d]
      /\ cache_block_addr' = a /\ cache_block' = d /\ slot' = Card
  BY DEF FlushFails, BlockOK
<1>3. ready' \in BOOLEAN
  BY DEF FlushFails
<1>4. disk' \in [{Card} -> [VolumeBlocks -> BlockData]]
  BY <1>1, <1>2 DEF BlockOK
<1>5. \A b \in VolumeBlocks : disk'[Card][b] = disk[Card][b] \/ (b = a /\ disk'[Card][b] = d)
  BY <1>2 DEF BlockOK
<1>6. \A b \in VolumeBlocks : disk'[Card][b] \in ContentOf(b)
  BY <1>5 DEF BlockOK, Volume
<1> QED
  BY <1>2, <1>3, <1>4, <1>6 DEF BlockOK, Volume

\* cache(a), a change of the buffer to d, flush_cache().
LEMMA UpdatedStep ==
    ASSUME BlockOK, NEW a, NEW d, Updated(a, d), a \in VolumeBlocks => d \in ContentOf(a)
    PROVE  BlockOK' /\ BufferStep /\ a \in VolumeBlocks
<1>1. a \in VolumeBlocks /\ d \in ContentOf(a) /\ UpdateOk(a, d) /\ FlushOk(a, d)
  BY DEF Updated, UpdateOk
<1>2. d \in BlockData
  BY <1>1, ContentIsData
<1>3. cache_block' = d /\ cache_block_addr' = a
  BY <1>1 DEF FlushOk
<1>4. BC!Update(a)
  <2>1. BC!UpdateOk(a, cache_block')
    BY <1>1, <1>3
    DEF BC!UpdateOk, BC!Hit, BC!FlushOk, UpdateOk, Hit, FlushOk
  <2> QED
    BY <1>1, <1>2, <1>3, <2>1, FileAssumption DEF BC!Update, BC!Owner, BC!Hit, BlockOK
<1>5. BC!Next
  BY <1>1, <1>4 DEF BC!Next
<1> QED
  BY <1>1, <1>5, FlushOkType DEF BufferStep

\* flush_cache() fails after a cache() that was served.
LEMMA FlushFailedStep ==
    ASSUME BlockOK, NEW a \in VolumeBlocks, NEW d \in ContentOf(a), Hit(a) \/ ready,
           FlushFailed(a, d)
    PROVE  BlockOK' /\ BufferStep /\ last_error' \in Errors
<1>1. PICK r \in CardWriteErrors : FlushFails(a, d, r) /\ last_error' = FatError(r)
  BY DEF FlushFailed
<1>2. d \in BlockData /\ cache_block' = d /\ cache_block_addr' = a
  BY <1>1, ContentIsData DEF FlushFails
<1>3. BC!UpdateError(a)
  <2>1. BC!FlushFails(a, cache_block', r)
    BY <1>1, <1>2
    DEF BC!FlushFails, BC!DataPhaseErrors, BC!PowerStays, BC!NotReadyErrors,
        FlushFails, DataPhaseErrors, PowerStays, NotReadyErrors
  <2>2. r \in BC!CardWriteErrors /\ (BC!Hit(a) \/ ready)
    BY DEF BC!CardWriteErrors, CardWriteErrors, BC!Hit, Hit
  <2> QED
    BY <1>2, <2>1, <2>2, FileAssumption
    DEF BC!UpdateError, BC!UpdateFlushFails, BC!Owner, BC!Hit, BlockOK
<1>4. BC!Next
  BY <1>3 DEF BC!Next
<1> QED
  BY <1>1, <1>4, FlushFailsType, FatErrorType DEF BufferStep

\* An update that fails, in its cache() or in its flush_cache().
LEMMA UpdateFailedStep ==
    ASSUME BlockOK, NEW a, NEW d, UpdateFailed(a, d), a \in VolumeBlocks => d \in ContentOf(a)
    PROVE  BlockOK' /\ BufferStep /\ last_error' \in Errors
BY CacheFailedStep, FlushFailedStep DEF UpdateFailed

\* alloc_cluster sends the buffer to the other copy of the FAT.
LEMMA MirroredStep ==
    ASSUME BlockOK, NEW a \in VolumeBlocks, cache_block_addr \in VolumeBlocks,
           cache_block \in ContentOf(a),
           FlushOk(a, cache_block)
    PROVE  BlockOK' /\ BufferStep
<1>1. BC!Mirror(a)
  BY FileAssumption DEF BC!Mirror, BC!FlushOk, FlushOk
<1>2. BC!Next
  BY <1>1 DEF BC!Next
<1> QED
  BY <1>2, FlushOkType DEF BufferStep

\* The same when the card does not take it.
LEMMA MirrorFailedStep ==
    ASSUME BlockOK, NEW a \in VolumeBlocks, cache_block_addr \in VolumeBlocks,
           cache_block \in ContentOf(a), FlushFailed(a, cache_block)
    PROVE  BlockOK' /\ BufferStep /\ last_error' \in Errors
<1>1. PICK r \in CardWriteErrors : FlushFails(a, cache_block, r) /\ last_error' = FatError(r)
  BY DEF FlushFailed
<1>2. BC!MirrorError(a)
  <2>1. BC!FlushFails(a, cache_block, r)
    BY <1>1
    DEF BC!FlushFails, BC!DataPhaseErrors, BC!PowerStays, BC!NotReadyErrors,
        FlushFails, DataPhaseErrors, PowerStays, NotReadyErrors
  <2>2. r \in BC!CardWriteErrors /\ cache_block_addr' = a
    BY <1>1 DEF BC!CardWriteErrors, CardWriteErrors, FlushFails
  <2> QED
    BY <2>1, <2>2, FileAssumption DEF BC!MirrorError
<1>3. BC!Next
  BY <1>2 DEF BC!Next
<1> QED
  BY <1>1, <1>3, FlushFailsType, FatErrorType DEF BufferStep

\* fat_mount and a reset forget the buffer.
LEMMA MountStep ==
    ASSUME BlockOK
    PROVE  /\ MountReads(BootBlock) => BlockOK' /\ BufferStep
           /\ \A r \in CardReadErrors : MountStops(r) => BlockOK' /\ BufferStep
           /\ PowerUp => BlockOK' /\ BufferStep
<1>1. ASSUME MountReads(BootBlock) PROVE BlockOK' /\ BufferStep
  <2>1. BlockOK'
    BY <1>1, Contents DEF MountReads, BlockOK, Volume
  <2>2. BC!Mount(BootBlock)
    BY <1>1, Contents, FileAssumption DEF MountReads, BC!Mount, BC!MountReads, BlockOK
  <2>3. BC!Next
    BY <2>2, Contents DEF BC!Next
  <2> QED
    BY <2>1, <2>3 DEF BufferStep
<1>2. ASSUME NEW r \in CardReadErrors, MountStops(r) PROVE BlockOK' /\ BufferStep
  <2>1. ready' \in BOOLEAN
    BY <1>2 DEF MountStops, PowerStays
  <2>2. BlockOK'
    BY <1>2, <2>1, FileAssumption DEF MountStops, BlockOK, Volume
  <2>3. BC!MountError
    BY <1>2, FileAssumption
    DEF MountStops, BC!MountError, BC!MountStops, BC!CardReadErrors, CardReadErrors,
        PowerStays, BC!PowerStays
  <2>4. BC!Next
    BY <2>3 DEF BC!Next
  <2> QED
    BY <2>2, <2>4 DEF BufferStep
<1>3. ASSUME PowerUp PROVE BlockOK' /\ BufferStep
  <2>1. BlockOK'
    BY <1>3, FileAssumption DEF PowerUp, BlockOK, Volume
  <2>2. BC!Reset
    BY <1>3, FileAssumption DEF PowerUp, BC!Reset, BC!PowerUp
  <2>3. BC!Next
    BY <2>2 DEF BC!Next
  <2> QED
    BY <2>1, <2>3 DEF BufferStep
<1> QED
  BY <1>1, <1>2, <1>3

-----------------------------------------------------------------------------
(***************************************************************************)
(* The inductive invariant.  TypeOK alone is not inductive: an open        *)
(* descriptor must name a file, for fat_close writes that file's entry;    *)
(* alloc_cluster flushes a buffer that it retargets and does not load, so  *)
(* the sector in it must be the one that was just written; and fat_action  *)
(* subtracts the chunk that seek_advance was given from what is left.      *)
(***************************************************************************)
CallType ==
    [pc : Places, op : Ops, fd : Fds, len : Nat, chunk : Nat,
     result : Nat, sector : 0 .. SectorsPerFat, head : 0 .. EOC,
     link : 0 .. EOC, offset : Nat, off0 : Nat,
     ret : BOOLEAN]

\* An open descriptor names a file.
DescOK ==
    /\ desc \in [Fds -> FileDescriptor]
    /\ \A fd \in Fds : ~desc[fd].is_free => desc[fd].file \in Files

\* A call that is under way works on an open descriptor.
Running == call.pc \notin {"idle", "return"} => ~D.is_free

\* A sector that is about to be copied to the other FAT is in the buffer.
Mirroring ==
    /\ call.pc = "alloc_fat1" =>
           call.sector \in Sectors /\ cache_block_addr = FatBlock("fat0", call.sector)
    /\ call.pc = "parent_fat0" =>
           call.link \in Entries /\ cache_block_addr = Fat1(call.link)

\* No more was moved than was asked for.
Counting == call.pc = "advance" => call.chunk <= call.len

\* Between calls the call record holds nothing of the last one.
Resting == call.pc = "idle" => call = IdleCall

IInv ==
    /\ BlockOK /\ DescOK
    /\ call \in CallType
    /\ last_error \in Errors
    /\ torn \subseteq Files
    /\ Running /\ Mirroring /\ Counting /\ Resting

\* The places of a call of which the invariant says nothing but the types.
PlainPlaces == Places \ {"idle", "alloc_fat1", "parent_fat0", "advance"}

\* The invariant after a step that goes to a plain place.
LEMMA PlainStep ==
    ASSUME BlockOK', DescOK', call' \in CallType, last_error' \in Errors,
           torn' \subseteq Files, call'.pc \in PlainPlaces, Running'
    PROVE  IInv'
BY DEF IInv, PlainPlaces, Mirroring, Counting, Resting

\* The descriptor table after one descriptor was set.
LEMMA SetDescType ==
    ASSUME IInv, NEW d \in FileDescriptor, ~d.is_free => d.file \in Files, SetDesc(d)
    PROVE  DescOK' /\ desc'[call.fd] = d
<1>1. call.fd \in Fds
  BY DEF IInv, CallType
<1> QED
  BY <1>1 DEF IInv, DescOK, SetDesc

\* The descriptor of the running call.
LEMMA DType ==
    ASSUME IInv
    PROVE  /\ call.fd \in Fds /\ D \in FileDescriptor
           /\ ~D.is_free => D.file \in Files
           /\ call.pc \notin {"idle", "return"} => ~D.is_free /\ D.file \in Files
<1>1. call.fd \in Fds
  BY DEF IInv, CallType
<1>2. D \in FileDescriptor /\ (~D.is_free => D.file \in Files)
  BY <1>1 DEF IInv, DescOK, D
<1> QED
  BY <1>1, <1>2 DEF IInv, Running

\* A call that returns leaves the rest of the invariant to the blocks, the
\* descriptors and the error.
LEMMA ReturnStep ==
    ASSUME IInv, NEW ret \in BOOLEAN, Return(ret), BlockOK', DescOK',
           last_error' \in Errors, torn' \subseteq Files
    PROVE  IInv'
<1>1. call' \in CallType /\ call'.pc = "return"
  BY DEF IInv, CallType, Return, Places
<1>2. call'.pc \in PlainPlaces /\ Running'
  BY <1>1 DEF PlainPlaces, Places, Running
<1> QED
  BY <1>1, <1>2, PlainStep

\* read_fat_entry on a cluster number.
LEMMA EntryType ==
    ASSUME BlockOK, NEW c \in 0 .. EOC, Fat0(c) \in VolumeBlocks
    PROVE  c \in Entries /\ Entry(c) \in 0 .. EOC
<1>1. SectorOf(c) \in Sectors
  BY SectorFacts, Contents DEF Fat0
<1>2. c \in SectorEntries(SectorOf(c))
  BY <1>1, SectorFacts DEF SectorEntries
<1>3. Load(Fat0(c)) \in [SectorEntries(SectorOf(c)) -> 0 .. EOC]
  BY <1>1, Contents, LoadType DEF Fat0
<1> QED
  BY <1>1, <1>2, <1>3, SectorFacts DEF Entry

\* write_fat_entry gives a sector a sector's content.
LEMMA WithEntryType ==
    ASSUME BlockOK, NEW copy \in {"fat0", "fat1"}, NEW s \in Nat, NEW c, NEW v \in 0 .. EOC
    PROVE  LET a == FatBlock(copy, s) IN
           a \in VolumeBlocks => WithEntry(a, c, v) \in ContentOf(a)
<1> DEFINE a == FatBlock(copy, s)
<1>1. ASSUME a \in VolumeBlocks PROVE WithEntry(a, c, v) \in ContentOf(a)
  <2>1. s \in Sectors
    BY <1>1, Contents
  <2>2. ContentOf(a) = [SectorEntries(s) -> 0 .. EOC]
    BY <2>1, Contents
  <2>3. Load(a) \in ContentOf(a)
    BY <1>1, LoadType
  <2> HIDE DEF a
  <2> QED
    BY <2>2, <2>3 DEF WithEntry
<1> QED
  BY <1>1

\* pfd->next_cluster = read_fat_entry(c): either the call goes on with a link, or
\* it returns.
LEMMA LinkReadStep ==
    ASSUME IInv, NEW c \in 0 .. EOC,
           NEW ok \in FileDescriptor, ~ok.is_free => ok.file \in Files,
           NEW failed \in FileDescriptor, ~failed.is_free => failed.file \in Files,
           NEW then \in CallType, then.pc \in PlainPlaces, then.fd = call.fd,
           then.pc = "return" \/ ~ok.is_free,
           LinkRead(c, ok, failed, then), UNCHANGED torn
    PROVE  IInv' /\ BufferStep
<1>1. ASSUME Cached(Fat0(c)), Entry(c) # 0,
             SetDesc([ok EXCEPT !.next_cluster = Entry(c)]),
             call' = then, UNCHANGED last_error
      PROVE  IInv' /\ BufferStep
  <2> DEFINE d == [ok EXCEPT !.next_cluster = Entry(c)]
  <2>1. BlockOK' /\ BufferStep /\ Entry(c) \in 0 .. EOC
    BY <1>1, CachedStep, EntryType DEF IInv, Cached
  <2>2. d \in FileDescriptor /\ d.is_free = ok.is_free /\ d.file = ok.file
    BY <2>1 DEF FileDescriptor
  <2> HIDE DEF d
  <2>3. DescOK' /\ desc'[call.fd] = d
    BY <1>1, <2>2, SetDescType DEF d
  <2>4. Running'
    BY <1>1, <2>2, <2>3 DEF Running, D
  <2> QED
    BY <1>1, <2>1, <2>3, <2>4, PlainStep DEF IInv
<1>2. ASSUME \/ Cached(Fat0(c)) /\ Entry(c) = 0 /\ UNCHANGED last_error
             \/ CacheFailed(Fat0(c)),
             SetDesc([failed EXCEPT !.next_cluster = 0]), Return(FALSE)
      PROVE  IInv' /\ BufferStep
  <2> DEFINE d == [failed EXCEPT !.next_cluster = 0]
  <2>1. BlockOK' /\ BufferStep /\ last_error' \in Errors
    BY <1>2, CachedStep, CacheFailedStep DEF IInv
  <2>2. d \in FileDescriptor /\ d.is_free = failed.is_free /\ d.file = failed.file
    BY EocFacts DEF FileDescriptor
  <2> HIDE DEF d
  <2>3. DescOK'
    BY <1>2, <2>2, SetDescType DEF d
  <2> QED
    BY <1>2, <2>1, <2>3, ReturnStep DEF IInv
<1> QED
  BY <1>1, <1>2 DEF LinkRead

-----------------------------------------------------------------------------
(* fat_open_file and fat_close. *)

\* A descriptor that is not in use.
LEMMA FreeDescType == FreeDesc \in FileDescriptor /\ FreeDesc.is_free
BY EocFacts DEF FreeDesc, FileDescriptor

\* The length of a file's last cluster is a natural number.
LEMMA TailType ==
    ASSUME NEW size \in Nat
    PROVE  TailLength(size) \in Nat
<1>1. BytesPerCluster \in Nat /\ BytesPerCluster > 0
  BY VolumeAssumption DEF BytesPerCluster
<1>2. U16 \in Nat /\ U16 > 0
  BY VolumeAssumption
<1>3. BytesPerCluster % U16 \in Nat /\ size % BytesPerCluster \in Nat
  BY <1>1, <1>2
<1> QED
  BY <1>3 DEF TailLength

\* The first block of a cluster number.
LEMMA FirstBlockType ==
    ASSUME NEW c \in 0 .. EOC
    PROVE  FirstBlock(c) \in Int
BY EocFacts, VolumeAssumption DEF FirstBlock

\* fat_private_init_fd makes a descriptor of a directory entry.
LEMMA InitFdType ==
    ASSUME NEW f \in Files, NEW e \in DirEntry
    PROVE  InitFd(f, e) \in FileDescriptor /\ ~InitFd(f, e).is_free /\ InitFd(f, e).file = f
<1>1. e.size \in Nat /\ e.cluster_lo \in 0 .. EOC
  BY DEF DirEntry
<1>2. (IF e.size = 0 THEN 0 ELSE TailLength(e.size)) \in Nat /\ FirstBlock(e.cluster_lo) \in Int
  BY <1>1, TailType, FirstBlockType
<1>3. EOC \in 0 .. EOC
  BY EocFacts
<1> HIDE DEF EOC
<1> QED
  BY <1>1, <1>2, <1>3 DEF InitFd, FileDescriptor

\* A new call.
LEMMA CallOfType ==
    ASSUME NEW op \in Ops, NEW fd \in Fds, NEW pc \in Places
    PROVE  /\ CallOf(op, fd, pc) \in CallType
           /\ CallOf(op, fd, pc).pc = pc /\ CallOf(op, fd, pc).fd = fd
<1>1. IdleCall \in CallType
  BY EocFacts, VolumeAssumption, FileAssumption DEF IdleCall, CallType, Places, Ops
<1> QED
  BY <1>1 DEF CallOf, CallType

\* fat_open_file of an existing file.
LEMMA OpenStep ==
    ASSUME IInv, NEW f \in Files, FatOpenFile(f)
    PROVE  IInv' /\ BufferStep
<1> DEFINE fd == Min(FreeFds)
           d == InitFd(f, Load(DirBlock)[f])
           pc == IF d.cluster_lo = 0 THEN "return" ELSE "open"
<1>1. fd \in Fds
  <2>1. FreeFds \subseteq Nat /\ FreeFds # {} /\ FreeFds \subseteq Fds
    BY FileAssumption DEF FreeFds, FatOpenFile
  <2> QED
    BY <2>1, MinExists
<1>2. Cached(DirBlock) /\ desc' = [desc EXCEPT ![fd] = d] /\ Starts(CallOf("open", fd, pc))
  BY DEF FatOpenFile
<1>3. BlockOK' /\ BufferStep /\ Load(DirBlock) \in [Files -> DirEntry]
  BY <1>2, CachedStep, Contents DEF IInv
<1>4. d \in FileDescriptor /\ ~d.is_free /\ d.file = f
  BY <1>3, InitFdType
<1>5. pc \in PlainPlaces /\ pc \in Places /\ "open" \in Ops
  BY DEF PlainPlaces, Places, Ops
<1> HIDE DEF fd, d, pc
<1>6. DescOK' /\ desc'[fd] = d
  BY <1>1, <1>2, <1>4 DEF IInv, DescOK
<1>7. call' \in CallType /\ call'.pc = pc /\ call'.fd = fd
  BY <1>1, <1>2, <1>5, CallOfType DEF Starts
<1>8. Running'
  BY <1>4, <1>6, <1>7 DEF Running, D
<1> QED
  BY <1>2, <1>3, <1>5, <1>6, <1>7, <1>8, PlainStep DEF IInv, Starts

\* A new call that returns at once.
LEMMA ShortCallStep ==
    ASSUME IInv, NEW op \in Ops, NEW fd \in Fds, NEW ret \in BOOLEAN,
           call' = [CallOf(op, fd, "return") EXCEPT !.ret = ret],
           BlockOK', DescOK', last_error' \in Errors, torn' \subseteq Files
    PROVE  IInv'
<1>1. "return" \in Places
  BY DEF Places
<1>2. call' \in CallType /\ call'.pc = "return"
  BY <1>1, CallOfType DEF CallType
<1>3. call'.pc \in PlainPlaces /\ Running'
  BY <1>2 DEF PlainPlaces, Places, Running
<1> QED
  BY <1>2, <1>3, PlainStep

\* fat_open_file without a free descriptor or with a card that fails.
LEMMA OpenFailsStep ==
    ASSUME IInv, NEW f \in Files, FatOpenFileFails(f)
    PROVE  IInv' /\ BufferStep
<1>1. BlockOK' /\ BufferStep /\ last_error' \in Errors
  <2>1. CASE FreeFds = {}
    BY <2>1, BlocksUnchanged DEF FatOpenFileFails, IInv, Errors
  <2>2. CASE FreeFds # {}
    BY <2>2, CacheFailedStep DEF FatOpenFileFails, IInv
  <2> QED
    BY <2>1, <2>2
<1>2. DescOK' /\ torn' \subseteq Files
  BY DEF FatOpenFileFails, IInv, DescOK
<1>3. call' = [CallOf("open", 0, "return") EXCEPT !.ret = FALSE]
  BY DEF FatOpenFileFails
<1>4. "open" \in Ops /\ 0 \in Fds /\ FALSE \in BOOLEAN
  BY FileAssumption DEF Ops
<1> QED
  BY <1>1, <1>2, <1>3, <1>4, ShortCallStep

\* The FAT read of fat_open_file.
LEMMA OpenReadsStep ==
    ASSUME IInv, OpenReadsFat
    PROVE  IInv' /\ BufferStep
<1> DEFINE then == [call EXCEPT !.pc = "return"]
<1>1. LinkRead(D.cluster_lo, D, FreeDesc, then) /\ UNCHANGED torn
  BY DEF OpenReadsFat
<1>2. D \in FileDescriptor /\ (~D.is_free => D.file \in Files) /\ D.cluster_lo \in 0 .. EOC
  BY DType DEF FileDescriptor
<1>3. then \in CallType /\ then.pc = "return" /\ then.fd = call.fd /\ then.pc \in PlainPlaces
  BY DEF IInv, CallType, Places, PlainPlaces
<1> HIDE DEF then
<1> QED
  BY <1>1, <1>2, <1>3, FreeDescType, LinkReadStep

\* The same for a call that returns true.
LEMMA ShortCallTrue ==
    ASSUME IInv, NEW op \in Ops, NEW fd \in Fds, call' = CallOf(op, fd, "return"),
           BlockOK', DescOK', last_error' \in Errors, torn' \subseteq Files
    PROVE  IInv'
<1>1. "return" \in Places
  BY DEF Places
<1>2. call' \in CallType /\ call'.pc = "return"
  BY <1>1, CallOfType
<1>3. call'.pc \in PlainPlaces /\ Running'
  BY <1>2 DEF PlainPlaces, Places, Running
<1> QED
  BY <1>2, <1>3, PlainStep

\* fat_close.
LEMMA CloseStep ==
    ASSUME IInv, NEW fd \in Fds, FatClose(fd)
    PROVE  IInv' /\ BufferStep
<1> DEFINE d == desc[fd]
           dir == [Load(DirBlock) EXCEPT
                     ![d.file] = [cluster_lo |-> d.cluster_lo, size |-> d.size]]
<1>1. d \in FileDescriptor /\ ~d.is_free /\ d.file \in Files
  BY DEF IInv, DescOK, FatClose
<1>2. DescOK'
  <2>1. desc' = [desc EXCEPT ![fd] = FreeDesc]
    BY DEF FatClose
  <2> QED
    BY <2>1, FreeDescType DEF IInv, DescOK
<1>3. DirBlock \in VolumeBlocks => dir \in ContentOf(DirBlock)
  <2>1. Load(DirBlock) \in [Files -> DirEntry] /\ ContentOf(DirBlock) = [Files -> DirEntry]
    BY Contents, LoadType DEF IInv
  <2>2. [cluster_lo |-> d.cluster_lo, size |-> d.size] \in DirEntry
    BY <1>1 DEF FileDescriptor, DirEntry
  <2> QED
    BY <2>1, <2>2
<1>4. "close" \in Ops
  BY DEF Ops
<1>5. torn \cup {d.file} \subseteq Files /\ torn \subseteq Files /\ last_error \in Errors
  BY <1>1 DEF IInv
<1> HIDE DEF dir
<1>6. ASSUME call' = CallOf("close", fd, "return"), UNCHANGED <<blockVars, last_error, torn>>
      PROVE  IInv' /\ BufferStep
  <2>1. UNCHANGED blockVars
    BY <1>6
  <2>2. BlockOK' /\ BufferStep
    BY <2>1, BlocksUnchanged DEF IInv
  <2> QED
    BY <1>2, <1>4, <1>5, <1>6, <2>2, ShortCallTrue
<1>7. ASSUME last_error' = "STALE_DESCRIPTOR",
             call' = [CallOf("close", fd, "return") EXCEPT !.ret = FALSE],
             UNCHANGED <<blockVars, torn>>
      PROVE  IInv' /\ BufferStep
  <2>1. UNCHANGED blockVars
    BY <1>7
  <2>2. BlockOK' /\ BufferStep
    BY <2>1, BlocksUnchanged DEF IInv
  <2>3. last_error' \in Errors /\ FALSE \in BOOLEAN
    BY <1>7 DEF Errors
  <2> QED
    BY <1>2, <1>4, <1>5, <1>7, <2>2, <2>3, ShortCallStep
<1>8. ASSUME call' = CallOf("close", fd, "return"), Updated(DirBlock, dir),
             UNCHANGED <<last_error, torn>>
      PROVE  IInv' /\ BufferStep
  <2>1. BlockOK' /\ BufferStep
    BY <1>3, <1>8, UpdatedStep DEF IInv
  <2> QED
    BY <1>2, <1>4, <1>5, <1>8, <2>1, ShortCallTrue
<1>9. ASSUME call' = CallOf("close", fd, "return"), UpdateFailed(DirBlock, dir),
             torn' = torn \cup {d.file}
      PROVE  IInv' /\ BufferStep
  <2>1. BlockOK' /\ BufferStep /\ last_error' \in Errors
    BY <1>3, <1>9, UpdateFailedStep DEF IInv
  <2> QED
    BY <1>2, <1>4, <1>5, <1>9, <2>1, ShortCallTrue
<1> QED
  BY <1>6, <1>7, <1>8, <1>9 DEF FatClose, dir

\* get_desc refuses a descriptor.
LEMMA RefusesStep ==
    ASSUME IInv, NEW fd \in Fds, FatRefuses(fd)
    PROVE  IInv' /\ BufferStep
<1>1. UNCHANGED blockVars /\ desc' = desc /\ torn' = torn
  BY DEF FatRefuses
<1>2. BlockOK' /\ BufferStep
  BY <1>1, BlocksUnchanged DEF IInv
<1>3. DescOK' /\ torn' \subseteq Files /\ last_error' \in Errors
  BY <1>1 DEF IInv, DescOK, FatRefuses, Errors
<1>4. call' = [CallOf("none", fd, "return") EXCEPT !.ret = FALSE] /\ "none" \in Ops
      /\ FALSE \in BOOLEAN
  BY DEF FatRefuses, Ops
<1> QED
  BY <1>2, <1>3, <1>4, ShortCallStep

-----------------------------------------------------------------------------
(* fat_read and fat_write. *)

\* A step that changes only the call.
LEMMA CallOnlyStep ==
    ASSUME IInv, UNCHANGED <<blockVars, desc, last_error, torn>>
    PROVE  BlockOK' /\ BufferStep /\ DescOK' /\ last_error' \in Errors /\ torn' \subseteq Files
<1>1. UNCHANGED blockVars /\ desc' = desc
  OBVIOUS
<1>2. BlockOK' /\ BufferStep
  BY <1>1, BlocksUnchanged DEF IInv
<1> QED
  BY <1>1, <1>2 DEF IInv, DescOK

\* The start of fat_read and fat_write.
LEMMA ActionStep ==
    ASSUME IInv, NEW fd \in Fds, NEW op \in {"read", "write"}, NEW len \in Lens,
           FatAction(fd, op, len)
    PROVE  IInv' /\ BufferStep
<1>1. UNCHANGED <<blockVars, desc, last_error, torn>>
  BY DEF FatAction, Starts
<1>2. call' = [CallOf(op, fd, "loop") EXCEPT !.len = len, !.off0 = desc[fd].abs_offset]
  BY DEF FatAction, Starts
<1>3. op \in Ops /\ "loop" \in Places /\ "loop" \in PlainPlaces /\ len \in Nat
  BY FileAssumption DEF Ops, Places, PlainPlaces
<1>4. desc[fd].abs_offset \in Nat /\ ~desc[fd].is_free
  BY DEF IInv, DescOK, FileDescriptor, FatAction, Usable, Fresh
<1>5. CallOf(op, fd, "loop") \in CallType /\ CallOf(op, fd, "loop").pc = "loop"
      /\ CallOf(op, fd, "loop").fd = fd
  BY <1>3, CallOfType
<1>6. call' \in CallType /\ call'.pc = "loop" /\ call'.fd = fd
  BY <1>2, <1>3, <1>4, <1>5 DEF CallType
<1>7. Running'
  BY <1>1, <1>4, <1>6 DEF Running, D
<1> QED
  BY <1>1, <1>3, <1>6, <1>7, CallOnlyStep, PlainStep

\* fat_action has moved everything, or there is nothing more to move.
LEMMA ActionDoneStep ==
    ASSUME IInv, ActionDone
    PROVE  IInv' /\ BufferStep
<1>1. UNCHANGED <<blockVars, desc, last_error, torn>> /\ Return(TRUE) /\ TRUE \in BOOLEAN
  BY DEF ActionDone
<1> QED
  BY <1>1, CallOnlyStep, ReturnStep

\* fat_action asks for a cluster.
LEMMA ActionAllocatesStep ==
    ASSUME IInv, ActionAllocates
    PROVE  IInv' /\ BufferStep
<1>1. UNCHANGED <<blockVars, desc, last_error, torn>>
  BY DEF ActionAllocates
<1>2. call' = [call EXCEPT !.pc = "alloc", !.sector = 0, !.link = D.cur_cluster]
      /\ call.pc = "loop"
  BY DEF ActionAllocates
<1>3. D \in FileDescriptor /\ ~D.is_free
  BY <1>2, DType
<1>4. D.cur_cluster \in 0 .. EOC /\ 0 \in 0 .. SectorsPerFat /\ "alloc" \in Places
  BY <1>3, VolumeAssumption DEF FileDescriptor, Places
<1>5. call' \in CallType /\ call'.pc = "alloc" /\ call'.fd = call.fd
  BY <1>2, <1>4 DEF IInv, CallType
<1>6. call'.pc \in PlainPlaces /\ Running'
  BY <1>1, <1>3, <1>5 DEF PlainPlaces, Places, Running, D
<1> QED
  BY <1>1, <1>5, <1>6, CallOnlyStep, PlainStep

\* The end of the file.
LEMMA ActionAtEndStep ==
    ASSUME IInv, ActionAtEnd
    PROVE  IInv' /\ BufferStep
<1>1. UNCHANGED blockVars /\ desc' = desc /\ torn' = torn /\ Return(TRUE) /\ TRUE \in BOOLEAN
  BY DEF ActionAtEnd
<1>2. last_error' \in Errors
  BY DEF ActionAtEnd, IInv, Errors
<1>3. BlockOK' /\ BufferStep
  BY <1>1, BlocksUnchanged DEF IInv
<1>4. DescOK' /\ torn' \subseteq Files
  BY <1>1 DEF IInv, DescOK
<1> QED
  BY <1>1, <1>2, <1>3, <1>4, ReturnStep

\* What is left of the last cluster, of a block, and the chunk, as uint16_t.
LEMMA ChunkType ==
    ASSUME NEW d \in FileDescriptor, NEW op, NEW len \in Nat
    PROVE  /\ Remainder(d) \in Nat /\ RoomInBlock(d) \in Nat /\ Available(d) \in Nat
           /\ ChunkLen(d, op, len) \in Nat /\ ChunkLen(d, op, len) <= len
<1>1. /\ d.last_cluster_len \in Nat /\ d.block_in_cluster \in Nat /\ d.index_in_block \in Nat
      /\ BlockSize \in Nat /\ U16 \in Nat /\ U16 > 0
  BY VolumeAssumption DEF FileDescriptor
<1>2. d.block_in_cluster * BlockSize \in Nat
  BY <1>1
<1>3. Remainder(d) \in Nat
  BY <1>1, <1>2 DEF Remainder
<1>4. RoomInBlock(d) \in Nat
  BY <1>1 DEF RoomInBlock
<1>5. Available(d) \in Nat
  BY <1>1, <1>3, <1>4 DEF Available
<1>6. (IF Expands(d, op, len) THEN RoomInBlock(d) ELSE Available(d)) \in Nat
  BY <1>4, <1>5
<1>7. ChunkLen(d, op, len) \in Nat /\ ChunkLen(d, op, len) <= len
  BY <1>6, MinOfTwo DEF ChunkLen
<1> QED
  BY <1>3, <1>4, <1>5, <1>7

\* The descriptor after the size was adjusted.
LEMMA ExpandedType ==
    ASSUME NEW d \in FileDescriptor, NEW op, NEW len \in Nat
    PROVE  LET e == Expanded(d, op, len) IN
           e \in FileDescriptor /\ e.is_free = d.is_free /\ e.file = d.file
<1> DEFINE n == ChunkLen(d, op, len)
           delta == (d.index_in_block + n - Remainder(d)) % U16
<1>1. Remainder(d) \in Nat /\ n \in Nat /\ d.index_in_block \in Nat /\ U16 \in Nat /\ U16 > 0
      /\ d.last_cluster_len \in Nat /\ d.size \in Nat
  BY ChunkType, VolumeAssumption DEF FileDescriptor
<1> HIDE DEF n
<1>2. delta \in Nat
  BY <1>1
<1> HIDE DEF delta
<1>3. (d.last_cluster_len + delta) % U16 \in Nat /\ d.size + delta \in Nat
  BY <1>1, <1>2
<1>4. Grown(d, delta) \in FileDescriptor /\ Grown(d, delta).is_free = d.is_free
      /\ Grown(d, delta).file = d.file
  BY <1>3 DEF Grown, FileDescriptor
<1>5. Expanded(d, op, len) \in {d, Grown(d, delta)}
  BY DEF Expanded, delta, n
<1> QED
  BY <1>4, <1>5

\* The descriptor after seek_advance.
LEMMA SeekAdvanceType ==
    ASSUME NEW d \in FileDescriptor, NEW n \in Nat
    PROVE  LET e == SeekAdvance(d, n) IN
           e \in FileDescriptor /\ e.is_free = d.is_free /\ e.file = d.file
<1> DEFINE moved == [d EXCEPT !.index_in_block = @ + n, !.abs_offset = @ + n]
           b == NextBlock(d, n)
           c == IF CrossesCluster(d, n) THEN d.next_cluster ELSE d.cur_cluster
<1>1. moved \in FileDescriptor /\ moved.is_free = d.is_free /\ moved.file = d.file
      /\ moved.cur_cluster = d.cur_cluster
  <2>1. d.index_in_block + n \in Nat /\ d.abs_offset + n \in Nat
    BY DEF FileDescriptor
  <2> QED
    BY <2>1 DEF FileDescriptor
<1>2. b \in Int /\ c \in 0 .. EOC
  BY FirstBlockType DEF FileDescriptor, NextBlock
<1> DEFINE far == [moved EXCEPT !.index_in_block = 0, !.block_in_cluster = @ + 1,
                               !.block_addr = b, !.cur_cluster = c]
<1>3. SeekAdvance(d, n) = IF ~FillsBlock(d, n) THEN moved ELSE far
  BY <1>1 DEF SeekAdvance
<1> HIDE DEF moved, b, c
<1>4. far \in FileDescriptor /\ far.is_free = moved.is_free /\ far.file = moved.file
  <2>1. moved.block_in_cluster + 1 \in Nat /\ 0 \in Nat
    BY <1>1 DEF FileDescriptor
  <2> QED
    BY <1>1, <1>2, <2>1 DEF FileDescriptor
<1> HIDE DEF far
<1> QED
  BY <1>1, <1>3, <1>4

\* A turn of fat_action's loop that moves a chunk.
LEMMA ActionMovesStep ==
    ASSUME IInv, ActionMoves
    PROVE  IInv' /\ BufferStep
<1> DEFINE n == ChunkLen(D, call.op, call.len)
           a == DataBlock(D.block_addr)
           d == Expanded(D, call.op, call.len)
           e == SeekAdvance(d, n)
<1>1. /\ IF IsWrite THEN Updated(a, Load(a)) ELSE Cached(a)
      /\ SetDesc(e)
      /\ call' = IF CrossesCluster(d, n)
                 THEN [call EXCEPT !.pc = "advance", !.chunk = n]
                 ELSE [call EXCEPT !.len = @ - n, !.result = @ + n]
      /\ UNCHANGED <<last_error, torn>> /\ call.pc = "loop"
  BY DEF ActionMoves, InBlock
<1>2. D \in FileDescriptor /\ ~D.is_free /\ D.file \in Files /\ call.len \in Nat
      /\ call.result \in Nat
  BY <1>1, DType DEF IInv, CallType
<1>3. n \in Nat /\ n <= call.len
  BY <1>2, ChunkType
<1>4. d \in FileDescriptor /\ ~d.is_free /\ d.file \in Files
  BY <1>2, ExpandedType
<1> HIDE DEF d, n
<1>5. e \in FileDescriptor /\ ~e.is_free /\ e.file \in Files
  BY <1>3, <1>4, SeekAdvanceType
<1>6. BlockOK' /\ BufferStep
  <2>1. a \in VolumeBlocks => Load(a) \in ContentOf(a)
    BY LoadType DEF IInv
  <2> HIDE DEF a
  <2> QED
    BY <1>1, <2>1, UpdatedStep, CachedStep DEF IInv
<1> HIDE DEF e, a
<1>7. DescOK' /\ desc'[call.fd] = e
  BY <1>1, <1>5, SetDescType
<1>8. CASE CrossesCluster(d, n)
  <2>1. call' = [call EXCEPT !.pc = "advance", !.chunk = n]
    BY <1>1, <1>8
  <2>2. call' \in CallType /\ call'.pc = "advance" /\ call'.fd = call.fd
        /\ call'.chunk = n /\ call'.len = call.len
    BY <1>3, <2>1 DEF IInv, CallType, Places
  <2>3. Running' /\ Mirroring' /\ Counting' /\ Resting'
    BY <1>3, <1>5, <1>7, <2>2 DEF Running, Mirroring, Counting, Resting, D
  <2> QED
    BY <1>1, <1>6, <1>7, <2>2, <2>3 DEF IInv
<1>9. CASE ~CrossesCluster(d, n)
  <2>1. call' = [call EXCEPT !.len = @ - n, !.result = @ + n]
    BY <1>1, <1>9
  <2>2. call' \in CallType /\ call'.pc = "loop" /\ call'.fd = call.fd
    <3>1. call.len - n \in Nat /\ call.result + n \in Nat
      BY <1>2, <1>3
    <3> QED
      BY <1>1, <2>1, <3>1 DEF IInv, CallType
  <2>3. call'.pc \in PlainPlaces /\ Running'
    BY <1>5, <1>7, <2>2 DEF PlainPlaces, Places, Running, D
  <2> QED
    BY <1>1, <1>6, <1>7, <2>2, <2>3, PlainStep DEF IInv
<1> QED
  BY <1>8, <1>9

\* A turn of the loop in which the card fails.
LEMMA ActionFailsStep ==
    ASSUME IInv, ActionFails
    PROVE  IInv' /\ BufferStep
<1> DEFINE a == DataBlock(D.block_addr)
           d == Expanded(D, call.op, call.len)
<1>1. /\ IF IsWrite THEN UpdateFailed(a, Load(a)) ELSE CacheFailed(a)
      /\ SetDesc(d) /\ Return(TRUE) /\ torn' = torn /\ call.pc = "loop" /\ TRUE \in BOOLEAN
  BY DEF ActionFails, InBlock
<1>2. D \in FileDescriptor /\ ~D.is_free /\ D.file \in Files /\ call.len \in Nat
  BY <1>1, DType DEF IInv, CallType
<1>3. d \in FileDescriptor /\ ~d.is_free /\ d.file \in Files
  BY <1>2, ExpandedType
<1>4. BlockOK' /\ BufferStep /\ last_error' \in Errors
  <2>1. a \in VolumeBlocks => Load(a) \in ContentOf(a)
    BY LoadType DEF IInv
  <2> HIDE DEF a
  <2> QED
    BY <1>1, <2>1, UpdateFailedStep, CacheFailedStep DEF IInv
<1> HIDE DEF d, a
<1>5. DescOK'
  BY <1>1, <1>3, SetDescType
<1> QED
  BY <1>1, <1>4, <1>5, ReturnStep DEF IInv

\* The FAT read of seek_advance.
LEMMA AdvanceStep ==
    ASSUME IInv, AdvanceReadsFat
    PROVE  IInv' /\ BufferStep
<1> DEFINE ok == [D EXCEPT !.block_in_cluster = 0]
           then == [call EXCEPT !.pc = "loop", !.len = @ - call.chunk,
                                !.result = @ + call.chunk, !.chunk = 0]
<1>1. LinkRead(D.cur_cluster, ok, D, then) /\ UNCHANGED torn /\ call.pc = "advance"
  BY DEF AdvanceReadsFat
<1>2. D \in FileDescriptor /\ ~D.is_free /\ D.file \in Files /\ D.cur_cluster \in 0 .. EOC
  BY <1>1, DType DEF FileDescriptor
<1>3. ok \in FileDescriptor /\ ~ok.is_free /\ ok.file \in Files
  BY <1>2 DEF FileDescriptor
<1>4. call.len \in Nat /\ call.chunk \in Nat /\ call.chunk <= call.len /\ call.result \in Nat
  BY <1>1 DEF IInv, CallType, Counting
<1>5. call.len - call.chunk \in Nat /\ call.result + call.chunk \in Nat
  BY <1>4
<1>6. then \in CallType /\ then.pc \in PlainPlaces /\ then.fd = call.fd
  BY <1>5 DEF IInv, CallType, Places, PlainPlaces
<1> HIDE DEF then, ok
<1> QED
  BY <1>1, <1>2, <1>3, <1>6, LinkReadStep

-----------------------------------------------------------------------------
(* alloc_cluster. *)

\* A step that leaves the descriptors alone and goes on with the same descriptor.
LEMMA SameDescStep ==
    ASSUME IInv, UNCHANGED desc, NEW c \in CallType, call' = c, c.fd = call.fd,
           c.pc \in PlainPlaces, call.pc \notin {"idle", "return"},
           BlockOK', last_error' \in Errors, torn' \subseteq Files
    PROVE  IInv'
<1>1. DescOK'
  BY DEF IInv, DescOK
<1>2. Running'
  BY DType DEF Running, D
<1> QED
  BY <1>1, <1>2, PlainStep

\* The descriptor of a file that got a cluster.
LEMMA WithClusterType ==
    ASSUME NEW d \in FileDescriptor, NEW c \in 0 .. EOC
    PROVE  LET e == WithCluster(d, c) IN
           e \in FileDescriptor /\ e.is_free = d.is_free /\ e.file = d.file
<1> DEFINE g == [d EXCEPT !.cur_cluster = c, !.next_cluster = EOC,
                         !.block_addr = FirstBlock(c)]
           first == [g EXCEPT !.dir_entry_modified = TRUE, !.cluster_lo = c]
           later == NewTail(g)
<1>1. EOC \in 0 .. EOC /\ FirstBlock(c) \in Int /\ 0 \in Nat /\ TRUE \in BOOLEAN
  BY EocFacts, FirstBlockType
<1>2. g \in FileDescriptor /\ g.is_free = d.is_free /\ g.file = d.file
  BY <1>1 DEF FileDescriptor
<1>3. WithCluster(d, c) \in {first, later}
  BY DEF WithCluster
<1> HIDE DEF g
<1>4. first \in FileDescriptor /\ first.is_free = g.is_free /\ first.file = g.file
  BY <1>1, <1>2 DEF FileDescriptor
<1>5. later \in FileDescriptor /\ later.is_free = g.is_free /\ later.file = g.file
  BY <1>1, <1>2 DEF FileDescriptor, NewTail
<1> HIDE DEF first, later
<1> QED
  BY <1>2, <1>3, <1>4, <1>5

\* The free entries of a sector are cluster numbers.
LEMMA FreeInType ==
    ASSUME NEW s \in Nat, FreeIn(s) # {}
    PROVE  Min(FreeIn(s)) \in FreeIn(s) /\ Min(FreeIn(s)) \in Entries
           /\ Min(FreeIn(s)) \in 0 .. EOC
<1>1. FreeIn(s) \subseteq Entries /\ Entries \subseteq Nat /\ Entries \subseteq 0 .. EOC
  BY EocFacts DEF FreeIn, SectorEntries, Entries
<1>2. FreeIn(s) \subseteq Nat
  BY <1>1
<1> QED
  BY <1>1, <1>2, MinExists

\* A turn of the search for a free entry.
LEMMA AllocMarksStep ==
    ASSUME IInv, AllocMarks
    PROVE  IInv' /\ BufferStep
<1> DEFINE s == call.sector
           a == FatBlock("fat0", s)
           c == Min(FreeIn(s))
<1>1. call.pc = "alloc" /\ s < SectorsPerFat /\ UNCHANGED <<desc, torn>>
  BY DEF AllocMarks
<1>2. s \in Nat /\ s \in Sectors /\ a \in VolumeBlocks /\ s + 1 \in 0 .. SectorsPerFat
  BY <1>1, VolumeAssumption, Contents DEF IInv, CallType, Sectors
<1>3. EOC \in 0 .. EOC
  BY EocFacts
<1>4. WithEntry(a, c, EOC) \in ContentOf(a)
  BY <1>2, <1>3, WithEntryType DEF IInv
<1>5. call \in CallType /\ BlockOK /\ torn' \subseteq Files /\ last_error \in Errors
  BY <1>1 DEF IInv
<1> HIDE DEF a, c
<1>6. ASSUME FreeIn(s) # {}, Updated(a, WithEntry(a, c, EOC)),
             call' = [call EXCEPT !.pc = "alloc_fat1", !.head = c], UNCHANGED last_error
      PROVE  IInv' /\ BufferStep
  <2>1. BlockOK' /\ BufferStep
    BY <1>4, <1>5, <1>6, UpdatedStep
  <2>2. c \in 0 .. EOC
    BY <1>2, <1>6, FreeInType DEF c
  <2>3. call' \in CallType /\ call'.pc = "alloc_fat1" /\ call'.fd = call.fd /\ call'.sector = s
    BY <1>5, <1>6, <2>2 DEF CallType, Places
  <2>4. cache_block_addr' = FatBlock("fat0", s)
    BY <1>6 DEF Updated, UpdateOk, FlushOk, a
  <2>5. DescOK'
    BY <1>1 DEF IInv, DescOK
  <2>6. Running' /\ Mirroring' /\ Counting' /\ Resting'
    <3>1. Running'
      BY <1>1, <2>3, DType DEF Running, D
    <3>2. Mirroring' /\ Counting' /\ Resting'
      BY <1>2, <2>3, <2>4 DEF Mirroring, Counting, Resting
    <3> QED
      BY <3>1, <3>2
  <2> QED
    BY <1>5, <1>6, <2>1, <2>3, <2>5, <2>6 DEF IInv
<1>7. ASSUME Cached(a), call' = [call EXCEPT !.sector = @ + 1], UNCHANGED last_error
      PROVE  IInv' /\ BufferStep
  <2>1. BlockOK' /\ BufferStep
    BY <1>5, <1>7, CachedStep
  <2>2. call' \in CallType /\ call'.pc = "alloc" /\ call'.fd = call.fd
    BY <1>1, <1>2, <1>5, <1>7 DEF CallType
  <2>3. call'.pc \in PlainPlaces
    BY <2>2 DEF PlainPlaces, Places
  <2> QED
    BY <1>1, <1>5, <1>7, <2>1, <2>2, <2>3, SameDescStep
<1>8. ASSUME CacheFailed(a) \/ UpdateFailed(a, WithEntry(a, c, EOC)), Return(TRUE)
      PROVE  IInv' /\ BufferStep
  <2>1. BlockOK' /\ BufferStep /\ last_error' \in Errors
    BY <1>4, <1>5, <1>8, CacheFailedStep, UpdateFailedStep
  <2>2. DescOK' /\ TRUE \in BOOLEAN
    BY <1>1 DEF IInv, DescOK
  <2> QED
    BY <1>5, <1>8, <2>1, <2>2, ReturnStep
<1> QED
  BY <1>6, <1>7, <1>8 DEF AllocMarks, a, c

\* A full card.
LEMMA AllocFindsNothingStep ==
    ASSUME IInv, AllocFindsNothing
    PROVE  IInv' /\ BufferStep
<1>1. UNCHANGED <<blockVars, desc, last_error, torn>> /\ Return(TRUE) /\ TRUE \in BOOLEAN
  BY DEF AllocFindsNothing
<1> QED
  BY <1>1, CallOnlyStep, ReturnStep

\* The call goes back to the loop with a descriptor that has its cluster.
LEMMA ClusterGivenStep ==
    ASSUME IInv, SetDesc(WithCluster(D, call.head)), Goto("loop"), BlockOK',
           UNCHANGED <<last_error, torn>>, call.pc \notin {"idle", "return"}
    PROVE  IInv'
<1> DEFINE e == WithCluster(D, call.head)
<1>1. D \in FileDescriptor /\ ~D.is_free /\ D.file \in Files /\ call.head \in 0 .. EOC
  BY DType DEF IInv, CallType
<1>2. e \in FileDescriptor /\ ~e.is_free /\ e.file \in Files
  BY <1>1, WithClusterType
<1> HIDE DEF e
<1>3. DescOK' /\ desc'[call.fd] = e
  BY <1>2, SetDescType DEF e
<1>4. call' \in CallType /\ call'.pc = "loop" /\ call'.fd = call.fd
  BY DEF IInv, CallType, Goto, Places
<1>5. call'.pc \in PlainPlaces /\ Running'
  BY <1>2, <1>3, <1>4 DEF PlainPlaces, Places, Running, D
<1> QED
  BY <1>3, <1>4, <1>5, PlainStep DEF IInv

\* The sector in the buffer may be copied to the other FAT.
LEMMA TwinContent ==
    ASSUME BlockOK, NEW s \in Sectors, NEW copy \in {"fat0", "fat1"},
           NEW other \in {"fat0", "fat1"}, cache_block_addr = FatBlock(other, s)
    PROVE  /\ FatBlock(copy, s) \in VolumeBlocks /\ cache_block_addr \in VolumeBlocks
           /\ cache_block \in ContentOf(FatBlock(copy, s))
BY Contents DEF BlockOK

\* The new cluster's sector is copied to FAT 1.
LEMMA AllocMirrorsStep ==
    ASSUME IInv, AllocMirrors
    PROVE  IInv' /\ BufferStep
<1> DEFINE a == FatBlock("fat1", call.sector)
<1>1. call.pc = "alloc_fat1" /\ torn' = torn
  BY DEF AllocMirrors
<1>2. call.sector \in Sectors /\ cache_block_addr = FatBlock("fat0", call.sector)
      /\ call \in CallType /\ BlockOK /\ torn' \subseteq Files /\ last_error \in Errors
  BY <1>1 DEF IInv, Mirroring
<1>3. a \in VolumeBlocks /\ cache_block_addr \in VolumeBlocks /\ cache_block \in ContentOf(a)
  BY <1>2, TwinContent
<1> HIDE DEF a
<1>4. ASSUME FlushOk(a, cache_block),
             IF call.link = 0 THEN SetDesc(WithCluster(D, call.head)) /\ Goto("loop")
             ELSE UNCHANGED desc /\ Goto("parent_fat1"),
             UNCHANGED last_error
      PROVE  IInv' /\ BufferStep
  <2>1. BlockOK' /\ BufferStep
    BY <1>2, <1>3, <1>4, MirroredStep
  <2>2. CASE call.link = 0
    BY <1>1, <1>4, <2>1, <2>2, ClusterGivenStep
  <2>3. CASE call.link # 0
    <3> DEFINE c == [call EXCEPT !.pc = "parent_fat1"]
    <3>1. UNCHANGED desc /\ call' = c
      BY <1>4, <2>3 DEF Goto
    <3>2. c \in CallType /\ c.pc \in PlainPlaces /\ c.fd = call.fd
      BY <1>2 DEF CallType, Places, PlainPlaces
    <3> HIDE DEF c
    <3> QED
      BY <1>1, <1>2, <1>4, <2>1, <3>1, <3>2, SameDescStep
  <2> QED
    BY <2>1, <2>2, <2>3
<1>5. ASSUME FlushFailed(a, cache_block), Return(TRUE), UNCHANGED desc
      PROVE  IInv' /\ BufferStep
  <2>1. BlockOK' /\ BufferStep /\ last_error' \in Errors
    BY <1>2, <1>3, <1>5, MirrorFailedStep
  <2>2. DescOK' /\ TRUE \in BOOLEAN
    BY <1>5 DEF IInv, DescOK
  <2> QED
    BY <1>2, <1>5, <2>1, <2>2, ReturnStep
<1> QED
  BY <1>4, <1>5 DEF AllocMirrors, a

\* The parent of the new cluster is linked in FAT 1.
LEMMA ParentLinksStep ==
    ASSUME IInv, ParentLinks
    PROVE  IInv' /\ BufferStep
<1> DEFINE a == Fat1(call.link)
           d == WithEntry(a, call.link, call.head)
<1>1. call.pc = "parent_fat1" /\ UNCHANGED desc
  BY DEF ParentLinks
<1>2. call \in CallType /\ BlockOK /\ torn \subseteq Files /\ last_error \in Errors
      /\ call.link \in 0 .. EOC /\ call.head \in 0 .. EOC
  BY DEF IInv, CallType
<1>3. a \in VolumeBlocks => d \in ContentOf(a)
  BY <1>2, SectorFacts, WithEntryType DEF Fat1
<1>4. DescOK' /\ TRUE \in BOOLEAN /\ D.file \in Files
  BY <1>1, DType DEF IInv, DescOK
<1>5. ASSUME Updated(a, d), Goto("parent_fat0"), UNCHANGED <<last_error, torn>>
      PROVE  IInv' /\ BufferStep
  <2>1. BlockOK' /\ BufferStep /\ a \in VolumeBlocks
    BY <1>2, <1>3, <1>5, UpdatedStep
  <2>2. call.link \in Entries
    BY <1>2, <2>1, SectorFacts, Contents DEF Fat1
  <2>3. call' \in CallType /\ call'.pc = "parent_fat0" /\ call'.fd = call.fd
        /\ call'.link = call.link
    BY <1>2, <1>5 DEF CallType, Places, Goto
  <2>4. cache_block_addr' = Fat1(call.link)
    BY <1>5 DEF Updated, UpdateOk, FlushOk
  <2>5. Running'
    BY <1>1, <2>3, DType DEF Running, D
  <2>6. Mirroring' /\ Counting' /\ Resting'
    BY <2>2, <2>3, <2>4 DEF Mirroring, Counting, Resting
  <2> QED
    BY <1>2, <1>4, <1>5, <2>1, <2>3, <2>5, <2>6 DEF IInv
<1>6. ASSUME UpdateFailed(a, d), Return(TRUE), Tears
      PROVE  IInv' /\ BufferStep
  <2>1. BlockOK' /\ BufferStep /\ last_error' \in Errors
    BY <1>2, <1>3, <1>6, UpdateFailedStep
  <2>2. torn' \subseteq Files
    BY <1>2, <1>4, <1>6 DEF Tears
  <2> QED
    BY <1>4, <1>6, <2>1, <2>2, ReturnStep
<1> QED
  BY <1>5, <1>6 DEF ParentLinks

\* The parent's sector is copied to FAT 0.
LEMMA ParentMirrorsStep ==
    ASSUME IInv, ParentMirrors
    PROVE  IInv' /\ BufferStep
<1> DEFINE a == Fat0(call.link)
<1>1. call.pc = "parent_fat0"
  BY DEF ParentMirrors
<1>2. BlockOK /\ torn \subseteq Files /\ call.link \in 0 .. EOC
      /\ call.link \in Entries /\ cache_block_addr = Fat1(call.link)
  BY <1>1 DEF IInv, CallType, Mirroring
<1>3. a \in VolumeBlocks /\ cache_block_addr \in VolumeBlocks /\ cache_block \in ContentOf(a)
  BY <1>2, TwinContent, SectorFacts DEF Fat0, Fat1
<1> HIDE DEF a
<1>4. ASSUME FlushOk(a, cache_block), SetDesc(WithCluster(D, call.head)), Goto("loop"),
             UNCHANGED <<last_error, torn>>
      PROVE  IInv' /\ BufferStep
  BY <1>1, <1>2, <1>3, <1>4, MirroredStep, ClusterGivenStep
<1>5. ASSUME FlushFailed(a, cache_block), Return(TRUE), Tears, UNCHANGED desc
      PROVE  IInv' /\ BufferStep
  <2>1. BlockOK' /\ BufferStep /\ last_error' \in Errors
    BY <1>2, <1>3, <1>5, MirrorFailedStep
  <2>2. DescOK' /\ TRUE \in BOOLEAN /\ torn' \subseteq Files
    BY <1>1, <1>2, <1>5, DType DEF IInv, DescOK, Tears
  <2> QED
    BY <1>5, <2>1, <2>2, ReturnStep
<1> QED
  BY <1>4, <1>5 DEF ParentMirrors, a

-----------------------------------------------------------------------------
(* fat_truncate. *)

\* A call that starts on an open descriptor, which keeps its file.
LEMMA StartStep ==
    ASSUME IInv, NEW fd \in Fds, NEW d \in FileDescriptor, ~d.is_free, d.file \in Files,
           desc' = [desc EXCEPT ![fd] = d] \/ UNCHANGED desc,
           ~desc[fd].is_free, NEW c \in CallType, Starts(c), c.fd = fd,
           c.pc \in PlainPlaces, UNCHANGED blockVars
    PROVE  IInv' /\ BufferStep
<1>1. BlockOK' /\ BufferStep
  BY BlocksUnchanged DEF IInv
<1>2. call' = c /\ last_error' \in Errors /\ torn' \subseteq Files
  BY DEF Starts, IInv
<1>3. DescOK' /\ ~desc'[fd].is_free
  BY DEF IInv, DescOK
<1>4. Running'
  BY <1>2, <1>3 DEF Running, D
<1> QED
  BY <1>1, <1>2, <1>3, <1>4, PlainStep

\* The four ways in which fat_truncate starts.
LEMMA TruncateStep ==
    ASSUME IInv, NEW fd \in Fds, FatTruncate(fd)
    PROVE  IInv' /\ BufferStep
<1> DEFINE d == desc[fd]
           e == [d EXCEPT !.size = d.abs_offset, !.dir_entry_modified = TRUE]
           z == [e EXCEPT !.cluster_lo = 0]
           asked(pc) == CallOf("truncate", fd, pc)
<1>1. UNCHANGED blockVars
  BY DEF FatTruncate
<1>2. d \in FileDescriptor /\ ~d.is_free /\ d.file \in Files
  BY DEF IInv, DescOK, FatTruncate, Usable, Fresh
<1>3. e \in FileDescriptor /\ ~e.is_free /\ e.file = d.file
  BY <1>2 DEF FileDescriptor
<1>4. z \in FileDescriptor /\ ~z.is_free /\ z.file = d.file
  <2> HIDE DEF e
  <2>1. 0 \in 0 .. EOC
    BY EocFacts
  <2> QED
    BY <1>3, <2>1 DEF FileDescriptor
<1>5. d.cur_cluster \in 0 .. EOC /\ d.cluster_lo \in 0 .. EOC
  BY <1>2 DEF FileDescriptor
<1>6. /\ "truncate" \in Ops
      /\ \A pc \in {"return", "free_fat0", "find_parent", "cut_fat0"} :
             pc \in Places /\ pc \in PlainPlaces
  BY DEF Ops, Places, PlainPlaces
<1>7. ASSUME NEW pc \in {"return", "free_fat0", "find_parent", "cut_fat0"}
      PROVE  asked(pc) \in CallType /\ asked(pc).pc = pc /\ asked(pc).fd = fd
  BY <1>6, CallOfType
<1> HIDE DEF e, z, asked
<1>8. ASSUME NEW pc \in {"free_fat0", "find_parent"}, NEW h \in 0 .. EOC
      PROVE  LET c == [asked(pc) EXCEPT !.head = h] IN
             c \in CallType /\ c.pc = pc /\ c.fd = fd
  BY <1>7 DEF CallType
<1>9. ASSUME Starts(asked("return")), UNCHANGED desc
      PROVE  IInv' /\ BufferStep
  BY <1>1, <1>2, <1>6, <1>7, <1>9, StartStep
<1>10. ASSUME desc' = [desc EXCEPT ![fd] = z],
              Starts([asked("free_fat0") EXCEPT !.head = d.cur_cluster])
       PROVE  IInv' /\ BufferStep
  <2> DEFINE c == [asked("free_fat0") EXCEPT !.head = d.cur_cluster]
  <2>1. c \in CallType /\ c.pc \in PlainPlaces /\ c.fd = fd
    BY <1>5, <1>6, <1>8
  <2> HIDE DEF c
  <2>2. Starts(c)
    BY <1>10 DEF c
  <2> QED
    BY <1>1, <1>2, <1>4, <1>10, <2>1, <2>2, StartStep
<1>11. ASSUME desc' = [desc EXCEPT ![fd] = e],
              Starts([asked("find_parent") EXCEPT !.head = d.cluster_lo])
       PROVE  IInv' /\ BufferStep
  <2> DEFINE c == [asked("find_parent") EXCEPT !.head = d.cluster_lo]
  <2>1. c \in CallType /\ c.pc \in PlainPlaces /\ c.fd = fd
    BY <1>5, <1>6, <1>8
  <2> HIDE DEF c
  <2>2. Starts(c)
    BY <1>11 DEF c
  <2> QED
    BY <1>1, <1>2, <1>3, <1>11, <2>1, <2>2, StartStep
<1>12. ASSUME desc' = [desc EXCEPT ![fd] = e], Starts(asked("cut_fat0"))
       PROVE  IInv' /\ BufferStep
  BY <1>1, <1>2, <1>3, <1>6, <1>7, <1>12, StartStep
<1> QED
  BY <1>9, <1>10, <1>11, <1>12 DEF FatTruncate, e, z, asked

\* A turn of find_parent_cluster.
LEMMA FindParentStep ==
    ASSUME IInv, FindParent
    PROVE  IInv' /\ BufferStep
<1> DEFINE h == call.head
           next == Entry(h)
           e == [D EXCEPT !.next_cluster = D.cur_cluster, !.cur_cluster = h,
                          !.block_in_cluster = SectorsPerCluster]
<1>1. call.pc = "find_parent" /\ torn' = torn
  BY DEF FindParent
<1>2. BlockOK /\ call \in CallType /\ h \in 0 .. EOC /\ torn' \subseteq Files
      /\ last_error \in Errors /\ FALSE \in BOOLEAN
  BY <1>1 DEF IInv, CallType
<1>3. D \in FileDescriptor /\ ~D.is_free /\ D.file \in Files
  BY <1>1, DType
<1>4. e \in FileDescriptor /\ ~e.is_free /\ e.file = D.file
  BY <1>2, <1>3, VolumeAssumption DEF FileDescriptor
<1>5. UNCHANGED desc => DescOK'
  BY DEF IInv, DescOK
<1> HIDE DEF e
<1>6. ASSUME Cached(Fat0(h)) PROVE BlockOK' /\ BufferStep /\ next \in 0 .. EOC
  BY <1>2, <1>6, CachedStep, EntryType DEF Cached
<1> HIDE DEF next
<1>7. ASSUME Cached(Fat0(h)), UNCHANGED last_error, Return(FALSE), UNCHANGED desc
      PROVE  IInv' /\ BufferStep
  BY <1>2, <1>5, <1>6, <1>7, ReturnStep
<1>8. ASSUME Cached(Fat0(h)), UNCHANGED last_error, SetDesc(e), Goto("cut_fat0")
      PROVE  IInv' /\ BufferStep
  <2>1. DescOK' /\ desc'[call.fd] = e
    BY <1>3, <1>4, <1>8, SetDescType
  <2>2. call' \in CallType /\ call'.pc \in PlainPlaces /\ call'.fd = call.fd
    BY <1>2, <1>8 DEF CallType, Goto, Places, PlainPlaces
  <2>3. Running'
    BY <1>4, <2>1, <2>2 DEF Running, D
  <2> QED
    BY <1>2, <1>6, <1>8, <2>1, <2>2, <2>3, PlainStep
<1>9. ASSUME Cached(Fat0(h)), UNCHANGED last_error, call' = [call EXCEPT !.head = next],
             UNCHANGED desc
      PROVE  IInv' /\ BufferStep
  <2> DEFINE c == [call EXCEPT !.head = next]
  <2>1. c \in CallType /\ c.pc \in PlainPlaces /\ c.fd = call.fd
    BY <1>1, <1>2, <1>6, <1>9 DEF CallType, Places, PlainPlaces
  <2> HIDE DEF c
  <2>2. call' = c
    BY <1>9 DEF c
  <2> QED
    BY <1>1, <1>2, <1>6, <1>9, <2>1, <2>2, SameDescStep
<1>10. ASSUME CacheFailed(Fat0(h)), Return(FALSE), UNCHANGED desc
       PROVE  IInv' /\ BufferStep
  BY <1>2, <1>5, <1>10, CacheFailedStep, ReturnStep
<1>11. ASSUME last_error' = "FS_BROKEN", UNCHANGED blockVars, Return(FALSE), UNCHANGED desc
       PROVE  IInv' /\ BufferStep
  <2>1. last_error' \in Errors
    BY <1>11 DEF Errors
  <2> QED
    BY <1>2, <1>5, <1>11, <2>1, BlocksUnchanged, ReturnStep
<1> QED
  BY <1>7, <1>8, <1>9, <1>10, <1>11 DEF FindParent, e, next

\* The descriptor when fat_truncate is done.
LEMMA TruncatedType ==
    ASSUME NEW d \in FileDescriptor
    PROVE  LET e == Truncated(d) IN
           e \in FileDescriptor /\ e.is_free = d.is_free /\ e.file = d.file
<1> DEFINE n == IF d.abs_offset % BytesPerCluster = 0 /\ d.block_in_cluster = 0 THEN 0
                ELSE TailLength(d.abs_offset)
<1>1. n \in Nat /\ EOC \in 0 .. EOC
  BY TailType, EocFacts DEF FileDescriptor
<1>2. Truncated(d) = [d EXCEPT !.next_cluster = EOC, !.last_cluster_len = n]
  BY DEF Truncated
<1> HIDE DEF n
<1> QED
  BY <1>1, <1>2 DEF FileDescriptor

\* The descriptor when free_cluster_chain returns.
LEMMA FreedType ==
    ASSUME NEW d \in FileDescriptor, NEW ok \in BOOLEAN
    PROVE  LET e == Freed(d, ok) IN
           e \in FileDescriptor /\ e.is_free = d.is_free /\ e.file = d.file
<1> DEFINE z == [d EXCEPT !.cur_cluster = 0, !.next_cluster = EOC]
<1>1. EOC \in 0 .. EOC /\ 0 \in 0 .. EOC
  BY EocFacts
<1>2. z \in FileDescriptor /\ z.is_free = d.is_free /\ z.file = d.file
  BY <1>1 DEF FileDescriptor
<1>3. Freed(d, ok) \in {d, z, Truncated(d)}
  BY DEF Freed
<1> HIDE DEF z
<1> QED
  BY <1>2, <1>3, TruncatedType

\* The call returns with its descriptor set.
LEMMA SetAndReturn ==
    ASSUME IInv, NEW d \in FileDescriptor, ~d.is_free => d.file \in Files, SetDesc(d),
           NEW ret \in BOOLEAN, Return(ret), BlockOK', last_error' \in Errors,
           torn' \subseteq Files
    PROVE  IInv'
BY SetDescType, ReturnStep

\* Nothing to cut: the current cluster is the last one.
LEMMA CutNothingStep ==
    ASSUME IInv, CutNothing
    PROVE  IInv' /\ BufferStep
<1>1. UNCHANGED blockVars /\ last_error' = last_error /\ torn' = torn
      /\ SetDesc(Truncated(D)) /\ Return(TRUE) /\ TRUE \in BOOLEAN
  BY DEF CutNothing
<1>2. Truncated(D) \in FileDescriptor /\ (~Truncated(D).is_free => Truncated(D).file \in Files)
  BY DType, TruncatedType
<1>3. BlockOK' /\ BufferStep /\ last_error' \in Errors /\ torn' \subseteq Files
  BY <1>1, BlocksUnchanged DEF IInv
<1> QED
  BY <1>1, <1>2, <1>3, SetAndReturn

\* An update of an entry in one copy of the FAT that leaves the descriptors alone.
LEMMA EntryWritten ==
    ASSUME IInv, NEW copy \in {"fat0", "fat1"}, NEW e \in 0 .. EOC, NEW v \in 0 .. EOC,
           NEW c \in CallType, c.fd = call.fd, c.pc \in PlainPlaces,
           call.pc \notin {"idle", "return"},
           Updated(FatBlock(copy, SectorOf(e)), WithEntry(FatBlock(copy, SectorOf(e)), e, v)),
           call' = c, UNCHANGED <<desc, last_error, torn>>
    PROVE  IInv' /\ BufferStep
<1> DEFINE a == FatBlock(copy, SectorOf(e))
<1>1. a \in VolumeBlocks => WithEntry(a, e, v) \in ContentOf(a)
  BY SectorFacts, WithEntryType DEF IInv
<1> HIDE DEF a
<1>2. BlockOK' /\ BufferStep
  BY <1>1, UpdatedStep DEF IInv, a
<1> QED
  BY <1>2, SameDescStep DEF IInv

\* The same when it fails.
LEMMA EntryNotWritten ==
    ASSUME IInv, NEW copy \in {"fat0", "fat1"}, NEW e \in 0 .. EOC, NEW v \in 0 .. EOC,
           UpdateFailed(FatBlock(copy, SectorOf(e)), WithEntry(FatBlock(copy, SectorOf(e)), e, v))
    PROVE  BlockOK' /\ BufferStep /\ last_error' \in Errors
<1> DEFINE a == FatBlock(copy, SectorOf(e))
<1>1. a \in VolumeBlocks => WithEntry(a, e, v) \in ContentOf(a)
  BY SectorFacts, WithEntryType DEF IInv
<1> HIDE DEF a
<1> QED
  BY <1>1, UpdateFailedStep DEF IInv, a

\* The current cluster becomes the last one, in FAT 0.
LEMMA CutFat0Step ==
    ASSUME IInv, CutFat0
    PROVE  IInv' /\ BufferStep
<1> DEFINE e == D.cur_cluster
           c == [call EXCEPT !.pc = "cut_fat1"]
<1>1. call.pc = "cut_fat0" /\ UNCHANGED desc /\ torn' = torn
  BY DEF CutFat0
<1>2. e \in 0 .. EOC /\ EOC \in 0 .. EOC /\ DescOK' /\ torn' \subseteq Files /\ FALSE \in BOOLEAN
  BY <1>1, DType, EocFacts DEF FileDescriptor, IInv, DescOK
<1>3. c \in CallType /\ c.pc \in PlainPlaces /\ c.fd = call.fd
  BY DEF IInv, CallType, Places, PlainPlaces
<1> HIDE DEF e, c
<1>4. ASSUME Updated(Fat0(e), WithEntry(Fat0(e), e, EOC)), call' = c, UNCHANGED last_error
      PROVE  IInv' /\ BufferStep
  BY <1>1, <1>2, <1>3, <1>4, EntryWritten DEF Fat0
<1>5. ASSUME UpdateFailed(Fat0(e), WithEntry(Fat0(e), e, EOC)), Return(FALSE)
      PROVE  IInv' /\ BufferStep
  <2>1. BlockOK' /\ BufferStep /\ last_error' \in Errors
    BY <1>2, <1>5, EntryNotWritten DEF Fat0
  <2> QED
    BY <1>2, <1>5, <2>1, ReturnStep
<1> QED
  BY <1>4, <1>5 DEF CutFat0, Goto, e, c

\* The same in FAT 1; what followed is to be freed.
LEMMA CutFat1Step ==
    ASSUME IInv, CutFat1
    PROVE  IInv' /\ BufferStep
<1> DEFINE e == D.cur_cluster
           c == [call EXCEPT !.pc = "free_fat0", !.head = D.next_cluster]
<1>1. call.pc = "cut_fat1" /\ UNCHANGED desc /\ torn' = torn
  BY DEF CutFat1
<1>2. e \in 0 .. EOC /\ EOC \in 0 .. EOC /\ DescOK' /\ torn' \subseteq Files /\ FALSE \in BOOLEAN
      /\ D.next_cluster \in 0 .. EOC
  BY <1>1, DType, EocFacts DEF FileDescriptor, IInv, DescOK
<1>3. c \in CallType /\ c.pc \in PlainPlaces /\ c.fd = call.fd
  BY <1>2 DEF IInv, CallType, Places, PlainPlaces
<1> HIDE DEF e, c
<1>4. ASSUME Updated(Fat1(e), WithEntry(Fat1(e), e, EOC)), call' = c, UNCHANGED last_error
      PROVE  IInv' /\ BufferStep
  BY <1>1, <1>2, <1>3, <1>4, EntryWritten DEF Fat1
<1>5. ASSUME UpdateFailed(Fat1(e), WithEntry(Fat1(e), e, EOC)), Return(FALSE)
      PROVE  IInv' /\ BufferStep
  <2>1. BlockOK' /\ BufferStep /\ last_error' \in Errors
    BY <1>2, <1>5, EntryNotWritten DEF Fat1
  <2> QED
    BY <1>2, <1>5, <2>1, ReturnStep
<1> QED
  BY <1>4, <1>5 DEF CutFat1, e, c

\* A cluster is freed in FAT 0.
LEMMA FreeFat0Step ==
    ASSUME IInv, FreeFat0
    PROVE  IInv' /\ BufferStep
<1> DEFINE h == call.head
           a == Fat0(h)
           next == Entry(h)
           d == WithEntry(a, h, 0)
           c == [call EXCEPT !.pc = "free_fat1", !.link = next]
<1>1. call.pc = "free_fat0" /\ torn' = torn
  BY DEF FreeFat0
<1>2. h \in 0 .. EOC /\ 0 \in 0 .. EOC /\ torn' \subseteq Files /\ BlockOK /\ call \in CallType
      /\ FALSE \in BOOLEAN /\ last_error \in Errors
  BY <1>1, EocFacts DEF IInv, CallType
<1>3. Freed(D, FALSE) \in FileDescriptor
      /\ (~Freed(D, FALSE).is_free => Freed(D, FALSE).file \in Files)
  BY DType, FreedType
<1>4. ASSUME Updated(a, d), call' = c, UNCHANGED <<desc, last_error>>
      PROVE  IInv' /\ BufferStep
  <2>1. next \in 0 .. EOC
    BY <1>2, <1>4, EntryType DEF Updated
  <2> HIDE DEF next
  <2>2. c \in CallType /\ c.pc \in PlainPlaces /\ c.fd = call.fd
    BY <1>2, <2>1 DEF CallType, Places, PlainPlaces
  <2> HIDE DEF c
  <2> QED
    BY <1>1, <1>2, <1>4, <2>2, EntryWritten DEF Fat0
<1>5. ASSUME \/ Cached(a) /\ UNCHANGED last_error
             \/ CacheFailed(a)
             \/ UpdateFailed(a, d),
             SetDesc(Freed(D, FALSE)), Return(FALSE)
      PROVE  IInv' /\ BufferStep
  <2>1. BlockOK' /\ BufferStep /\ last_error' \in Errors
    <3>1. CASE Cached(a) /\ UNCHANGED last_error
      BY <1>2, <3>1, CachedStep
    <3>2. CASE CacheFailed(a)
      BY <1>2, <3>2, CacheFailedStep
    <3>3. CASE UpdateFailed(a, d)
      BY <1>2, <3>3, EntryNotWritten DEF Fat0
    <3> QED
      BY <1>5, <3>1, <3>2, <3>3
  <2> QED
    BY <1>2, <1>3, <1>5, <2>1, SetAndReturn
<1> QED
  BY <1>4, <1>5 DEF FreeFat0

\* The same in FAT 1.
LEMMA FreeFat1Step ==
    ASSUME IInv, FreeFat1
    PROVE  IInv' /\ BufferStep
<1> DEFINE h == call.head
           c == [call EXCEPT !.pc = "free_fat0", !.head = call.link]
<1>1. call.pc = "free_fat1" /\ torn' = torn
  BY DEF FreeFat1
<1>2. h \in 0 .. EOC /\ 0 \in 0 .. EOC /\ torn' \subseteq Files /\ FALSE \in BOOLEAN
  BY <1>1, EocFacts DEF IInv, CallType
<1>3. Freed(D, FALSE) \in FileDescriptor
      /\ (~Freed(D, FALSE).is_free => Freed(D, FALSE).file \in Files)
  BY DType, FreedType
<1>4. c \in CallType /\ c.pc \in PlainPlaces /\ c.fd = call.fd
  BY DEF IInv, CallType, Places, PlainPlaces
<1> HIDE DEF c, h
<1>5. ASSUME Updated(Fat1(h), WithEntry(Fat1(h), h, 0)), call' = c, UNCHANGED <<desc, last_error>>
      PROVE  IInv' /\ BufferStep
  BY <1>1, <1>2, <1>4, <1>5, EntryWritten DEF Fat1
<1>6. ASSUME UpdateFailed(Fat1(h), WithEntry(Fat1(h), h, 0)), SetDesc(Freed(D, FALSE)), Return(FALSE)
      PROVE  IInv' /\ BufferStep
  <2>1. BlockOK' /\ BufferStep /\ last_error' \in Errors
    BY <1>2, <1>6, EntryNotWritten DEF Fat1
  <2> QED
    BY <1>2, <1>3, <1>6, <2>1, SetAndReturn
<1> QED
  BY <1>5, <1>6 DEF FreeFat1, h, c

\* The whole chain is freed.
LEMMA FreeDoneStep ==
    ASSUME IInv, FreeDone
    PROVE  IInv' /\ BufferStep
<1>1. UNCHANGED blockVars /\ last_error' = last_error /\ torn' = torn
      /\ SetDesc(Freed(D, TRUE)) /\ Return(TRUE) /\ TRUE \in BOOLEAN
  BY DEF FreeDone
<1>2. Freed(D, TRUE) \in FileDescriptor /\ (~Freed(D, TRUE).is_free => Freed(D, TRUE).file \in Files)
  BY DType, FreedType
<1>3. BlockOK' /\ BufferStep /\ last_error' \in Errors /\ torn' \subseteq Files
  BY <1>1, BlocksUnchanged DEF IInv
<1> QED
  BY <1>1, <1>2, <1>3, SetAndReturn

-----------------------------------------------------------------------------
(* fat_seek and fat_seek_end. *)

\* The start of fat_seek_end.
LEMMA SeekEndStep ==
    ASSUME IInv, NEW fd \in Fds, FatSeekEnd(fd)
    PROVE  IInv' /\ BufferStep
<1> DEFINE c == [CallOf("seek", fd, "seek_end") EXCEPT !.off0 = desc[fd].size]
<1>1. Starts(c) /\ UNCHANGED blockVars /\ UNCHANGED desc
  BY DEF FatSeekEnd
<1>2. desc[fd] \in FileDescriptor /\ ~desc[fd].is_free /\ desc[fd].file \in Files
      /\ desc[fd].size \in Nat
  BY DEF FatSeekEnd, Usable, Fresh, IInv, DescOK, FileDescriptor
<1>3. "seek" \in Ops /\ "seek_end" \in Places
  BY DEF Ops, Places
<1>4. CallOf("seek", fd, "seek_end") \in CallType /\ CallOf("seek", fd, "seek_end").fd = fd
      /\ CallOf("seek", fd, "seek_end").pc = "seek_end"
  BY <1>3, CallOfType
<1>5. c \in CallType /\ c.fd = fd /\ c.pc \in PlainPlaces
  BY <1>2, <1>4 DEF CallType, PlainPlaces, Places
<1> HIDE DEF c
<1> QED
  BY <1>1, <1>2, <1>5, StartStep

\* The start of fat_seek.
LEMMA SeekStep ==
    ASSUME IInv, NEW fd \in Fds, NEW offset \in Offsets, FatSeek(fd, offset)
    PROVE  IInv' /\ BufferStep
<1> DEFINE head == desc[fd].cluster_lo
           d == [desc[fd] EXCEPT !.block_addr = FirstBlock(head), !.block_in_cluster = 0,
                                 !.index_in_block = 0, !.cur_cluster = head]
           z == [d EXCEPT !.next_cluster = EOC, !.abs_offset = offset]
           asked(pc) == [CallOf("seek", fd, pc) EXCEPT !.offset = offset, !.off0 = offset]
<1>1. CASE FatSeekEnd(fd)
  BY <1>1, SeekEndStep
<1>2. CASE /\ Usable(fd) /\ UNCHANGED blockVars
           /\ IF head = 0
              THEN desc' = [desc EXCEPT ![fd] = z] /\ Starts(asked("seek"))
              ELSE desc' = [desc EXCEPT ![fd] = d] /\ Starts(asked("seek_begin"))
  <2>1. desc[fd] \in FileDescriptor /\ ~desc[fd].is_free /\ desc[fd].file \in Files
    BY <1>2 DEF Usable, Fresh, IInv, DescOK
  <2>2. head \in 0 .. EOC /\ offset \in Nat /\ EOC \in 0 .. EOC
    BY <2>1, FileAssumption, EocFacts DEF FileDescriptor
  <2>3. d \in FileDescriptor /\ ~d.is_free /\ d.file \in Files
    BY <2>1, <2>2, FirstBlockType DEF FileDescriptor
  <2> HIDE DEF d
  <2>4. z \in FileDescriptor /\ ~z.is_free /\ z.file \in Files
    BY <2>2, <2>3 DEF FileDescriptor
  <2>5. ASSUME NEW pc \in {"seek", "seek_begin"}
        PROVE  asked(pc) \in CallType /\ asked(pc).fd = fd /\ asked(pc).pc \in PlainPlaces
    <3>1. "seek" \in Ops /\ pc \in Places /\ pc \in PlainPlaces
      BY DEF Ops, Places, PlainPlaces
    <3>2. CallOf("seek", fd, pc) \in CallType /\ CallOf("seek", fd, pc).fd = fd
          /\ CallOf("seek", fd, pc).pc = pc
      BY <3>1, CallOfType
    <3> QED
      BY <2>2, <3>1, <3>2 DEF CallType
  <2> HIDE DEF asked, z, head
  <2> QED
    BY <1>2, <2>1, <2>3, <2>4, <2>5, StartStep
<1> QED
  BY <1>1, <1>2 DEF FatSeek

\* The FAT read of seek_begin.
LEMMA SeekBeginStep ==
    ASSUME IInv, SeekBeginReadsFat
    PROVE  IInv' /\ BufferStep
<1> DEFINE ok == [D EXCEPT !.abs_offset = call.offset]
           failed == [D EXCEPT !.abs_offset = 0]
           then == [call EXCEPT !.pc = "seek"]
<1>1. LinkRead(D.cluster_lo, ok, failed, then) /\ UNCHANGED torn /\ call.pc = "seek_begin"
  BY DEF SeekBeginReadsFat
<1>2. D \in FileDescriptor /\ ~D.is_free /\ D.file \in Files /\ D.cluster_lo \in 0 .. EOC
      /\ call.offset \in Nat
  BY <1>1, DType DEF FileDescriptor, IInv, CallType
<1>3. ok \in FileDescriptor /\ ~ok.is_free /\ ok.file \in Files
  BY <1>2 DEF FileDescriptor
<1>4. failed \in FileDescriptor /\ failed.file \in Files
  BY <1>2 DEF FileDescriptor
<1>5. then \in CallType /\ then.pc \in PlainPlaces /\ then.fd = call.fd
  BY DEF IInv, CallType, Places, PlainPlaces
<1> HIDE DEF ok, failed, then
<1> QED
  BY <1>1, <1>2, <1>3, <1>4, <1>5, LinkReadStep

\* Following a link keeps a descriptor well typed.
LEMMA FollowedType ==
    ASSUME NEW d \in FileDescriptor
    PROVE  LET e == [d EXCEPT !.cur_cluster = d.next_cluster] IN
           e \in FileDescriptor /\ e.is_free = d.is_free /\ e.file = d.file
BY DEF FileDescriptor

\* A turn of fat_seek's loop.
LEMMA SeekFollowsStep ==
    ASSUME IInv, SeekFollows
    PROVE  IInv' /\ BufferStep
<1> DEFINE d == [D EXCEPT !.cur_cluster = D.next_cluster]
           b == BytesPerCluster % U16
           then == [call EXCEPT !.offset = @ - b]
<1>1. LinkRead(D.next_cluster, d, d, then) /\ UNCHANGED torn /\ call.pc = "seek"
      /\ call.offset > b
  BY DEF SeekFollows
<1>2. D \in FileDescriptor /\ ~D.is_free /\ D.file \in Files /\ D.next_cluster \in 0 .. EOC
  BY <1>1, DType DEF FileDescriptor
<1>3. d \in FileDescriptor /\ ~d.is_free /\ d.file \in Files
  BY <1>2, FollowedType
<1>4. b \in Nat
  <2>1. BytesPerCluster \in Nat /\ U16 \in Nat /\ U16 > 0
    BY VolumeAssumption DEF BytesPerCluster
  <2> QED
    BY <2>1
<1> HIDE DEF b
<1>5. call.offset - b \in Nat
  BY <1>1, <1>4 DEF IInv, CallType
<1>6. then \in CallType /\ then.pc \in PlainPlaces /\ then.fd = call.fd
  BY <1>1, <1>5 DEF IInv, CallType, Places, PlainPlaces
<1> HIDE DEF d, then
<1> QED
  BY <1>1, <1>2, <1>3, <1>6, LinkReadStep

\* A turn of fat_seek_end's loop.
LEMMA SeekEndFollowsStep ==
    ASSUME IInv, SeekEndFollows
    PROVE  IInv' /\ BufferStep
<1> DEFINE d == [D EXCEPT !.cur_cluster = D.next_cluster]
<1>1. LinkRead(D.next_cluster, d, d, call) /\ UNCHANGED torn /\ call.pc = "seek_end"
  BY DEF SeekEndFollows
<1>2. D \in FileDescriptor /\ ~D.is_free /\ D.file \in Files /\ D.next_cluster \in 0 .. EOC
  BY <1>1, DType DEF FileDescriptor
<1>3. d \in FileDescriptor /\ ~d.is_free /\ d.file \in Files
  BY <1>2, FollowedType
<1>4. call \in CallType /\ call.pc \in PlainPlaces
  BY <1>1 DEF IInv, Places, PlainPlaces
<1> HIDE DEF d
<1> QED
  BY <1>1, <1>2, <1>3, <1>4, LinkReadStep

\* The descriptor placed in its current cluster.
LEMMA PlacedAtType ==
    ASSUME NEW d \in FileDescriptor, NEW offset \in Nat
    PROVE  LET e == PlacedAt(d, offset) IN
           e \in FileDescriptor /\ e.is_free = d.is_free /\ e.file = d.file
<1> DEFINE q == offset \div BlockSize
           r == offset % BlockSize
           b == FirstBlock(d.cur_cluster) + q
<1>1. q \in Nat /\ r \in Nat
  BY VolumeAssumption
<1>2. FirstBlock(d.cur_cluster) \in Int
  BY FirstBlockType DEF FileDescriptor
<1>3. PlacedAt(d, offset) =
        [d EXCEPT !.block_in_cluster = q, !.index_in_block = r, !.block_addr = b]
  BY DEF PlacedAt
<1> HIDE DEF q, r
<1>4. b \in Int
  BY <1>1, <1>2
<1> HIDE DEF b
<1> QED
  BY <1>1, <1>3, <1>4 DEF FileDescriptor

\* The ends of fat_seek and of fat_seek_end.
LEMMA SeekDoneStep ==
    ASSUME IInv, SeekDone \/ SeekEndDone
    PROVE  IInv' /\ BufferStep
<1> DEFINE e == [D EXCEPT !.abs_offset = D.size]
<1>1. UNCHANGED blockVars /\ last_error' = last_error /\ torn' = torn
      /\ Return(TRUE) /\ TRUE \in BOOLEAN
  BY DEF SeekDone, SeekEndDone
<1>2. D \in FileDescriptor /\ (~D.is_free => D.file \in Files) /\ call.offset \in Nat
      /\ D.last_cluster_len \in Nat
  BY DType DEF IInv, CallType, FileDescriptor
<1>3. e \in FileDescriptor /\ e.is_free = D.is_free /\ e.file = D.file
  BY <1>2 DEF FileDescriptor
<1>4. SetDesc(PlacedAt(D, call.offset)) \/ SetDesc(PlacedAt(e, D.last_cluster_len))
  BY DEF SeekDone, SeekEndDone
<1> HIDE DEF e
<1>5. PICK p \in FileDescriptor : SetDesc(p) /\ (~p.is_free => p.file \in Files)
  <2> DEFINE p == PlacedAt(D, call.offset)
             q == PlacedAt(e, D.last_cluster_len)
  <2>1. p \in FileDescriptor /\ (~p.is_free => p.file \in Files)
    BY <1>2, PlacedAtType
  <2>2. q \in FileDescriptor /\ (~q.is_free => q.file \in Files)
    BY <1>2, <1>3, PlacedAtType
  <2>3. SetDesc(p) \/ SetDesc(q)
    BY <1>4
  <2> HIDE DEF p, q
  <2> QED
    BY <2>1, <2>2, <2>3
<1>6. BlockOK' /\ BufferStep /\ last_error' \in Errors /\ torn' \subseteq Files
  BY <1>1, BlocksUnchanged DEF IInv
<1> QED
  BY <1>1, <1>5, <1>6, SetAndReturn

-----------------------------------------------------------------------------
(* fat_mount, a reset, and the end of a call. *)

\* Files with unsaved changes are files.
LEMMA UnsavedFiles ==
    ASSUME IInv
    PROVE  Unsaved \subseteq Files /\ Lengthening \subseteq Files
<1>1. Unsaved \subseteq Files
  BY DEF Unsaved, Fresh, IInv, DescOK
<1>2. ASSUME call.op = "write", call.pc # "return", call.pc # "idle" PROVE D.file \in Files
  BY <1>2, DType
<1>3. ASSUME call.op = "write", call.link # 0, call.pc # "return" PROVE D.file \in Files
  <2>1. CASE call.pc = "idle"
    BY <1>3, <2>1 DEF IInv, Resting, IdleCall
  <2> QED
    BY <1>2, <1>3, <2>1
<1> QED
  BY <1>1, <1>3 DEF Lengthening

\* fat_mount.
LEMMA FatMountStep ==
    ASSUME IInv, FatMount
    PROVE  IInv' /\ BufferStep
<1>1. DescOK'
  <2>1. desc' = [fd \in Fds |-> IF desc[fd].is_free THEN desc[fd]
                                ELSE [desc[fd] EXCEPT !.is_stale = TRUE]]
    BY DEF FatMount
  <2>2. ASSUME NEW fd \in Fds
        PROVE  /\ desc'[fd] \in FileDescriptor
               /\ ~desc'[fd].is_free => desc'[fd].file \in Files
    <3> DEFINE d == desc[fd]
               e == [d EXCEPT !.is_stale = TRUE]
    <3>1. d \in FileDescriptor /\ (~d.is_free => d.file \in Files)
      BY DEF IInv, DescOK
    <3>2. desc'[fd] = IF d.is_free THEN d ELSE e
      BY <2>1
    <3> HIDE DEF d
    <3>3. e \in FileDescriptor /\ e.is_free = d.is_free /\ e.file = d.file
      BY <3>1 DEF FileDescriptor
    <3> HIDE DEF e
    <3> QED
      BY <3>1, <3>2, <3>3
  <2> QED
    BY <2>1, <2>2 DEF DescOK
<1>2. torn' \subseteq Files
  BY UnsavedFiles DEF FatMount, IInv
<1>3. "mount" \in Ops /\ 0 \in Fds /\ FALSE \in BOOLEAN
  BY FileAssumption DEF Ops
<1>4. CASE /\ MountReads(BootBlock)
           /\ call' = CallOf("mount", 0, "return")
           /\ UNCHANGED last_error
  BY <1>1, <1>2, <1>3, <1>4, MountStep, ShortCallTrue DEF IInv
<1>5. ASSUME NEW r \in CardReadErrors, MountStops(r),
             call' = [CallOf("mount", 0, "return") EXCEPT !.ret = FALSE],
             last_error' = FatError(r)
      PROVE  IInv' /\ BufferStep
  <2>1. BlockOK' /\ BufferStep /\ last_error' \in Errors
    BY <1>5, MountStep, FatErrorType DEF IInv
  <2> QED
    BY <1>1, <1>2, <1>3, <1>5, <2>1, ShortCallStep
<1> QED
  BY <1>4, <1>5 DEF FatMount

\* The invariant when no call is in progress.
LEMMA IdleStep ==
    ASSUME call' = IdleCall, last_error' = "OK", BlockOK', DescOK', torn' \subseteq Files
    PROVE  IInv'
<1>1. IdleCall \in CallType /\ IdleCall.pc = "idle"
  BY EocFacts, VolumeAssumption, FileAssumption DEF IdleCall, CallType, Places, Ops
<1>2. Running' /\ Mirroring' /\ Counting' /\ Resting'
  BY <1>1 DEF Running, Mirroring, Counting, Resting
<1> QED
  BY <1>1, <1>2 DEF IInv, Errors

\* A reset.
LEMMA FatInitStep ==
    ASSUME IInv, FatInit
    PROVE  IInv' /\ BufferStep
<1>1. DescOK'
  BY FreeDescType DEF FatInit, DescOK
<1>2. torn' \subseteq Files
  BY UnsavedFiles DEF FatInit, IInv
<1>3. BlockOK' /\ BufferStep
  BY MountStep DEF FatInit, IInv
<1> QED
  BY <1>1, <1>2, <1>3, IdleStep DEF FatInit

\* The program looks at the result.
LEMMA ReturnedStep ==
    ASSUME IInv, Returned
    PROVE  IInv' /\ BufferStep
<1>1. UNCHANGED blockVars /\ desc' = desc /\ torn' = torn
  BY DEF Returned
<1>2. BlockOK' /\ BufferStep
  BY <1>1, BlocksUnchanged DEF IInv
<1>3. DescOK' /\ torn' \subseteq Files
  BY <1>1 DEF IInv, DescOK
<1> QED
  BY <1>2, <1>3, IdleStep DEF Returned

-----------------------------------------------------------------------------
\* Every step of the file layer keeps the invariant and is a step of the buffer's
\* specification.
LEMMA NextIInv == IInv /\ [Next]_vars => IInv' /\ BufferStep
<1>1. ASSUME IInv, ProgramCalls PROVE IInv' /\ BufferStep
  BY <1>1, OpenStep, OpenFailsStep, CloseStep, RefusesStep, ActionStep, TruncateStep,
     SeekEndStep, SeekStep, FatMountStep
  DEF ProgramCalls
<1>2. ASSUME IInv, CallStep PROVE IInv' /\ BufferStep
  BY <1>2, OpenReadsStep, ActionDoneStep, ActionAllocatesStep, ActionAtEndStep,
     ActionMovesStep, ActionFailsStep, AdvanceStep, AllocMarksStep, AllocFindsNothingStep,
     AllocMirrorsStep, ParentLinksStep, ParentMirrorsStep, FindParentStep, CutNothingStep,
     CutFat0Step, CutFat1Step, FreeFat0Step, FreeFat1Step, FreeDoneStep, SeekBeginStep,
     SeekFollowsStep, SeekDoneStep, SeekEndFollowsStep, ReturnedStep
  DEF CallStep
<1>3. ASSUME IInv, UNCHANGED vars PROVE IInv' /\ BufferStep
  <2>1. UNCHANGED <<blockVars, desc, last_error, torn>> /\ call' = call
        /\ cache_block_addr' = cache_block_addr
    BY <1>3 DEF vars, blockVars
  <2>2. BlockOK' /\ BufferStep /\ DescOK' /\ last_error' \in Errors /\ torn' \subseteq Files
    BY <1>3, <2>1, CallOnlyStep
  <2>3. Running' /\ Mirroring' /\ Counting' /\ Resting' /\ call' \in CallType
    BY <1>3, <2>1 DEF IInv, Running, Mirroring, Counting, Resting, D
  <2> QED
    BY <2>2, <2>3 DEF IInv
<1> QED
  BY <1>1, <1>2, <1>3, FatInitStep DEF Next

\* The freshly formatted volume.
LEMMA FormattedType ==
    /\ FormattedVolume \in [VolumeBlocks -> BlockData]
    /\ \A a \in VolumeBlocks : FormattedVolume[a] \in ContentOf(a)
<1>1. ASSUME NEW a \in VolumeBlocks PROVE FormattedVolume[a] \in ContentOf(a)
  <2>1. CASE a \in FatBlocks
    <3>1. EmptySector(a[2]) \in [SectorEntries(a[2]) -> 0 .. EOC]
      BY EocFacts DEF EmptySector
    <3> QED
      BY <2>1, <3>1 DEF FormattedVolume, ContentOf
  <2>2. CASE a \notin FatBlocks
    BY <2>2, EocFacts DEF FormattedVolume, ContentOf, DirEntry
  <2> QED
    BY <2>1, <2>2
<1>2. \A a \in VolumeBlocks : FormattedVolume[a] \in BlockData
  BY <1>1, ContentIsData
<1>3. FormattedVolume = [a \in VolumeBlocks |-> FormattedVolume[a]]
  BY DEF FormattedVolume
<1> QED
  BY <1>1, <1>2, <1>3

\* The initial states satisfy the invariant and are initial for the buffer.
LEMMA InitIInv == Init => IInv /\ BC!Init
<1> SUFFICES ASSUME Init PROVE IInv /\ BC!Init
  OBVIOUS
<1>1. BlockOK
  BY FormattedType, FileAssumption DEF Init, BlockOK, Volume
<1>2. DescOK
  BY FreeDescType DEF Init, DescOK
<1>3. IdleCall \in CallType /\ IdleCall.pc = "idle"
  BY EocFacts, VolumeAssumption, FileAssumption DEF IdleCall, CallType, Places, Ops
<1>4. Running /\ Mirroring /\ Counting /\ Resting
  BY <1>3 DEF Init, Running, Mirroring, Counting, Resting
<1>5. BC!Init
  BY <1>1 DEF BC!Init, Init, BlockOK
<1> QED
  BY <1>1, <1>2, <1>3, <1>4, <1>5 DEF IInv, Init, Errors

\* The inductive invariant holds in every reachable state, through every card
\* error, remount and reset.
THEOREM SpecIInv == Spec => []IInv
<1>1. Init => IInv
  BY InitIInv
<1>2. IInv /\ [Next]_vars => IInv'
  BY NextIInv
<1> QED
  BY <1>1, <1>2, PTL DEF Spec

\* fat.c: the state of the file layer is well typed for every geometry of the
\* volume: in particular no call reads a FAT sector, a directory or data as
\* something else, and what alloc_cluster copies to the other FAT is a FAT sector.
THEOREM TypeCorrect == Spec => []TypeOK
<1>1. IInv => TypeOK
  BY DEF IInv, TypeOK, BlockOK, DescOK, CallType
<1> QED
  BY <1>1, SpecIInv, PTL

\* fat.c:64: the file layer uses the buffer only as BlockCache specifies, so that
\* what BlockCacheProofs proves of the buffer holds for the whole library.
THEOREM BufferUsedAsSpecified == Spec => UsesBlockCache
<1>1. Init => BC!Init
  BY InitIInv
<1>2. IInv /\ [Next]_vars => [BC!Next]_(BC!vars)
  BY NextIInv DEF BufferStep
<1> QED
  BY <1>1, <1>2, SpecIInv, PTL DEF Spec, UsesBlockCache, BC!Spec

-----------------------------------------------------------------------------
(***************************************************************************)
(* The chains.                                                             *)
(***************************************************************************)

\* The program does not seek to a cluster boundary inside a file and does not go
\* on with a file it has emptied (the two things fat.c gets wrong), and the bytes
\* of a cluster can be counted in 16 bits.
Disciplined ==
    /\ "seek_boundary" \notin Usage /\ "use_emptied" \notin Usage
    /\ BytesPerCluster < U16

-----------------------------------------------------------------------------
(***************************************************************************)
(* A FAT: its first copy p and its second copy q, as functions from all    *)
(* cluster numbers to entries, and the files' chains.                      *)
(***************************************************************************)
Fat(copy) == [c \in Entries |-> FatEntry(Volume, copy, c)]

Tables == [Entries -> 0 .. EOC]

Chains == [Files -> Seq(Clusters)]

\* The entry of b, in one of the copies at least, is k.
Linked(p, q, b, k) == p[b] = k \/ q[b] = k

\* The FAT is a set of chains whichever copy of each entry one reads.
LinksSound(p, q) ==
    /\ \A c \in Entries : p[c] \in {0, EOC} \cup Clusters /\ q[c] \in {0, EOC} \cup Clusters
    /\ \A c \in {0, 1} : p[c] = EOC /\ q[c] = EOC
    /\ \A b \in Entries, k \in Clusters : Linked(p, q, b, k) => p[k] # 0 /\ q[k] # 0
    /\ \A b, c \in Entries, k \in Clusters :
           Linked(p, q, b, k) /\ Linked(p, q, c, k) => b = c

ChainsDisjoint(chain) ==
    \A f, g \in Files : \A i \in 1 .. Len(chain[f]), j \in 1 .. Len(chain[g]) :
        chain[f][i] = chain[g][j] => f = g /\ i = j

\* The entry of the k-th cluster of a chain.
NextIn(ch, k) == IF k < Len(ch) THEN ch[k + 1] ELSE EOC

\* Both copies link the chains; the second one not yet at the excused clusters.
ChainsLinked(p, q, chain, excused) ==
    \A f \in Files : \A k \in 1 .. Len(chain[f]) :
        /\ p[chain[f][k]] = NextIn(chain[f], k)
        /\ chain[f][k] \notin excused => q[chain[f][k]] = NextIn(chain[f], k)

\* Nothing links to the first cluster of a chain.
HeadsFree(p, q, chain) ==
    \A f \in Files : Len(chain[f]) > 0 => \A b \in Entries : ~Linked(p, q, b, chain[f][1])

Sound(p, q, chain, excused) ==
    /\ LinksSound(p, q)
    /\ ChainsDisjoint(chain)
    /\ ChainsLinked(p, q, chain, excused)
    /\ HeadsFree(p, q, chain)

InChains(chain, c) == \E f \in Files : \E k \in 1 .. Len(chain[f]) : chain[f][k] = c

\* A cluster that is in no chain and to which only entries in `by' link.
Loose(p, q, chain, c, by) ==
    /\ c \in Clusters /\ ~InChains(chain, c)
    /\ \A b \in Entries : Linked(p, q, b, c) => b \in by

\* The entries of sector s as in one copy of the FAT, the others as in another.
Merged(into, from, s) ==
    [c \in Entries |-> IF SectorOf(c) = s THEN from[c] ELSE into[c]]

-----------------------------------------------------------------------------
(***************************************************************************)
(* A file: its chain ch, its directory entry e on the card, and its        *)
(* descriptor d.                                                           *)
(***************************************************************************)
\* The offset of the first byte of the k-th cluster, and the bytes of n blocks.
Base(k) == (k - 1) * BytesPerCluster
Span(n) == n * BlockSize

\* The entry's size needs exactly the clusters of the chain.
EntryFits(e, ch) ==
    IF Len(ch) = 0 THEN e.cluster_lo = 0 /\ e.size = 0
    ELSE e.cluster_lo = ch[1] /\ Base(Len(ch)) < e.size /\ e.size <= Base(Len(ch) + 1)

\* The size, the first cluster and the length of the last one.
Extent(d, ch) ==
    IF Len(ch) = 0
    THEN /\ d.cluster_lo = 0 /\ d.size = 0
         /\ d.dir_entry_modified \/ d.last_cluster_len = 0
    ELSE /\ d.cluster_lo = ch[1]
         /\ d.size = Base(Len(ch)) + d.last_cluster_len
         /\ d.last_cluster_len <= BytesPerCluster

Saved(d, e) ==
    ~d.dir_entry_modified => e.cluster_lo = d.cluster_lo /\ e.size = d.size

\* The cursor in its cluster, or behind the last block of it.
Placed(d) ==
    /\ d.block_in_cluster <= SectorsPerCluster /\ d.index_in_block < BlockSize
    /\ IF d.block_in_cluster = SectorsPerCluster THEN d.index_in_block = 0
       ELSE d.block_addr = FirstBlock(d.cur_cluster) + d.block_in_cluster

\* The cursor is in the k-th cluster.
Standing(d, ch, k) ==
    /\ d.cur_cluster = ch[k] /\ Placed(d)
    /\ d.abs_offset = Base(k) + Span(d.block_in_cluster) + d.index_in_block

Cursor(d, ch, k) ==
    /\ Standing(d, ch, k)
    /\ d.next_cluster = NextIn(ch, k)
    /\ d.block_in_cluster = SectorsPerCluster => d.next_cluster = EOC

CursorEmpty(d) ==
    /\ d.cur_cluster = 0 /\ d.next_cluster = EOC
    /\ d.abs_offset = 0 /\ d.block_in_cluster = 0 /\ d.index_in_block = 0

Sane(d, ch, e) ==
    /\ Extent(d, ch) /\ Saved(d, e) /\ d.abs_offset <= d.size
    /\ IF Len(ch) = 0 THEN CursorEmpty(d) ELSE \E k \in 1 .. Len(ch) : Cursor(d, ch, k)

\* The last cluster has a byte at least.
Filled(d, ch) == Len(ch) > 0 => d.last_cluster_len > 0

\* A descriptor between calls.
Settle(d, ch, e) == Sane(d, ch, e) /\ Filled(d, ch)

-----------------------------------------------------------------------------
(* The descriptor of the running call c, at each place of the call.        *)

\* A write that has just got a cluster has not put a byte there yet.
AtLoop(d, c, ch, e) ==
    /\ Sane(d, ch, e)
    /\ ~Filled(d, ch) =>
         /\ c.op = "write" /\ c.len # 0 /\ d.cur_cluster = ch[Len(ch)]
         /\ d.dir_entry_modified \/ c.link # 0
    /\ d.abs_offset = c.off0 + c.result
    /\ ~Emptied(d)

AtAdvance(d, c, ch, e) ==
    /\ Extent(d, ch) /\ Saved(d, e) /\ Filled(d, ch) /\ d.abs_offset <= d.size
    /\ \E k \in 2 .. Len(ch) :
         /\ d.cur_cluster = ch[k] /\ d.abs_offset = Base(k)
         /\ d.index_in_block = 0 /\ d.block_addr = FirstBlock(ch[k])
    /\ d.abs_offset = c.off0 + c.result + c.chunk

AtAlloc(d, c, ch, e) ==
    /\ Settle(d, ch, e) /\ NeedsCluster(d) /\ ~Emptied(d)
    /\ c.link = d.cur_cluster
    /\ d.abs_offset = c.off0 + c.result
    /\ c.op = "write" /\ c.len # 0

AtOpen(d, ch, e) ==
    /\ Len(ch) > 0 /\ Extent(d, ch) /\ Saved(d, e) /\ Filled(d, ch)
    /\ d.abs_offset = 0 /\ d.block_in_cluster = 0 /\ d.index_in_block = 0
    /\ d.cur_cluster = ch[1] /\ d.block_addr = FirstBlock(ch[1])

\* The size is already the offset, the chain still the old one.
Cutting(d, ch) ==
    d.cluster_lo = ch[1] /\ d.dir_entry_modified /\ d.size = d.abs_offset

AtCut(d, ch, k) == Cutting(d, ch) /\ Standing(d, ch, k) /\ Base(k) < d.abs_offset

AtFindParent(d, c, ch) ==
    \E k \in 2 .. Len(ch), j \in 1 .. Len(ch) :
        /\ j < k /\ c.head = ch[j]
        /\ Cutting(d, ch)
        /\ d.cur_cluster = ch[k]
        /\ d.block_in_cluster = 0 /\ d.index_in_block = 0
        /\ d.abs_offset = Base(k)

AtFree(d, ch) ==
    IF Len(ch) > 0 THEN AtCut(d, ch, Len(ch))
    ELSE /\ d.cluster_lo = 0 /\ d.size = 0 /\ d.abs_offset = 0 /\ d.dir_entry_modified
         /\ d.block_in_cluster = 0 /\ d.index_in_block = 0

\* Behind the first cluster only the end of the file lies on a boundary.
OffBoundary(offset, size) ==
    \A j \in Nat : j > 1 /\ offset = Base(j) => offset = size

AtSeek(d, c, ch, e) ==
    /\ Extent(d, ch) /\ Saved(d, e) /\ Filled(d, ch)
    /\ IF Len(ch) = 0 THEN CursorEmpty(d) /\ c.offset = 0
       ELSE /\ d.abs_offset <= d.size /\ OffBoundary(d.abs_offset, d.size)
            /\ \E k \in 1 .. Len(ch) :
                 /\ d.cur_cluster = ch[k] /\ d.next_cluster = NextIn(ch, k)
                 /\ d.abs_offset = Base(k) + c.offset

AtSeekBegin(d, c, ch, e) ==
    /\ Len(ch) > 0 /\ Extent(d, ch) /\ Saved(d, e) /\ Filled(d, ch)
    /\ d.cur_cluster = ch[1]
    /\ c.offset <= d.size /\ OffBoundary(c.offset, d.size)

AtSeekEnd(d, ch, e) ==
    /\ Extent(d, ch) /\ Saved(d, e) /\ Filled(d, ch) /\ ~Emptied(d)
    /\ IF Len(ch) = 0 THEN CursorEmpty(d)
       ELSE \E k \in 1 .. Len(ch) :
              d.cur_cluster = ch[k] /\ d.next_cluster = NextIn(ch, k)

\* The places of fat_open_file, fat_truncate, fat_seek and fat_seek_end.
NoTransfer == {"open", "find_parent", "cut_fat0", "cut_fat1", "free_fat0", "free_fat1",
               "seek_begin", "seek", "seek_end"}

Working(d, c, ch, e) ==
    /\ c.pc \in NoTransfer => c.op \notin {"read", "write"}
    /\ c.pc = "loop" => AtLoop(d, c, ch, e)
    /\ c.pc = "advance" => AtAdvance(d, c, ch, e)
    /\ c.pc \in {"alloc", "alloc_fat1", "parent_fat1", "parent_fat0"} => AtAlloc(d, c, ch, e)
    /\ c.pc = "open" => AtOpen(d, ch, e)
    /\ c.pc = "find_parent" => AtFindParent(d, c, ch)
    /\ c.pc = "cut_fat0" =>
         \E k \in 1 .. Len(ch) : AtCut(d, ch, k) /\ d.next_cluster = NextIn(ch, k)
    /\ c.pc \in {"cut_fat1", "free_fat0", "free_fat1"} => AtFree(d, ch)
    /\ c.pc = "seek_begin" => AtSeekBegin(d, c, ch, e)
    /\ c.pc = "seek" => AtSeek(d, c, ch, e)
    /\ c.pc = "seek_end" => AtSeekEnd(d, ch, e)
    /\ c.pc = "return" /\ c.op \in {"read", "write"} => d.abs_offset = c.off0 + c.result

\* A cluster on its way into a chain or out of one.
Handling(d, c, p, q, chain) ==
    /\ c.pc = "alloc_fat1" =>
         /\ Loose(p, q, chain, c.head, {}) /\ p[c.head] = EOC
         /\ c.sector = SectorOf(c.head)
    /\ c.pc = "parent_fat1" =>
         /\ Loose(p, q, chain, c.head, {}) /\ p[c.head] = EOC /\ q[c.head] = EOC
         /\ c.link # 0
    /\ c.pc = "parent_fat0" =>
         /\ Loose(p, q, chain, c.head, {c.link}) /\ p[c.head] = EOC /\ q[c.head] = EOC
         /\ c.link # 0 /\ q[c.link] = c.head
    /\ c.pc = "cut_fat1" =>
         /\ Len(chain[d.file]) > 0
         /\ Loose(p, q, chain, d.next_cluster, {d.cur_cluster}) /\ p[d.next_cluster] # 0
    /\ c.pc = "free_fat0" /\ c.head # EOC =>
         Loose(p, q, chain, c.head, {}) /\ p[c.head] # 0
    /\ c.pc = "free_fat1" =>
         /\ Loose(p, q, chain, c.head, {}) /\ p[c.head] = 0
         /\ c.link # EOC => Loose(p, q, chain, c.link, {c.head}) /\ p[c.link] # 0

\* The cluster whose entry the running call has still to write in the second copy.
Excused(d, c) ==
    IF c.pc = "parent_fat0" THEN {c.link}
    ELSE IF c.pc = "cut_fat1" THEN {d.cur_cluster} ELSE {}

-----------------------------------------------------------------------------
(***************************************************************************)
(* The invariant of the whole layer.                                       *)
(***************************************************************************)
Dir == Volume[DirBlock]

\* The directory on the card fits the chains, but for the files whose state is
\* in a descriptor.
DirSound(chain) ==
    \A f \in Files :
        f \notin torn /\ f \notin Unsaved /\ (ready => f \notin OpenFiles) =>
            EntryFits(Dir[f], chain[f])

\* A file has one descriptor.
Alone ==
    \A fd, ge \in Fds :
        Fresh(fd) /\ Fresh(ge) /\ desc[fd].file = desc[ge].file => fd = ge

Quiet(fd) == fd # call.fd \/ call.pc \in {"idle", "return"}

DescsSound(chain) ==
    \A fd \in Fds :
        Fresh(fd) /\ Quiet(fd) =>
            Settle(desc[fd], chain[desc[fd].file], Dir[desc[fd].file])

\* While the card answers, the buffer holds what the card holds.
BufferCoherent ==
    ready /\ cache_block_addr \in VolumeBlocks => cache_block = Volume[cache_block_addr]

MidWrite == {"alloc_fat1", "parent_fat1", "parent_fat0", "cut_fat1", "free_fat1"}

\* What holds of a running call also when the card does not answer any more.
Always ==
    /\ call.pc \notin {"idle", "return"} => Fresh(call.fd)
    /\ call.pc \in MidWrite => ready
    /\ call.pc = "open" => ~D.dir_entry_modified

CallSound(chain) ==
    LET f == D.file IN
    /\ Fresh(call.fd) => Working(D, call, chain[f], Dir[f])
    /\ Handling(D, call, Fat("fat0"), Fat("fat1"), chain)

ChainInv(chain) ==
    /\ Sound(Fat("fat0"), Fat("fat1"), chain, Excused(D, call))
    /\ DirSound(chain)
    /\ Alone /\ BufferCoherent /\ Always
    /\ ready => DescsSound(chain) /\ CallSound(chain)

-----------------------------------------------------------------------------
\* Clusters are cluster numbers, and neither free nor an end of a chain.
LEMMA ClusterFacts ==
    /\ Clusters \subseteq Entries /\ Entries \subseteq 0 .. EOC
    /\ 0 \notin Clusters /\ EOC \notin Clusters /\ EOC \notin Entries /\ EOC # 0
    /\ 0 \in Entries /\ 1 \in Entries /\ EOC \in Nat
    /\ \A c \in Entries : c \in Clusters \/ c \in {0, 1}
BY EocFacts DEF Clusters, Entries

\* The two reserved entries are not clusters.
LEMMA ReservedFacts == \A c \in Clusters : c # 0 /\ c # 1
BY DEF Clusters

\* A free entry that becomes an end of a chain (alloc_cluster in FAT 0).
LEMMA SoundMarked ==
    ASSUME NEW p \in Tables, NEW q \in Tables, NEW chain \in Chains,
           Sound(p, q, chain, {}), NEW c \in Entries, p[c] = 0
    PROVE  LET p2 == [p EXCEPT ![c] = EOC] IN
           Sound(p2, q, chain, {}) /\ Loose(p2, q, chain, c, {})
<1> DEFINE p2 == [p EXCEPT ![c] = EOC]
<1>1. c \in Clusters
  BY ClusterFacts DEF Sound, LinksSound
<1>2. \A b \in Entries : p2[b] = IF b = c THEN EOC ELSE p[b]
  BY DEF Tables
<1> HIDE DEF p2
<1>3. \A b \in Entries, k \in Clusters : Linked(p2, q, b, k) => Linked(p, q, b, k)
  BY <1>2, ClusterFacts DEF Linked
<1>4. LinksSound(p2, q)
  <2>1. \A b \in Entries : p2[b] \in {0, EOC} \cup Clusters /\ q[b] \in {0, EOC} \cup Clusters
    BY <1>2 DEF Sound, LinksSound
  <2>2. \A b \in {0, 1} : p2[b] = EOC /\ q[b] = EOC
    BY <1>2, ClusterFacts DEF Sound, LinksSound
  <2>3. \A b \in Entries, k \in Clusters : Linked(p2, q, b, k) => p2[k] # 0 /\ q[k] # 0
    BY <1>2, <1>3, ClusterFacts DEF Sound, LinksSound
  <2>4. \A b, d \in Entries, k \in Clusters :
           Linked(p2, q, b, k) /\ Linked(p2, q, d, k) => b = d
    BY <1>3 DEF Sound, LinksSound
  <2> QED
    BY <2>1, <2>2, <2>3, <2>4 DEF LinksSound
<1>5. ASSUME NEW f \in Files, NEW k \in 1 .. Len(chain[f])
      PROVE  chain[f][k] \in Clusters /\ p[chain[f][k]] # 0 /\ chain[f][k] # c
  <2>1. chain[f] \in Seq(Clusters)
    BY DEF Chains
  <2>2. chain[f][k] \in Clusters /\ (k < Len(chain[f]) => chain[f][k + 1] \in Clusters)
    BY <2>1
  <2>3. p[chain[f][k]] = NextIn(chain[f], k)
    BY DEF Sound, ChainsLinked
  <2> QED
    BY <2>2, <2>3, ClusterFacts DEF NextIn
<1>6. ChainsLinked(p2, q, chain, {})
  BY <1>2, <1>5, ClusterFacts, ZenonT(40) DEF Sound, ChainsLinked
<1>7. HeadsFree(p2, q, chain)
  <2>1. ASSUME NEW f \in Files, Len(chain[f]) > 0, NEW b \in Entries
        PROVE  ~Linked(p2, q, b, chain[f][1])
    <3>1. chain[f] \in Seq(Clusters)
      BY DEF Chains
    <3>2. chain[f][1] \in Clusters
      BY <2>1, <3>1
    <3> QED
      BY <1>3, <2>1, <3>2 DEF Sound, HeadsFree
  <2> QED
    BY <2>1 DEF HeadsFree
<1>8. Loose(p2, q, chain, c, {})
  BY <1>1, <1>3, <1>5 DEF Loose, InChains, Sound, LinksSound
<1> QED
  BY <1>4, <1>6, <1>7, <1>8 DEF Sound, p2

\* The clusters of a chain and what follows them.
LEMMA ChainFacts ==
    ASSUME NEW chain \in Chains, NEW f \in Files
    PROVE  /\ chain[f] \in Seq(Clusters) /\ Len(chain[f]) \in Nat
           /\ \A k \in 1 .. Len(chain[f]) :
                  /\ chain[f][k] \in Clusters /\ chain[f][k] \in Entries
                  /\ NextIn(chain[f], k) \in Clusters \cup {EOC}
                  /\ k < Len(chain[f]) =>
                         k + 1 \in 1 .. Len(chain[f]) /\ NextIn(chain[f], k) = chain[f][k + 1]
                  /\ k = Len(chain[f]) => NextIn(chain[f], k) = EOC
<1>1. chain[f] \in Seq(Clusters)
  BY DEF Chains
<1>2. Len(chain[f]) \in Nat /\ \A k \in 1 .. Len(chain[f]) : chain[f][k] \in Clusters
  BY <1>1
<1>3. \A k \in 1 .. Len(chain[f]) : k < Len(chain[f]) => k + 1 \in 1 .. Len(chain[f])
  BY <1>2
<1> QED
  BY <1>1, <1>2, <1>3, ClusterFacts DEF NextIn

\* Every cluster of a chain is allocated in the first copy.
LEMMA ChainLinks ==
    ASSUME NEW p \in Tables, NEW q \in Tables, NEW chain \in Chains, NEW exc,
           Sound(p, q, chain, exc), NEW f \in Files, NEW k \in 1 .. Len(chain[f])
    PROVE  /\ p[chain[f][k]] = NextIn(chain[f], k) /\ p[chain[f][k]] # 0
           /\ k < Len(chain[f]) => p[chain[f][k]] = chain[f][k + 1]
           /\ chain[f][k] \notin exc => q[chain[f][k]] = NextIn(chain[f], k)
<1>1. /\ p[chain[f][k]] = NextIn(chain[f], k)
      /\ chain[f][k] \notin exc => q[chain[f][k]] = NextIn(chain[f], k)
  BY DEF Sound, ChainsLinked
<1> QED
  BY <1>1, ChainFacts, ClusterFacts

\* Writes that add no link and free no cluster that is linked keep a FAT sound.
LEMMA FewerLinks ==
    ASSUME NEW p \in Tables, NEW q \in Tables, LinksSound(p, q),
           NEW p2 \in Tables, NEW q2 \in Tables,
           \A c \in Entries : p2[c] \in {0, EOC, p[c], q[c]} /\ q2[c] \in {0, EOC, p[c], q[c]},
           \A c \in {0, 1} : p2[c] = EOC /\ q2[c] = EOC,
           \A k \in Clusters :
               (\E b \in Entries : Linked(p2, q2, b, k)) => p2[k] # 0 /\ q2[k] # 0
    PROVE  /\ LinksSound(p2, q2)
           /\ \A b \in Entries, k \in Clusters : Linked(p2, q2, b, k) => Linked(p, q, b, k)
<1>1. \A b \in Entries, k \in Clusters : Linked(p2, q2, b, k) => Linked(p, q, b, k)
  BY ClusterFacts DEF Linked
<1>2. \A c \in Entries : p2[c] \in {0, EOC} \cup Clusters /\ q2[c] \in {0, EOC} \cup Clusters
  BY DEF LinksSound
<1>3. \A b \in Entries, k \in Clusters : Linked(p2, q2, b, k) => p2[k] # 0 /\ q2[k] # 0
  OBVIOUS
<1>4. \A b, c \in Entries, k \in Clusters :
          Linked(p2, q2, b, k) /\ Linked(p2, q2, c, k) => b = c
  BY <1>1 DEF LinksSound
<1> QED
  BY <1>1, <1>2, <1>3, <1>4 DEF LinksSound

\* With fewer links the first clusters of the chains stay first.
LEMMA HeadsStay ==
    ASSUME NEW p \in Tables, NEW q \in Tables, NEW chain \in Chains,
           NEW p2 \in Tables, NEW q2 \in Tables, HeadsFree(p, q, chain),
           \A b \in Entries, k \in Clusters : Linked(p2, q2, b, k) => Linked(p, q, b, k)
    PROVE  HeadsFree(p2, q2, chain)
<1>1. ASSUME NEW f \in Files, Len(chain[f]) > 0, NEW b \in Entries
      PROVE  ~Linked(p2, q2, b, chain[f][1])
  <2>1. 1 \in 1 .. Len(chain[f])
    BY <1>1, ChainFacts
  <2>2. chain[f][1] \in Clusters
    BY <2>1, ChainFacts
  <2> QED
    BY <1>1, <2>2 DEF HeadsFree
<1> QED
  BY <1>1 DEF HeadsFree

\* A chain is forgotten: the file is torn, or its entry not on the card yet.
LEMMA SoundDropped ==
    ASSUME NEW p \in Tables, NEW q \in Tables, NEW chain \in Chains, NEW exc,
           Sound(p, q, chain, exc), NEW f \in Files,
           \A c \in exc : \E k \in 1 .. Len(chain[f]) : chain[f][k] = c
    PROVE  LET chain2 == [chain EXCEPT ![f] = <<>>] IN
           chain2 \in Chains /\ Sound(p, q, chain2, {})
<1> DEFINE chain2 == [chain EXCEPT ![f] = <<>>]
<1>1. /\ chain2 \in Chains /\ Len(chain2[f]) = 0
      /\ \A g \in Files : g # f => chain2[g] = chain[g]
  BY DEF Chains
<1> HIDE DEF chain2
<1>2. \A g \in Files : \A k \in 1 .. Len(chain2[g]) :
          g # f /\ chain2[g] = chain[g] /\ k \in 1 .. Len(chain[g])
  BY <1>1
<1>3. ChainsDisjoint(chain2)
  <2>1. ASSUME NEW g \in Files, NEW h \in Files,
               NEW i \in 1 .. Len(chain2[g]), NEW j \in 1 .. Len(chain2[h]),
               chain2[g][i] = chain2[h][j]
        PROVE  g = h /\ i = j
    BY <1>2, <2>1 DEF Sound, ChainsDisjoint
  <2> QED
    BY <2>1 DEF ChainsDisjoint
<1>4. ChainsLinked(p, q, chain2, {})
  <2>1. ASSUME NEW g \in Files, NEW k \in 1 .. Len(chain2[g])
        PROVE  /\ p[chain2[g][k]] = NextIn(chain2[g], k)
               /\ q[chain2[g][k]] = NextIn(chain2[g], k)
    <3>1. g # f /\ chain2[g] = chain[g] /\ k \in 1 .. Len(chain[g])
      BY <1>2
    <3>2. chain[g][k] \notin exc
      BY <3>1 DEF Sound, ChainsDisjoint
    <3> QED
      BY <3>1, <3>2 DEF Sound, ChainsLinked
  <2> QED
    BY <2>1 DEF ChainsLinked
<1>5. HeadsFree(p, q, chain2)
  <2>1. ASSUME NEW g \in Files, Len(chain2[g]) > 0
        PROVE  chain2[g] = chain[g]
    BY <1>1, <2>1
  <2> QED
    BY <2>1 DEF HeadsFree, Sound
<1> QED
  BY <1>1, <1>3, <1>4, <1>5 DEF Sound, chain2

\* A sector of the first copy is written to the second one (alloc_cluster).
LEMMA SoundMirrored ==
    ASSUME NEW p \in Tables, NEW q \in Tables, NEW chain \in Chains,
           Sound(p, q, chain, {}), NEW s
    PROVE  LET q2 == Merged(q, p, s) IN
           /\ q2 \in Tables /\ Sound(p, q2, chain, {})
           /\ \A c, by : Loose(p, q, chain, c, by) => Loose(p, q2, chain, c, by)
<1> DEFINE q2 == Merged(q, p, s)
<1>1. q2 \in Tables /\ \A c \in Entries : q2[c] \in {p[c], q[c]}
  BY DEF Merged, Tables
<1> HIDE DEF q2
<1>2. \A b \in Entries, k \in Clusters : Linked(p, q2, b, k) => Linked(p, q, b, k)
  BY <1>1 DEF Linked
<1>3. LinksSound(p, q2)
  <2>1. \A k \in Clusters : (\E b \in Entries : Linked(p, q2, b, k)) => p[k] # 0 /\ q2[k] # 0
    BY <1>1, <1>2, ClusterFacts DEF Sound, LinksSound
  <2>2. \A c \in Entries : p[c] \in {0, EOC, p[c], q[c]} /\ q2[c] \in {0, EOC, p[c], q[c]}
    BY <1>1
  <2>3. \A c \in {0, 1} : p[c] = EOC /\ q2[c] = EOC
    BY <1>1, ClusterFacts DEF Sound, LinksSound
  <2> QED
    BY <1>1, <2>1, <2>2, <2>3, FewerLinks DEF Sound
<1>4. ChainsLinked(p, q2, chain, {})
  <2>1. ASSUME NEW f \in Files, NEW k \in 1 .. Len(chain[f])
        PROVE  /\ p[chain[f][k]] = NextIn(chain[f], k)
               /\ q2[chain[f][k]] = NextIn(chain[f], k)
    BY <1>1, ChainFacts, ChainLinks
  <2> QED
    BY <2>1 DEF ChainsLinked
<1>5. HeadsFree(p, q2, chain)
  BY <1>1, <1>2, HeadsStay DEF Sound
<1>6. \A c, by : Loose(p, q, chain, c, by) => Loose(p, q2, chain, c, by)
  BY <1>2 DEF Loose
<1> QED
  BY <1>1, <1>3, <1>4, <1>5, <1>6 DEF Sound, q2

\* The chain of f with one more cluster at its end.
Longer(chain, f, c) == [chain EXCEPT ![f] = Append(@, c)]

\* A cluster that is in no chain becomes the last one of f's.
LEMMA LongerFacts ==
    ASSUME NEW chain \in Chains, NEW f \in Files, NEW c \in Clusters,
           ChainsDisjoint(chain), ~InChains(chain, c)
    PROVE  LET ch == chain[f]  chain2 == Longer(chain, f, c)  ch2 == chain2[f] IN
           /\ chain2 \in Chains /\ ChainsDisjoint(chain2)
           /\ \A g \in Files : g # f => chain2[g] = chain[g]
           /\ Len(ch2) = Len(ch) + 1 /\ ch2[Len(ch) + 1] = c
           /\ \A k \in 1 .. Len(ch) : ch2[k] = ch[k]
<1> DEFINE ch == chain[f]
           chain2 == Longer(chain, f, c)
           ch2 == chain2[f]
<1>1. ch \in Seq(Clusters) /\ ch2 = Append(ch, c)
  BY DEF Chains, Longer
<1>2. chain2 \in Chains /\ \A g \in Files : g # f => chain2[g] = chain[g]
  BY DEF Chains, Longer
<1>3. /\ Len(ch2) = Len(ch) + 1 /\ ch2[Len(ch) + 1] = c /\ Len(ch) \in Nat
      /\ \A k \in 1 .. Len(ch) : ch2[k] = ch[k]
  BY <1>1
<1> HIDE DEF chain2
<1>4. ASSUME NEW g \in Files, NEW i \in 1 .. Len(chain2[g])
      PROVE  \/ i \in 1 .. Len(chain[g]) /\ chain2[g][i] = chain[g][i]
             \/ g = f /\ i = Len(ch2) /\ chain2[g][i] = c
  <2>1. CASE g = f
    <3>1. i \in 1 .. Len(ch) \/ i = Len(ch) + 1
      BY <1>3, <2>1
    <3> QED
      BY <1>3, <2>1, <3>1
  <2> QED
    BY <1>2, <2>1
<1>5. \A g \in Files : \A i \in 1 .. Len(chain[g]) : chain[g][i] # c
  BY DEF InChains
<1>6. ChainsDisjoint(chain2)
  <2>1. ASSUME NEW g \in Files, NEW h \in Files,
               NEW i \in 1 .. Len(chain2[g]), NEW j \in 1 .. Len(chain2[h]),
               chain2[g][i] = chain2[h][j]
        PROVE  g = h /\ i = j
    <3>1. CASE i \in 1 .. Len(chain[g]) /\ chain2[g][i] = chain[g][i]
      <4>1. j \in 1 .. Len(chain[h]) /\ chain2[h][j] = chain[h][j]
        BY <1>4, <1>5, <2>1, <3>1
      <4>2. chain[g][i] = chain[h][j]
        BY <2>1, <3>1, <4>1
      <4>3. i \in 1 .. Len(chain[g]) /\ j \in 1 .. Len(chain[h])
        BY <3>1, <4>1
      <4> QED
        BY <4>2, <4>3 DEF ChainsDisjoint
    <3>2. CASE g = f /\ i = Len(ch2) /\ chain2[g][i] = c
      BY <1>4, <1>5, <2>1, <3>2
    <3> QED
      BY <1>4, <3>1, <3>2
  <2> QED
    BY <2>1 DEF ChainsDisjoint
<1> QED
  BY <1>2, <1>3, <1>6 DEF chain2

\* The first cluster of an empty file.
LEMMA SoundStarted ==
    ASSUME NEW p \in Tables, NEW q \in Tables, NEW chain \in Chains, NEW f \in Files,
           Sound(p, q, chain, {}), Len(chain[f]) = 0, NEW c,
           Loose(p, q, chain, c, {}), p[c] = EOC, q[c] = EOC
    PROVE  Sound(p, q, Longer(chain, f, c), {})
<1> DEFINE chain2 == Longer(chain, f, c)
<1>1. c \in Clusters /\ ~InChains(chain, c) /\ \A b \in Entries : ~Linked(p, q, b, c)
  BY DEF Loose
<1>2. /\ chain2 \in Chains /\ ChainsDisjoint(chain2)
      /\ \A g \in Files : g # f => chain2[g] = chain[g]
      /\ Len(chain2[f]) = Len(chain[f]) + 1 /\ chain2[f][Len(chain[f]) + 1] = c
  BY <1>1, LongerFacts, ZenonT(40) DEF Sound
<1> HIDE DEF chain2
<1>2a. Len(chain2[f]) = 1 /\ chain2[f][1] = c
  BY <1>2
<1>3. ChainsLinked(p, q, chain2, {})
  <2>1. ASSUME NEW g \in Files, NEW k \in 1 .. Len(chain2[g])
        PROVE  /\ p[chain2[g][k]] = NextIn(chain2[g], k)
               /\ q[chain2[g][k]] = NextIn(chain2[g], k)
    <3>1. CASE g = f
      <4>0. Len(chain2[g]) = 1
        BY <1>2a, <3>1
      <4>1. k = 1 /\ NextIn(chain2[g], k) = EOC
        BY <4>0 DEF NextIn
      <4> QED
        BY <1>2a, <3>1, <4>1
    <3>2. CASE g # f
      BY <1>2, <3>2 DEF Sound, ChainsLinked
    <3> QED
      BY <3>1, <3>2
  <2> QED
    BY <2>1 DEF ChainsLinked
<1>4. HeadsFree(p, q, chain2)
  BY <1>1, <1>2, <1>2a DEF HeadsFree, Sound
<1> QED
  BY <1>2, <1>3, <1>4 DEF Sound, chain2

\* A copy of the FAT in which cluster b is followed by c.
Relinked(q, b, c) == [q EXCEPT ![b] = c]

\* The last cluster of f's chain is linked to a new one, in FAT 1 (alloc_cluster).
LEMMA SoundParent ==
    ASSUME NEW p \in Tables, NEW q \in Tables, NEW chain \in Chains, NEW f \in Files,
           Sound(p, q, chain, {}), Len(chain[f]) > 0, NEW c,
           Loose(p, q, chain, c, {}), p[c] = EOC, q[c] = EOC,
           NEW last, last = chain[f][Len(chain[f])]
    PROVE  LET q2 == Relinked(q, last, c) IN
           /\ q2 \in Tables /\ Sound(p, q2, chain, {last})
           /\ Loose(p, q2, chain, c, {last}) /\ q2[c] = EOC /\ q2[last] = c
<1> DEFINE q2 == Relinked(q, last, c)
<1>0. Len(chain[f]) \in 1 .. Len(chain[f])
  BY ChainFacts
<1>1. last \in Clusters /\ last \in Entries
  BY <1>0, ChainFacts
<1>2. c \in Clusters /\ c # last /\ ~InChains(chain, c) /\ \A b \in Entries : ~Linked(p, q, b, c)
  BY <1>0 DEF Loose, InChains
<1>3. q2 \in Tables /\ \A b \in Entries : q2[b] = IF b = last THEN c ELSE q[b]
  BY <1>1, <1>2, ClusterFacts DEF Tables, Relinked
<1> HIDE DEF q2
<1>4. \A b \in Entries, k \in Clusters :
          Linked(p, q2, b, k) => Linked(p, q, b, k) \/ (b = last /\ k = c)
  BY <1>3 DEF Linked
<1>5. LinksSound(p, q2)
  <2>1. \A b \in Entries : p[b] \in {0, EOC} \cup Clusters /\ q2[b] \in {0, EOC} \cup Clusters
    BY <1>2, <1>3 DEF Sound, LinksSound
  <2>2. \A b \in {0, 1} : p[b] = EOC /\ q2[b] = EOC
    BY <1>1, <1>3, ClusterFacts, ReservedFacts DEF Sound, LinksSound
  <2>3. \A b \in Entries, k \in Clusters : Linked(p, q2, b, k) => p[k] # 0 /\ q2[k] # 0
    BY <1>2, <1>3, <1>4, ClusterFacts DEF Sound, LinksSound
  <2>4. \A b, d \in Entries, k \in Clusters :
           Linked(p, q2, b, k) /\ Linked(p, q2, d, k) => b = d
    BY <1>2, <1>4 DEF Sound, LinksSound
  <2> QED
    BY <2>1, <2>2, <2>3, <2>4 DEF LinksSound
<1>6. ChainsLinked(p, q2, chain, {last})
  <2>1. ASSUME NEW g \in Files, NEW k \in 1 .. Len(chain[g])
        PROVE  /\ p[chain[g][k]] = NextIn(chain[g], k)
               /\ chain[g][k] \notin {last} => q2[chain[g][k]] = NextIn(chain[g], k)
    BY <1>3, ChainFacts, ChainLinks, SMTT(40)
  <2> QED
    BY <2>1 DEF ChainsLinked
<1>7. HeadsFree(p, q2, chain)
  <2>1. ASSUME NEW g \in Files, Len(chain[g]) > 0, NEW b \in Entries
        PROVE  ~Linked(p, q2, b, chain[g][1])
    <3>1. 1 \in 1 .. Len(chain[g])
      BY <2>1, ChainFacts
    <3>2. chain[g][1] \in Clusters /\ chain[g][1] # c
      BY <1>2, <3>1, ChainFacts DEF InChains
    <3> QED
      BY <1>4, <2>1, <3>2 DEF Sound, HeadsFree
  <2> QED
    BY <2>1 DEF HeadsFree
<1>8. Loose(p, q2, chain, c, {last}) /\ q2[c] = EOC /\ q2[last] = c
  BY <1>1, <1>2, <1>3, <1>4, ClusterFacts DEF Loose
<1> QED
  BY <1>3, <1>5, <1>6, <1>7, <1>8 DEF Sound, q2

\* The sector with that link is written to FAT 0: the chain is longer.
LEMMA SoundLengthened ==
    ASSUME NEW p \in Tables, NEW q \in Tables, NEW chain \in Chains, NEW f \in Files,
           Len(chain[f]) > 0, NEW last, last = chain[f][Len(chain[f])],
           Sound(p, q, chain, {last}), NEW c,
           Loose(p, q, chain, c, {last}), p[c] = EOC, q[c] = EOC, q[last] = c
    PROVE  LET p2 == Merged(p, q, SectorOf(last)) IN
           p2 \in Tables /\ Sound(p2, q, Longer(chain, f, c), {})
<1> DEFINE n == Len(chain[f])
           p2 == Merged(p, q, SectorOf(last))
           chain2 == Longer(chain, f, c)
<1>0. n \in 1 .. n /\ n \in Nat
  BY ChainFacts
<1>1. last \in Clusters /\ last \in Entries
  BY <1>0, ChainFacts
<1>2. c \in Clusters /\ c \in Entries /\ ~InChains(chain, c)
  BY ClusterFacts DEF Loose
<1>3. p2 \in Tables /\ p2[last] = c /\ \A b \in Entries : p2[b] \in {p[b], q[b]}
  BY <1>1 DEF Merged, Tables
<1> HIDE DEF p2
<1>4. /\ chain2 \in Chains /\ ChainsDisjoint(chain2)
      /\ \A g \in Files : g # f => chain2[g] = chain[g]
      /\ Len(chain2[f]) = n + 1 /\ chain2[f][n + 1] = c
      /\ \A k \in 1 .. n : chain2[f][k] = chain[f][k]
  BY <1>2, LongerFacts DEF Sound
<1> HIDE DEF chain2
<1>5. /\ LinksSound(p2, q)
      /\ \A b \in Entries, k \in Clusters : Linked(p2, q, b, k) => Linked(p, q, b, k)
  <2>1. \A k \in Clusters : (\E b \in Entries : Linked(p2, q, b, k)) => p2[k] # 0 /\ q[k] # 0
    BY <1>3, ClusterFacts DEF Sound, LinksSound, Linked
  <2>2. \A b \in Entries : p2[b] \in {0, EOC, p[b], q[b]} /\ q[b] \in {0, EOC, p[b], q[b]}
    BY <1>3
  <2>3. \A b \in {0, 1} : p2[b] = EOC /\ q[b] = EOC
    BY <1>3, ClusterFacts DEF Sound, LinksSound
  <2> QED
    BY <1>3, <2>1, <2>2, <2>3, FewerLinks DEF Sound
<1>6. ASSUME NEW g \in Files, NEW k \in 1 .. Len(chain[g]), g # f \/ k # n
      PROVE  /\ p2[chain[g][k]] = NextIn(chain[g], k)
             /\ q[chain[g][k]] = NextIn(chain[g], k)
  <2>1. chain[g][k] # last
    BY <1>0, <1>6 DEF Sound, ChainsDisjoint
  <2>2. p[chain[g][k]] = NextIn(chain[g], k) /\ q[chain[g][k]] = NextIn(chain[g], k)
    BY <2>1, ChainLinks
  <2> QED
    BY <1>3, <2>2, ChainFacts
<1>7. ChainsLinked(p2, q, chain2, {})
  <2>1. ASSUME NEW g \in Files, NEW k \in 1 .. Len(chain2[g])
        PROVE  /\ p2[chain2[g][k]] = NextIn(chain2[g], k)
               /\ q[chain2[g][k]] = NextIn(chain2[g], k)
    <3>1. CASE g # f
      BY <1>4, <1>6, <3>1
    <3>2. CASE g = f /\ k = n + 1
      <4>1. chain2[g][k] = c /\ NextIn(chain2[g], k) = EOC
        BY <1>0, <1>4, <3>2 DEF NextIn
      <4>2. p2[c] = EOC
        BY <1>2, <1>3
      <4> QED
        BY <4>1, <4>2
    <3>3. CASE g = f /\ k = n
      <4>1. chain2[g][k] = last /\ NextIn(chain2[g], k) = c
        BY <1>0, <1>4, <3>3 DEF NextIn
      <4> QED
        BY <1>3, <4>1
    <3>4. CASE g = f /\ k \in 1 .. n /\ k # n
      <4>1. chain2[g][k] = chain[g][k] /\ NextIn(chain2[g], k) = NextIn(chain[g], k)
        <5>1. k + 1 \in 1 .. n /\ k < n /\ k < n + 1
          BY <1>0, <3>4
        <5>2. chain2[f][k] = chain[f][k] /\ chain2[f][k + 1] = chain[f][k + 1]
          BY <1>4, <3>4, <5>1
        <5> QED
          BY <1>4, <3>4, <5>1, <5>2 DEF NextIn
      <4> QED
        BY <1>6, <3>4, <4>1
    <3> QED
      BY <1>0, <1>4, <3>1, <3>2, <3>3, <3>4
  <2> QED
    BY <2>1 DEF ChainsLinked
<1>8. HeadsFree(p2, q, chain2)
  <2>1. HeadsFree(p2, q, chain)
    BY <1>3, <1>5, HeadsStay DEF Sound
  <2>2. \A g \in Files : Len(chain2[g]) > 0 => Len(chain[g]) > 0 /\ chain2[g][1] = chain[g][1]
    <3>1. 1 \in 1 .. n
      BY <1>0
    <3> QED
      BY <1>4, <3>1
  <2> QED
    BY <2>1, <2>2 DEF HeadsFree
<1> QED
  BY <1>3, <1>4, <1>5, <1>7, <1>8 DEF Sound, p2, chain2

-----------------------------------------------------------------------------
\* The first k clusters of f's chain.
Cut(chain, f, k) == [chain EXCEPT ![f] = SubSeq(@, 1, k)]

\* What is left of the chains.
LEMMA CutFacts ==
    ASSUME NEW chain \in Chains, NEW f \in Files, NEW k \in 1 .. Len(chain[f])
    PROVE  LET chain2 == Cut(chain, f, k) IN
           /\ chain2 \in Chains
           /\ \A g \in Files : g # f => chain2[g] = chain[g]
           /\ Len(chain2[f]) = k
           /\ \A i \in 1 .. k : chain2[f][i] = chain[f][i] /\ i \in 1 .. Len(chain[f])
<1>1. chain[f] \in Seq(Clusters) /\ k \in Nat /\ k <= Len(chain[f]) /\ 1 <= k
  BY ChainFacts
<1> DEFINE ch2 == SubSeq(chain[f], 1, k)
<1>2. ch2 \in Seq(Clusters) /\ Len(ch2) = k /\ \A i \in 1 .. k : ch2[i] = chain[f][i]
  BY <1>1
<1>3. \A i \in 1 .. k : i \in 1 .. Len(chain[f])
  BY <1>1
<1> HIDE DEF ch2
<1>4. Cut(chain, f, k) = [chain EXCEPT ![f] = ch2]
  BY DEF Cut, ch2, Chains
<1> QED
  BY <1>2, <1>3, <1>4 DEF Chains

\* The k-th cluster of f's chain becomes the last one, in FAT 0 (fat_truncate).
LEMMA SoundCut ==
    ASSUME NEW p \in Tables, NEW q \in Tables, NEW chain \in Chains, NEW f \in Files,
           Sound(p, q, chain, {}), NEW k \in 1 .. Len(chain[f]), k < Len(chain[f])
    PROVE  LET cur == chain[f][k]
               next == chain[f][k + 1]
               p2 == [p EXCEPT ![cur] = EOC]
               chain2 == Cut(chain, f, k)
           IN  /\ p2 \in Tables /\ Sound(p2, q, chain2, {cur})
               /\ Loose(p2, q, chain2, next, {cur}) /\ p2[next] # 0
<1> DEFINE cur == chain[f][k]
           next == chain[f][k + 1]
           p2 == [p EXCEPT ![cur] = EOC]
           chain2 == Cut(chain, f, k)
<1>1. /\ cur \in Clusters /\ cur \in Entries /\ next \in Clusters /\ next \in Entries
      /\ k + 1 \in 1 .. Len(chain[f]) /\ p[cur] = next
  BY ChainFacts, ChainLinks
<1>2. p2 \in Tables /\ \A b \in Entries : p2[b] = IF b = cur THEN EOC ELSE p[b]
  BY <1>1, ClusterFacts DEF Tables
<1>3. /\ chain2 \in Chains /\ Len(chain2[f]) = k
      /\ \A g \in Files : g # f => chain2[g] = chain[g]
      /\ \A i \in 1 .. k : chain2[f][i] = chain[f][i] /\ i \in 1 .. Len(chain[f])
  BY CutFacts
<1> HIDE DEF p2, chain2
<1>4. ASSUME NEW g \in Files, NEW i \in 1 .. Len(chain2[g])
      PROVE  i \in 1 .. Len(chain[g]) /\ chain2[g][i] = chain[g][i]
  BY <1>3
<1>5. ChainsDisjoint(chain2)
  <2>1. ASSUME NEW g \in Files, NEW h \in Files,
               NEW i \in 1 .. Len(chain2[g]), NEW j \in 1 .. Len(chain2[h]),
               chain2[g][i] = chain2[h][j]
        PROVE  g = h /\ i = j
    <3>1. chain[g][i] = chain[h][j] /\ i \in 1 .. Len(chain[g]) /\ j \in 1 .. Len(chain[h])
      BY <1>4, <2>1
    <3> QED
      BY <3>1 DEF Sound, ChainsDisjoint
  <2> QED
    BY <2>1 DEF ChainsDisjoint
<1>6. /\ LinksSound(p2, q)
      /\ \A b \in Entries, j \in Clusters : Linked(p2, q, b, j) => Linked(p, q, b, j)
  <2>1. \A j \in Clusters : (\E b \in Entries : Linked(p2, q, b, j)) => p2[j] # 0 /\ q[j] # 0
    BY <1>2, ClusterFacts DEF Sound, LinksSound, Linked
  <2>2. \A b \in Entries : p2[b] \in {0, EOC, p[b], q[b]} /\ q[b] \in {0, EOC, p[b], q[b]}
    BY <1>2
  <2>3. \A b \in {0, 1} : p2[b] = EOC /\ q[b] = EOC
    BY <1>2, ClusterFacts DEF Sound, LinksSound
  <2> QED
    BY <1>2, <2>1, <2>2, <2>3, FewerLinks DEF Sound
<1>7. ChainsLinked(p2, q, chain2, {cur})
  <2>1. ASSUME NEW g \in Files, NEW i \in 1 .. Len(chain2[g])
        PROVE  /\ p2[chain2[g][i]] = NextIn(chain2[g], i)
               /\ chain2[g][i] \notin {cur} => q[chain2[g][i]] = NextIn(chain2[g], i)
    <3>1. i \in 1 .. Len(chain[g]) /\ chain2[g][i] = chain[g][i]
      BY <1>4
    <3>2. p[chain[g][i]] = NextIn(chain[g], i) /\ q[chain[g][i]] = NextIn(chain[g], i)
      BY <3>1, ChainLinks
    <3>3. CASE g = f /\ i = k
      BY <1>1, <1>2, <1>3, <3>1, <3>3 DEF NextIn
    <3>4. CASE g # f \/ i # k
      <4>1. chain[g][i] # cur
        BY <3>1, <3>4 DEF Sound, ChainsDisjoint
      <4>2. NextIn(chain2[g], i) = NextIn(chain[g], i)
        <5>1. CASE g # f
          BY <1>3, <5>1
        <5>2. CASE g = f
          <6>1. i < k /\ i + 1 \in 1 .. k /\ i < Len(chain[f])
            BY <1>3, <3>4, <5>2, ChainFacts
          <6>2. chain2[f][i + 1] = chain[f][i + 1]
            BY <1>3, <6>1
          <6> QED
            BY <1>3, <5>2, <6>1, <6>2 DEF NextIn
        <5> QED
          BY <5>1, <5>2
      <4>3. chain[g][i] \in Entries
        BY <3>1, ChainFacts
      <4> QED
        BY <1>2, <3>1, <3>2, <4>1, <4>2, <4>3
    <3> QED
      BY <3>3, <3>4
  <2> QED
    BY <2>1 DEF ChainsLinked
<1>8. HeadsFree(p2, q, chain2)
  <2>1. HeadsFree(p2, q, chain)
    BY <1>2, <1>6, HeadsStay DEF Sound
  <2>2. \A g \in Files : Len(chain2[g]) > 0 => Len(chain[g]) > 0 /\ chain2[g][1] = chain[g][1]
    <3>1. ASSUME NEW g \in Files, Len(chain2[g]) > 0
          PROVE  Len(chain[g]) > 0 /\ chain2[g][1] = chain[g][1]
      <4>1. 1 \in 1 .. Len(chain2[g])
        BY <1>3, <3>1, ChainFacts
      <4>2. 1 \in 1 .. Len(chain[g]) /\ chain2[g][1] = chain[g][1]
        BY <1>4, <4>1
      <4> QED
        BY <4>2, ChainFacts
    <3> QED
      BY <3>1
  <2> QED
    BY <2>1, <2>2 DEF HeadsFree
<1>9. Loose(p2, q, chain2, next, {cur}) /\ p2[next] # 0
  <2>1. next # cur
    <3>1. k # k + 1
      BY ChainFacts
    <3> QED
      BY <1>1, <3>1 DEF Sound, ChainsDisjoint
  <2>2. p2[next] # 0
    BY <1>1, <1>2, <2>1, ChainLinks
  <2>3. ~InChains(chain2, next)
    <3>1. ASSUME NEW g \in Files, NEW i \in 1 .. Len(chain2[g]), chain2[g][i] = next
          PROVE  FALSE
      <4>1. i \in 1 .. Len(chain[g]) /\ chain[g][i] = chain[f][k + 1]
        BY <1>4, <3>1
      <4>2. g = f /\ i = k + 1
        BY <1>1, <4>1 DEF Sound, ChainsDisjoint
      <4> QED
        BY <1>3, <4>2
    <3> QED
      BY <3>1 DEF InChains
  <2>4. \A b \in Entries : Linked(p2, q, b, next) => b = cur
    <3>1. Linked(p, q, cur, next)
      BY <1>1 DEF Linked
    <3> QED
      BY <1>1, <1>6, <3>1 DEF Sound, LinksSound
  <2> QED
    BY <1>1, <2>2, <2>3, <2>4 DEF Loose
<1> QED
  BY <1>2, <1>3, <1>5, <1>6, <1>7, <1>8, <1>9 DEF Sound, p2, chain2

\* The same entry in FAT 1.
LEMMA SoundCutTwice ==
    ASSUME NEW p \in Tables, NEW q \in Tables, NEW chain \in Chains, NEW f \in Files,
           Len(chain[f]) > 0, NEW cur, cur = chain[f][Len(chain[f])],
           Sound(p, q, chain, {cur})
    PROVE  LET q2 == [q EXCEPT ![cur] = EOC] IN
           /\ q2 \in Tables /\ Sound(p, q2, chain, {})
           /\ \A c : Loose(p, q, chain, c, {cur}) => Loose(p, q2, chain, c, {})
<1> DEFINE q2 == [q EXCEPT ![cur] = EOC]
<1>0. Len(chain[f]) \in 1 .. Len(chain[f])
  BY ChainFacts
<1>1. cur \in Clusters /\ cur \in Entries /\ p[cur] = EOC
  BY <1>0, ChainFacts, ChainLinks
<1>2. q2 \in Tables /\ \A b \in Entries : q2[b] = IF b = cur THEN EOC ELSE q[b]
  BY <1>1, ClusterFacts DEF Tables
<1> HIDE DEF q2
<1>3. /\ LinksSound(p, q2)
      /\ \A b \in Entries, j \in Clusters : Linked(p, q2, b, j) => Linked(p, q, b, j)
  <2>1. \A j \in Clusters : (\E b \in Entries : Linked(p, q2, b, j)) => p[j] # 0 /\ q2[j] # 0
    BY <1>2, ClusterFacts DEF Sound, LinksSound, Linked
  <2>2. \A b \in Entries : p[b] \in {0, EOC, p[b], q[b]} /\ q2[b] \in {0, EOC, p[b], q[b]}
    BY <1>2
  <2>3. \A b \in {0, 1} : p[b] = EOC /\ q2[b] = EOC
    BY <1>2, ClusterFacts DEF Sound, LinksSound
  <2> QED
    BY <1>2, <2>1, <2>2, <2>3, FewerLinks DEF Sound
<1>4. ChainsLinked(p, q2, chain, {})
  <2>1. ASSUME NEW g \in Files, NEW i \in 1 .. Len(chain[g])
        PROVE  /\ p[chain[g][i]] = NextIn(chain[g], i)
               /\ q2[chain[g][i]] = NextIn(chain[g], i)
    <3>1. /\ p[chain[g][i]] = NextIn(chain[g], i)
          /\ chain[g][i] \notin {cur} => q[chain[g][i]] = NextIn(chain[g], i)
      BY ChainLinks
    <3>2. chain[g][i] \in Entries
      BY ChainFacts
    <3> QED
      BY <1>1, <1>2, <3>1, <3>2
  <2> QED
    BY <2>1 DEF ChainsLinked
<1>5. HeadsFree(p, q2, chain)
  BY <1>2, <1>3, HeadsStay DEF Sound
<1>6. ASSUME NEW c, Loose(p, q, chain, c, {cur}) PROVE Loose(p, q2, chain, c, {})
  <2>1. c \in Clusters /\ c # EOC
    BY <1>6, ClusterFacts DEF Loose
  <2>2. ~Linked(p, q2, cur, c)
    BY <1>1, <1>2, <2>1 DEF Linked
  <2>3. \A b \in Entries : ~Linked(p, q2, b, c)
    BY <1>3, <1>6, <2>1, <2>2 DEF Loose
  <2> QED
    BY <1>6, <2>3 DEF Loose
<1> QED
  BY <1>2, <1>3, <1>4, <1>5, <1>6 DEF Sound, q2

\* A cluster that nothing links to is freed in FAT 0 (free_cluster_chain); what
\* followed it is then linked from its entry in FAT 1 at most.
LEMMA SoundFreed ==
    ASSUME NEW p \in Tables, NEW q \in Tables, NEW chain \in Chains,
           Sound(p, q, chain, {}), NEW c, Loose(p, q, chain, c, {}), p[c] # 0
    PROVE  LET p2 == [p EXCEPT ![c] = 0]
               next == p[c]
           IN  /\ p2 \in Tables /\ Sound(p2, q, chain, {})
               /\ Loose(p2, q, chain, c, {}) /\ p2[c] = 0
               /\ next # EOC => Loose(p2, q, chain, next, {c}) /\ p2[next] # 0
<1> DEFINE p2 == [p EXCEPT ![c] = 0]
           next == p[c]
<1>1. /\ c \in Clusters /\ c \in Entries /\ ~InChains(chain, c)
      /\ \A b \in Entries : ~Linked(p, q, b, c)
  BY ClusterFacts DEF Loose
<1>2. p2 \in Tables /\ \A b \in Entries : p2[b] = IF b = c THEN 0 ELSE p[b]
  BY <1>1, ClusterFacts DEF Tables
<1> HIDE DEF p2
<1>3. \A b \in Entries, j \in Clusters : Linked(p2, q, b, j) => Linked(p, q, b, j)
  BY <1>2, ClusterFacts DEF Linked
<1>4. LinksSound(p2, q)
  <2>1. \A j \in Clusters : (\E b \in Entries : Linked(p2, q, b, j)) => p2[j] # 0 /\ q[j] # 0
    <3>1. ASSUME NEW j \in Clusters, NEW b \in Entries, Linked(p2, q, b, j)
          PROVE  p2[j] # 0 /\ q[j] # 0
      <4>1. Linked(p, q, b, j)
        BY <1>3, <3>1
      <4>2. j # c /\ j \in Entries
        BY <1>1, <4>1, ClusterFacts
      <4> QED
        BY <1>2, <4>1, <4>2 DEF Sound, LinksSound
    <3> QED
      BY <3>1
  <2>2. \A b \in Entries : p2[b] \in {0, EOC, p[b], q[b]} /\ q[b] \in {0, EOC, p[b], q[b]}
    BY <1>2
  <2>3. \A b \in {0, 1} : p2[b] = EOC /\ q[b] = EOC
    BY <1>1, <1>2, ClusterFacts, ReservedFacts DEF Sound, LinksSound
  <2> QED
    BY <1>2, <2>1, <2>2, <2>3, FewerLinks DEF Sound
<1>5. ChainsLinked(p2, q, chain, {})
  <2>1. ASSUME NEW g \in Files, NEW i \in 1 .. Len(chain[g])
        PROVE  /\ p2[chain[g][i]] = NextIn(chain[g], i)
               /\ q[chain[g][i]] = NextIn(chain[g], i)
    <3>1. p[chain[g][i]] = NextIn(chain[g], i) /\ q[chain[g][i]] = NextIn(chain[g], i)
      BY ChainLinks
    <3>2. chain[g][i] \in Entries /\ chain[g][i] # c
      BY <1>1, ChainFacts DEF InChains
    <3> QED
      BY <1>2, <3>1, <3>2
  <2> QED
    BY <2>1 DEF ChainsLinked
<1>6. HeadsFree(p2, q, chain)
  BY <1>2, <1>3, HeadsStay DEF Sound
<1>7. Loose(p2, q, chain, c, {}) /\ p2[c] = 0
  BY <1>1, <1>2, <1>3 DEF Loose
<1>8. ASSUME next # EOC PROVE Loose(p2, q, chain, next, {c}) /\ p2[next] # 0
  <2>1. next \in Clusters /\ next \in Entries
    BY <1>1, <1>8, ClusterFacts DEF Sound, LinksSound
  <2>2. Linked(p, q, c, next)
    BY DEF Linked
  <2> HIDE DEF next
  <2>3. next # c
    BY <1>1, <2>2
  <2>4. p2[next] # 0
    BY <1>1, <1>2, <2>1, <2>2, <2>3 DEF Sound, LinksSound
  <2>5. \A b \in Entries : Linked(p, q, b, next) => b = c
    BY <1>1, <2>1, <2>2 DEF Sound, LinksSound
  <2>6. ~InChains(chain, next)
    <3>1. ASSUME NEW g \in Files, NEW i \in 1 .. Len(chain[g]), chain[g][i] = next
          PROVE  FALSE
      <4>1. CASE i = 1
        <5>1. Len(chain[g]) > 0
          BY ChainFacts
        <5> QED
          BY <1>1, <2>2, <3>1, <4>1, <5>1 DEF Sound, HeadsFree
      <4>2. CASE i # 1
        <5>1. i - 1 \in 1 .. Len(chain[g]) /\ i - 1 < Len(chain[g]) /\ (i - 1) + 1 = i
          BY <4>2, ChainFacts
        <5>2. p[chain[g][i - 1]] = chain[g][(i - 1) + 1] /\ chain[g][i - 1] \in Entries
          BY <5>1, ChainLinks, ChainFacts
        <5>3. Linked(p, q, chain[g][i - 1], next)
          BY <3>1, <5>1, <5>2 DEF Linked
        <5>4. chain[g][i - 1] = c
          BY <2>5, <5>2, <5>3
        <5> QED
          BY <1>1, <5>1, <5>4 DEF InChains
      <4> QED
        BY <4>1, <4>2
    <3> QED
      BY <3>1 DEF InChains
  <2>7. \A b \in Entries : Linked(p2, q, b, next) => b = c
    BY <1>3, <2>1, <2>5
  <2> QED
    BY <2>1, <2>4, <2>6, <2>7 DEF Loose
<1> QED
  BY <1>2, <1>4, <1>5, <1>6, <1>7, <1>8 DEF Sound, p2

\* The same entry in FAT 1.
LEMMA SoundFreedTwice ==
    ASSUME NEW p \in Tables, NEW q \in Tables, NEW chain \in Chains,
           Sound(p, q, chain, {}), NEW c, Loose(p, q, chain, c, {}), p[c] = 0
    PROVE  LET q2 == [q EXCEPT ![c] = 0] IN
           /\ q2 \in Tables /\ Sound(p, q2, chain, {})
           /\ \A k : Loose(p, q, chain, k, {c}) => Loose(p, q2, chain, k, {})
<1> DEFINE q2 == [q EXCEPT ![c] = 0]
<1>1. /\ c \in Clusters /\ c \in Entries /\ ~InChains(chain, c)
      /\ \A b \in Entries : ~Linked(p, q, b, c)
  BY ClusterFacts DEF Loose
<1>2. q2 \in Tables /\ \A b \in Entries : q2[b] = IF b = c THEN 0 ELSE q[b]
  BY <1>1, ClusterFacts DEF Tables
<1> HIDE DEF q2
<1>3. \A b \in Entries, j \in Clusters : Linked(p, q2, b, j) => Linked(p, q, b, j)
  BY <1>2, ClusterFacts DEF Linked
<1>4. LinksSound(p, q2)
  <2>1. \A j \in Clusters : (\E b \in Entries : Linked(p, q2, b, j)) => p[j] # 0 /\ q2[j] # 0
    <3>1. ASSUME NEW j \in Clusters, NEW b \in Entries, Linked(p, q2, b, j)
          PROVE  p[j] # 0 /\ q2[j] # 0
      <4>1. Linked(p, q, b, j)
        BY <1>3, <3>1
      <4>2. j # c /\ j \in Entries
        BY <1>1, <4>1, ClusterFacts
      <4> QED
        BY <1>2, <4>1, <4>2 DEF Sound, LinksSound
    <3> QED
      BY <3>1
  <2>2. \A b \in Entries : p[b] \in {0, EOC, p[b], q[b]} /\ q2[b] \in {0, EOC, p[b], q[b]}
    BY <1>2
  <2>3. \A b \in {0, 1} : p[b] = EOC /\ q2[b] = EOC
    BY <1>1, <1>2, ClusterFacts, ReservedFacts DEF Sound, LinksSound
  <2> QED
    BY <1>2, <2>1, <2>2, <2>3, FewerLinks DEF Sound
<1>5. ChainsLinked(p, q2, chain, {})
  <2>1. ASSUME NEW g \in Files, NEW i \in 1 .. Len(chain[g])
        PROVE  /\ p[chain[g][i]] = NextIn(chain[g], i)
               /\ q2[chain[g][i]] = NextIn(chain[g], i)
    <3>1. p[chain[g][i]] = NextIn(chain[g], i) /\ q[chain[g][i]] = NextIn(chain[g], i)
      BY ChainLinks
    <3>2. chain[g][i] \in Entries /\ chain[g][i] # c
      BY <1>1, ChainFacts DEF InChains
    <3> QED
      BY <1>2, <3>1, <3>2
  <2> QED
    BY <2>1 DEF ChainsLinked
<1>6. HeadsFree(p, q2, chain)
  BY <1>2, <1>3, HeadsStay DEF Sound
<1>7. ASSUME NEW k, Loose(p, q, chain, k, {c}) PROVE Loose(p, q2, chain, k, {})
  <2>1. k \in Clusters /\ k # 0
    BY <1>7, ClusterFacts DEF Loose
  <2>2. ~Linked(p, q2, c, k)
    BY <1>1, <1>2, <2>1 DEF Linked
  <2>3. \A b \in Entries : ~Linked(p, q2, b, k)
    BY <1>3, <1>7, <2>1, <2>2 DEF Loose
  <2> QED
    BY <1>7, <2>3 DEF Loose
<1> QED
  BY <1>2, <1>4, <1>5, <1>6, <1>7 DEF Sound, q2

\* fat_truncate at the start of the file lets go of the whole chain.
LEMMA SoundEmptied ==
    ASSUME NEW p \in Tables, NEW q \in Tables, NEW chain \in Chains,
           Sound(p, q, chain, {}), NEW f \in Files, Len(chain[f]) > 0
    PROVE  LET chain2 == [chain EXCEPT ![f] = <<>>]
               head == chain[f][1]
           IN  /\ chain2 \in Chains /\ Sound(p, q, chain2, {})
               /\ Loose(p, q, chain2, head, {}) /\ p[head] # 0
<1> DEFINE chain2 == [chain EXCEPT ![f] = <<>>]
           head == chain[f][1]
<1>1. chain2 \in Chains /\ Sound(p, q, chain2, {})
  BY SoundDropped, SMTT(40)
<1>2. /\ Len(chain2[f]) = 0
      /\ \A g \in Files : g # f => chain2[g] = chain[g]
  BY DEF Chains
<1> HIDE DEF chain2
<1>3. 1 \in 1 .. Len(chain[f])
  BY ChainFacts
<1>4. head \in Clusters /\ p[head] # 0
  BY <1>3, ChainFacts, ChainLinks
<1>5. ~InChains(chain2, head)
  <2>1. ASSUME NEW g \in Files, NEW i \in 1 .. Len(chain2[g]), chain2[g][i] = head
        PROVE  FALSE
    <3>1. g # f
      BY <1>2
    <3>2. i \in 1 .. Len(chain[g]) /\ chain[g][i] = chain[f][1]
      BY <1>2, <2>1, <3>1
    <3> QED
      BY <1>3, <3>1, <3>2 DEF Sound, ChainsDisjoint
  <2> QED
    BY <2>1 DEF InChains
<1>6. \A b \in Entries : ~Linked(p, q, b, head)
  BY DEF Sound, HeadsFree
<1> QED
  BY <1>1, <1>4, <1>5, <1>6 DEF Loose, chain2

-----------------------------------------------------------------------------
(* Offsets. *)

\* Blocks and clusters add up.
LEMMA Geometry ==
    /\ BlockSize \in Nat /\ BlockSize > 0 /\ SectorsPerCluster \in Nat /\ SectorsPerCluster > 0
    /\ BytesPerCluster \in Nat /\ BytesPerCluster > 0 /\ BlockSize <= BytesPerCluster
    /\ Span(0) = 0 /\ Span(SectorsPerCluster) = BytesPerCluster
    /\ \A n \in Nat :
           /\ Span(n) \in Nat /\ Span(n + 1) = Span(n) + BlockSize
           /\ n < SectorsPerCluster => Span(n) + BlockSize <= BytesPerCluster
           /\ n > 0 => Span(n) > 0
    /\ Base(1) = 0
    /\ \A k \in Nat : k > 0 => Base(k) \in Nat /\ Base(k + 1) = Base(k) + BytesPerCluster
    /\ \A j, k \in Nat : 0 < j /\ j < k => Base(j) + BytesPerCluster <= Base(k)
<1> DEFINE B == BlockSize
           S == SectorsPerCluster
<1>1. B \in Nat /\ B > 0 /\ S \in Nat /\ S > 0
  BY VolumeAssumption
<1> HIDE DEF B, S
<1>2. B * S \in Nat /\ B * 1 <= B * S /\ B * 1 = B
  BY <1>1, TimesGrows
<1>3. Span(0) = 0 /\ Span(S) = B * S
  BY <1>1 DEF Span, B, S
<1>4. ASSUME NEW n \in Nat
      PROVE  /\ Span(n) \in Nat /\ Span(n + 1) = Span(n) + B
             /\ n < S => Span(n) + B <= B * S
             /\ n > 0 => Span(n) > 0
  <2>1. Span(n) = B * n /\ Span(n + 1) = B * (n + 1) /\ B * (n + 1) = B * n + B /\ B * n \in Nat
    BY <1>1 DEF Span, B
  <2>2. n < S => B * (n + 1) <= B * S
    BY <1>1, TimesGrows
  <2>3. n > 0 => B * 1 <= B * n
    BY <1>1, TimesGrows
  <2> QED
    BY <1>1, <1>2, <2>1, <2>2, <2>3
<1> DEFINE C == B * S
<1>5. C \in Nat /\ C > 0 /\ B <= C
  BY <1>1, <1>2
<1> HIDE DEF C
<1>6. BytesPerCluster = C
  BY DEF BytesPerCluster, B, S, C
<1>7. Base(1) = 0
  BY <1>5, <1>6 DEF Base
<1>8. ASSUME NEW k \in Nat, k > 0
      PROVE  Base(k) \in Nat /\ Base(k + 1) = Base(k) + C
  <2>1. Base(k) = C * (k - 1) /\ Base(k + 1) = C * k /\ C * k = C * (k - 1) + C
    BY <1>5, <1>6, <1>8 DEF Base
  <2>2. C * (k - 1) \in Nat
    BY <1>5, <1>8
  <2> QED
    BY <2>1, <2>2
<1>9. ASSUME NEW j \in Nat, NEW k \in Nat, 0 < j, j < k
      PROVE  Base(j) + C <= Base(k)
  <2>1. Base(j) = C * (j - 1) /\ Base(k) = C * (k - 1) /\ C * j = C * (j - 1) + C
    BY <1>5, <1>6, <1>9 DEF Base
  <2>2. j \in Nat /\ k - 1 \in Nat /\ j <= k - 1
    BY <1>9
  <2>3. C * j <= C * (k - 1)
    BY <1>5, <2>2, TimesGrows
  <2> QED
    BY <2>1, <2>3
<1> QED
  BY <1>1, <1>3, <1>4, <1>5, <1>6, <1>7, <1>8, <1>9 DEF B, S, C

\* The quotient and the remainder of a division, from the outside.
LEMMA Division ==
    ASSUME NEW n \in Nat, n > 0, NEW x \in Nat, NEW r \in Nat, r < n, NEW a, a = x * n + r
    PROVE  a \in Nat /\ a \div n = x /\ a % n = r
<1>1. x * n \in Nat
  OBVIOUS
<1>2. a \in Nat
  BY <1>1
<1> DEFINE y == a \div n
           s == a % n
<1>3. y \in Nat /\ s \in Nat /\ s < n /\ a = n * y + s
  BY <1>2
<1> HIDE DEF y, s
<1>4. n * x + r = n * y + s
  BY <1>3
<1>5. ~(x < y)
  <2>1. SUFFICES ASSUME x < y PROVE FALSE
    OBVIOUS
  <2>2. n * (x + 1) <= n * y /\ n * (x + 1) = n * x + n
    BY <1>3, <2>1, TimesGrows
  <2>3. n * x \in Nat /\ n * y \in Nat
    BY <1>3
  <2> QED
    BY <1>3, <1>4, <2>2, <2>3
<1>6. ~(y < x)
  <2>1. SUFFICES ASSUME y < x PROVE FALSE
    OBVIOUS
  <2>2. n * (y + 1) <= n * x /\ n * (y + 1) = n * y + n
    BY <1>3, <2>1, TimesGrows
  <2>3. n * x \in Nat /\ n * y \in Nat
    BY <1>3
  <2> QED
    BY <1>3, <1>4, <2>2, <2>3
<1>7. x = y
  BY <1>3, <1>5, <1>6
<1>8. r = s
  <2>1. n * x \in Nat
    BY <1>3
  <2> QED
    BY <1>3, <1>4, <1>7, <2>1
<1> QED
  BY <1>2, <1>7, <1>8 DEF y, s

\* The place `r' bytes into a cluster.
LEMMA BlockAndIndex ==
    ASSUME NEW r \in Nat, r <= BytesPerCluster
    PROVE  /\ r \div BlockSize \in Nat /\ r % BlockSize \in Nat
           /\ r \div BlockSize <= SectorsPerCluster /\ r % BlockSize < BlockSize
           /\ r = Span(r \div BlockSize) + (r % BlockSize)
           /\ r \div BlockSize = SectorsPerCluster => r % BlockSize = 0 /\ r = BytesPerCluster
<1> DEFINE y == r \div BlockSize
           s == r % BlockSize
<1>1. BlockSize \in Nat /\ BlockSize > 0 /\ SectorsPerCluster \in Nat /\ BytesPerCluster \in Nat
  BY Geometry
<1>2. y \in Nat /\ s \in Nat /\ s < BlockSize /\ r = BlockSize * y + s
  BY <1>1
<1> HIDE DEF y, s
<1>3. BlockSize * y = Span(y)
  BY <1>1, <1>2 DEF Span
<1>4. Span(y) \in Nat /\ (y < SectorsPerCluster => Span(y) + BlockSize <= BytesPerCluster)
  BY <1>2, Geometry
<1>5. Span(SectorsPerCluster) = BytesPerCluster
  BY Geometry
<1>6. y <= SectorsPerCluster
  <2>1. SUFFICES ASSUME SectorsPerCluster < y PROVE FALSE
    BY <1>1, <1>2
  <2>2. BlockSize * (SectorsPerCluster + 1) <= BlockSize * y
    BY <1>1, <1>2, <2>1, TimesGrows
  <2>3. BlockSize * (SectorsPerCluster + 1) = BytesPerCluster + BlockSize
    BY <1>1 DEF BytesPerCluster
  <2> QED
    BY <1>1, <1>2, <1>3, <1>4, <2>2, <2>3
<1>7. y = SectorsPerCluster => s = 0 /\ r = BytesPerCluster
  BY <1>1, <1>2, <1>3, <1>5
<1>8. r = Span(y) + s
  BY <1>2, <1>3
<1> QED
  BY <1>2, <1>6, <1>7, <1>8 DEF y, s

\* last_cluster_len follows from the size.
LEMMA TailOf ==
    ASSUME BytesPerCluster < U16, NEW k \in Nat, k > 0, NEW r \in Nat, r > 0, r <= BytesPerCluster
    PROVE  /\ TailLength(Base(k) + r) = r
           /\ r < BytesPerCluster => (Base(k) + r) % BytesPerCluster # 0
<1> DEFINE C == BytesPerCluster
           a == Base(k) + r
<1>1. C \in Nat /\ C > 0 /\ U16 \in Nat
  BY Geometry, VolumeAssumption
<1>2. Base(k) = (k - 1) * C
  BY DEF Base
<1> HIDE DEF C
<1>3. CASE r < C
  <2>1. a = (k - 1) * C + r /\ k - 1 \in Nat
    BY <1>1, <1>2
  <2>2. a % C = r
    BY <1>1, <1>3, <2>1, Division
  <2> QED
    BY <1>3, <2>2 DEF TailLength, C
<1>4. CASE r = C
  <2>1. a = k * C + 0
    BY <1>1, <1>2, <1>4
  <2>2. a % C = 0
    BY <1>1, <2>1, Division
  <2>3. C % U16 = C
    BY <1>1 DEF C
  <2> QED
    BY <1>4, <2>2, <2>3 DEF TailLength, C
<1> QED
  BY <1>1, <1>3, <1>4 DEF C

-----------------------------------------------------------------------------
(* Descriptors. *)

\* The end of a chain is behind its last cluster and nowhere else.
LEMMA NextFacts ==
    ASSUME NEW ch \in Seq(Clusters), NEW k \in 1 .. Len(ch)
    PROVE  /\ Len(ch) \in Nat /\ k \in Nat /\ k > 0 /\ k <= Len(ch)
           /\ ch[k] \in Clusters /\ ch[k] \in 0 .. EOC /\ ch[k] # 0 /\ ch[k] # EOC
           /\ NextIn(ch, k) = EOC <=> k = Len(ch)
           /\ k # Len(ch) => k + 1 \in 1 .. Len(ch) /\ NextIn(ch, k) = ch[k + 1]
           /\ 1 \in 1 .. Len(ch) /\ Len(ch) \in 1 .. Len(ch)
<1>1. Len(ch) \in Nat /\ \A j \in 1 .. Len(ch) : ch[j] \in Clusters
  OBVIOUS
<1>2. k \in Nat /\ k > 0 /\ k <= Len(ch) /\ (k # Len(ch) => k < Len(ch) /\ k + 1 \in 1 .. Len(ch))
  BY <1>1
<1>3. 1 \in 1 .. Len(ch) /\ Len(ch) \in 1 .. Len(ch)
  BY <1>2
<1>4. k # Len(ch) => ch[k + 1] \in Clusters
  BY <1>1, <1>2
<1>5. k # Len(ch) => NextIn(ch, k) = ch[k + 1]
  BY <1>2 DEF NextIn
<1>6. k = Len(ch) => NextIn(ch, k) = EOC
  BY <1>2 DEF NextIn
<1> QED
  BY <1>1, <1>2, <1>3, <1>4, <1>5, <1>6, ClusterFacts

\* What the descriptor says of a file whose entry is on the card fits its chain.
LEMMA ExtentFits ==
    ASSUME NEW d \in FileDescriptor, NEW ch \in Seq(Clusters), NEW e \in DirEntry,
           Extent(d, ch), Filled(d, ch)
    PROVE  /\ EntryFits(d, ch)
           /\ Saved(d, e) /\ ~d.dir_entry_modified => EntryFits(e, ch)
<1>1. EntryFits(d, ch)
  <2>1. CASE Len(ch) = 0
    BY <2>1 DEF EntryFits, Extent
  <2>2. CASE Len(ch) # 0
    <3>1. Len(ch) \in Nat /\ Len(ch) > 0
      BY <2>2
    <3>2. /\ Base(Len(ch)) \in Nat /\ Base(Len(ch) + 1) = Base(Len(ch)) + BytesPerCluster
          /\ BytesPerCluster \in Nat
      BY <3>1, Geometry
    <3>3. d.last_cluster_len \in Nat
      BY DEF FileDescriptor
    <3> QED
      BY <2>2, <3>1, <3>2, <3>3 DEF EntryFits, Extent, Filled
  <2> QED
    BY <2>1, <2>2
<1> QED
  BY <1>1 DEF EntryFits, Saved

\* The types of a descriptor's fields.
LEMMA DescFields ==
    ASSUME NEW d \in FileDescriptor
    PROVE  /\ d.last_cluster_len \in Nat /\ d.block_in_cluster \in Nat
           /\ d.index_in_block \in Nat /\ d.size \in Nat /\ d.abs_offset \in Nat
           /\ d.block_addr \in Int /\ d.next_cluster \in 0 .. EOC /\ d.cur_cluster \in 0 .. EOC
           /\ d.cluster_lo \in 0 .. EOC
           /\ d.dir_entry_modified \in BOOLEAN
BY DEF FileDescriptor

\* A cursor with a link stands before a later cluster; one without, in the last,
\* and then the offset in the cluster is one of the file.
LEMMA CursorFacts ==
    ASSUME NEW d \in FileDescriptor, NEW ch \in Seq(Clusters), NEW k \in 1 .. Len(ch),
           Extent(d, ch), d.abs_offset <= d.size, Cursor(d, ch, k)
    PROVE  /\ d.next_cluster = EOC <=> k = Len(ch)
           /\ d.next_cluster = EOC =>
                  Span(d.block_in_cluster) + d.index_in_block <= d.last_cluster_len
           /\ d.next_cluster # EOC =>
                  /\ k < Len(ch) /\ k + 1 \in 1 .. Len(ch) /\ d.next_cluster = ch[k + 1]
                  /\ d.block_in_cluster < SectorsPerCluster
           /\ d.block_in_cluster = SectorsPerCluster =>
                  /\ d.next_cluster = EOC /\ d.last_cluster_len = BytesPerCluster
                  /\ d.size = Base(Len(ch) + 1) /\ d.abs_offset = d.size
<1>1. /\ Len(ch) \in Nat /\ k \in Nat /\ k > 0 /\ k <= Len(ch)
      /\ NextIn(ch, k) = EOC <=> k = Len(ch)
      /\ k # Len(ch) => k + 1 \in 1 .. Len(ch) /\ NextIn(ch, k) = ch[k + 1]
  BY NextFacts
<1>2. d.next_cluster = NextIn(ch, k)
  BY DEF Cursor
<1>3. /\ Base(Len(ch)) \in Nat /\ Base(Len(ch) + 1) = Base(Len(ch)) + BytesPerCluster
      /\ BytesPerCluster \in Nat /\ Span(SectorsPerCluster) = BytesPerCluster
  BY <1>1, Geometry
<1>4. Span(d.block_in_cluster) \in Nat /\ SectorsPerCluster \in Nat
  BY DescFields, Geometry
<1>5. ASSUME d.next_cluster = EOC
      PROVE  /\ Span(d.block_in_cluster) + d.index_in_block <= d.last_cluster_len
             /\ k = Len(ch)
  <2>1. k = Len(ch) /\ Len(ch) # 0
    BY <1>1, <1>2, <1>5
  <2> QED
    BY <1>3, <1>4, <2>1, DescFields, SMTT(40) DEF Cursor, Standing, Extent
<1>6. ASSUME d.block_in_cluster = SectorsPerCluster
      PROVE  /\ d.next_cluster = EOC /\ d.last_cluster_len = BytesPerCluster
             /\ d.size = Base(Len(ch) + 1) /\ d.abs_offset = d.size
  <2>1. d.next_cluster = EOC /\ d.index_in_block = 0
    BY <1>6 DEF Cursor, Standing, Placed
  <2>2. k = Len(ch) /\ Len(ch) # 0
    BY <1>1, <1>5, <2>1
  <2>3. d.abs_offset = Base(Len(ch)) + BytesPerCluster
    BY <1>3, <1>6, <2>1, <2>2 DEF Cursor, Standing
  <2>4. d.size = Base(Len(ch)) + d.last_cluster_len /\ d.last_cluster_len <= BytesPerCluster
    BY <2>2 DEF Extent
  <2> QED
    BY <1>3, <2>1, <2>3, <2>4, DescFields
<1>7. d.block_in_cluster <= SectorsPerCluster
  BY DEF Cursor, Standing, Placed
<1> QED
  BY <1>1, <1>2, <1>4, <1>5, <1>6, <1>7, DescFields

\* The smaller of two lengths is one of them.
LEMMA MinIsOne ==
    ASSUME NEW a \in Nat, NEW b \in Nat
    PROVE  Min({a, b}) \in Nat /\ Min({a, b}) <= a /\ Min({a, b}) <= b
           /\ (Min({a, b}) = a \/ Min({a, b}) = b)
<1>1. {a, b} \subseteq Nat /\ {a, b} # {}
  OBVIOUS
<1> DEFINE m == Min({a, b})
<1>2. m \in {a, b} /\ \A y \in {a, b} : m <= y
  BY <1>1, MinExists
<1> HIDE DEF m
<1>3. m \in Nat /\ m <= a /\ m <= b /\ (m = a \/ m = b)
  BY <1>2
<1> QED
  BY <1>3 DEF m

\* Numbers below 2^16 survive the code's arithmetic.
LEMMA NoWrap == ASSUME NEW x \in Nat, x < U16 PROVE x % U16 = x
BY VolumeAssumption

\* The bytes of the block of the cursor.
LEMMA RoomFacts ==
    ASSUME BytesPerCluster < U16, NEW d \in FileDescriptor, Placed(d)
    PROVE  RoomInBlock(d) = BlockSize - d.index_in_block /\ RoomInBlock(d) \in Nat
           /\ RoomInBlock(d) > 0 /\ d.index_in_block < BlockSize
<1>1. BlockSize \in Nat /\ BlockSize <= BytesPerCluster /\ BytesPerCluster \in Nat /\ U16 \in Nat
  BY Geometry, VolumeAssumption
<1>2. d.index_in_block \in Nat /\ d.index_in_block < BlockSize
  BY DescFields DEF Placed
<1>3. BlockSize - d.index_in_block \in Nat /\ BlockSize - d.index_in_block < U16
      /\ BlockSize - d.index_in_block > 0
  BY <1>1, <1>2
<1> QED
  BY <1>2, <1>3, NoWrap DEF RoomInBlock

\* In the last cluster, the bytes from the start of the cursor's block on.
LEMMA RemainderFacts ==
    ASSUME BytesPerCluster < U16, NEW d \in FileDescriptor, NEW ch \in Seq(Clusters),
           Len(ch) > 0, Extent(d, ch),
           Span(d.block_in_cluster) + d.index_in_block <= d.last_cluster_len
    PROVE  /\ Remainder(d) = d.last_cluster_len - Span(d.block_in_cluster)
           /\ Remainder(d) \in Nat /\ d.index_in_block <= Remainder(d)
           /\ Remainder(d) <= BytesPerCluster
           /\ InLastBlock(d) => Available(d) = Remainder(d) - d.index_in_block
<1>1. /\ d.last_cluster_len \in Nat /\ Span(d.block_in_cluster) \in Nat /\ d.index_in_block \in Nat
      /\ d.last_cluster_len <= BytesPerCluster /\ BytesPerCluster \in Nat /\ U16 \in Nat
  <2>1. Span(d.block_in_cluster) \in Nat /\ BytesPerCluster \in Nat
    BY DescFields, Geometry
  <2>2. d.last_cluster_len <= BytesPerCluster
    BY DEF Extent
  <2> QED
    BY <2>1, <2>2, DescFields, VolumeAssumption
<1> DEFINE x == d.last_cluster_len - Span(d.block_in_cluster)
<1>2. x \in Nat /\ x < U16 /\ d.index_in_block <= x /\ x <= BytesPerCluster
  BY <1>1
<1>3. Remainder(d) = x
  BY <1>2, NoWrap DEF Remainder, Span
<1> HIDE DEF x
<1>4. x - d.index_in_block \in Nat /\ x - d.index_in_block < U16
  BY <1>1, <1>2
<1>5. InLastBlock(d) => Available(d) = x - d.index_in_block
  BY <1>3, <1>4, NoWrap DEF Available
<1> QED
  BY <1>2, <1>3, <1>5 DEF x

\* Behind the last block of a full last cluster there is nothing to read.
LEMMA NothingBehind ==
    ASSUME BytesPerCluster < U16, NEW d \in FileDescriptor, NEW ch \in Seq(Clusters),
           NEW k \in 1 .. Len(ch), Extent(d, ch), d.abs_offset <= d.size, Cursor(d, ch, k),
           d.block_in_cluster = SectorsPerCluster, NEW op, op # "write", NEW len \in Nat
    PROVE  ChunkLen(d, op, len) = 0 /\ Filled(d, ch)
<1>1. /\ d.next_cluster = EOC /\ d.last_cluster_len = BytesPerCluster
      /\ Span(d.block_in_cluster) + d.index_in_block <= d.last_cluster_len
  BY CursorFacts
<1>2. Len(ch) > 0 /\ d.index_in_block = 0
  BY NextFacts DEF Cursor, Standing, Placed
<1>3. BytesPerCluster \in Nat /\ BlockSize \in Nat /\ Span(SectorsPerCluster) = BytesPerCluster
      /\ BytesPerCluster > 0
  BY Geometry
<1>4. Remainder(d) = 0
  BY <1>1, <1>2, <1>3, RemainderFacts
<1>5. InLastBlock(d)
  BY <1>1, <1>3, <1>4 DEF InLastBlock
<1>6. Available(d) = 0
  BY <1>1, <1>2, <1>4, <1>5, RemainderFacts
<1>7. ChunkLen(d, op, len) = Min({len, 0})
  BY <1>6 DEF ChunkLen, Expands
<1>8. Min({len, 0}) = 0
  BY MinIsOne
<1> QED
  BY <1>1, <1>3, <1>7, <1>8 DEF Filled

\* A read of an empty file gets nothing.
LEMMA NothingInEmpty ==
    ASSUME BytesPerCluster < U16, NEW d \in FileDescriptor, CursorEmpty(d),
           d.last_cluster_len = 0, NEW op, op # "write", NEW len \in Nat
    PROVE  ChunkLen(d, op, len) = 0
<1>1. BlockSize \in Nat /\ Span(0) = 0 /\ U16 \in Nat /\ 0 < U16
  BY Geometry, VolumeAssumption
<1>2. 0 % U16 = 0 /\ (0 - 0) % U16 = 0
  BY <1>1, NoWrap
<1>3. Remainder(d) = (0 - 0 * BlockSize) % U16
  BY DEF Remainder, CursorEmpty
<1>4. 0 - 0 * BlockSize = 0
  BY <1>1
<1>5. Remainder(d) = 0
  BY <1>2, <1>3, <1>4
<1>6. InLastBlock(d) /\ Available(d) = 0
  BY <1>1, <1>2, <1>5 DEF InLastBlock, Available, CursorEmpty
<1>7. ChunkLen(d, op, len) = Min({len, 0})
  BY <1>6 DEF ChunkLen, Expands
<1> QED
  BY <1>7, MinIsOne

\* Everything of a descriptor but the size, the last cluster's length and the mark.
SameCursor(d, d1) ==
    /\ d1.is_free = d.is_free /\ d1.is_stale = d.is_stale /\ d1.file = d.file
    /\ d1.block_addr = d.block_addr /\ d1.block_in_cluster = d.block_in_cluster
    /\ d1.index_in_block = d.index_in_block /\ d1.next_cluster = d.next_cluster
    /\ d1.cur_cluster = d.cur_cluster /\ d1.cluster_lo = d.cluster_lo
    /\ d1.abs_offset = d.abs_offset

\* A chunk of n bytes at the cursor of d, for which d1 was made of d.
GoodChunk(d, ch, e, d1, n) ==
    /\ d1 \in FileDescriptor /\ SameCursor(d, d1)
    /\ Extent(d1, ch) /\ Filled(d1, ch) /\ Saved(d1, e)
    /\ d1.dir_entry_modified \/ d1 = d
    /\ n \in Nat /\ d.index_in_block + n <= BlockSize
    /\ d.abs_offset + n <= d1.size

\* fat_action's chunk with a cursor inside a cluster.
LEMMA ChunkGood ==
    ASSUME BytesPerCluster < U16, NEW d \in FileDescriptor, NEW ch \in Seq(Clusters),
           NEW e \in DirEntry, NEW k \in 1 .. Len(ch),
           Extent(d, ch), Saved(d, e), d.abs_offset <= d.size, Cursor(d, ch, k),
           NEW op, NEW len \in Nat, len # 0,
           d.block_in_cluster < SectorsPerCluster,
           Filled(d, ch) \/ (op = "write" /\ k = Len(ch))
    PROVE  LET n == ChunkLen(d, op, len)  d1 == Expanded(d, op, len) IN
           /\ n \in Nat /\ n <= len
           /\ n = 0 => Filled(d, ch)
           /\ n # 0 => GoodChunk(d, ch, e, d1, n)
<1> DEFINE n == ChunkLen(d, op, len)
           d1 == Expanded(d, op, len)
           b == d.block_in_cluster
           i == d.index_in_block
           L == d.last_cluster_len
           B == BlockSize
           C == BytesPerCluster
           room == RoomInBlock(d)
           R == Remainder(d)
           z == Base(k)
           zl == Base(Len(ch))
           sb == Span(b)
           off == d.abs_offset
           sz == d.size
<1>1. /\ b \in Nat /\ i \in Nat /\ L \in Nat /\ sz \in Nat /\ off \in Nat
      /\ B \in Nat /\ B > 0 /\ C \in Nat /\ B <= C /\ U16 \in Nat /\ SectorsPerCluster \in Nat
  BY DescFields, Geometry, VolumeAssumption
<1>2. /\ Len(ch) \in Nat /\ Len(ch) > 0 /\ k \in Nat /\ k > 0 /\ k <= Len(ch)
  BY NextFacts
<1>3. sb \in Nat /\ sb + B <= C /\ z \in Nat /\ zl \in Nat
      /\ (k < Len(ch) => z + C <= zl)
  BY <1>1, <1>2, Geometry
<1>4. /\ sz = zl + L /\ L <= C
      /\ off = z + sb + i
  BY <1>2 DEF Extent, Cursor, Standing
<1>5. room = B - i /\ room \in Nat /\ room > 0 /\ i < B
  BY RoomFacts DEF Cursor, Standing
<1>6. /\ d.next_cluster = EOC <=> k = Len(ch)
      /\ d.next_cluster = EOC => sb + i <= L
  BY CursorFacts
<1>7. d.next_cluster = EOC =>
          /\ R = L - sb /\ R \in Nat /\ i <= R /\ R <= C
          /\ InLastBlock(d) => Available(d) = R - i
  BY <1>2, <1>6, RemainderFacts
<1>8. InLastBlock(d) <=> d.next_cluster = EOC /\ R <= B
  BY DEF InLastBlock
<1>81. off <= sz /\ C < U16
  OBVIOUS
<1> HIDE DEF n, d1, room, R, z, zl, sb, off, sz, b, i, L, B, C
<1>9. ASSUME ~InLastBlock(d) PROVE n = Min({len, room}) /\ d1 = d
  BY <1>9 DEF n, d1, room, ChunkLen, Expands, Expanded, Available
<1>10. CASE ~InLastBlock(d)
  <2>1. n \in Nat /\ n <= len /\ n <= room /\ (n = len \/ n = room)
    BY <1>5, <1>9, <1>10, MinIsOne
  <2>2. n # 0 /\ i + n <= B
    BY <1>1, <1>5, <2>1
  <2>3. Filled(d, ch)
    <3>1. CASE k = Len(ch)
      BY <1>1, <1>3, <1>6, <1>7, <1>8, <1>10, <3>1 DEF Filled, L
    <3> QED
      BY <3>1
  <2>4. off + n <= sz
    <3>1. CASE k < Len(ch)
      BY <1>1, <1>3, <1>4, <2>1, <2>2, <3>1
    <3>2. CASE k = Len(ch)
      <4>1. R > B /\ R = L - sb /\ R \in Nat
        BY <1>1, <1>6, <1>7, <1>8, <1>10, <3>2
      <4>2. z = zl
        BY <3>2 DEF z, zl
      <4> QED
        BY <1>1, <1>3, <1>4, <2>1, <2>2, <4>1, <4>2, <1>81
    <3> QED
      BY <1>2, <3>1, <3>2
  <2>5. GoodChunk(d, ch, e, d, n)
    BY <2>1, <2>2, <2>3, <2>4 DEF GoodChunk, SameCursor, i, B, off, sz
  <2> QED
    BY <1>9, <1>10, <2>1, <2>2, <2>5 DEF n, d1
<1>11. CASE InLastBlock(d)
  <2>1. /\ k = Len(ch) /\ R = L - sb /\ R \in Nat /\ i <= R /\ R <= B
        /\ Available(d) = R - i /\ z = zl
    BY <1>6, <1>7, <1>8, <1>11 DEF z, zl
  <2>2. CASE Expands(d, op, len)
    <3>1. n = Min({len, room}) /\ len > R - i
      BY <2>1, <2>2 DEF n, room, ChunkLen, Expands
    <3>2. n \in Nat /\ n <= len /\ n <= room /\ (n = len \/ n = room)
      BY <1>5, <3>1, MinIsOne
    <3>3. n # 0 /\ i + n <= B /\ R <= i + n
      BY <1>1, <1>5, <2>1, <3>1, <3>2
    <3> DEFINE delta == (i + n) - R
               L1 == sb + i + n
    <3>4. delta \in Nat /\ delta < U16
      BY <1>1, <1>81, <2>1, <3>2, <3>3
    <3>5. L + delta = L1 /\ L1 \in Nat /\ L1 <= C /\ L1 < U16 /\ L1 > 0
      BY <1>1, <1>3, <1>81, <2>1, <3>2, <3>3
    <3>6. d1 = Grown(d, (i + n - R) % U16)
      BY <2>2 DEF d1, Expanded, n, R, i
    <3>61. i + n - R = delta
      BY <1>1, <2>1, <3>2
    <3> HIDE DEF delta, L1
    <3>7. (i + n - R) % U16 = delta
      BY <3>4, <3>61, NoWrap
    <3>8. (L + delta) % U16 = L1
      BY <3>5, NoWrap
    <3>9. d1 = [d EXCEPT !.last_cluster_len = L1, !.size = sz + delta,
                         !.dir_entry_modified = TRUE]
      BY <3>6, <3>7, <3>8 DEF Grown, L, sz
    <3>10. sz + delta \in Nat /\ sz + delta = zl + L1
      BY <1>1, <1>3, <1>4, <3>4, <3>5
    <3>11. /\ d1 \in FileDescriptor /\ SameCursor(d, d1)
           /\ d1.last_cluster_len = L1 /\ d1.size = zl + L1 /\ d1.dir_entry_modified
      BY <3>5, <3>9, <3>10 DEF FileDescriptor, SameCursor
    <3>12. Extent(d1, ch) /\ Filled(d1, ch) /\ Saved(d1, e)
      BY <1>2, <3>5, <3>11 DEF Extent, Filled, Saved, SameCursor, zl, C
    <3>13. off + n <= d1.size
      BY <1>1, <1>3, <1>4, <2>1, <3>2, <3>11 DEF L1
    <3>14. GoodChunk(d, ch, e, d1, n)
      BY <3>2, <3>3, <3>11, <3>12, <3>13 DEF GoodChunk, i, B, off
    <3> QED
      BY <3>2, <3>3, <3>14 DEF n, d1
  <2>3. CASE ~Expands(d, op, len)
    <3>1. n = Min({len, R - i}) /\ d1 = d /\ R - i \in Nat
      BY <1>1, <2>1, <2>3 DEF n, d1, ChunkLen, Expanded
    <3>2. n \in Nat /\ n <= len /\ n <= R - i
      BY <3>1, MinIsOne
    <3>3. i + n <= B /\ off + n <= sz
      BY <1>1, <1>3, <1>4, <2>1, <3>2
    <3>4. Filled(d, ch)
      <4>1. SUFFICES ASSUME ~Filled(d, ch) PROVE FALSE
        OBVIOUS
      <4>2. L = 0 /\ op = "write"
        BY <1>1, <4>1 DEF Filled, L
      <4>3. R - i = 0
        BY <1>1, <1>3, <2>1, <4>2
      <4> QED
        BY <1>11, <2>1, <2>3, <4>2, <4>3 DEF Expands
    <3>5. GoodChunk(d, ch, e, d, n)
      BY <3>2, <3>3, <3>4 DEF GoodChunk, SameCursor, i, B, off, sz
    <3> QED
      BY <3>1, <3>2, <3>4, <3>5 DEF n, d1
  <2> QED
    BY <2>2, <2>3
<1> QED
  BY <1>10, <1>11

\* seek_advance after a chunk that does not end a cluster with a successor.
LEMMA MovedInside ==
    ASSUME NEW d \in FileDescriptor, NEW ch \in Seq(Clusters), NEW e \in DirEntry,
           NEW k \in 1 .. Len(ch), Cursor(d, ch, k), d.block_in_cluster < SectorsPerCluster,
           NEW d1, NEW n, n # 0, GoodChunk(d, ch, e, d1, n), ~CrossesCluster(d1, n)
    PROVE  LET d2 == SeekAdvance(d1, n) IN
           Settle(d2, ch, e) /\ d2.abs_offset = d.abs_offset + n
<1> DEFINE d2 == SeekAdvance(d1, n)
           b == d.block_in_cluster
           i == d.index_in_block
           off == d.abs_offset
           sb == Span(b)
           z == Base(k)
<1>1. /\ d1 \in FileDescriptor /\ SameCursor(d, d1) /\ Extent(d1, ch) /\ Filled(d1, ch)
      /\ Saved(d1, e) /\ n \in Nat /\ i + n <= BlockSize /\ off + n <= d1.size
  BY DEF GoodChunk
<1>2. b \in Nat /\ i \in Nat /\ off \in Nat /\ d.block_addr \in Int
  BY DescFields
<1>3. /\ SectorsPerCluster \in Nat /\ BlockSize \in Nat /\ sb \in Nat
      /\ Span(b + 1) = sb + BlockSize /\ BlockSize > 0
  BY <1>2, Geometry
<1>4. z \in Nat /\ off = z + sb + i
  BY NextFacts, Geometry DEF Cursor, Standing
<1>5. /\ d.cur_cluster = ch[k] /\ d.next_cluster = NextIn(ch, k)
      /\ d.block_addr = FirstBlock(ch[k]) + b /\ i < BlockSize
  BY <1>2, <1>3 DEF Cursor, Standing, Placed
<1>6. CASE i + n # BlockSize
  <2>1. d2 = [d1 EXCEPT !.index_in_block = i + n, !.abs_offset = off + n]
    BY <1>1, <1>6 DEF SeekAdvance, FillsBlock, SameCursor
  <2>2. /\ d2.index_in_block = i + n /\ d2.abs_offset = off + n
        /\ d2.block_in_cluster = b /\ d2.block_addr = d.block_addr
        /\ d2.cur_cluster = d.cur_cluster /\ d2.next_cluster = d.next_cluster
        /\ d2.size = d1.size /\ d2.cluster_lo = d1.cluster_lo
        /\ d2.last_cluster_len = d1.last_cluster_len
        /\ d2.dir_entry_modified = d1.dir_entry_modified
    BY <1>1, <2>1 DEF FileDescriptor, SameCursor
  <2> HIDE DEF d2
  <2>3. Extent(d2, ch) /\ Filled(d2, ch) /\ Saved(d2, e)
    BY <1>1, <2>2 DEF Extent, Filled, Saved
  <2>40. i + n < BlockSize /\ off + n = z + sb + (i + n)
    <3> HIDE DEF z, sb, i, off
    <3> QED
      BY <1>1, <1>2, <1>3, <1>4, <1>6
  <2>4. d2.index_in_block < BlockSize /\ d2.abs_offset = z + sb + (i + n)
    BY <2>2, <2>40
  <2>5. Cursor(d2, ch, k)
    BY <1>2, <1>3, <1>5, <2>2, <2>4 DEF Cursor, Standing, Placed
  <2>6. Len(ch) # 0
    BY NextFacts
  <2>7. Settle(d2, ch, e)
    BY <1>1, <2>2, <2>3, <2>5, <2>6 DEF Settle, Sane
  <2> QED
    BY <2>2, <2>7 DEF d2
<1>7. CASE i + n = BlockSize
  <2>0. b + 1 # SectorsPerCluster \/ d.next_cluster = EOC
    BY <1>1, <1>7 DEF CrossesCluster, FillsBlock, SameCursor
  <2>1. d2 = [d1 EXCEPT !.index_in_block = 0, !.abs_offset = off + n,
                        !.block_in_cluster = b + 1, !.block_addr = NextBlock(d1, n)]
    BY <1>1, <1>7 DEF SeekAdvance, FillsBlock, SameCursor, FileDescriptor
  <2>2. /\ d2.index_in_block = 0 /\ d2.abs_offset = off + n
        /\ d2.block_in_cluster = b + 1 /\ d2.block_addr = NextBlock(d1, n)
        /\ d2.cur_cluster = d.cur_cluster /\ d2.next_cluster = d.next_cluster
        /\ d2.size = d1.size /\ d2.cluster_lo = d1.cluster_lo
        /\ d2.last_cluster_len = d1.last_cluster_len
        /\ d2.dir_entry_modified = d1.dir_entry_modified
    BY <1>1, <2>1 DEF FileDescriptor, SameCursor
  <2> HIDE DEF d2
  <2>3. Extent(d2, ch) /\ Filled(d2, ch) /\ Saved(d2, e)
    BY <1>1, <2>2 DEF Extent, Filled, Saved
  <2>4. d2.abs_offset = z + Span(b + 1) + 0
    BY <1>1, <1>2, <1>3, <1>4, <1>7, <2>2, SMTT(40)
  <2>5. b + 1 # SectorsPerCluster => d2.block_addr = FirstBlock(ch[k]) + (b + 1)
    <3>1. b + 1 # SectorsPerCluster => NextBlock(d1, n) = d.block_addr + 1
      BY <1>1 DEF NextBlock, SameCursor
    <3>2. FirstBlock(ch[k]) \in Int
      BY NextFacts, FirstBlockType
    <3> QED
      BY <1>2, <1>5, <2>2, <3>1, <3>2
  <2>6. Cursor(d2, ch, k)
    BY <1>2, <1>3, <1>5, <2>0, <2>2, <2>4, <2>5 DEF Cursor, Standing, Placed
  <2>7. Len(ch) # 0
    BY NextFacts
  <2>8. Settle(d2, ch, e)
    BY <1>1, <2>2, <2>3, <2>6, <2>7 DEF Settle, Sane
  <2> QED
    BY <2>2, <2>8 DEF d2
<1> QED
  BY <1>6, <1>7

\* seek_advance into the next cluster, before it reads the FAT.
LEMMA MovedAcross ==
    ASSUME NEW d \in FileDescriptor, NEW ch \in Seq(Clusters), NEW e \in DirEntry,
           NEW k \in 1 .. Len(ch), Cursor(d, ch, k), d.block_in_cluster < SectorsPerCluster,
           NEW d1, NEW n, n # 0, GoodChunk(d, ch, e, d1, n), CrossesCluster(d1, n),
           NEW c, c.off0 \in Nat, c.result \in Nat, c.chunk = n,
           d.abs_offset = c.off0 + c.result
    PROVE  AtAdvance(SeekAdvance(d1, n), c, ch, e)
<1> DEFINE d2 == SeekAdvance(d1, n)
           b == d.block_in_cluster
           i == d.index_in_block
           off == d.abs_offset
           z == Base(k)
<1>1. /\ d1 \in FileDescriptor /\ SameCursor(d, d1) /\ Extent(d1, ch) /\ Filled(d1, ch)
      /\ Saved(d1, e) /\ n \in Nat /\ off + n <= d1.size
  BY DEF GoodChunk
<1>2. b \in Nat /\ i \in Nat /\ off \in Nat
  BY DescFields
<1>3. i + n = BlockSize /\ b + 1 = SectorsPerCluster /\ d.next_cluster # EOC
  BY <1>1 DEF CrossesCluster, FillsBlock, SameCursor
<1>4. /\ d.next_cluster = NextIn(ch, k) /\ off = z + Span(b) + i
  BY DEF Cursor, Standing
<1>5. k \in Nat /\ k > 0 /\ k + 1 \in 2 .. Len(ch) /\ d.next_cluster = ch[k + 1]
  BY <1>3, <1>4, NextFacts
<1>6. /\ BlockSize \in Nat /\ BytesPerCluster \in Nat /\ Span(b) \in Nat
      /\ Span(b + 1) = Span(b) + BlockSize /\ Span(SectorsPerCluster) = BytesPerCluster
      /\ z \in Nat /\ Base(k + 1) = z + BytesPerCluster
  BY <1>2, <1>5, Geometry
<1>7. off + n = Base(k + 1)
  <2>1. Span(b) + BlockSize = BytesPerCluster
    BY <1>3, <1>6
  <2> DEFINE sb == Span(b)
             zn == Base(k + 1)
  <2>2. sb \in Nat /\ off = z + sb + i /\ sb + BlockSize = BytesPerCluster
        /\ zn = z + BytesPerCluster
    BY <1>4, <1>6, <2>1
  <2> HIDE DEF sb, zn, off, z, i
  <2>3. off + n = zn
    BY <1>1, <1>2, <1>3, <1>6, <2>2
  <2> QED
    BY <2>3 DEF zn
<1>8. d2 = [d1 EXCEPT !.index_in_block = 0, !.abs_offset = off + n,
                      !.block_in_cluster = b + 1, !.block_addr = FirstBlock(ch[k + 1]),
                      !.cur_cluster = ch[k + 1]]
  BY <1>1, <1>3, <1>5 DEF SeekAdvance, FillsBlock, SameCursor, FileDescriptor, NextBlock
<1>9. /\ d2.index_in_block = 0 /\ d2.abs_offset = off + n
      /\ d2.block_addr = FirstBlock(ch[k + 1]) /\ d2.cur_cluster = ch[k + 1]
      /\ d2.size = d1.size /\ d2.cluster_lo = d1.cluster_lo
      /\ d2.last_cluster_len = d1.last_cluster_len
      /\ d2.dir_entry_modified = d1.dir_entry_modified
  BY <1>1, <1>8 DEF FileDescriptor
<1> HIDE DEF d2
<1>10. Extent(d2, ch) /\ Filled(d2, ch) /\ Saved(d2, e)
  BY <1>1, <1>9 DEF Extent, Filled, Saved
<1>11. d2.abs_offset = c.off0 + c.result + c.chunk
  BY <1>1, <1>9
<1> QED
  BY <1>1, <1>5, <1>7, <1>9, <1>10, <1>11 DEF AtAdvance, d2

-----------------------------------------------------------------------------
(* The steps of each call, as they change the descriptor.                  *)

\* No cluster is in the chain twice.
Distinct(ch) == \A i, j \in 1 .. Len(ch) : ch[i] = ch[j] => i = j

\* The chains of a sound FAT have distinct clusters.
LEMMA ChainDistinct ==
    ASSUME NEW chain, ChainsDisjoint(chain), NEW f \in Files
    PROVE  Distinct(chain[f])
BY DEF ChainsDisjoint, Distinct

\* A cursor at the start of the k-th cluster.
LEMMA AtStartOf ==
    ASSUME NEW d \in FileDescriptor, NEW ch \in Seq(Clusters), NEW k \in 1 .. Len(ch),
           d.cur_cluster = ch[k], d.next_cluster = NextIn(ch, k),
           d.block_addr = FirstBlock(ch[k]), d.block_in_cluster = 0, d.index_in_block = 0,
           d.abs_offset = Base(k)
    PROVE  Cursor(d, ch, k)
<1>1. SectorsPerCluster \in Nat /\ SectorsPerCluster > 0 /\ BlockSize > 0 /\ Span(0) = 0
      /\ BlockSize \in Nat
  BY Geometry
<1>2. Base(k) \in Nat /\ FirstBlock(ch[k]) \in Int
  BY NextFacts, Geometry, FirstBlockType
<1>3. Base(k) + 0 + 0 = Base(k) /\ FirstBlock(ch[k]) + 0 = FirstBlock(ch[k])
  BY <1>2
<1> QED
  BY <1>1, <1>3 DEF Cursor, Standing, Placed

\* fat_open_file has read the link of the first cluster.
LEMMA OpenedSettles ==
    ASSUME NEW d \in FileDescriptor, NEW ch \in Seq(Clusters), NEW e \in DirEntry,
           AtOpen(d, ch, e)
    PROVE  /\ 1 \in 1 .. Len(ch) /\ d.cluster_lo = ch[1]
           /\ Settle([d EXCEPT !.next_cluster = NextIn(ch, 1)], ch, e)
<1> DEFINE d2 == [d EXCEPT !.next_cluster = NextIn(ch, 1)]
<1>1. /\ Len(ch) > 0 /\ Extent(d, ch) /\ Saved(d, e) /\ Filled(d, ch)
      /\ d.abs_offset = 0 /\ d.block_in_cluster = 0 /\ d.index_in_block = 0
      /\ d.cur_cluster = ch[1] /\ d.block_addr = FirstBlock(ch[1])
  BY DEF AtOpen
<1>2. Len(ch) \in Nat /\ 1 \in 1 .. Len(ch)
  BY <1>1
<1>3. NextIn(ch, 1) \in 0 .. EOC
  BY <1>2, NextFacts, ClusterFacts
<1>4. /\ d2 \in FileDescriptor /\ d2.next_cluster = NextIn(ch, 1)
      /\ d2.abs_offset = 0 /\ d2.block_in_cluster = 0 /\ d2.index_in_block = 0
      /\ d2.cur_cluster = ch[1] /\ d2.block_addr = FirstBlock(ch[1])
      /\ d2.cluster_lo = d.cluster_lo /\ d2.size = d.size
      /\ d2.last_cluster_len = d.last_cluster_len
      /\ d2.dir_entry_modified = d.dir_entry_modified
  BY <1>1, <1>3 DEF FileDescriptor
<1> HIDE DEF d2
<1>5. Cursor(d2, ch, 1)
  BY <1>2, <1>4, AtStartOf, Geometry
<1>6. Extent(d2, ch) /\ Saved(d2, e) /\ Filled(d2, ch)
  BY <1>1, <1>4 DEF Extent, Saved, Filled
<1>7. d2.abs_offset <= d2.size
  BY <1>4, DescFields
<1>8. Settle(d2, ch, e)
  BY <1>1, <1>2, <1>5, <1>6, <1>7 DEF Settle, Sane
<1>9. d.cluster_lo = ch[1]
  BY <1>1 DEF Extent
<1> QED
  BY <1>2, <1>8, <1>9 DEF d2

\* fat_action ends with nothing left to move.
LEMMA LoopEnds ==
    ASSUME NEW d, NEW c, NEW ch, NEW e, AtLoop(d, c, ch, e), c.len = 0
    PROVE  Settle(d, ch, e)
BY DEF AtLoop, Settle

\* fat_write needs a cluster.
LEMMA LoopAllocates ==
    ASSUME NEW d \in FileDescriptor, NEW c, NEW ch \in Seq(Clusters), NEW e \in DirEntry,
           AtLoop(d, c, ch, e), c.len # 0, c.op = "write", NeedsCluster(d),
           NEW c2, c2.link = d.cur_cluster, c2.op = c.op, c2.len = c.len,
           c2.off0 = c.off0, c2.result = c.result
    PROVE  AtAlloc(d, c2, ch, e)
<1>1. Sane(d, ch, e) /\ ~Emptied(d) /\ d.abs_offset = c.off0 + c.result
  BY DEF AtLoop
<1>2. Filled(d, ch)
  <2>1. SUFFICES ASSUME ~Filled(d, ch) PROVE FALSE
    OBVIOUS
  <2>2. Len(ch) > 0 /\ ~(d.last_cluster_len > 0)
    BY <2>1 DEF Filled
  <2>3. PICK k \in 1 .. Len(ch) : Cursor(d, ch, k)
    BY <1>1, <2>2 DEF Sane
  <2>4. d.cur_cluster # 0
    BY <2>3, NextFacts DEF Cursor, Standing
  <2>5. d.block_in_cluster = SectorsPerCluster
    BY <2>4 DEF NeedsCluster
  <2>6. d.last_cluster_len = BytesPerCluster
    BY <1>1, <2>3, <2>5, CursorFacts DEF Sane
  <2> QED
    BY <2>2, <2>6, Geometry
<1> QED
  BY <1>1, <1>2 DEF AtAlloc, Settle

\* Where fat_action stands when it looks for a chunk: in an empty file, behind the
\* last block, or in a block.
LEMMA LoopPlaces ==
    ASSUME BytesPerCluster < U16, NEW d \in FileDescriptor, NEW c, NEW ch \in Seq(Clusters),
           NEW e \in DirEntry, Distinct(ch), AtLoop(d, c, ch, e), c.len \in Nat, c.len # 0,
           ~(c.op = "write" /\ NeedsCluster(d))
    PROVE  LET n == ChunkLen(d, c.op, c.len)  d1 == Expanded(d, c.op, c.len) IN
           /\ n = 0 => Settle(d, ch, e)
           /\ n # 0 => \E k \in 1 .. Len(ch) :
                  /\ Cursor(d, ch, k) /\ d.block_in_cluster < SectorsPerCluster
                  /\ n \in Nat /\ n <= c.len /\ GoodChunk(d, ch, e, d1, n)
<1> DEFINE n == ChunkLen(d, c.op, c.len)
           d1 == Expanded(d, c.op, c.len)
<1>1. Sane(d, ch, e) /\ ~Emptied(d)
  BY DEF AtLoop
<1>2. Extent(d, ch) /\ Saved(d, e) /\ d.abs_offset <= d.size
  BY <1>1 DEF Sane
<1>3. Len(ch) \in Nat
  OBVIOUS
<1>4. CASE Len(ch) = 0
  <2>1. CursorEmpty(d) /\ Filled(d, ch)
    BY <1>1, <1>4 DEF Sane, Filled
  <2>2. c.op # "write"
    BY <2>1 DEF CursorEmpty, NeedsCluster
  <2>3. d.last_cluster_len = 0
    BY <1>1, <1>2, <1>4 DEF Extent, Emptied
  <2>4. n = 0
    BY <2>1, <2>2, <2>3, NothingInEmpty
  <2> QED
    BY <1>1, <2>1, <2>4 DEF Settle
<1>5. CASE Len(ch) # 0
  <2>1. PICK k \in 1 .. Len(ch) : Cursor(d, ch, k)
    BY <1>1, <1>5 DEF Sane
  <2>2. d.block_in_cluster \in Nat /\ SectorsPerCluster \in Nat
        /\ d.block_in_cluster <= SectorsPerCluster
    BY <2>1, DescFields, Geometry DEF Cursor, Standing, Placed
  <2>3. CASE d.block_in_cluster = SectorsPerCluster
    <3>1. c.op # "write"
      BY <2>1, <2>3 DEF Cursor, NeedsCluster
    <3>2. n = 0 /\ Filled(d, ch)
      BY <1>2, <2>1, <2>3, <3>1, NothingBehind
    <3> QED
      BY <1>1, <3>2 DEF Settle
  <2>4. CASE d.block_in_cluster < SectorsPerCluster
    <3>1. Filled(d, ch) \/ (c.op = "write" /\ k = Len(ch))
      <4>1. SUFFICES ASSUME ~Filled(d, ch) PROVE c.op = "write" /\ k = Len(ch)
        OBVIOUS
      <4>2. c.op = "write" /\ d.cur_cluster = ch[Len(ch)]
        BY <4>1 DEF AtLoop
      <4>3. d.cur_cluster = ch[k] /\ Len(ch) \in 1 .. Len(ch)
        BY <2>1, NextFacts DEF Cursor, Standing
      <4> QED
        BY <4>2, <4>3 DEF Distinct
    <3>2. /\ n \in Nat /\ n <= c.len
          /\ n = 0 => Filled(d, ch)
          /\ n # 0 => GoodChunk(d, ch, e, d1, n)
      BY <1>2, <2>1, <2>4, <3>1, ChunkGood
    <3> QED
      BY <1>1, <2>1, <2>4, <3>2 DEF Settle
  <2> QED
    BY <2>2, <2>3, <2>4
<1> QED
  BY <1>4, <1>5

-----------------------------------------------------------------------------
(* fat_seek, fat_seek_end and the FAT read of seek_advance. *)

\* seek_advance after its FAT read: the cursor is at the start of the next cluster.
LEMMA AdvanceLoops ==
    ASSUME NEW d \in FileDescriptor, NEW c, NEW ch \in Seq(Clusters), NEW e \in DirEntry,
           AtAdvance(d, c, ch, e), NEW c2, c2.off0 = c.off0, c2.result = c.result + c.chunk,
           c.off0 \in Nat, c.result \in Nat, c.chunk \in Nat
    PROVE  \E k \in 1 .. Len(ch) :
               /\ d.cur_cluster = ch[k]
               /\ AtLoop([[d EXCEPT !.block_in_cluster = 0] EXCEPT !.next_cluster = NextIn(ch, k)],
                         c2, ch, e)
<1>1. PICK k \in 2 .. Len(ch) :
         /\ d.cur_cluster = ch[k] /\ d.abs_offset = Base(k)
         /\ d.index_in_block = 0 /\ d.block_addr = FirstBlock(ch[k])
  BY DEF AtAdvance
<1>2. k \in 1 .. Len(ch)
  OBVIOUS
<1> DEFINE d2 == [[d EXCEPT !.block_in_cluster = 0] EXCEPT !.next_cluster = NextIn(ch, k)]
<1>3. NextIn(ch, k) \in 0 .. EOC
  BY <1>2, NextFacts, ClusterFacts
<1>4. /\ d2 \in FileDescriptor
      /\ d2.cur_cluster = d.cur_cluster /\ d2.abs_offset = d.abs_offset
      /\ d2.index_in_block = d.index_in_block /\ d2.block_addr = d.block_addr
      /\ d2.block_in_cluster = 0 /\ d2.next_cluster = NextIn(ch, k)
      /\ d2.cluster_lo = d.cluster_lo /\ d2.size = d.size
      /\ d2.last_cluster_len = d.last_cluster_len
      /\ d2.dir_entry_modified = d.dir_entry_modified
  BY <1>3 DEF FileDescriptor
<1> HIDE DEF d2
<1>5. Cursor(d2, ch, k)
  BY <1>1, <1>2, <1>4, AtStartOf
<1>6. Extent(d2, ch) /\ Saved(d2, e) /\ Filled(d2, ch) /\ d2.abs_offset <= d2.size
  BY <1>4 DEF AtAdvance, Extent, Saved, Filled
<1>7. Len(ch) # 0 /\ ch[1] # 0
  BY <1>2, NextFacts
<1>8. ~Emptied(d2)
  BY <1>4, <1>7 DEF Emptied, AtAdvance, Extent
<1>9. d2.abs_offset = c2.off0 + c2.result
  <2>1. d.abs_offset = c.off0 + c.result + c.chunk
    BY DEF AtAdvance
  <2> QED
    BY <1>4, <2>1
<1>10. Sane(d2, ch, e)
  BY <1>2, <1>5, <1>6, <1>7 DEF Sane
<1>11. AtLoop(d2, c2, ch, e)
  BY <1>6, <1>8, <1>9, <1>10 DEF AtLoop
<1> QED
  BY <1>1, <1>2, <1>11 DEF d2

\* seek_begin after its FAT read.
LEMMA SeekBegins ==
    ASSUME NEW d \in FileDescriptor, NEW c, NEW ch \in Seq(Clusters), NEW e \in DirEntry,
           AtSeekBegin(d, c, ch, e), c.offset \in Nat, NEW c2, c2.offset = c.offset
    PROVE  /\ 1 \in 1 .. Len(ch) /\ d.cluster_lo = ch[1]
           /\ AtSeek([[d EXCEPT !.abs_offset = c.offset] EXCEPT !.next_cluster = NextIn(ch, 1)],
                     c2, ch, e)
<1> DEFINE d2 == [[d EXCEPT !.abs_offset = c.offset] EXCEPT !.next_cluster = NextIn(ch, 1)]
<1>1. /\ d2.cur_cluster = d.cur_cluster /\ d2.abs_offset = c.offset
      /\ d2.next_cluster = NextIn(ch, 1)
      /\ d2.cluster_lo = d.cluster_lo /\ d2.size = d.size
      /\ d2.last_cluster_len = d.last_cluster_len
      /\ d2.dir_entry_modified = d.dir_entry_modified
  BY DEF FileDescriptor
<1> HIDE DEF d2
<1>2. Len(ch) \in Nat /\ Len(ch) > 0
  BY DEF AtSeekBegin
<1>3. 1 \in 1 .. Len(ch) /\ d.cluster_lo = ch[1]
  BY <1>2 DEF AtSeekBegin, Extent
<1>4. d2.abs_offset = Base(1) + c2.offset
  <2>1. Base(1) = 0
    BY Geometry
  <2> QED
    BY <1>1, <2>1
<1>5. Extent(d2, ch) /\ Saved(d2, e) /\ Filled(d2, ch)
  BY <1>1 DEF AtSeekBegin, Extent, Saved, Filled
<1>6. d2.abs_offset <= d2.size /\ OffBoundary(d2.abs_offset, d2.size) /\ d2.cur_cluster = ch[1]
  BY <1>1 DEF AtSeekBegin
<1>7. AtSeek(d2, c2, ch, e)
  BY <1>1, <1>2, <1>3, <1>4, <1>5, <1>6 DEF AtSeek
<1> QED
  BY <1>3, <1>7 DEF d2

\* The offset left to go is within the cluster exactly when the cursor's place is.
LEMMA SeekMovesOn ==
    ASSUME BytesPerCluster < U16, NEW d \in FileDescriptor, NEW c, NEW ch \in Seq(Clusters),
           NEW e \in DirEntry, AtSeek(d, c, ch, e), c.offset \in Nat,
           c.offset > BytesPerCluster % U16,
           NEW c2, c2.offset = c.offset - (BytesPerCluster % U16)
    PROVE  \E k \in 1 .. Len(ch) :
               /\ d.next_cluster = ch[k]
               /\ AtSeek([[d EXCEPT !.cur_cluster = d.next_cluster]
                             EXCEPT !.next_cluster = NextIn(ch, k)], c2, ch, e)
<1> DEFINE C == BytesPerCluster
<1>1. C \in Nat /\ C > 0 /\ c.offset > C /\ c2.offset = c.offset - C
  BY Geometry, NoWrap
<1>2. Len(ch) # 0 /\ Len(ch) \in Nat
  BY <1>1 DEF AtSeek
<1>3. PICK j \in 1 .. Len(ch) :
         /\ d.cur_cluster = ch[j] /\ d.next_cluster = NextIn(ch, j)
         /\ d.abs_offset = Base(j) + c.offset
  BY <1>2 DEF AtSeek
<1>4. /\ d.size = Base(Len(ch)) + d.last_cluster_len /\ d.last_cluster_len <= C
      /\ d.abs_offset <= d.size
  BY <1>2 DEF AtSeek, Extent
<1>5. Base(j) \in Nat /\ Base(j + 1) = Base(j) + C
  <2>1. j \in Nat /\ j > 0
    BY <1>2
  <2> QED
    BY <2>1, Geometry
<1>6. d.last_cluster_len \in Nat /\ d.abs_offset \in Nat
  BY DescFields
<1>7. j # Len(ch)
  <2> HIDE DEF C
  <2> SUFFICES ASSUME j = Len(ch) PROVE FALSE
    OBVIOUS
  <2>1. Base(j) + c.offset <= Base(j) + d.last_cluster_len
    BY <1>3, <1>4
  <2> QED
    BY <1>1, <1>4, <1>5, <1>6, <2>1
<1>8. j + 1 \in 1 .. Len(ch) /\ d.next_cluster = ch[j + 1]
  BY <1>3, <1>7, NextFacts
<1> DEFINE k == j + 1
           d2 == [[d EXCEPT !.cur_cluster = d.next_cluster]
                     EXCEPT !.next_cluster = NextIn(ch, k)]
<1>9. /\ d2.cur_cluster = d.next_cluster /\ d2.abs_offset = d.abs_offset
      /\ d2.next_cluster = NextIn(ch, k)
      /\ d2.cluster_lo = d.cluster_lo /\ d2.size = d.size
      /\ d2.last_cluster_len = d.last_cluster_len
      /\ d2.dir_entry_modified = d.dir_entry_modified
  BY DEF FileDescriptor
<1> HIDE DEF d2
<1>10. d2.abs_offset = Base(k) + c2.offset
  <2> HIDE DEF C
  <2>1. Base(k) = Base(j) + C /\ c2.offset = c.offset - C
    BY <1>1, <1>5
  <2> QED
    BY <1>1, <1>3, <1>5, <1>9, <2>1
<1>11. Extent(d2, ch) /\ Saved(d2, e) /\ Filled(d2, ch)
  BY <1>9 DEF AtSeek, Extent, Saved, Filled
<1>12. d2.abs_offset <= d2.size /\ OffBoundary(d2.abs_offset, d2.size)
  BY <1>2, <1>9 DEF AtSeek
<1>13. AtSeek(d2, c2, ch, e)
  BY <1>2, <1>8, <1>9, <1>10, <1>11, <1>12 DEF AtSeek
<1> QED
  BY <1>8, <1>13 DEF d2

\* fat_seek_end goes from cluster to cluster until the last one.
LEMMA SeekEndMovesOn ==
    ASSUME NEW d \in FileDescriptor, NEW ch \in Seq(Clusters), NEW e \in DirEntry,
           AtSeekEnd(d, ch, e), d.next_cluster # EOC
    PROVE  \E k \in 1 .. Len(ch) :
               /\ d.next_cluster = ch[k]
               /\ AtSeekEnd([[d EXCEPT !.cur_cluster = d.next_cluster]
                                EXCEPT !.next_cluster = NextIn(ch, k)], ch, e)
<1>1. Len(ch) # 0 /\ Len(ch) \in Nat
  BY DEF AtSeekEnd, CursorEmpty
<1>2. PICK j \in 1 .. Len(ch) : d.cur_cluster = ch[j] /\ d.next_cluster = NextIn(ch, j)
  BY <1>1 DEF AtSeekEnd
<1>3. j + 1 \in 1 .. Len(ch) /\ d.next_cluster = ch[j + 1]
  BY <1>2, NextFacts
<1> DEFINE k == j + 1
           d2 == [[d EXCEPT !.cur_cluster = d.next_cluster]
                     EXCEPT !.next_cluster = NextIn(ch, k)]
<1>4. /\ d2.cur_cluster = d.next_cluster /\ d2.next_cluster = NextIn(ch, k)
      /\ d2.cluster_lo = d.cluster_lo /\ d2.size = d.size
      /\ d2.last_cluster_len = d.last_cluster_len
      /\ d2.dir_entry_modified = d.dir_entry_modified
  BY DEF FileDescriptor
<1> HIDE DEF d2
<1>5. Extent(d2, ch) /\ Saved(d2, e) /\ Filled(d2, ch) /\ ~Emptied(d2)
  BY <1>4 DEF AtSeekEnd, Extent, Saved, Filled, Emptied
<1>6. AtSeekEnd(d2, ch, e)
  BY <1>1, <1>3, <1>4, <1>5 DEF AtSeekEnd
<1> QED
  BY <1>3, <1>6 DEF d2

\* The cursor placed r bytes into the k-th cluster.
LEMMA PlacedSettles ==
    ASSUME NEW d \in FileDescriptor, NEW ch \in Seq(Clusters), NEW e \in DirEntry,
           NEW k \in 1 .. Len(ch), Extent(d, ch), Saved(d, e), Filled(d, ch),
           d.cur_cluster = ch[k], d.next_cluster = NextIn(ch, k),
           NEW r \in Nat, r <= BytesPerCluster, d.abs_offset = Base(k) + r,
           d.abs_offset <= d.size, r = BytesPerCluster => k = Len(ch)
    PROVE  Settle(PlacedAt(d, r), ch, e)
<1> DEFINE d2 == PlacedAt(d, r)
           b == r \div BlockSize
           i == r % BlockSize
<1>1. /\ b \in Nat /\ i \in Nat /\ b <= SectorsPerCluster /\ i < BlockSize
      /\ r = Span(b) + i
      /\ b = SectorsPerCluster => i = 0 /\ r = BytesPerCluster
  BY BlockAndIndex
<1>2. /\ d2.block_in_cluster = b /\ d2.index_in_block = i
      /\ d2.block_addr = FirstBlock(d.cur_cluster) + b
      /\ d2.cur_cluster = d.cur_cluster /\ d2.next_cluster = d.next_cluster
      /\ d2.abs_offset = d.abs_offset /\ d2.size = d.size
      /\ d2.cluster_lo = d.cluster_lo /\ d2.last_cluster_len = d.last_cluster_len
      /\ d2.dir_entry_modified = d.dir_entry_modified
  BY DEF PlacedAt, FileDescriptor
<1> HIDE DEF d2, b, i
<1>3. Base(k) \in Nat /\ Span(b) \in Nat
  <2>1. k \in Nat /\ k > 0
    BY NextFacts
  <2>2. Base(k) \in Nat
    BY <2>1, Geometry
  <2>3. Span(b) \in Nat
    BY <1>1, Geometry
  <2> QED
    BY <2>2, <2>3
<1>4. d2.abs_offset = Base(k) + Span(d2.block_in_cluster) + d2.index_in_block
  BY <1>1, <1>2, <1>3
<1>5. Placed(d2)
  BY <1>1, <1>2 DEF Placed
<1>6. Standing(d2, ch, k)
  BY <1>2, <1>4, <1>5 DEF Standing
<1>7. d2.block_in_cluster = SectorsPerCluster => d2.next_cluster = EOC
  BY <1>1, <1>2, NextFacts
<1>8. Cursor(d2, ch, k)
  BY <1>2, <1>6, <1>7 DEF Cursor
<1>9. Extent(d2, ch) /\ Saved(d2, e) /\ Filled(d2, ch) /\ d2.abs_offset <= d2.size
  BY <1>2 DEF Extent, Saved, Filled
<1>10. Len(ch) # 0
  BY NextFacts
<1> QED
  BY <1>8, <1>9, <1>10 DEF Settle, Sane, d2

\* In an empty file the only place is the start.
LEMMA PlacedInEmpty ==
    ASSUME NEW d \in FileDescriptor, NEW ch \in Seq(Clusters), NEW e \in DirEntry,
           Extent(d, ch), Saved(d, e), Len(ch) = 0, CursorEmpty(d)
    PROVE  Settle(PlacedAt(d, 0), ch, e)
<1> DEFINE d2 == PlacedAt(d, 0)
<1>1. 0 \div BlockSize = 0 /\ 0 % BlockSize = 0
  <2>1. BlockSize \in Nat /\ BlockSize > 0
    BY Geometry
  <2> QED
    BY <2>1
<1>2. /\ d2.block_in_cluster = 0 /\ d2.index_in_block = 0
      /\ d2.cur_cluster = d.cur_cluster /\ d2.next_cluster = d.next_cluster
      /\ d2.abs_offset = d.abs_offset /\ d2.size = d.size
      /\ d2.cluster_lo = d.cluster_lo /\ d2.last_cluster_len = d.last_cluster_len
      /\ d2.dir_entry_modified = d.dir_entry_modified
  BY <1>1 DEF PlacedAt, FileDescriptor
<1> HIDE DEF d2
<1>3. Extent(d2, ch) /\ Saved(d2, e) /\ Filled(d2, ch)
  BY <1>2 DEF Extent, Saved, Filled
<1>4. d2.abs_offset <= d2.size
  BY <1>2 DEF CursorEmpty, Extent
<1>5. CursorEmpty(d2)
  BY <1>2 DEF CursorEmpty
<1> QED
  BY <1>3, <1>4, <1>5 DEF Settle, Sane, d2

\* fat_seek comes to its place.
LEMMA SeekPlaces ==
    ASSUME BytesPerCluster < U16, NEW d \in FileDescriptor, NEW c, NEW ch \in Seq(Clusters),
           NEW e \in DirEntry, AtSeek(d, c, ch, e), c.offset \in Nat,
           c.offset <= BytesPerCluster % U16
    PROVE  Settle(PlacedAt(d, c.offset), ch, e)
<1>1. c.offset <= BytesPerCluster
  BY Geometry, NoWrap
<1>2. Extent(d, ch) /\ Saved(d, e) /\ Filled(d, ch)
  BY DEF AtSeek
<1>3. CASE Len(ch) = 0
  BY <1>2, <1>3, PlacedInEmpty DEF AtSeek
<1>4. CASE Len(ch) # 0
  <2>1. PICK k \in 1 .. Len(ch) :
           /\ d.cur_cluster = ch[k] /\ d.next_cluster = NextIn(ch, k)
           /\ d.abs_offset = Base(k) + c.offset
    BY <1>4 DEF AtSeek
  <2>2. d.abs_offset <= d.size /\ OffBoundary(d.abs_offset, d.size)
    BY <1>4 DEF AtSeek
  <2>3. ASSUME c.offset = BytesPerCluster, k # Len(ch) PROVE FALSE
    <3>1. k \in Nat /\ k > 0 /\ k < Len(ch) /\ Len(ch) \in Nat
      BY <2>3, NextFacts
    <3>2. Base(k + 1) = Base(k) + BytesPerCluster /\ Base(k) + BytesPerCluster <= Base(Len(ch))
      BY <3>1, Geometry
    <3>3. d.abs_offset = Base(k + 1) /\ k + 1 \in Nat /\ k + 1 > 1
      BY <2>1, <2>3, <3>1, <3>2
    <3>4. d.abs_offset = d.size
      BY <2>2, <3>3 DEF OffBoundary
    <3>5. d.size = Base(Len(ch)) + d.last_cluster_len /\ d.last_cluster_len > 0
      BY <1>2, <3>1 DEF Extent, Filled
    <3>6. Base(Len(ch)) \in Nat /\ d.last_cluster_len \in Nat
      BY <3>1, Geometry, DescFields
    <3> DEFINE x == Base(Len(ch))
               y == Base(k) + BytesPerCluster
    <3>7. y <= x /\ y = x + d.last_cluster_len
      BY <3>2, <3>3, <3>4, <3>5
    <3> HIDE DEF x, y
    <3> QED
      BY <3>5, <3>6, <3>7 DEF x
  <2> QED
    BY <1>1, <1>2, <2>1, <2>2, <2>3, PlacedSettles
<1> QED
  BY <1>3, <1>4

\* fat_seek_end comes to the end of the last cluster.
LEMMA SeekEndPlaces ==
    ASSUME NEW d \in FileDescriptor, NEW ch \in Seq(Clusters), NEW e \in DirEntry,
           AtSeekEnd(d, ch, e), d.next_cluster = EOC
    PROVE  Settle(PlacedAt([d EXCEPT !.abs_offset = d.size], d.last_cluster_len), ch, e)
<1> DEFINE d2 == [d EXCEPT !.abs_offset = d.size]
<1>1. Extent(d, ch) /\ Saved(d, e) /\ Filled(d, ch) /\ ~Emptied(d)
  BY DEF AtSeekEnd
<1>2. /\ d2 \in FileDescriptor /\ d2.abs_offset = d.size /\ d2.size = d.size
      /\ d2.cur_cluster = d.cur_cluster /\ d2.next_cluster = d.next_cluster
      /\ d2.block_in_cluster = d.block_in_cluster /\ d2.index_in_block = d.index_in_block
      /\ d2.cluster_lo = d.cluster_lo /\ d2.last_cluster_len = d.last_cluster_len
      /\ d2.dir_entry_modified = d.dir_entry_modified
  BY DEF FileDescriptor
<1>3. d.last_cluster_len \in Nat /\ d.size \in Nat
  BY DescFields
<1> HIDE DEF d2
<1>4. Extent(d2, ch) /\ Saved(d2, e) /\ Filled(d2, ch) /\ d2.abs_offset <= d2.size
  BY <1>1, <1>2, <1>3 DEF Extent, Saved, Filled
<1>5. CASE Len(ch) = 0
  <2>1. d.last_cluster_len = 0
    BY <1>1, <1>5 DEF Extent, Emptied
  <2>2. CursorEmpty(d2)
    BY <1>1, <1>2, <1>5 DEF AtSeekEnd, CursorEmpty, Extent
  <2> QED
    BY <1>2, <1>4, <1>5, <2>1, <2>2, PlacedInEmpty DEF d2
<1>6. CASE Len(ch) # 0
  <2>1. PICK k \in 1 .. Len(ch) : d.cur_cluster = ch[k] /\ d.next_cluster = NextIn(ch, k)
    BY <1>6 DEF AtSeekEnd
  <2>2. k = Len(ch)
    BY <2>1, NextFacts
  <2>3. d.last_cluster_len <= BytesPerCluster /\ d.size = Base(k) + d.last_cluster_len
    BY <1>1, <1>6, <2>2 DEF Extent
  <2>4. Settle(PlacedAt(d2, d.last_cluster_len), ch, e)
    BY <1>2, <1>3, <1>4, <2>1, <2>2, <2>3, PlacedSettles
  <2> QED
    BY <2>4 DEF d2
<1> QED
  BY <1>5, <1>6

-----------------------------------------------------------------------------
(* fat_truncate. *)

\* The size of a file is set to the cursor's place in its last cluster.
LEMMA CutSettles ==
    ASSUME BytesPerCluster < U16, NEW d \in FileDescriptor, NEW ch \in Seq(Clusters),
           NEW e \in DirEntry, Len(ch) > 0, AtCut(d, ch, Len(ch))
    PROVE  Settle(Truncated(d), ch, e)
<1> DEFINE k == Len(ch)
           b == d.block_in_cluster
           i == d.index_in_block
           r == Span(b) + i
           d2 == Truncated(d)
<1>1. k \in Nat /\ k > 0 /\ k \in 1 .. Len(ch)
  OBVIOUS
<1>2. /\ d.cluster_lo = ch[1] /\ d.dir_entry_modified /\ d.size = d.abs_offset
      /\ Standing(d, ch, k) /\ Base(k) < d.abs_offset
      /\ d.abs_offset = Base(k) + Span(b) + i
      /\ b <= SectorsPerCluster /\ i < BlockSize /\ (b = SectorsPerCluster => i = 0)
  BY DEF AtCut, Cutting, Standing, Placed
<1>3. b \in Nat /\ i \in Nat
  BY DescFields
<1>4. Base(k) \in Nat /\ Span(b) \in Nat /\ BytesPerCluster \in Nat /\ SectorsPerCluster \in Nat
      /\ BlockSize \in Nat
  <2>1. Base(k) \in Nat
    BY <1>1, Geometry
  <2> QED
    BY <1>3, <2>1, Geometry
<1>5. r <= BytesPerCluster
  <2>1. CASE b = SectorsPerCluster
    <3>1. Span(b) = BytesPerCluster
      BY <2>1, Geometry
    <3> QED
      BY <1>2, <1>4, <2>1, <3>1
  <2>2. CASE b < SectorsPerCluster
    <3>1. Span(b) + BlockSize <= BytesPerCluster
      BY <1>3, <2>2, Geometry
    <3> HIDE DEF b, i
    <3> QED
      BY <1>2, <1>3, <1>4, <3>1
  <2> QED
    BY <1>2, <1>3, <1>4, <2>1, <2>2
<1>6. d.abs_offset = Base(k) + r /\ r \in Nat /\ r > 0
  <2> HIDE DEF b, i, k
  <2> QED
    BY <1>2, <1>3, <1>4
<1>7. TailLength(d.abs_offset) = r
  <2> HIDE DEF r, k
  <2> QED
    BY <1>1, <1>5, <1>6, TailOf
<1>8. ASSUME b = 0 PROVE d.abs_offset % BytesPerCluster # 0
  <2>1. Span(0) = 0 /\ BlockSize <= BytesPerCluster
    BY Geometry
  <2>2. r < BytesPerCluster
    <3> HIDE DEF i
    <3> QED
      BY <1>2, <1>3, <1>4, <1>8, <2>1
  <2> HIDE DEF r, k, b
  <2> QED
    BY <1>1, <1>5, <1>6, <2>2, TailOf
<1>9. /\ d2.last_cluster_len = r /\ d2.next_cluster = EOC
      /\ d2.block_in_cluster = b /\ d2.index_in_block = i /\ d2.block_addr = d.block_addr
      /\ d2.cur_cluster = d.cur_cluster /\ d2.abs_offset = d.abs_offset /\ d2.size = d.size
      /\ d2.cluster_lo = d.cluster_lo /\ d2.dir_entry_modified = d.dir_entry_modified
  BY <1>7, <1>8 DEF Truncated, FileDescriptor
<1> HIDE DEF d2
<1>10. Standing(d2, ch, k)
  BY <1>2, <1>9 DEF Standing, Placed
<1>11. NextIn(ch, k) = EOC
  BY <1>1, NextFacts
<1>12. Cursor(d2, ch, k)
  BY <1>9, <1>10, <1>11 DEF Cursor
<1> HIDE DEF r
<1>13. Extent(d2, ch) /\ Filled(d2, ch)
  BY <1>2, <1>5, <1>6, <1>9 DEF Extent, Filled
<1>14. Saved(d2, e) /\ d2.abs_offset <= d2.size
  BY <1>2, <1>9, DescFields DEF Saved
<1> QED
  BY <1>1, <1>12, <1>13, <1>14 DEF Settle, Sane, d2

\* free_cluster_chain has returned true.
LEMMA FreeSettles ==
    ASSUME BytesPerCluster < U16, NEW d \in FileDescriptor, NEW ch \in Seq(Clusters),
           NEW e \in DirEntry, AtFree(d, ch)
    PROVE  Settle(Freed(d, TRUE), ch, e)
<1>1. CASE Len(ch) > 0
  <2>1. AtCut(d, ch, Len(ch))
    BY <1>1 DEF AtFree
  <2>2. ch[1] # 0
    BY <1>1, NextFacts
  <2>3. Freed(d, TRUE) = Truncated(d)
    BY <2>1, <2>2 DEF Freed, AtCut, Cutting
  <2> QED
    BY <1>1, <2>1, <2>3, CutSettles
<1>2. CASE ~(Len(ch) > 0)
  <2> DEFINE d2 == Freed(d, TRUE)
  <2>1. Len(ch) = 0
    BY <1>2
  <2>2. /\ d.cluster_lo = 0 /\ d.size = 0 /\ d.abs_offset = 0 /\ d.dir_entry_modified
        /\ d.block_in_cluster = 0 /\ d.index_in_block = 0
    BY <1>2 DEF AtFree
  <2>3. /\ d2.cur_cluster = 0 /\ d2.next_cluster = EOC
        /\ d2.cluster_lo = 0 /\ d2.size = 0 /\ d2.abs_offset = 0 /\ d2.dir_entry_modified
        /\ d2.block_in_cluster = 0 /\ d2.index_in_block = 0
    BY <2>2 DEF Freed, FileDescriptor
  <2> HIDE DEF d2
  <2>4. Settle(d2, ch, e)
    BY <2>1, <2>3 DEF Settle, Sane, Extent, Saved, CursorEmpty, Filled
  <2> QED
    BY <2>4 DEF d2
<1> QED
  BY <1>1, <1>2

\* One turn of find_parent_cluster.
LEMMA ParentFound ==
    ASSUME NEW d \in FileDescriptor, NEW c, NEW ch \in Seq(Clusters), Distinct(ch),
           AtFindParent(d, c, ch)
    PROVE  \E j \in 1 .. Len(ch) :
               /\ c.head = ch[j]
               /\ NextIn(ch, j) = d.cur_cluster =>
                    LET d2 == [d EXCEPT !.next_cluster = d.cur_cluster,
                                        !.cur_cluster = c.head,
                                        !.block_in_cluster = SectorsPerCluster]
                    IN  AtCut(d2, ch, j) /\ d2.next_cluster = NextIn(ch, j)
               /\ NextIn(ch, j) # d.cur_cluster =>
                    \A c2 : c2.head = NextIn(ch, j) => AtFindParent(d, c2, ch)
<1>1. PICK k \in 2 .. Len(ch), j \in 1 .. Len(ch) :
        /\ j < k /\ c.head = ch[j] /\ Cutting(d, ch) /\ d.cur_cluster = ch[k]
        /\ d.block_in_cluster = 0 /\ d.index_in_block = 0 /\ d.abs_offset = Base(k)
  BY DEF AtFindParent
<1>2. j # Len(ch) /\ k \in 1 .. Len(ch) /\ j \in Nat /\ j > 0 /\ Len(ch) \in Nat /\ k \in Nat
  BY <1>1
<1>3. j + 1 \in 1 .. Len(ch) /\ NextIn(ch, j) = ch[j + 1]
  BY <1>2, NextFacts
<1>4. ASSUME NextIn(ch, j) = d.cur_cluster
      PROVE  LET d2 == [d EXCEPT !.next_cluster = d.cur_cluster,
                                 !.cur_cluster = c.head,
                                 !.block_in_cluster = SectorsPerCluster]
             IN  AtCut(d2, ch, j) /\ d2.next_cluster = NextIn(ch, j)
  <2> DEFINE d2 == [d EXCEPT !.next_cluster = d.cur_cluster,
                             !.cur_cluster = c.head,
                             !.block_in_cluster = SectorsPerCluster]
  <2>1. k = j + 1
    BY <1>1, <1>2, <1>3, <1>4 DEF Distinct
  <2>2. /\ d2.next_cluster = d.cur_cluster /\ d2.cur_cluster = ch[j]
        /\ d2.block_in_cluster = SectorsPerCluster /\ d2.index_in_block = 0
        /\ d2.abs_offset = d.abs_offset /\ d2.size = d.size
        /\ d2.cluster_lo = d.cluster_lo /\ d2.dir_entry_modified = d.dir_entry_modified
    BY <1>1 DEF FileDescriptor
  <2> HIDE DEF d2
  <2>3. /\ Base(j) \in Nat /\ Base(j + 1) = Base(j) + BytesPerCluster
        /\ Span(SectorsPerCluster) = BytesPerCluster /\ BytesPerCluster \in Nat
        /\ BytesPerCluster > 0 /\ BlockSize \in Nat /\ BlockSize > 0 /\ SectorsPerCluster \in Nat
    BY <1>2, Geometry
  <2>4. d2.abs_offset = Base(j) + Span(d2.block_in_cluster) + d2.index_in_block
        /\ Base(j) < d2.abs_offset
    BY <1>1, <2>1, <2>2, <2>3
  <2>5. Placed(d2)
    BY <2>2, <2>3 DEF Placed
  <2>6. Cutting(d2, ch)
    BY <1>1, <2>2 DEF Cutting
  <2>7. AtCut(d2, ch, j)
    BY <2>2, <2>4, <2>5, <2>6 DEF AtCut, Standing
  <2> QED
    BY <1>4, <2>2, <2>7 DEF d2
<1>5. ASSUME NextIn(ch, j) # d.cur_cluster, NEW c2, c2.head = NextIn(ch, j)
      PROVE  AtFindParent(d, c2, ch)
  <2>1. j + 1 # k
    BY <1>1, <1>3, <1>5
  <2>2. j + 1 < k
    BY <1>1, <1>2, <2>1
  <2> QED
    BY <1>1, <1>3, <1>5, <2>2 DEF AtFindParent
<1> QED
  BY <1>1, <1>4, <1>5

\* The three ways in which fat_truncate begins to change a file.
LEMMA TruncateBegins ==
    ASSUME NEW d \in FileDescriptor, NEW ch \in Seq(Clusters), NEW en \in DirEntry,
           Distinct(ch), Settle(d, ch, en), d.abs_offset # d.size
    PROVE  LET e == [d EXCEPT !.size = d.abs_offset, !.dir_entry_modified = TRUE]
               atStart == d.block_in_cluster = 0 /\ d.index_in_block = 0
           IN  /\ Len(ch) > 0
               /\ atStart /\ d.cur_cluster = d.cluster_lo =>
                    d.cur_cluster = ch[1] /\ AtFree([e EXCEPT !.cluster_lo = 0], <<>>)
               /\ atStart /\ d.cur_cluster # d.cluster_lo =>
                    \A c : c.head = d.cluster_lo => AtFindParent(e, c, ch)
               /\ ~atStart =>
                    \E k \in 1 .. Len(ch) : AtCut(e, ch, k) /\ e.next_cluster = NextIn(ch, k)
<1> DEFINE e == [d EXCEPT !.size = d.abs_offset, !.dir_entry_modified = TRUE]
           e0 == [e EXCEPT !.cluster_lo = 0]
           b == d.block_in_cluster
           i == d.index_in_block
<1>1. Len(ch) \in Nat /\ Len(ch) # 0
  BY DEF Settle, Sane, Extent, CursorEmpty
<1>2. PICK k \in 1 .. Len(ch) : Cursor(d, ch, k)
  BY <1>1 DEF Settle, Sane
<1>3. k \in Nat /\ k > 0 /\ 1 \in 1 .. Len(ch)
  BY <1>1, NextFacts
<1>4. /\ d.cur_cluster = ch[k] /\ Placed(d) /\ d.next_cluster = NextIn(ch, k)
      /\ d.abs_offset = Base(k) + Span(b) + i /\ d.cluster_lo = ch[1]
  BY <1>1, <1>2 DEF Cursor, Standing, Settle, Sane, Extent
<1>5. b \in Nat /\ i \in Nat
  BY DescFields
<1>6. Base(k) \in Nat /\ Span(b) \in Nat /\ Span(0) = 0 /\ (b > 0 => Span(b) > 0) /\ Base(1) = 0
  <2>1. Base(k) \in Nat
    BY <1>3, Geometry
  <2> QED
    BY <1>5, <2>1, Geometry
<1>7. /\ e.size = d.abs_offset /\ e.dir_entry_modified /\ e.abs_offset = d.abs_offset
      /\ e.cluster_lo = d.cluster_lo /\ e.cur_cluster = d.cur_cluster
      /\ e.next_cluster = d.next_cluster /\ e.block_addr = d.block_addr
      /\ e.block_in_cluster = b /\ e.index_in_block = i
      /\ e0.size = d.abs_offset /\ e0.dir_entry_modified /\ e0.abs_offset = d.abs_offset
      /\ e0.cluster_lo = 0 /\ e0.block_in_cluster = b /\ e0.index_in_block = i
  BY DEF FileDescriptor
<1> HIDE DEF e, e0
<1>8. Cutting(e, ch)
  BY <1>4, <1>7 DEF Cutting
<1>9. ASSUME b = 0, i = 0 PROVE d.abs_offset = Base(k)
  <2> HIDE DEF b, i
  <2> QED
    BY <1>4, <1>6, <1>9
<1>10. ASSUME b = 0, i = 0, d.cur_cluster = d.cluster_lo
       PROVE  d.cur_cluster = ch[1] /\ AtFree(e0, <<>>)
  <2>1. k = 1
    BY <1>3, <1>4, <1>10 DEF Distinct
  <2>2. d.abs_offset = 0
    BY <1>6, <1>9, <1>10, <2>1
  <2> QED
    BY <1>4, <1>7, <1>10, <2>2 DEF AtFree
<1>11. ASSUME b = 0, i = 0, d.cur_cluster # d.cluster_lo, NEW c, c.head = d.cluster_lo
       PROVE  AtFindParent(e, c, ch)
  <2>1. k # 1
    BY <1>4, <1>11
  <2>2. k \in 2 .. Len(ch) /\ 1 < k
    BY <1>3, <2>1
  <2> QED
    BY <1>3, <1>4, <1>7, <1>8, <1>9, <1>11, <2>2 DEF AtFindParent
<1>12. ASSUME ~(b = 0 /\ i = 0)
       PROVE  AtCut(e, ch, k) /\ e.next_cluster = NextIn(ch, k)
  <2>1. Base(k) < d.abs_offset
    <3> HIDE DEF b, i
    <3>1. CASE b = 0
      BY <1>4, <1>5, <1>6, <1>12, <3>1
    <3>2. CASE b > 0
      BY <1>4, <1>5, <1>6, <3>2
    <3> QED
      BY <1>5, <3>1, <3>2
  <2>2. Standing(e, ch, k)
    BY <1>4, <1>7 DEF Standing, Placed
  <2> QED
    BY <1>4, <1>7, <1>8, <2>1, <2>2 DEF AtCut
<1> QED
  BY <1>1, <1>10, <1>11, <1>12 DEF e, e0

\* fat_seek to a place that is no cluster boundary inside the file.
LEMMA SeekStarts ==
    ASSUME NEW d \in FileDescriptor, NEW ch \in Seq(Clusters), NEW e \in DirEntry,
           Settle(d, ch, e), NEW offset \in Nat, offset <= d.size, ~InnerBoundary(d, offset),
           NEW c, c.offset = offset
    PROVE  LET head == d.cluster_lo
               d2 == [d EXCEPT !.block_addr = FirstBlock(head),
                               !.block_in_cluster = 0, !.index_in_block = 0,
                               !.cur_cluster = head]
           IN  /\ head = 0 =>
                    AtSeek([d2 EXCEPT !.next_cluster = EOC, !.abs_offset = offset], c, ch, e)
               /\ head # 0 => AtSeekBegin(d2, c, ch, e)
<1> DEFINE head == d.cluster_lo
           d2 == [d EXCEPT !.block_addr = FirstBlock(head),
                           !.block_in_cluster = 0, !.index_in_block = 0,
                           !.cur_cluster = head]
           d3 == [d2 EXCEPT !.next_cluster = EOC, !.abs_offset = offset]
<1>1. /\ d2.cur_cluster = head /\ d2.block_in_cluster = 0 /\ d2.index_in_block = 0
      /\ d2.cluster_lo = head /\ d2.size = d.size /\ d2.last_cluster_len = d.last_cluster_len
      /\ d2.dir_entry_modified = d.dir_entry_modified
      /\ d3.cur_cluster = head /\ d3.block_in_cluster = 0 /\ d3.index_in_block = 0
      /\ d3.cluster_lo = head /\ d3.size = d.size /\ d3.last_cluster_len = d.last_cluster_len
      /\ d3.dir_entry_modified = d.dir_entry_modified
      /\ d3.next_cluster = EOC /\ d3.abs_offset = offset
  BY DEF FileDescriptor
<1> HIDE DEF d2, d3
<1>2. Extent(d, ch) /\ Saved(d, e) /\ Filled(d, ch)
  BY DEF Settle, Sane
<1>3. /\ Extent(d2, ch) /\ Saved(d2, e) /\ Filled(d2, ch)
      /\ Extent(d3, ch) /\ Saved(d3, e) /\ Filled(d3, ch)
  BY <1>1, <1>2 DEF Extent, Saved, Filled
<1>4. Len(ch) \in Nat
  OBVIOUS
<1>5. ASSUME head = 0 PROVE AtSeek(d3, c, ch, e)
  <2>1. Len(ch) = 0
    <3> SUFFICES ASSUME Len(ch) # 0 PROVE FALSE
      OBVIOUS
    <3>1. 1 \in 1 .. Len(ch)
      BY <1>4
    <3>2. ch[1] # 0
      BY <3>1, NextFacts
    <3> QED
      BY <1>2, <1>5, <3>2 DEF Extent
  <2>2. offset = 0
    BY <1>2, <2>1 DEF Extent
  <2> QED
    BY <1>1, <1>3, <1>5, <2>1, <2>2 DEF AtSeek, CursorEmpty
<1>6. ASSUME head # 0 PROVE AtSeekBegin(d2, c, ch, e)
  <2>1. Len(ch) > 0 /\ head = ch[1]
    BY <1>2, <1>4, <1>6 DEF Extent
  <2>2. ASSUME NEW j \in Nat, j > 1, offset = Base(j) PROVE offset = d.size
    <3>1. /\ BytesPerCluster \in Nat /\ BytesPerCluster > 0 /\ j - 1 \in Nat /\ 0 < 1 /\ 1 < j
          /\ Base(1) = 0 /\ Base(1) + BytesPerCluster <= Base(j)
      BY <2>2, Geometry
    <3> DEFINE x == j - 1
    <3>2. offset = x * BytesPerCluster + 0 /\ x \in Nat /\ 0 \in Nat /\ 0 < BytesPerCluster
      BY <2>2, <3>1 DEF Base
    <3>3. offset % BytesPerCluster = 0
      <4> HIDE DEF x
      <4>1. PICK r \in Nat : r = 0
        OBVIOUS
      <4>2. offset = x * BytesPerCluster + r /\ r < BytesPerCluster
        BY <3>2, <4>1
      <4>3. offset % BytesPerCluster = r
        BY <3>1, <3>2, <4>2, Division
      <4> QED
        BY <4>1, <4>3
    <3>4. offset > 0
      BY <2>2, <3>1
    <3>5. ~(offset < d.size)
      BY <3>3, <3>4 DEF InnerBoundary
    <3> QED
      BY <3>5, DescFields
  <2>3. OffBoundary(offset, d.size)
    BY <2>2 DEF OffBoundary
  <2> QED
    BY <1>1, <1>3, <2>1, <2>3 DEF AtSeekBegin
<1> QED
  BY <1>5, <1>6 DEF d2, d3

\* fat_seek_end, and fat_read or fat_write, begin.
LEMMA CallsBegin ==
    ASSUME NEW d \in FileDescriptor, NEW ch \in Seq(Clusters), NEW e \in DirEntry,
           Settle(d, ch, e), ~Emptied(d), NEW c, c.off0 = d.abs_offset, c.result = 0
    PROVE  AtSeekEnd(d, ch, e) /\ AtLoop(d, c, ch, e)
<1>1. Extent(d, ch) /\ Saved(d, e) /\ Filled(d, ch) /\ Sane(d, ch, e)
  BY DEF Settle, Sane
<1>2. AtSeekEnd(d, ch, e)
  BY <1>1 DEF AtSeekEnd, Sane, Cursor, Standing
<1>3. d.abs_offset = c.off0 + c.result
  BY DescFields
<1> QED
  BY <1>1, <1>2, <1>3 DEF AtLoop

-----------------------------------------------------------------------------
(* fat_open_file and alloc_cluster. *)

\* The descriptor that fat_private_init_fd makes of a directory entry that fits.
LEMMA InitFits ==
    ASSUME BytesPerCluster < U16, NEW f \in Files, NEW e \in DirEntry,
           NEW ch \in Seq(Clusters), EntryFits(e, ch)
    PROVE  LET d == InitFd(f, e) IN
           /\ d.cluster_lo = 0 => Settle(d, ch, e)
           /\ d.cluster_lo # 0 => AtOpen(d, ch, e)
<1> DEFINE d == InitFd(f, e)
<1>1. /\ d.last_cluster_len = (IF e.size = 0 THEN 0 ELSE TailLength(e.size))
      /\ d.block_addr = FirstBlock(e.cluster_lo) /\ d.block_in_cluster = 0
      /\ d.index_in_block = 0 /\ d.next_cluster = EOC /\ d.cur_cluster = e.cluster_lo
      /\ d.cluster_lo = e.cluster_lo /\ d.size = e.size /\ ~d.dir_entry_modified
      /\ d.abs_offset = 0
  BY DEF InitFd
<1> HIDE DEF d
<1>2. e.size \in Nat /\ Len(ch) \in Nat
  BY DEF DirEntry
<1>3. Saved(d, e)
  BY <1>1 DEF Saved
<1>4. CASE Len(ch) = 0
  <2>1. e.cluster_lo = 0 /\ e.size = 0
    BY <1>4 DEF EntryFits
  <2>2. Settle(d, ch, e)
    BY <1>1, <1>3, <1>4, <2>1 DEF Settle, Sane, Extent, CursorEmpty, Filled
  <2> QED
    BY <1>1, <2>1, <2>2 DEF d
<1>5. CASE Len(ch) # 0
  <2> DEFINE k == Len(ch)
             r == e.size - Base(k)
  <2>1. k \in Nat /\ k > 0 /\ 1 \in 1 .. Len(ch)
    BY <1>2, <1>5
  <2>2. e.cluster_lo = ch[1] /\ Base(k) < e.size /\ e.size <= Base(k + 1)
    BY <1>5 DEF EntryFits
  <2>3. Base(k) \in Nat /\ Base(k + 1) = Base(k) + BytesPerCluster /\ BytesPerCluster \in Nat
    BY <2>1, Geometry
  <2> HIDE DEF k
  <2>4. r \in Nat /\ r > 0 /\ r <= BytesPerCluster /\ e.size = Base(k) + r /\ e.size # 0
    BY <1>2, <2>2, <2>3
  <2> HIDE DEF r
  <2>5. TailLength(e.size) = r
    BY <2>1, <2>4, TailOf
  <2>6. Extent(d, ch) /\ Filled(d, ch)
    BY <1>1, <1>5, <2>2, <2>4, <2>5 DEF Extent, Filled, k
  <2>7. ch[1] # 0
    BY <2>1, NextFacts
  <2>8. AtOpen(d, ch, e)
    BY <1>1, <1>3, <2>1, <2>2, <2>6 DEF AtOpen, k
  <2> QED
    BY <1>1, <2>2, <2>7, <2>8 DEF d
<1> QED
  BY <1>4, <1>5

\* alloc_cluster has given the file its first or its next cluster h.
LEMMA ClusterJoins ==
    ASSUME NEW d \in FileDescriptor, NEW c, NEW ch \in Seq(Clusters), NEW e \in DirEntry,
           AtAlloc(d, c, ch, e), NEW h \in Clusters, NEW ch2 \in Seq(Clusters),
           Len(ch2) = Len(ch) + 1, ch2[Len(ch) + 1] = h,
           \A k \in 1 .. Len(ch) : ch2[k] = ch[k],
           NEW c2, c2.op = c.op, c2.len = c.len, c2.link = c.link, c2.off0 = c.off0,
           c2.result = c.result
    PROVE  AtLoop(WithCluster(d, h), c2, ch2, e)
<1> DEFINE d2 == WithCluster(d, h)
           n == Len(ch) + 1
<1>1. /\ Settle(d, ch, e) /\ NeedsCluster(d) /\ ~Emptied(d) /\ c.link = d.cur_cluster
      /\ d.abs_offset = c.off0 + c.result /\ c.op = "write" /\ c.len # 0
  BY DEF AtAlloc
<1>2. Extent(d, ch) /\ Saved(d, e) /\ d.abs_offset <= d.size
  BY <1>1 DEF Settle, Sane
<1>3. Len(ch) \in Nat /\ n \in 1 .. Len(ch2) /\ Len(ch2) # 0 /\ n > 0 /\ n \in Nat
  OBVIOUS
<1>4. h # 0 /\ h \in 0 .. EOC /\ EOC \in 0 .. EOC
  BY ClusterFacts
<1>5. NextIn(ch2, n) = EOC
  BY <1>3, NextFacts
<1>6. d2 \in FileDescriptor
  BY <1>4, WithClusterType
<1>7. /\ d2.cur_cluster = h /\ d2.next_cluster = EOC /\ d2.block_addr = FirstBlock(h)
      /\ d2.abs_offset = d.abs_offset /\ d2.size = d.size
      /\ d2.index_in_block = d.index_in_block
      /\ d.cur_cluster = 0 => /\ d2.dir_entry_modified /\ d2.cluster_lo = h
                              /\ d2.last_cluster_len = d.last_cluster_len
                              /\ d2.block_in_cluster = d.block_in_cluster
      /\ d.cur_cluster # 0 => /\ d2.dir_entry_modified = d.dir_entry_modified
                              /\ d2.cluster_lo = d.cluster_lo
                              /\ d2.last_cluster_len = 0 /\ d2.block_in_cluster = 0
  BY DEF WithCluster, NewTail, FileDescriptor
<1> HIDE DEF d2
<1>8. CASE Len(ch) = 0
  <2>1. CursorEmpty(d) /\ d.cluster_lo = 0 /\ d.size = 0
    BY <1>1, <1>8 DEF Settle, Sane, Extent
  <2>2. d.last_cluster_len = 0
    BY <1>1, <1>2, <1>8, <2>1 DEF Extent, Emptied
  <2>3. Base(n) = 0 /\ n = 1
    BY <1>8, Geometry
  <2>4. Cursor(d2, ch2, n)
    BY <1>3, <1>5, <1>6, <1>7, <2>1, <2>3, AtStartOf DEF CursorEmpty
  <2>5. Extent(d2, ch2)
    <3>1. d2.cluster_lo = ch2[1] /\ d2.last_cluster_len = 0 /\ d2.size = 0 /\ Len(ch2) = 1
      BY <1>7, <1>8, <2>1, <2>2 DEF CursorEmpty
    <3>2. BytesPerCluster \in Nat /\ Base(1) = 0
      BY Geometry
    <3> QED
      BY <3>1, <3>2 DEF Extent
  <2>6. Saved(d2, e) /\ d2.abs_offset <= d2.size /\ d2.dir_entry_modified /\ d2.cluster_lo = h
    BY <1>7, <2>1 DEF CursorEmpty, Saved
  <2>7. Sane(d2, ch2, e)
    BY <1>3, <2>4, <2>5, <2>6 DEF Sane
  <2>8. d2.cur_cluster = ch2[Len(ch2)] /\ d2.abs_offset = c2.off0 + c2.result
    BY <1>1, <1>7
  <2> QED
    BY <1>1, <1>4, <2>6, <2>7, <2>8 DEF AtLoop, Emptied, d2
<1>9. CASE Len(ch) # 0
  <2>1. PICK k \in 1 .. Len(ch) : Cursor(d, ch, k)
    BY <1>1, <1>9 DEF Settle, Sane
  <2>2. d.cur_cluster = ch[k] /\ d.cur_cluster # 0
    BY <2>1, NextFacts DEF Cursor, Standing
  <2>3. d.block_in_cluster = SectorsPerCluster
    BY <1>1, <2>2 DEF NeedsCluster
  <2>4. d.size = Base(n) /\ d.abs_offset = d.size
    BY <1>2, <2>1, <2>3, CursorFacts
  <2>5. d.index_in_block = 0
    BY <2>1, <2>3 DEF Cursor, Standing, Placed
  <2>6. Cursor(d2, ch2, n)
    BY <1>3, <1>5, <1>6, <1>7, <2>2, <2>4, <2>5, AtStartOf
  <2>7. Base(n) \in Nat /\ BytesPerCluster \in Nat
    BY <1>3, Geometry
  <2>8. Extent(d2, ch2)
    <3>1. d2.cluster_lo = ch2[1] /\ d2.last_cluster_len = 0 /\ d2.size = Base(n) + 0
      <4>1. d.cluster_lo = ch[1] /\ ch2[1] = ch[1]
        BY <1>2, <1>3, <1>9 DEF Extent
      <4> QED
        BY <1>7, <2>2, <2>4, <2>7, <4>1
    <3> QED
      BY <1>3, <2>7, <3>1 DEF Extent
  <2>9. Saved(d2, e) /\ d2.abs_offset <= d2.size
    BY <1>2, <1>7, <2>2 DEF Saved
  <2>10. Sane(d2, ch2, e)
    BY <1>3, <2>6, <2>8, <2>9 DEF Sane
  <2>11. d2.cur_cluster = ch2[Len(ch2)] /\ d2.abs_offset = c2.off0 + c2.result /\ c2.link # 0
    BY <1>1, <1>7, <2>2
  <2>12. ~Emptied(d2)
    <3>1. d2.cluster_lo = ch[1] /\ 1 \in 1 .. Len(ch)
      BY <1>2, <1>3, <1>7, <1>9, <2>2 DEF Extent
    <3> QED
      BY <3>1, NextFacts DEF Emptied
  <2> QED
    BY <1>1, <2>10, <2>11, <2>12 DEF AtLoop, d2
<1> QED
  BY <1>8, <1>9
=============================================================================
