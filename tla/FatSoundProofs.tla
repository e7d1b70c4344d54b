--------------------------- MODULE FatSoundProofs ---------------------------
(***************************************************************************)
(* The file layer keeps the chains of FatFileProofs: every step of every   *)
(* call preserves ChainInv, and what follows from it.                      *)
(***************************************************************************)
EXTENDS FatFileProofs, FiniteSetTheorems

-----------------------------------------------------------------------------
(* What the steps of the block layer do to the volume.                     *)

\* Block a now holds x, and nothing else has changed.
Wrote(a, x) == Volume' = [Volume EXCEPT ![a] = x]

\* While the card answers, what cache() finds is what is on the card.
LEMMA LoadIs ==
    ASSUME BlockOK, BufferCoherent, ready, NEW a \in VolumeBlocks
    PROVE  Load(a) = Volume[a]
BY DEF BlockOK, BufferCoherent, Load, Hit, Volume

\* cache() returns true.
LEMMA CachedReady ==
    ASSUME BlockOK, BufferCoherent, ready, NEW a, Cached(a)
    PROVE  ready' /\ Volume' = Volume /\ BufferCoherent' /\ a \in VolumeBlocks
<1>1. a \in VolumeBlocks /\ cache_block_addr' = a /\ cache_block' = Load(a)
      /\ disk' = disk /\ ready' = ready
  BY DEF Cached, CacheOk
<1>2. Load(a) = Volume[a]
  BY <1>1, LoadIs
<1> QED
  BY <1>1, <1>2 DEF BufferCoherent, Volume

\* cache() returns false: the card is powered down.
LEMMA CacheFailedReady ==
    ASSUME ready, NEW a \in VolumeBlocks, CacheFailed(a)
    PROVE  ~ready' /\ Volume' = Volume
<1>1. PICK r \in CardReadErrors : CacheFails(a, r)
  BY DEF CacheFailed
<1>2. r \in ReadErrors /\ disk' = disk
  BY <1>1 DEF CacheFails
<1>3. r # "OUT_OF_RANGE"
  BY <1>2, FileAssumption
<1>4. ~ready'
  BY <1>1, <1>3 DEF CacheFails, PowerStays
<1> QED
  BY <1>2, <1>4 DEF Volume

\* flush_cache() returns true.
LEMMA FlushReady ==
    ASSUME BlockOK, NEW a \in VolumeBlocks, NEW x, FlushOk(a, x)
    PROVE  ready /\ ready' /\ Wrote(a, x) /\ BufferCoherent'
<1>1. /\ disk' = [disk EXCEPT ![Card][a] = x] /\ ready /\ ready'
      /\ cache_block_addr' = a /\ cache_block' = x
  BY DEF FlushOk, BlockOK
<1>2. disk'[Card] = [disk[Card] EXCEPT ![a] = x]
  BY <1>1 DEF BlockOK
<1>3. disk'[Card][a] = x
  BY <1>2 DEF BlockOK
<1> QED
  BY <1>1, <1>2, <1>3 DEF Wrote, BufferCoherent, Volume

\* flush_cache() returns false: the card is powered down and may have kept the data.
LEMMA FlushFailedReady ==
    ASSUME BlockOK, ready, NEW a \in VolumeBlocks, NEW x, FlushFailed(a, x)
    PROVE  ~ready' /\ (Volume' = Volume \/ Wrote(a, x))
<1>1. PICK r \in CardWriteErrors : FlushFails(a, x, r)
  BY DEF FlushFailed
<1>2. r # "OUT_OF_RANGE"
  BY DEF CardWriteErrors
<1>3. ~ready'
  BY <1>1, <1>2 DEF FlushFails, PowerStays
<1>4. disk' = disk \/ disk' = [disk EXCEPT ![Card][a] = x]
  BY <1>1 DEF FlushFails, BlockOK
<1>5. disk'[Card] = disk[Card] \/ disk'[Card] = [disk[Card] EXCEPT ![a] = x]
  BY <1>4 DEF BlockOK
<1> QED
  BY <1>3, <1>5 DEF Wrote, Volume

\* cache(), a change and flush_cache(), and the same when one of the two fails.
LEMMA UpdateReady ==
    ASSUME BlockOK, ready, NEW a \in VolumeBlocks, NEW x
    PROVE  /\ Updated(a, x) => ready' /\ Wrote(a, x) /\ BufferCoherent'
           /\ UpdateFailed(a, x) => ~ready' /\ (Volume' = Volume \/ Wrote(a, x))
BY FlushReady, FlushFailedReady, CacheFailedReady DEF Updated, UpdateOk, UpdateFailed

\* A card that does not answer keeps what it holds, whatever is asked of it.
LEMMA OffBlocks ==
    ASSUME ~ready, NEW a, NEW x
    PROVE  /\ Cached(a) => disk' = disk /\ ~ready'
           /\ CacheFailed(a) => disk' = disk /\ ~ready'
           /\ ~Updated(a, x) /\ ~FlushOk(a, x)
           /\ FlushFailed(a, x) => disk' = disk /\ ~ready'
           /\ UpdateFailed(a, x) => disk' = disk /\ ~ready'
<1>1. Cached(a) => disk' = disk /\ ~ready'
  BY DEF Cached, CacheOk
<1>2. CacheFailed(a) => disk' = disk /\ ~ready'
  BY DEF CacheFailed, CacheFails, CacheBeyondEnd
<1>3. ~Updated(a, x) /\ ~FlushOk(a, x)
  BY DEF Updated, UpdateOk, FlushOk
<1>4. FlushFailed(a, x) => disk' = disk /\ ~ready'
  BY DEF FlushFailed, FlushFails
<1> QED
  BY <1>1, <1>2, <1>3, <1>4 DEF UpdateFailed

-----------------------------------------------------------------------------
(* What the writes do to the two copies of the FAT and to the directory.   *)

\* Both copies are functions from all entries, and the directory has an entry for
\* every file.
LEMMA FatTables ==
    ASSUME BlockOK
    PROVE  /\ Fat("fat0") \in Tables /\ Fat("fat1") \in Tables
           /\ Dir \in [Files -> DirEntry]
<1>1. ASSUME NEW copy \in {"fat0", "fat1"}, NEW c \in Entries
      PROVE  FatEntry(Volume, copy, c) \in 0 .. EOC
  <2>1. c \in 0 .. EOC
    BY ClusterFacts
  <2>2. SectorOf(c) \in Sectors
    BY <2>1, SectorFacts
  <2>3. Volume[FatBlock(copy, SectorOf(c))] \in [SectorEntries(SectorOf(c)) -> 0 .. EOC]
    BY <2>2, Contents DEF BlockOK
  <2>4. c \in SectorEntries(SectorOf(c))
    BY DEF SectorEntries
  <2> QED
    BY <2>3, <2>4 DEF FatEntry
<1>2. Dir \in [Files -> DirEntry]
  BY Contents DEF BlockOK, Dir
<1> QED
  BY <1>1, <1>2 DEF Fat, Tables

\* The blocks of an entry, and that the areas do not overlap.
LEMMA FatAreas ==
    ASSUME NEW c \in Entries
    PROVE  /\ SectorOf(c) \in Sectors /\ c \in SectorEntries(SectorOf(c))
           /\ Fat0(c) \in VolumeBlocks /\ Fat1(c) \in VolumeBlocks
           /\ \A s, t : FatBlock("fat0", s) # FatBlock("fat1", t)
           /\ \A copy, s : FatBlock(copy, s) = DirBlock => copy = "dir"
<1>1. SectorOf(c) \in Sectors
  BY ClusterFacts, SectorFacts
<1>2. Fat0(c) \in VolumeBlocks /\ Fat1(c) \in VolumeBlocks
  BY <1>1, Contents DEF Fat0, Fat1
<1> QED
  BY <1>1, <1>2 DEF SectorEntries, FatBlock, DirBlock

\* The FAT and the directory when the volume does not change.
LEMMA FatKept ==
    ASSUME Volume' = Volume
    PROVE  Fat("fat0")' = Fat("fat0") /\ Fat("fat1")' = Fat("fat1") /\ Dir' = Dir
BY DEF Fat, FatEntry, Dir

\* The entry of c in the block of one copy.
LEMMA FatWrote ==
    ASSUME BlockOK, NEW copy \in {"fat0", "fat1"}, NEW other \in {"fat0", "fat1"}, copy # other,
           NEW s \in Sectors, NEW x, Wrote(FatBlock(copy, s), x)
    PROVE  /\ Fat(copy)' = [c \in Entries |-> IF SectorOf(c) = s THEN x[c] ELSE Fat(copy)[c]]
           /\ Fat(other)' = Fat(other) /\ Dir' = Dir
<1> DEFINE a == FatBlock(copy, s)
<1>1. a \in VolumeBlocks
  BY Contents
<1>2. \A b \in VolumeBlocks : Volume'[b] = IF b = a THEN x ELSE Volume[b]
  BY <1>1 DEF Wrote, BlockOK, Volume
<1>3. \A t : FatBlock(other, t) # a /\ (FatBlock(copy, t) = a <=> t = s)
  BY DEF FatBlock
<1>4. DirBlock # a
  BY DEF FatBlock, DirBlock
<1> HIDE DEF a
<1>5. ASSUME NEW c \in Entries
      PROVE  /\ FatEntry(Volume', copy, c) = IF SectorOf(c) = s THEN x[c] ELSE FatEntry(Volume, copy, c)
             /\ FatEntry(Volume', other, c) = FatEntry(Volume, other, c)
  <2>1. SectorOf(c) \in Sectors
    BY FatAreas
  <2>2. FatBlock(copy, SectorOf(c)) \in VolumeBlocks /\ FatBlock(other, SectorOf(c)) \in VolumeBlocks
    BY <2>1, Contents
  <2> QED
    BY <1>2, <1>3, <2>2 DEF FatEntry
<1>6. Dir' = Dir
  BY <1>2, <1>4, Contents DEF Dir
<1> QED
  BY <1>5, <1>6 DEF Fat

\* write_fat_entry in one copy.
LEMMA EntryChanged ==
    ASSUME BlockOK, BufferCoherent, ready, NEW copy \in {"fat0", "fat1"},
           NEW other \in {"fat0", "fat1"}, copy # other, NEW c \in Entries, NEW v,
           LET a == FatBlock(copy, SectorOf(c)) IN Wrote(a, WithEntry(a, c, v))
    PROVE  Fat(copy)' = [Fat(copy) EXCEPT ![c] = v] /\ Fat(other)' = Fat(other) /\ Dir' = Dir
<1> DEFINE s == SectorOf(c)
           a == FatBlock(copy, s)
           x == WithEntry(a, c, v)
<1>1. s \in Sectors /\ c \in SectorEntries(s)
  BY FatAreas
<1>2. a \in VolumeBlocks
  BY <1>1, Contents
<1>3. Load(a) = Volume[a] /\ Volume[a] \in [SectorEntries(s) -> 0 .. EOC]
  BY <1>1, <1>2, LoadIs, Contents DEF BlockOK
<1>4. x = [Volume[a] EXCEPT ![c] = v]
  BY <1>3 DEF WithEntry
<1>5. /\ Fat(copy)' = [b \in Entries |-> IF SectorOf(b) = s THEN x[b] ELSE Fat(copy)[b]]
      /\ Fat(other)' = Fat(other) /\ Dir' = Dir
  BY <1>1, FatWrote
<1>6. ASSUME NEW b \in Entries, SectorOf(b) = s
      PROVE  x[b] = IF b = c THEN v ELSE Fat(copy)[b]
  <2>1. b \in SectorEntries(s)
    BY <1>6 DEF SectorEntries
  <2>2. x[b] = IF b = c THEN v ELSE Volume[a][b]
    BY <1>3, <1>4, <2>1
  <2>3. Fat(copy)[b] = Volume[a][b]
    BY <1>6 DEF Fat, FatEntry
  <2> QED
    BY <2>2, <2>3
<1> HIDE DEF x, a, s
<1>7. \A b \in Entries : Fat(copy)'[b] = IF b = c THEN v ELSE Fat(copy)[b]
  BY <1>5, <1>6 DEF s
<1>8. Fat(copy)' = [b \in Entries |-> Fat(copy)'[b]]
  BY <1>5
<1>9. Fat(copy) = [b \in Entries |-> Fat(copy)[b]]
  BY DEF Fat
<1>10. Fat(copy)' = [Fat(copy) EXCEPT ![c] = v]
  BY <1>7, <1>8, <1>9
<1> QED
  BY <1>5, <1>10

\* alloc_cluster writes a sector of one copy to the other copy.
LEMMA SectorCopied ==
    ASSUME BlockOK, BufferCoherent, ready, NEW copy \in {"fat0", "fat1"},
           NEW other \in {"fat0", "fat1"}, copy # other, NEW s \in Sectors,
           cache_block_addr = FatBlock(other, s), Wrote(FatBlock(copy, s), cache_block)
    PROVE  Fat(copy)' = Merged(Fat(copy), Fat(other), s) /\ Fat(other)' = Fat(other) /\ Dir' = Dir
<1>1. cache_block = Volume[FatBlock(other, s)]
  BY Contents DEF BufferCoherent
<1>2. /\ Fat(copy)' = [b \in Entries |-> IF SectorOf(b) = s THEN cache_block[b] ELSE Fat(copy)[b]]
      /\ Fat(other)' = Fat(other) /\ Dir' = Dir
  BY FatWrote
<1>3. \A b \in Entries : SectorOf(b) = s => cache_block[b] = Fat(other)[b]
  BY <1>1 DEF Fat, FatEntry
<1> QED
  BY <1>2, <1>3 DEF Merged

\* read_fat_entry once the sector is in the buffer.
LEMMA EntryIs ==
    ASSUME BlockOK, BufferCoherent, ready, NEW c \in Entries
    PROVE  Entry(c) = Fat("fat0")[c] /\ Fat0(c) \in VolumeBlocks
<1>1. Fat0(c) \in VolumeBlocks
  BY FatAreas
<1> QED
  BY <1>1, LoadIs DEF Entry, Fat, FatEntry, Fat0

-----------------------------------------------------------------------------
(* Steps in general.                                                       *)

\* Descriptor d2 is d, still open, its changes not forgotten.
Tame(d, d2) ==
    /\ d2.is_free = d.is_free /\ d2.is_stale = d.is_stale /\ d2.file = d.file
    /\ d.dir_entry_modified => d2.dir_entry_modified

\* The descriptor of a running call, the chain and the entry of its file.
LEMMA RunningFacts ==
    ASSUME IInv, NEW chain \in Chains, ChainInv(chain), call.pc \notin {"idle", "return"}
    PROVE  /\ Fresh(call.fd) /\ call.fd \in Fds /\ D \in FileDescriptor /\ D.file \in Files
           /\ ~D.is_free /\ ~D.is_stale
           /\ chain[D.file] \in Seq(Clusters) /\ Dir[D.file] \in DirEntry
           /\ ready => /\ Working(D, call, chain[D.file], Dir[D.file])
                       /\ Handling(D, call, Fat("fat0"), Fat("fat1"), chain)
           /\ Sound(Fat("fat0"), Fat("fat1"), chain, Excused(D, call))
           /\ BlockOK /\ BufferCoherent /\ call \in CallType
<1>1. Fresh(call.fd) /\ BufferCoherent
  BY DEF ChainInv, Always
<1>2. call.fd \in Fds /\ D \in FileDescriptor /\ D.file \in Files
  BY DType
<1>3. ~D.is_free /\ ~D.is_stale
  BY <1>1 DEF Fresh, D
<1>4. chain[D.file] \in Seq(Clusters)
  BY <1>2, ChainFacts
<1>5. Dir[D.file] \in DirEntry /\ BlockOK
  BY <1>2, FatTables DEF IInv
<1> QED
  BY <1>1, <1>2, <1>3, <1>4, <1>5 DEF ChainInv, CallSound, IInv

\* A descriptor in a call whose file is not marked as changed and not being
\* lengthened tells what the directory tells.
LEMMA WorkingFits ==
    ASSUME NEW d \in FileDescriptor, NEW c, NEW ch \in Seq(Clusters), NEW e \in DirEntry,
           c.pc \in Places \ {"idle", "return"}, Working(d, c, ch, e), ~d.dir_entry_modified,
           ~(c.pc = "loop" /\ c.op = "write" /\ c.link # 0)
    PROVE  EntryFits(e, ch)
<1>1. CASE c.pc = "loop"
  <2>1. AtLoop(d, c, ch, e)
    BY <1>1 DEF Working
  <2>2. Extent(d, ch) /\ Saved(d, e) /\ Filled(d, ch)
    BY <1>1, <2>1 DEF AtLoop, Sane
  <2> QED
    BY <2>2, ExtentFits
<1>2. CASE c.pc = "advance"
  <2>1. Extent(d, ch) /\ Saved(d, e) /\ Filled(d, ch)
    BY <1>2 DEF Working, AtAdvance
  <2> QED
    BY <2>1, ExtentFits
<1>3. CASE c.pc \in {"alloc", "alloc_fat1", "parent_fat1", "parent_fat0"}
  <2>1. Extent(d, ch) /\ Saved(d, e) /\ Filled(d, ch)
    BY <1>3 DEF Working, AtAlloc, Settle, Sane
  <2> QED
    BY <2>1, ExtentFits
<1>4. CASE c.pc = "open"
  <2>1. Extent(d, ch) /\ Saved(d, e) /\ Filled(d, ch)
    BY <1>4 DEF Working, AtOpen
  <2> QED
    BY <2>1, ExtentFits
<1>5. CASE c.pc \in {"find_parent", "cut_fat0", "cut_fat1", "free_fat0", "free_fat1"}
  BY <1>5 DEF Working, AtFindParent, AtCut, AtFree, Cutting
<1>6. CASE c.pc \in {"seek_begin", "seek", "seek_end"}
  <2>1. Extent(d, ch) /\ Saved(d, e) /\ Filled(d, ch)
    BY <1>6 DEF Working, AtSeekBegin, AtSeek, AtSeekEnd
  <2> QED
    BY <2>1, ExtentFits
<1> QED
  BY <1>1, <1>2, <1>3, <1>4, <1>5, <1>6 DEF Places

\* The directory entry of a settled file fits its chain, at every instant.
LEMMA SettledFits ==
    ASSUME IInv, NEW chain \in Chains, ChainInv(chain), NEW f \in Settled
    PROVE  EntryFits(Dir[f], chain[f])
<1>1. f \in Files /\ f \notin torn /\ f \notin Unsaved /\ f \notin Lengthening
  BY DEF Settled
<1>2. CASE ready => f \notin OpenFiles
  BY <1>1, <1>2 DEF ChainInv, DirSound
<1>3. CASE ready /\ f \in OpenFiles
  <2>1. PICK fd \in Fds : Fresh(fd) /\ desc[fd].file = f
    BY <1>3 DEF OpenFiles
  <2>2. ~desc[fd].dir_entry_modified
    BY <1>1, <2>1 DEF Unsaved
  <2>3. desc[fd] \in FileDescriptor /\ chain[f] \in Seq(Clusters) /\ Dir[f] \in DirEntry
    BY <1>1, ChainFacts, FatTables DEF IInv, DescOK
  <2>4. CASE Quiet(fd)
    <3>1. Settle(desc[fd], chain[f], Dir[f])
      BY <1>3, <2>1, <2>4 DEF ChainInv, DescsSound
    <3> QED
      BY <2>2, <2>3, <3>1, ExtentFits DEF Settle, Sane
  <2>5. CASE ~Quiet(fd)
    <3>1. fd = call.fd /\ call.pc \notin {"idle", "return"}
      BY <2>5 DEF Quiet
    <3>2. Working(desc[fd], call, chain[f], Dir[f])
      BY <1>3, <2>1, <3>1 DEF ChainInv, CallSound, D
    <3>3. ~(call.op = "write" /\ call.link # 0)
      BY <1>1, <2>1, <3>1 DEF Lengthening, D
    <3>4. call.pc \in Places \ {"idle", "return"}
      BY <3>1 DEF IInv, CallType
    <3> QED
      BY <2>2, <2>3, <3>2, <3>3, <3>4, WorkingFits
  <2> QED
    BY <2>4, <2>5
<1> QED
  BY <1>2, <1>3

\* Descriptor fd is d2, for file f, after a step.
Holds(fd, d2, f) ==
    /\ desc' = [desc EXCEPT ![fd] = d2]
    /\ ~d2.is_free /\ ~d2.is_stale /\ d2.file = f
    /\ Fresh(fd) => desc[fd].file = f
    /\ ~Fresh(fd) => f \notin OpenFiles

\* The other descriptors and files.
LEMMA HoldsFacts ==
    ASSUME IInv, Alone, NEW fd \in Fds, NEW d2, NEW f, Holds(fd, d2, f)
    PROVE  /\ desc'[fd] = d2 /\ Fresh(fd)'
           /\ \A ge \in Fds : ge # fd => /\ desc'[ge] = desc[ge] /\ (Fresh(ge)' <=> Fresh(ge))
                                         /\ Fresh(ge) => desc[ge].file # f
           /\ OpenFiles' = OpenFiles \cup {f}
           /\ Alone'
<1>1. desc'[fd] = d2 /\ \A ge \in Fds : ge # fd => desc'[ge] = desc[ge]
  BY DEF Holds, IInv, DescOK
<1>2. Fresh(fd)' /\ \A ge \in Fds : ge # fd => (Fresh(ge)' <=> Fresh(ge))
  BY <1>1 DEF Holds, Fresh
<1>3. ASSUME NEW ge \in Fds, ge # fd, Fresh(ge) PROVE desc[ge].file # f
  <2>1. CASE Fresh(fd)
    BY <1>3, <2>1 DEF Holds, Alone
  <2>2. CASE ~Fresh(fd)
    BY <1>3, <2>2 DEF Holds, OpenFiles
  <2> QED
    BY <2>1, <2>2
<1>4. Alone'
  <2>1. ASSUME NEW x \in Fds, NEW y \in Fds, Fresh(x)', Fresh(y)', desc'[x].file = desc'[y].file
        PROVE  x = y
    BY <1>1, <1>2, <1>3, <2>1 DEF Holds, Alone
  <2> QED
    BY <2>1 DEF Alone
<1>5. OpenFiles' = OpenFiles \cup {f}
  <2>1. ASSUME NEW g \in OpenFiles' PROVE g \in OpenFiles \cup {f}
    <3>1. PICK ge \in Fds : Fresh(ge)' /\ desc'[ge].file = g
      BY <2>1 DEF OpenFiles
    <3> QED
      BY <1>1, <1>2, <3>1 DEF OpenFiles, Holds
  <2>2. f \in OpenFiles'
    BY <1>1, <1>2 DEF OpenFiles, Holds
  <2>3. ASSUME NEW g \in OpenFiles PROVE g \in OpenFiles'
    <3>1. PICK ge \in Fds : Fresh(ge) /\ desc[ge].file = g
      BY <2>3 DEF OpenFiles
    <3>2. CASE ge = fd
      BY <2>2, <3>1, <3>2 DEF Holds
    <3>3. CASE ge # fd
      BY <1>1, <1>2, <3>1, <3>3 DEF OpenFiles
    <3> QED
      BY <3>2, <3>3
  <2> QED
    BY <2>1, <2>2, <2>3
<1> QED
  BY <1>1, <1>2, <1>3, <1>4, <1>5

\* The chains after a step differ in the chain of f at most.
OnlyChain(chain, chain2, f) ==
    chain2 \in Chains /\ \A g \in Files : g # f => chain2[g] = chain[g]

\* A step on a card that answers and goes on answering.
LEMMA RunStep ==
    ASSUME IInv, NEW chain \in Chains, ChainInv(chain), ready, ready',
           BufferCoherent', Dir' = Dir, torn' = torn,
           NEW fd \in Fds, NEW d2, NEW f \in Files, Holds(fd, d2, f),
           call'.fd = fd, call.fd = fd \/ call.pc \in {"idle", "return"},
           NEW chain2, OnlyChain(chain, chain2, f),
           Sound(Fat("fat0")', Fat("fat1")', chain2, Excused(d2, call')),
           call'.pc \in {"idle", "return"} => Settle(d2, chain2[f], Dir[f]),
           Working(d2, call', chain2[f], Dir[f]),
           Handling(d2, call', Fat("fat0")', Fat("fat1")', chain2),
           call'.pc = "open" => ~d2.dir_entry_modified
    PROVE  ChainInv(chain2)'
<1>1. Alone
  BY DEF ChainInv
<1>2. /\ desc'[fd] = d2 /\ Fresh(fd)'
      /\ \A ge \in Fds : ge # fd => /\ desc'[ge] = desc[ge] /\ (Fresh(ge)' <=> Fresh(ge))
                                    /\ Fresh(ge) => desc[ge].file # f
      /\ OpenFiles' = OpenFiles \cup {f}
      /\ Alone'
  BY <1>1, HoldsFacts
<1>3. D' = d2
  BY <1>2 DEF D
<1>4. DirSound(chain2)'
  <2>1. ASSUME NEW g \in Files, g \notin torn', g \notin OpenFiles'
        PROVE  EntryFits(Dir'[g], chain2[g])
    <3>1. g # f /\ g \notin OpenFiles
      BY <1>2, <2>1
    <3>2. g \notin Unsaved
      BY <3>1 DEF Unsaved, OpenFiles
    <3>3. EntryFits(Dir[g], chain[g])
      BY <2>1, <3>1, <3>2 DEF ChainInv, DirSound
    <3> QED
      BY <3>1, <3>3 DEF OnlyChain
  <2> QED
    BY <2>1 DEF DirSound
<1>5. DescsSound(chain2)'
  <2>1. ASSUME NEW ge \in Fds, Fresh(ge)', Quiet(ge)'
        PROVE  Settle(desc'[ge], chain2[desc'[ge].file], Dir'[desc'[ge].file])
    <3>1. CASE ge = fd
      BY <1>2, <2>1, <3>1 DEF Quiet, Holds
    <3>2. CASE ge # fd
      <4>1. Fresh(ge) /\ Quiet(ge) /\ desc[ge].file # f /\ desc[ge].file \in Files
        BY <1>2, <2>1, <3>2 DEF Quiet, Fresh, IInv, DescOK
      <4>2. Settle(desc[ge], chain[desc[ge].file], Dir[desc[ge].file])
        BY <4>1 DEF ChainInv, DescsSound
      <4> QED
        BY <1>2, <3>2, <4>1, <4>2 DEF OnlyChain
    <3> QED
      BY <3>1, <3>2
  <2> QED
    BY <2>1 DEF DescsSound
<1>6. CallSound(chain2)'
  BY <1>3 DEF CallSound, Holds
<1>7. Always'
  BY <1>2, <1>3 DEF Always
<1> QED
  BY <1>2, <1>3, <1>4, <1>5, <1>6, <1>7 DEF ChainInv

\* A step in which the card stops answering.
LEMMA FailStep ==
    ASSUME IInv, NEW chain \in Chains, ChainInv(chain), ready, ~ready',
           call.pc \notin {"idle", "return"}, call'.pc = "return",
           Dir' = Dir, torn \subseteq torn',
           NEW d2, SetDesc(d2), Tame(D, d2) \/ d2.is_free,
           NEW chain2, OnlyChain(chain, chain2, D.file),
           Sound(Fat("fat0")', Fat("fat1")', chain2, {}),
           \/ D.file \in torn'
           \/ Tame(D, d2) /\ d2.dir_entry_modified
           \/ EntryFits(Dir[D.file], chain2[D.file])
    PROVE  ChainInv(chain2)'
<1> DEFINE f == D.file
<1>0. PICK fd \in Fds : fd = call.fd
  BY RunningFacts
<1>1. Fresh(fd) /\ ~D.is_free /\ ~D.is_stale /\ D = desc[fd]
  BY <1>0, RunningFacts DEF D
<1>2. desc'[fd] = d2 /\ \A ge \in Fds : ge # fd => desc'[ge] = desc[ge]
  BY <1>0 DEF SetDesc, IInv, DescOK
<1>3. \A ge \in Fds : Fresh(ge)' => Fresh(ge) /\ desc'[ge].file = desc[ge].file
  BY <1>1, <1>2 DEF Tame, Fresh, D
<1>4. Alone'
  BY <1>3 DEF Alone, ChainInv
<1>5. DirSound(chain2)'
  <2>1. ASSUME NEW g \in Files, g \notin torn', g \notin Unsaved'
        PROVE  EntryFits(Dir'[g], chain2[g])
    <3>1. CASE g = f
      <4>1. ~(Tame(D, d2) /\ d2.dir_entry_modified)
        <5>1. SUFFICES ASSUME Tame(D, d2), d2.dir_entry_modified PROVE g \in Unsaved'
          BY <2>1
        <5>2. Fresh(fd)' /\ desc'[fd].dir_entry_modified /\ desc'[fd].file = g
          BY <1>1, <1>2, <3>1, <5>1 DEF Fresh, Tame
        <5> QED
          BY <1>1, <5>2 DEF Unsaved
      <4> QED
        BY <2>1, <3>1, <4>1
    <3>2. CASE g # f
      <4>1. g \notin Unsaved
        <5>1. SUFFICES ASSUME NEW ge \in Fds, Fresh(ge), desc[ge].dir_entry_modified,
                              desc[ge].file = g
                       PROVE  g \in Unsaved'
          BY <2>1 DEF Unsaved
        <5>2. ge # fd
          BY <1>1, <3>2, <5>1
        <5>3. Fresh(ge)' /\ desc'[ge].dir_entry_modified /\ desc'[ge].file = g
          BY <1>2, <5>1, <5>2 DEF Fresh
        <5> QED
          BY <5>3 DEF Unsaved
      <4>2. g \in Settled
        BY <2>1, <3>2, <4>1 DEF Settled, Lengthening
      <4>3. EntryFits(Dir[g], chain[g])
        BY <4>2, SettledFits
      <4> QED
        BY <3>2, <4>3 DEF OnlyChain
    <3> QED
      BY <3>1, <3>2
  <2> QED
    BY <2>1 DEF DirSound
<1>6. BufferCoherent' /\ Always' /\ Excused(D, call)' = {}
  BY DEF BufferCoherent, Always, MidWrite, Excused
<1> QED
  BY <1>4, <1>5, <1>6 DEF ChainInv

\* A step on a card that does not answer.
LEMMA OffStep ==
    ASSUME IInv, NEW chain \in Chains, ChainInv(chain), ~ready, ~ready', disk' = disk,
           torn \subseteq torn', Alone',
           call'.pc \notin MidWrite, call'.pc \notin {"idle", "return"} => Fresh(call.fd)',
           call'.pc = "open" => ~D'.dir_entry_modified,
           Unsaved \subseteq Unsaved' \cup torn'
    PROVE  ChainInv(chain)'
<1>1. Volume' = Volume
  BY DEF Volume
<1>2. Fat("fat0")' = Fat("fat0") /\ Fat("fat1")' = Fat("fat1") /\ Dir' = Dir
  BY <1>1, FatKept
<1>3. Excused(D, call) = {} /\ Excused(D, call)' = {}
  BY DEF ChainInv, Always, MidWrite, Excused
<1>4. Sound(Fat("fat0")', Fat("fat1")', chain, {})
  BY <1>2, <1>3 DEF ChainInv
<1>5. DirSound(chain)'
  BY <1>2 DEF DirSound, ChainInv
<1>6. BufferCoherent' /\ Always'
  BY DEF BufferCoherent, Always
<1> QED
  BY <1>3, <1>4, <1>5, <1>6 DEF ChainInv

\* The same for a step of the call on descriptor fd.
LEMMA OffCall ==
    ASSUME IInv, NEW chain \in Chains, ChainInv(chain), ~ready, ~ready', disk' = disk,
           torn \subseteq torn', NEW fd \in Fds, Fresh(fd), NEW d2, Tame(desc[fd], d2),
           desc' = [desc EXCEPT ![fd] = d2], call'.fd = fd, call'.pc \notin MidWrite,
           call'.pc # "open"
    PROVE  ChainInv(chain)'
<1>1. desc'[fd] = d2 /\ \A ge \in Fds : ge # fd => desc'[ge] = desc[ge]
  BY DEF IInv, DescOK
<1>2. ASSUME NEW ge \in Fds
      PROVE  /\ Fresh(ge)' <=> Fresh(ge)
             /\ desc'[ge].file = desc[ge].file
             /\ desc[ge].dir_entry_modified => desc'[ge].dir_entry_modified
  BY <1>1 DEF Tame, Fresh
<1>3. Alone'
  BY <1>2 DEF Alone, ChainInv
<1>4. Unsaved \subseteq Unsaved'
  BY <1>2 DEF Unsaved
<1>5. Fresh(call.fd)'
  BY <1>2
<1> QED
  BY <1>3, <1>4, <1>5, OffStep

\* A step from rest to rest that changes nothing but the call.
LEMMA RestStep ==
    ASSUME IInv, NEW chain \in Chains, ChainInv(chain), Volume' = Volume, ready' = ready,
           BufferCoherent', desc' = desc, torn' = torn,
           call.pc \in {"idle", "return"}, call'.pc \in {"idle", "return"},
           call'.op \notin {"read", "write"}
    PROVE  ChainInv(chain)'
<1>1. Fat("fat0")' = Fat("fat0") /\ Fat("fat1")' = Fat("fat1") /\ Dir' = Dir
  BY FatKept
<1>2. Excused(D, call) = {} /\ Excused(D, call)' = {}
  BY DEF Excused
<1>3. Sound(Fat("fat0")', Fat("fat1")', chain, {})
  BY <1>1, <1>2 DEF ChainInv
<1>4. \A fd \in Fds : Fresh(fd)' <=> Fresh(fd)
  BY DEF Fresh
<1>5. OpenFiles' = OpenFiles /\ Unsaved' = Unsaved /\ Alone'
  BY <1>4 DEF OpenFiles, Unsaved, Alone, ChainInv
<1>6. DirSound(chain)'
  BY <1>1, <1>5 DEF DirSound, ChainInv
<1>7. Always'
  BY DEF Always, MidWrite
<1>8. ready => DescsSound(chain)'
  BY <1>1, <1>4 DEF DescsSound, Quiet, ChainInv
<1>9. CallSound(chain)'
  BY DEF CallSound, Working, Handling
<1> QED
  BY <1>2, <1>3, <1>5, <1>6, <1>7, <1>8, <1>9 DEF ChainInv

\* A step from rest after which the card does not answer.
LEMMA DownStep ==
    ASSUME IInv, NEW chain \in Chains, ChainInv(chain), ~ready',
           call.pc = "idle", call'.pc \in {"idle", "return"}, Alone',
           Fat("fat0")' = Fat("fat0"), Fat("fat1")' = Fat("fat1"),
           \A g \in Files : g \notin torn' /\ g \notin Unsaved' =>
               g \in Settled /\ Dir'[g] = Dir[g]
    PROVE  ChainInv(chain)'
<1>1. Excused(D, call) = {} /\ Excused(D, call)' = {}
  BY DEF Excused
<1>2. DirSound(chain)'
  BY SettledFits DEF DirSound
<1>3. BufferCoherent' /\ Always'
  BY DEF BufferCoherent, Always, MidWrite
<1> QED
  BY <1>1, <1>2, <1>3 DEF ChainInv

-----------------------------------------------------------------------------
(* The steps on a card that does not answer.                               *)

\* No operation on a descriptor forgets what is not saved.
LEMMA TameOps ==
    ASSUME NEW d \in FileDescriptor
    PROVE  /\ Tame(d, d)
           /\ \A op, len : Tame(d, Expanded(d, op, len))
           /\ \A op, len, n : Tame(d, SeekAdvance(Expanded(d, op, len), n))
           /\ Tame(d, Truncated(d)) /\ \A ok : Tame(d, Freed(d, ok))
           /\ \A o : Tame(d, PlacedAt(d, o))
           /\ \A c : Tame(d, WithCluster(d, c))
           /\ \A o : Tame(d, PlacedAt([d EXCEPT !.abs_offset = d.size], o))
<1>1. Tame(d, d)
  BY DEF Tame
<1>2. ASSUME NEW op, NEW len
      PROVE  Tame(d, Expanded(d, op, len))
  BY DEF Tame, Expanded, Grown, FileDescriptor
<1>3. ASSUME NEW op, NEW len, NEW n
      PROVE  Tame(d, SeekAdvance(Expanded(d, op, len), n))
  BY DEF Tame, Expanded, Grown, FileDescriptor, SeekAdvance
<1>4. Tame(d, Truncated(d)) /\ \A ok : Tame(d, Freed(d, ok))
  BY DEF Tame, Truncated, Freed, FileDescriptor
<1>5. \A o : Tame(d, PlacedAt(d, o))
  BY DEF Tame, PlacedAt, FileDescriptor
<1>6. \A c : Tame(d, WithCluster(d, c))
  BY DEF Tame, WithCluster, NewTail, FileDescriptor
<1>7. \A o : Tame(d, PlacedAt([d EXCEPT !.abs_offset = d.size], o))
  BY DEF Tame, PlacedAt, FileDescriptor
<1> QED
  BY <1>1, <1>2, <1>3, <1>4, <1>5, <1>6, <1>7

\* A step of the running call in which the card is not asked, or does not answer.
OffDone(d2) ==
    /\ SetDesc(d2) /\ Tame(D, d2)
    /\ call'.fd = call.fd /\ call'.pc \notin MidWrite /\ call'.pc # "open"
    /\ torn \subseteq torn' /\ disk' = disk /\ ~ready'

\* Such a step keeps the invariant.
LEMMA OffDoneStep ==
    ASSUME IInv, NEW chain \in Chains, ChainInv(chain), ~ready,
           call.pc \notin {"idle", "return"}, NEW d2, OffDone(d2)
    PROVE  ChainInv(chain)'
<1>1. PICK fd \in Fds : fd = call.fd
  BY RunningFacts
<1>2. Fresh(fd) /\ D = desc[fd]
  BY <1>1, RunningFacts DEF D
<1> QED
  BY <1>1, <1>2, OffCall DEF OffDone, SetDesc

\* Leaving the descriptor alone sets it to what it is.
LEMMA DescKept ==
    ASSUME IInv, desc' = desc
    PROVE  SetDesc(D)
<1>1. call.fd \in Fds /\ desc \in [Fds -> FileDescriptor]
  BY DEF IInv, DescOK, CallType
<1> QED
  BY <1>1 DEF SetDesc, D

\* The call after a step.
LEMMA CallAfter ==
    ASSUME call \in CallType
    PROVE  /\ \A ret : Return(ret) => call'.pc = "return" /\ call'.fd = call.fd
                                      /\ call'.op = call.op /\ call'.off0 = call.off0
                                      /\ call'.result = call.result
           /\ \A pc : Goto(pc) => call'.pc = pc /\ call'.fd = call.fd
BY DEF Return, Goto, CallType

\* pfd->next_cluster = read_fat_entry(c).
LEMMA OffLinkRead ==
    ASSUME IInv, NEW chain \in Chains, ChainInv(chain), ~ready,
           call.pc \notin {"idle", "return"}, torn' = torn,
           NEW c, NEW ok \in FileDescriptor, NEW failed \in FileDescriptor,
           Tame(D, ok), Tame(D, failed), NEW then, then.fd = call.fd,
           then.pc \notin MidWrite, then.pc # "open", LinkRead(c, ok, failed, then)
    PROVE  ChainInv(chain)'
<1>1. \A n : Tame(D, [ok EXCEPT !.next_cluster = n]) /\ Tame(D, [failed EXCEPT !.next_cluster = n])
  BY DEF Tame, FileDescriptor
<1>2. call \in CallType
  BY DEF IInv
<1>3. CASE /\ Cached(Fat0(c)) /\ Entry(c) # 0
           /\ SetDesc([ok EXCEPT !.next_cluster = Entry(c)])
           /\ call' = then
  <2>1. OffDone([ok EXCEPT !.next_cluster = Entry(c)])
    BY <1>1, <1>3, OffBlocks DEF OffDone
  <2> QED
    BY <2>1, OffDoneStep
<1>4. CASE /\ Cached(Fat0(c)) \/ CacheFailed(Fat0(c))
           /\ SetDesc([failed EXCEPT !.next_cluster = 0])
           /\ Return(FALSE)
  <2>1. OffDone([failed EXCEPT !.next_cluster = 0])
    BY <1>1, <1>2, <1>4, CallAfter, OffBlocks DEF OffDone, MidWrite
  <2> QED
    BY <2>1, OffDoneStep
<1> QED
  BY <1>3, <1>4 DEF LinkRead

\* fat_open_file reads the FAT entry of the first cluster.
LEMMA OffOpenReads ==
    ASSUME IInv, NEW chain \in Chains, ChainInv(chain), ~ready, OpenReadsFat
    PROVE  ChainInv(chain)'
<1>1. call.pc = "open" /\ torn' = torn
      /\ LinkRead(D.cluster_lo, D, FreeDesc, [call EXCEPT !.pc = "return"])
  BY DEF OpenReadsFat
<1>2. D \in FileDescriptor /\ call.fd \in Fds /\ call \in CallType
  BY <1>1, RunningFacts
<1>3. CASE /\ Cached(Fat0(D.cluster_lo))
           /\ SetDesc([D EXCEPT !.next_cluster = Entry(D.cluster_lo)])
           /\ call' = [call EXCEPT !.pc = "return"]
  <2>1. OffDone([D EXCEPT !.next_cluster = Entry(D.cluster_lo)])
    <3>1. Tame(D, [D EXCEPT !.next_cluster = Entry(D.cluster_lo)])
      BY <1>2 DEF Tame, FileDescriptor
    <3>2. call'.fd = call.fd /\ call'.pc = "return"
      BY <1>2, <1>3 DEF CallType
    <3> QED
      BY <1>1, <1>3, <3>1, <3>2, OffBlocks DEF OffDone, MidWrite
  <2> QED
    BY <1>1, <2>1, OffDoneStep
<1>4. CASE /\ Cached(Fat0(D.cluster_lo)) \/ CacheFailed(Fat0(D.cluster_lo))
           /\ SetDesc([FreeDesc EXCEPT !.next_cluster = 0])
           /\ Return(FALSE)
  <2>1. disk' = disk /\ ~ready' /\ call'.pc = "return"
    BY <1>2, <1>4, OffBlocks, CallAfter
  <2>2. PICK fd \in Fds : fd = call.fd
    BY <1>2
  <2>3. desc'[fd].is_free /\ \A ge \in Fds : ge # fd => desc'[ge] = desc[ge]
    BY <1>4, <2>2 DEF SetDesc, IInv, DescOK, FreeDesc
  <2>4. ~desc[fd].dir_entry_modified
    BY <1>1, <2>2 DEF ChainInv, Always, D
  <2>5. ~Fresh(fd)' /\ \A ge \in Fds : ge # fd => (Fresh(ge)' <=> Fresh(ge))
    BY <2>3 DEF Fresh
  <2>6. Alone'
    BY <2>3, <2>5 DEF Alone, ChainInv
  <2>7. Unsaved \subseteq Unsaved'
    <3>1. SUFFICES ASSUME NEW ge \in Fds, Fresh(ge), desc[ge].dir_entry_modified
                   PROVE  desc[ge].file \in Unsaved'
      BY DEF Unsaved
    <3>2. ge # fd
      BY <2>4, <3>1
    <3>3. Fresh(ge)' /\ desc'[ge] = desc[ge]
      BY <2>3, <2>5, <3>1, <3>2
    <3> QED
      BY <3>1, <3>3 DEF Unsaved
  <2> QED
    BY <1>1, <2>1, <2>6, <2>7, OffStep DEF MidWrite
<1> QED
  BY <1>1, <1>3, <1>4 DEF LinkRead

\* Every step of a call in progress.
LEMMA OffCallSteps ==
    ASSUME IInv, NEW chain \in Chains, ChainInv(chain), ~ready, CallStep
    PROVE  ChainInv(chain)'
<1>1. call \in CallType /\ call.pc \notin MidWrite
  BY DEF IInv, ChainInv, Always
<1>2. ASSUME call.pc \notin {"idle", "return"}
      PROVE  D \in FileDescriptor
  BY <1>2, RunningFacts
<1>3. UNCHANGED blockVars => disk' = disk /\ ~ready'
  BY DEF blockVars
<1>4. CASE OpenReadsFat
  BY <1>4, OffOpenReads
<1>5. CASE ActionDone
  <2>1. OffDone(D)
    BY <1>1, <1>2, <1>3, <1>5, CallAfter, DescKept, TameOps DEF ActionDone, OffDone, MidWrite
  <2> QED
    BY <1>5, <2>1, OffDoneStep DEF ActionDone
<1>6. CASE ActionAllocates
  <2>1. call'.fd = call.fd /\ call'.pc = "alloc"
    BY <1>1, <1>6 DEF ActionAllocates, CallType
  <2>2. OffDone(D)
    BY <1>1, <1>2, <1>3, <1>6, <2>1, DescKept, TameOps DEF ActionAllocates, OffDone, MidWrite
  <2> QED
    BY <1>6, <2>2, OffDoneStep DEF ActionAllocates
<1>7. CASE ActionAtEnd
  <2>1. OffDone(D)
    BY <1>1, <1>2, <1>3, <1>7, CallAfter, DescKept, TameOps
    DEF ActionAtEnd, InBlock, OffDone, MidWrite
  <2> QED
    BY <1>7, <2>1, OffDoneStep DEF ActionAtEnd, InBlock
<1>8. CASE ActionMoves
  <2> DEFINE n == ChunkLen(D, call.op, call.len)
             d1 == Expanded(D, call.op, call.len)
             a == DataBlock(D.block_addr)
  <2>1. call.pc = "loop" /\ SetDesc(SeekAdvance(d1, n)) /\ torn' = torn
        /\ (Updated(a, Load(a)) \/ Cached(a))
    BY <1>8 DEF ActionMoves, InBlock
  <2>2. call'.fd = call.fd /\ call'.pc \in {"loop", "advance"}
    <3>1. \/ call' = [call EXCEPT !.pc = "advance", !.chunk = n]
          \/ call' = [call EXCEPT !.len = @ - n, !.result = @ + n]
      BY <1>8 DEF ActionMoves
    <3> QED
      BY <1>1, <2>1, <3>1 DEF CallType
  <2>3. Tame(D, SeekAdvance(d1, n))
    BY <1>2, <2>1, TameOps
  <2>4. OffDone(SeekAdvance(d1, n))
    BY <2>1, <2>2, <2>3, OffBlocks DEF OffDone, MidWrite
  <2> QED
    BY <2>1, <2>4, OffDoneStep
<1>9. CASE ActionFails
  <2> DEFINE a == DataBlock(D.block_addr)
             d1 == Expanded(D, call.op, call.len)
  <2>1. call.pc = "loop" /\ SetDesc(d1) /\ torn' = torn /\ Return(TRUE)
        /\ (UpdateFailed(a, Load(a)) \/ CacheFailed(a))
    BY <1>9 DEF ActionFails, InBlock
  <2>2. OffDone(d1)
    BY <1>1, <1>2, <2>1, CallAfter, TameOps, OffBlocks DEF OffDone, MidWrite
  <2> QED
    BY <2>1, <2>2, OffDoneStep
<1>10. CASE AdvanceReadsFat
  <2> DEFINE ok == [D EXCEPT !.block_in_cluster = 0]
             then == [call EXCEPT !.pc = "loop", !.len = @ - call.chunk,
                                  !.result = @ + call.chunk, !.chunk = 0]
  <2>1. call.pc = "advance" /\ torn' = torn /\ LinkRead(D.cur_cluster, ok, D, then)
    BY <1>10 DEF AdvanceReadsFat
  <2>2. D \in FileDescriptor /\ ok \in FileDescriptor /\ Tame(D, ok) /\ Tame(D, D)
    BY <1>2, <2>1 DEF Tame, FileDescriptor
  <2>3. then.fd = call.fd /\ then.pc = "loop"
    BY <1>1 DEF CallType
  <2> HIDE DEF ok, then
  <2> QED
    BY <2>1, <2>2, <2>3, OffLinkRead DEF MidWrite
<1>11. CASE AllocMarks
  <2> DEFINE a == FatBlock("fat0", call.sector)
             x == WithEntry(a, Min(FreeIn(call.sector)), EOC)
  <2>1. call.pc = "alloc" /\ desc' = desc /\ torn' = torn
    BY <1>11 DEF AllocMarks
  <2>2. \/ Cached(a) /\ call' = [call EXCEPT !.sector = @ + 1]
        \/ (CacheFailed(a) \/ UpdateFailed(a, x)) /\ Return(TRUE)
    BY <1>11, OffBlocks DEF AllocMarks
  <2>3. disk' = disk /\ ~ready'
    BY <2>2, OffBlocks
  <2>4. call'.fd = call.fd /\ call'.pc \in {"alloc", "return"}
    BY <1>1, <2>1, <2>2, CallAfter DEF CallType
  <2>5. OffDone(D)
    BY <1>2, <2>1, <2>3, <2>4, DescKept, TameOps DEF OffDone, MidWrite
  <2> QED
    BY <2>1, <2>5, OffDoneStep
<1>12. CASE AllocFindsNothing
  <2>1. OffDone(D)
    BY <1>1, <1>2, <1>3, <1>12, CallAfter, DescKept, TameOps
    DEF AllocFindsNothing, OffDone, MidWrite
  <2> QED
    BY <1>12, <2>1, OffDoneStep DEF AllocFindsNothing
<1>13. CASE AllocMirrors \/ ParentLinks \/ ParentMirrors \/ CutFat1 \/ FreeFat1
  BY <1>1, <1>13 DEF AllocMirrors, ParentLinks, ParentMirrors, CutFat1, FreeFat1, MidWrite
<1>14. CASE FindParent
  <2> DEFINE d1 == [D EXCEPT !.next_cluster = D.cur_cluster,
                             !.cur_cluster = call.head,
                             !.block_in_cluster = SectorsPerCluster]
  <2>1. call.pc = "find_parent" /\ torn' = torn
    BY <1>14 DEF FindParent
  <2>2. disk' = disk /\ ~ready'
    BY <1>3, <1>14, OffBlocks DEF FindParent
  <2>3. \/ Return(FALSE) /\ desc' = desc
        \/ SetDesc(d1) /\ Goto("cut_fat0")
        \/ call' = [call EXCEPT !.head = Entry(call.head)] /\ desc' = desc
    BY <1>14 DEF FindParent
  <2>4. call'.fd = call.fd /\ call'.pc \in {"find_parent", "return", "cut_fat0"}
    BY <1>1, <2>1, <2>3, CallAfter DEF CallType
  <2>5. Tame(D, d1) /\ Tame(D, D)
    BY <1>2, <2>1 DEF Tame, FileDescriptor
  <2> HIDE DEF d1
  <2>6. OffDone(d1) \/ OffDone(D)
    BY <2>1, <2>2, <2>3, <2>4, <2>5, DescKept DEF OffDone, MidWrite
  <2> QED
    BY <2>1, <2>6, OffDoneStep
<1>15. CASE CutNothing
  <2>1. OffDone(Truncated(D))
    BY <1>1, <1>2, <1>3, <1>15, CallAfter, TameOps DEF CutNothing, OffDone, MidWrite
  <2> QED
    BY <1>15, <2>1, OffDoneStep DEF CutNothing
<1>16. CASE CutFat0
  <2> DEFINE a == Fat0(D.cur_cluster)
             x == WithEntry(a, D.cur_cluster, EOC)
  <2>1. call.pc = "cut_fat0" /\ desc' = desc /\ torn' = torn
        /\ UpdateFailed(a, x) /\ Return(FALSE)
    BY <1>16, OffBlocks DEF CutFat0
  <2>2. OffDone(D)
    BY <1>1, <1>2, <2>1, CallAfter, DescKept, TameOps, OffBlocks DEF OffDone, MidWrite
  <2> QED
    BY <2>1, <2>2, OffDoneStep
<1>17. CASE FreeFat0
  <2> DEFINE a == Fat0(call.head)
             x == WithEntry(a, call.head, 0)
  <2>1. call.pc = "free_fat0" /\ torn' = torn /\ SetDesc(Freed(D, FALSE)) /\ Return(FALSE)
        /\ (Cached(a) \/ CacheFailed(a) \/ UpdateFailed(a, x))
    BY <1>17, OffBlocks DEF FreeFat0
  <2>2. OffDone(Freed(D, FALSE))
    BY <1>1, <1>2, <2>1, CallAfter, TameOps, OffBlocks DEF OffDone, MidWrite
  <2> QED
    BY <2>1, <2>2, OffDoneStep
<1>18. CASE FreeDone
  <2>1. OffDone(Freed(D, TRUE))
    BY <1>1, <1>2, <1>3, <1>18, CallAfter, TameOps DEF FreeDone, OffDone, MidWrite
  <2> QED
    BY <1>18, <2>1, OffDoneStep DEF FreeDone
<1>19. CASE SeekBeginReadsFat
  <2> DEFINE ok == [D EXCEPT !.abs_offset = call.offset]
             failed == [D EXCEPT !.abs_offset = 0]
             then == [call EXCEPT !.pc = "seek"]
  <2>1. call.pc = "seek_begin" /\ torn' = torn /\ LinkRead(D.cluster_lo, ok, failed, then)
    BY <1>19 DEF SeekBeginReadsFat
  <2>2. call.offset \in Nat
    BY <1>1 DEF CallType
  <2>3. /\ ok \in FileDescriptor /\ failed \in FileDescriptor
        /\ Tame(D, ok) /\ Tame(D, failed)
    BY <1>2, <2>1, <2>2 DEF Tame, FileDescriptor
  <2>4. then.fd = call.fd /\ then.pc = "seek"
    BY <1>1 DEF CallType
  <2> HIDE DEF ok, failed, then
  <2> QED
    BY <2>1, <2>3, <2>4, OffLinkRead DEF MidWrite
<1>20. CASE SeekFollows
  <2> DEFINE d == [D EXCEPT !.cur_cluster = D.next_cluster]
             then == [call EXCEPT !.offset = @ - (BytesPerCluster % U16)]
  <2>1. call.pc = "seek" /\ torn' = torn /\ LinkRead(D.next_cluster, d, d, then)
    BY <1>20 DEF SeekFollows
  <2>2. d \in FileDescriptor /\ Tame(D, d)
    BY <1>2, <2>1 DEF Tame, FileDescriptor
  <2>3. then.fd = call.fd /\ then.pc = "seek"
    BY <1>1, <2>1 DEF CallType
  <2> HIDE DEF d, then
  <2> QED
    BY <2>1, <2>2, <2>3, OffLinkRead DEF MidWrite
<1>21. CASE SeekDone
  <2>1. OffDone(PlacedAt(D, call.offset))
    BY <1>1, <1>2, <1>3, <1>21, CallAfter, TameOps DEF SeekDone, OffDone, MidWrite
  <2> QED
    BY <1>21, <2>1, OffDoneStep DEF SeekDone
<1>22. CASE SeekEndFollows
  <2> DEFINE d == [D EXCEPT !.cur_cluster = D.next_cluster]
  <2>1. call.pc = "seek_end" /\ torn' = torn /\ LinkRead(D.next_cluster, d, d, call)
    BY <1>22 DEF SeekEndFollows
  <2>2. d \in FileDescriptor /\ Tame(D, d)
    BY <1>2, <2>1 DEF Tame, FileDescriptor
  <2> HIDE DEF d
  <2> QED
    BY <2>1, <2>2, OffLinkRead DEF MidWrite
<1>23. CASE SeekEndDone
  <2> DEFINE d == PlacedAt([D EXCEPT !.abs_offset = D.size], D.last_cluster_len)
  <2>1. call.pc = "seek_end" /\ SetDesc(d) /\ Return(TRUE) /\ UNCHANGED blockVars /\ torn' = torn
    BY <1>23 DEF SeekEndDone
  <2>2. Tame(D, d)
    BY <1>2, <2>1, TameOps
  <2>3. OffDone(d)
    BY <1>1, <1>3, <2>1, <2>2, CallAfter DEF OffDone, MidWrite
  <2> QED
    BY <2>1, <2>3, OffDoneStep
<1>24. CASE Returned
  <2>1. call'.pc = "idle" /\ call'.op = "none" /\ call.pc = "return"
    BY <1>24 DEF Returned, IdleCall
  <2>2. Volume' = Volume /\ ready' = ready /\ desc' = desc /\ torn' = torn
    BY <1>24 DEF Returned, blockVars, Volume
  <2>3. BufferCoherent'
    BY <2>2 DEF BufferCoherent
  <2> QED
    BY <2>1, <2>2, <2>3, RestStep
<1> QED
  BY <1>4, <1>5, <1>6, <1>7, <1>8, <1>9, <1>10, <1>11, <1>12, <1>13, <1>14, <1>15, <1>16,
     <1>17, <1>18, <1>19, <1>20, <1>21, <1>22, <1>23, <1>24 DEF CallStep

-----------------------------------------------------------------------------
(* Calls that only look, close, mount, and resets.                         *)

\* At rest no file is being lengthened.
LEMMA IdleFacts ==
    ASSUME IInv, call.pc = "idle"
    PROVE  Lengthening = {} /\ call = IdleCall
<1>1. call = IdleCall
  BY DEF IInv, Resting
<1> QED
  BY <1>1 DEF Lengthening, IdleCall

\* A call that the library begins for the program.
LEMMA CallOfFields ==
    /\ IdleCall.pc = "idle" /\ IdleCall.op = "none" /\ IdleCall.fd = 0
    /\ \A op, fd, pc :
           LET c == CallOf(op, fd, pc)  r == [c EXCEPT !.ret = FALSE] IN
           /\ c.pc = pc /\ c.op = op /\ c.fd = fd /\ c.link = 0 /\ c.result = 0 /\ c.off0 = 0
           /\ r.pc = pc /\ r.op = op /\ r.fd = fd
BY DEF IdleCall, CallOf

\* The blocks stay as they are.
LEMMA BlocksKept ==
    ASSUME UNCHANGED blockVars
    PROVE  /\ Volume' = Volume /\ ready' = ready /\ (BufferCoherent => BufferCoherent')
           /\ Fat("fat0")' = Fat("fat0") /\ Fat("fat1")' = Fat("fat1") /\ Dir' = Dir
<1>1. Volume' = Volume /\ ready' = ready /\ (BufferCoherent => BufferCoherent')
  BY DEF blockVars, Volume, BufferCoherent
<1> QED
  BY <1>1, FatKept

\* get_desc refuses a descriptor.
LEMMA ChainRefuses ==
    ASSUME IInv, NEW chain \in Chains, ChainInv(chain), NEW fd \in Fds, FatRefuses(fd)
    PROVE  ChainInv(chain)'
<1>1. call.pc = "idle" /\ call'.pc = "return" /\ call'.op = "none"
  BY CallOfFields DEF FatRefuses, Idle
<1>2. BufferCoherent
  BY DEF ChainInv
<1> QED
  BY <1>1, <1>2, BlocksKept, RestStep DEF FatRefuses

\* The program looks at the result.
LEMMA ChainReturned ==
    ASSUME IInv, NEW chain \in Chains, ChainInv(chain), Returned
    PROVE  ChainInv(chain)'
<1>1. call.pc = "return" /\ call'.pc = "idle" /\ call'.op = "none"
  BY CallOfFields DEF Returned
<1>2. BufferCoherent
  BY DEF ChainInv
<1> QED
  BY <1>1, <1>2, BlocksKept, RestStep DEF Returned

\* fat_open_file finds no free descriptor or cannot read the directory.
LEMMA ChainOpenFails ==
    ASSUME IInv, NEW chain \in Chains, ChainInv(chain), NEW f \in Files, FatOpenFileFails(f)
    PROVE  ChainInv(chain)'
<1>1. /\ call.pc = "idle" /\ call'.pc = "return" /\ call'.op = "open"
      /\ desc' = desc /\ torn' = torn
  BY CallOfFields DEF FatOpenFileFails, Idle
<1>2. BufferCoherent /\ Alone
  BY DEF ChainInv
<1>3. CASE UNCHANGED blockVars
  BY <1>1, <1>2, <1>3, BlocksKept, RestStep
<1>4. CASE CacheFailed(DirBlock)
  <2>1. ~ready' /\ Volume' = Volume
    <3>1. DirBlock \in VolumeBlocks
      BY Contents
    <3>2. CASE ready
      BY <1>4, <3>1, <3>2, CacheFailedReady
    <3>3. CASE ~ready
      BY <1>4, <3>3, OffBlocks DEF Volume
    <3> QED
      BY <3>2, <3>3
  <2>2. Unsaved' = Unsaved /\ Alone'
    BY <1>1, <1>2 DEF Unsaved, Alone, Fresh
  <2>3. Fat("fat0")' = Fat("fat0") /\ Fat("fat1")' = Fat("fat1") /\ Dir' = Dir
    BY <2>1, FatKept
  <2>4. \A g \in Files : g \notin torn' /\ g \notin Unsaved' => g \in Settled /\ Dir'[g] = Dir[g]
    BY <1>1, <2>2, <2>3, IdleFacts DEF Settled
  <2> QED
    BY <1>1, <2>1, <2>2, <2>3, <2>4, DownStep
<1> QED
  BY <1>3, <1>4 DEF FatOpenFileFails

\* fat_close writes the directory.
LEMMA DirWrote ==
    ASSUME BlockOK, NEW x, Wrote(DirBlock, x)
    PROVE  Dir' = x /\ Fat("fat0")' = Fat("fat0") /\ Fat("fat1")' = Fat("fat1")
<1>1. DirBlock \in VolumeBlocks
  BY Contents
<1>2. \A b \in VolumeBlocks : Volume'[b] = IF b = DirBlock THEN x ELSE Volume[b]
  BY <1>1 DEF Wrote, BlockOK, Volume
<1>3. ASSUME NEW copy \in {"fat0", "fat1"}, NEW c \in Entries
      PROVE  FatEntry(Volume', copy, c) = FatEntry(Volume, copy, c)
  <2>1. FatBlock(copy, SectorOf(c)) \in VolumeBlocks
    BY FatAreas, Contents
  <2>2. FatBlock(copy, SectorOf(c)) # DirBlock
    BY DEF FatBlock, DirBlock
  <2> QED
    BY <1>2, <2>1, <2>2 DEF FatEntry
<1>4. Dir' = x
  BY <1>1, <1>2 DEF Dir
<1> QED
  BY <1>3, <1>4 DEF Fat

\* A descriptor is freed.
LEMMA FreedFacts ==
    ASSUME IInv, NEW fd \in Fds, desc' = [desc EXCEPT ![fd] = FreeDesc], Alone
    PROVE  /\ ~Fresh(fd)' /\ \A ge \in Fds : ge # fd => desc'[ge] = desc[ge] /\ (Fresh(ge)' <=> Fresh(ge))
           /\ Alone'
           /\ Unsaved \subseteq Unsaved' \cup {desc[fd].file}
           /\ ~Fresh(fd) \/ ~desc[fd].dir_entry_modified => Unsaved \subseteq Unsaved'
           /\ OpenFiles \subseteq OpenFiles' \cup {desc[fd].file}
           /\ ~Fresh(fd) => OpenFiles \subseteq OpenFiles'
<1>1. desc'[fd] = FreeDesc /\ \A ge \in Fds : ge # fd => desc'[ge] = desc[ge]
  BY DEF IInv, DescOK
<1>2. ~Fresh(fd)' /\ \A ge \in Fds : ge # fd => (Fresh(ge)' <=> Fresh(ge))
  BY <1>1 DEF Fresh, FreeDesc
<1>3. Alone'
  BY <1>1, <1>2 DEF Alone
<1>4. ASSUME NEW ge \in Fds, Fresh(ge), desc[ge].dir_entry_modified
      PROVE  ge = fd \/ desc[ge].file \in Unsaved'
  <2>1. SUFFICES ASSUME ge # fd PROVE desc[ge].file \in Unsaved'
    OBVIOUS
  <2>2. desc'[ge] = desc[ge] /\ Fresh(ge)'
    BY <1>1, <1>2, <1>4, <2>1
  <2> QED
    BY <1>4, <2>2 DEF Unsaved
<1>5. ASSUME NEW ge \in Fds, Fresh(ge)
      PROVE  ge = fd \/ desc[ge].file \in OpenFiles'
  <2>1. SUFFICES ASSUME ge # fd PROVE desc[ge].file \in OpenFiles'
    OBVIOUS
  <2>2. desc'[ge] = desc[ge] /\ Fresh(ge)'
    BY <1>1, <1>2, <1>5, <2>1
  <2> QED
    BY <2>2 DEF OpenFiles
<1>6. Unsaved \subseteq Unsaved' \cup {desc[fd].file}
  <2>1. SUFFICES ASSUME NEW ge \in Fds, Fresh(ge), desc[ge].dir_entry_modified
                 PROVE  desc[ge].file \in Unsaved' \cup {desc[fd].file}
    BY DEF Unsaved
  <2> QED
    BY <1>4, <2>1
<1>7. ASSUME ~Fresh(fd) \/ ~desc[fd].dir_entry_modified
      PROVE  Unsaved \subseteq Unsaved'
  <2>1. SUFFICES ASSUME NEW ge \in Fds, Fresh(ge), desc[ge].dir_entry_modified
                 PROVE  desc[ge].file \in Unsaved'
    BY DEF Unsaved
  <2> QED
    BY <1>4, <1>7, <2>1
<1>8. OpenFiles \subseteq OpenFiles' \cup {desc[fd].file}
  <2>1. SUFFICES ASSUME NEW ge \in Fds, Fresh(ge)
                 PROVE  desc[ge].file \in OpenFiles' \cup {desc[fd].file}
    BY DEF OpenFiles
  <2> QED
    BY <1>5, <2>1
<1>9. ASSUME ~Fresh(fd) PROVE OpenFiles \subseteq OpenFiles'
  <2>1. SUFFICES ASSUME NEW ge \in Fds, Fresh(ge)
                 PROVE  desc[ge].file \in OpenFiles'
    BY DEF OpenFiles
  <2> QED
    BY <1>5, <1>9, <2>1
<1> QED
  BY <1>1, <1>2, <1>3, <1>6, <1>7, <1>8, <1>9

\* The descriptor is freed and its file's entry on the card fits its chain.
LEMMA ClosedStep ==
    ASSUME IInv, NEW chain \in Chains, ChainInv(chain), ready, ready', BufferCoherent',
           call.pc = "idle", call'.pc = "return", call'.op = "close", torn' = torn,
           NEW fd \in Fds, desc' = [desc EXCEPT ![fd] = FreeDesc],
           Fat("fat0")' = Fat("fat0"), Fat("fat1")' = Fat("fat1"),
           \A g \in Files : Dir'[g] = Dir[g] \/ (Fresh(fd) /\ g = desc[fd].file),
           Fresh(fd) => EntryFits(Dir'[desc[fd].file], chain[desc[fd].file])
    PROVE  ChainInv(chain)'
<1>1. Alone
  BY DEF ChainInv
<1>2. /\ ~Fresh(fd)' /\ \A ge \in Fds : ge # fd => desc'[ge] = desc[ge] /\ (Fresh(ge)' <=> Fresh(ge))
      /\ Alone' /\ OpenFiles \subseteq OpenFiles' \cup {desc[fd].file}
      /\ ~Fresh(fd) => OpenFiles \subseteq OpenFiles'
  BY <1>1, FreedFacts
<1>3. Excused(D, call) = {} /\ Excused(D, call)' = {}
  BY DEF Excused
<1>4. DirSound(chain)'
  <2>1. ASSUME NEW g \in Files, g \notin torn', g \notin OpenFiles'
        PROVE  EntryFits(Dir'[g], chain[g])
    <3>1. CASE Fresh(fd) /\ g = desc[fd].file
      BY <3>1
    <3>2. CASE ~(Fresh(fd) /\ g = desc[fd].file)
      <4>1. g \notin OpenFiles /\ Dir'[g] = Dir[g]
        BY <1>2, <2>1, <3>2
      <4>2. g \notin Unsaved
        BY <4>1 DEF OpenFiles, Unsaved
      <4> QED
        BY <2>1, <4>1, <4>2 DEF ChainInv, DirSound
    <3> QED
      BY <3>1, <3>2
  <2> QED
    BY <2>1 DEF DirSound
<1>5. DescsSound(chain)'
  <2>1. ASSUME NEW ge \in Fds, Fresh(ge)'
        PROVE  Settle(desc'[ge], chain[desc'[ge].file], Dir'[desc'[ge].file])
    <3>1. ge # fd /\ desc'[ge] = desc[ge] /\ Fresh(ge) /\ desc[ge].file \in Files
      BY <1>2, <2>1 DEF Fresh, IInv, DescOK
    <3>2. Settle(desc[ge], chain[desc[ge].file], Dir[desc[ge].file])
      BY <3>1 DEF ChainInv, DescsSound, Quiet
    <3>3. Fresh(fd) => desc[ge].file # desc[fd].file
      BY <1>1, <3>1 DEF Alone
    <3> QED
      BY <3>1, <3>2, <3>3
  <2> QED
    BY <2>1 DEF DescsSound
<1>6. CallSound(chain)' /\ Always'
  BY DEF CallSound, Working, Handling, Always, MidWrite
<1> QED
  BY <1>2, <1>3, <1>4, <1>5, <1>6 DEF ChainInv

\* What a settled descriptor tells the directory.
LEMMA SettleFits ==
    ASSUME IInv, NEW chain \in Chains, ChainInv(chain), ready, NEW fd \in Fds, Fresh(fd), Quiet(fd)
    PROVE  LET d == desc[fd]  f == d.file IN
           /\ f \in Files /\ Settle(d, chain[f], Dir[f])
           /\ EntryFits([cluster_lo |-> d.cluster_lo, size |-> d.size], chain[f])
           /\ ~d.dir_entry_modified => EntryFits(Dir[f], chain[f])
<1> DEFINE d == desc[fd]
           f == d.file
<1>1. d \in FileDescriptor /\ f \in Files
  BY DEF IInv, DescOK, Fresh
<1>2. Settle(d, chain[f], Dir[f])
  BY DEF ChainInv, DescsSound
<1>3. chain[f] \in Seq(Clusters) /\ Dir[f] \in DirEntry
  BY <1>1, ChainFacts, FatTables DEF IInv
<1> HIDE DEF d, f
<1>4. EntryFits(d, chain[f]) /\ (~d.dir_entry_modified => EntryFits(Dir[f], chain[f]))
  BY <1>1, <1>2, <1>3, ExtentFits DEF Settle, Sane
<1>5. EntryFits([cluster_lo |-> d.cluster_lo, size |-> d.size], chain[f])
  BY <1>4 DEF EntryFits
<1> QED
  BY <1>1, <1>2, <1>4, <1>5 DEF d, f

\* fat_close.
LEMMA ChainClose ==
    ASSUME IInv, NEW chain \in Chains, ChainInv(chain), NEW fd \in Fds, FatClose(fd)
    PROVE  ChainInv(chain)'
<1> DEFINE d == desc[fd]
           f == d.file
           dir == [Load(DirBlock) EXCEPT ![f] = [cluster_lo |-> d.cluster_lo, size |-> d.size]]
<1>1. call.pc = "idle" /\ desc' = [desc EXCEPT ![fd] = FreeDesc] /\ ~d.is_free
  BY DEF FatClose, Idle
<1>2. BufferCoherent /\ Alone /\ BlockOK
  BY DEF ChainInv, IInv
<1>3. call'.pc = "return" /\ call'.op = "close"
  <2>1. \/ call' = CallOf("close", fd, "return")
        \/ call' = [CallOf("close", fd, "return") EXCEPT !.ret = FALSE]
    BY DEF FatClose
  <2> QED
    BY <2>1 DEF CallOf, IdleCall
<1>4. /\ Alone' /\ Unsaved \subseteq Unsaved' \cup {f}
      /\ ~Fresh(fd) \/ ~d.dir_entry_modified => Unsaved \subseteq Unsaved'
  BY <1>1, <1>2, FreedFacts
<1>5. Quiet(fd)
  BY <1>1 DEF Quiet
<1>6. DirBlock \in VolumeBlocks
  BY Contents
<1> HIDE DEF dir
<1>7. CASE UNCHANGED blockVars /\ torn' = torn /\ (~d.dir_entry_modified \/ d.is_stale)
  <2>1. /\ ready' = ready /\ BufferCoherent'
        /\ Fat("fat0")' = Fat("fat0") /\ Fat("fat1")' = Fat("fat1") /\ Dir' = Dir
    BY <1>2, <1>7, BlocksKept
  <2>2. CASE ready
    <3>1. Fresh(fd) => EntryFits(Dir[f], chain[f])
      BY <1>5, <1>7, <2>2, SettleFits DEF Fresh
    <3> QED
      BY <1>1, <1>3, <1>7, <2>1, <2>2, <3>1, ClosedStep
  <2>3. CASE ~ready
    <3>1. Unsaved \subseteq Unsaved'
      BY <1>4, <1>7 DEF Fresh
    <3>2. \A g \in Files : g \notin torn' /\ g \notin Unsaved' => g \in Settled /\ Dir'[g] = Dir[g]
      BY <1>1, <1>7, <2>1, <3>1, IdleFacts DEF Settled
    <3> QED
      BY <1>1, <1>3, <1>4, <2>1, <2>3, <3>2, DownStep
  <2> QED
    BY <2>2, <2>3
<1>8. CASE Fresh(fd) /\ d.dir_entry_modified /\ Updated(DirBlock, dir) /\ torn' = torn
  <2>1. ready
    BY <1>8, OffBlocks
  <2>2. ready' /\ Wrote(DirBlock, dir) /\ BufferCoherent'
    BY <1>2, <1>6, <1>8, <2>1, UpdateReady
  <2>3. Dir' = dir /\ Fat("fat0")' = Fat("fat0") /\ Fat("fat1")' = Fat("fat1")
    BY <1>2, <2>2, DirWrote
  <2>4. Load(DirBlock) = Dir
    BY <1>2, <1>6, <2>1, LoadIs DEF Dir
  <2>5. /\ f \in Files
        /\ EntryFits([cluster_lo |-> d.cluster_lo, size |-> d.size], chain[f])
    BY <1>5, <1>8, <2>1, SettleFits
  <2>6. Dir \in [Files -> DirEntry]
    BY <1>2, FatTables
  <2>7. /\ dir[f] = [cluster_lo |-> d.cluster_lo, size |-> d.size]
        /\ \A g \in Files : g # f => dir[g] = Dir[g]
    BY <2>4, <2>5, <2>6 DEF dir
  <2>8. \A g \in Files : Dir'[g] = Dir[g] \/ (Fresh(fd) /\ g = desc[fd].file)
    BY <1>8, <2>3, <2>7
  <2>9. EntryFits(Dir'[f], chain[f])
    BY <2>3, <2>5, <2>7
  <2> QED
    BY <1>1, <1>3, <1>8, <2>1, <2>2, <2>3, <2>8, <2>9, ClosedStep
<1>9. CASE Fresh(fd) /\ UpdateFailed(DirBlock, dir) /\ torn' = torn \cup {f}
  <2>1. ~ready' /\ (Volume' = Volume \/ (ready /\ Wrote(DirBlock, dir)))
    <3>1. CASE ready
      BY <1>2, <1>6, <1>9, <3>1, UpdateReady
    <3>2. CASE ~ready
      BY <1>9, <3>2, OffBlocks DEF Volume
    <3> QED
      BY <3>1, <3>2
  <2>2. f \in Files
    BY <1>1 DEF IInv, DescOK
  <2>3. /\ Fat("fat0")' = Fat("fat0") /\ Fat("fat1")' = Fat("fat1")
        /\ \A g \in Files : g # f => Dir'[g] = Dir[g]
    <3>1. CASE Volume' = Volume
      BY <3>1, FatKept
    <3>2. CASE ready /\ Wrote(DirBlock, dir)
      <4>1. Load(DirBlock) = Dir
        BY <1>2, <1>6, <3>2, LoadIs DEF Dir
      <4>2. Dir' = dir /\ Fat("fat0")' = Fat("fat0") /\ Fat("fat1")' = Fat("fat1")
        BY <1>2, <3>2, DirWrote
      <4>3. Dir \in [Files -> DirEntry]
        BY <1>2, FatTables
      <4>4. \A g \in Files : g # f => dir[g] = Dir[g]
        BY <2>2, <4>1, <4>3 DEF dir
      <4> QED
        BY <4>2, <4>4
    <3> QED
      BY <2>1, <3>1, <3>2
  <2>4. \A g \in Files : g \notin torn' /\ g \notin Unsaved' => g \in Settled /\ Dir'[g] = Dir[g]
    BY <1>1, <1>4, <1>9, <2>3, IdleFacts DEF Settled
  <2> QED
    BY <1>1, <1>3, <1>4, <2>1, <2>3, <2>4, DownStep
<1> QED
  BY <1>7, <1>8, <1>9 DEF FatClose, Fresh, dir

\* The chains without the one of f.
Without(chain, f) == [chain EXCEPT ![f] = <<>>]

\* The entry that is not yet written in both copies is one of the call's file,
\* whose chain may be forgotten.
LEMMA ExcusedOwn ==
    ASSUME IInv, NEW chain \in Chains, ChainInv(chain), call.pc \notin {"idle", "return"}
    PROVE  /\ OnlyChain(chain, Without(chain, D.file), D.file)
           /\ Sound(Fat("fat0"), Fat("fat1"), Without(chain, D.file), {})
           /\ \/ Excused(D, call) = {}
              \/ call.op = "write" /\ call.link # 0
              \/ D.dir_entry_modified
<1> DEFINE f == D.file
           ch == chain[f]
<1>1. /\ f \in Files /\ ch \in Seq(Clusters) /\ BlockOK
      /\ ready => Working(D, call, ch, Dir[f]) /\ Handling(D, call, Fat("fat0"), Fat("fat1"), chain)
      /\ Sound(Fat("fat0"), Fat("fat1"), chain, Excused(D, call))
  BY RunningFacts
<1>2. call.pc \in MidWrite => ready
  BY DEF ChainInv, Always
<1>3. Fat("fat0") \in Tables /\ Fat("fat1") \in Tables
  BY <1>1, FatTables
<1>4. /\ \A c \in Excused(D, call) : \E k \in 1 .. Len(ch) : ch[k] = c
      /\ \/ Excused(D, call) = {}
         \/ call.op = "write" /\ call.link # 0
         \/ D.dir_entry_modified
  <2>1. CASE call.pc = "parent_fat0"
    <3>1. AtAlloc(D, call, ch, Dir[f]) /\ call.link # 0
      BY <1>1, <1>2, <2>1 DEF Working, Handling, MidWrite
    <3>2. call.link = D.cur_cluster /\ Sane(D, ch, Dir[f]) /\ call.op = "write"
      BY <3>1 DEF AtAlloc, Settle
    <3>3. \E k \in 1 .. Len(ch) : ch[k] = call.link
      BY <3>1, <3>2 DEF Sane, CursorEmpty, Cursor, Standing
    <3>4. Excused(D, call) = {call.link}
      BY <2>1 DEF Excused
    <3> QED
      BY <3>1, <3>2, <3>3, <3>4
  <2>2. CASE call.pc = "cut_fat1"
    <3>1. AtFree(D, ch) /\ Len(ch) > 0
      BY <1>1, <1>2, <2>2 DEF Working, Handling, MidWrite
    <3>2. D.cur_cluster = ch[Len(ch)] /\ D.dir_entry_modified
      BY <3>1 DEF AtFree, AtCut, Standing, Cutting
    <3>3. Len(ch) \in 1 .. Len(ch)
      BY <1>1, <3>1
    <3>4. Excused(D, call) = {D.cur_cluster}
      BY <2>2 DEF Excused
    <3> QED
      BY <3>2, <3>3, <3>4
  <2>3. CASE call.pc \notin {"parent_fat0", "cut_fat1"}
    BY <2>3 DEF Excused
  <2> QED
    BY <2>1, <2>2, <2>3
<1>5. Without(chain, f) \in Chains /\ Sound(Fat("fat0"), Fat("fat1"), Without(chain, f), {})
  BY <1>1, <1>3, <1>4, SoundDropped DEF Without
<1>6. \A g \in Files : g # f => Without(chain, f)[g] = chain[g]
  BY DEF Without, Chains
<1> QED
  BY <1>4, <1>5, <1>6 DEF OnlyChain

\* No descriptor is usable any more.
LEMMA NoneFresh ==
    ASSUME \A fd \in Fds : ~Fresh(fd)'
    PROVE  Alone' /\ OpenFiles' = {} /\ Unsaved' = {} /\ \A chain : DescsSound(chain)'
BY DEF Alone, OpenFiles, Unsaved, DescsSound

\* fat_mount.
LEMMA ChainMount ==
    ASSUME IInv, NEW chain \in Chains, ChainInv(chain), FatMount
    PROVE  ChainInv(chain)'
<1>1. call.pc = "idle" /\ torn' = torn \cup Unsaved
  BY DEF FatMount, Idle
<1>2. \A fd \in Fds : ~Fresh(fd)'
  <2>1. ASSUME NEW fd \in Fds PROVE ~Fresh(fd)'
    <3>1. desc'[fd] = IF desc[fd].is_free THEN desc[fd] ELSE [desc[fd] EXCEPT !.is_stale = TRUE]
      BY DEF FatMount
    <3>2. desc[fd] \in FileDescriptor
      BY DEF IInv, DescOK
    <3>3. desc'[fd].is_free \/ desc'[fd].is_stale
      BY <3>1, <3>2 DEF FileDescriptor
    <3> QED
      BY <3>3 DEF Fresh
  <2> QED
    BY <2>1
<1>3. Alone' /\ OpenFiles' = {} /\ Unsaved' = {} /\ DescsSound(chain)'
  BY <1>2, NoneFresh
<1>4. disk' = disk /\ slot = Card
  BY DEF FatMount, MountReads, MountStops, IInv, BlockOK
<1>5. Fat("fat0")' = Fat("fat0") /\ Fat("fat1")' = Fat("fat1") /\ Dir' = Dir /\ Volume' = Volume
  BY <1>4, FatKept DEF Volume
<1>6. \A g \in Files : g \notin torn' => g \in Settled
  BY <1>1, IdleFacts DEF Settled
<1>7. CASE MountReads(BootBlock) /\ call' = CallOf("mount", 0, "return")
  <2>1. call'.pc = "return" /\ call'.op = "mount" /\ call'.fd = 0
    BY <1>7, CallOfFields
  <2>2. BufferCoherent'
    BY <1>4, <1>5, <1>7 DEF MountReads, BufferCoherent, Volume
  <2>3. DirSound(chain)'
    BY <1>5, <1>6, SettledFits DEF DirSound
  <2>4. Excused(D, call) = {} /\ Excused(D, call)' = {}
    BY <1>1, <2>1 DEF Excused
  <2>5. Sound(Fat("fat0")', Fat("fat1")', chain, Excused(D, call)')
    BY <1>5, <2>4 DEF ChainInv
  <2>6. CallSound(chain)' /\ Always'
    BY <2>1 DEF CallSound, Working, Handling, Always, MidWrite
  <2> QED
    BY <1>3, <2>2, <2>3, <2>5, <2>6 DEF ChainInv
<1>8. ASSUME NEW r, MountStops(r), call' = [CallOf("mount", 0, "return") EXCEPT !.ret = FALSE]
      PROVE  ChainInv(chain)'
  <2>1. call'.pc = "return"
    BY <1>8, CallOfFields
  <2>2. ~ready'
    BY <1>4, <1>8, FileAssumption DEF MountStops, PowerStays
  <2> QED
    BY <1>1, <1>3, <1>5, <1>6, <2>1, <2>2, DownStep
<1> QED
  BY <1>7, <1>8 DEF FatMount

\* A reset, at any moment of a call.
LEMMA ChainReset ==
    ASSUME IInv, NEW chain \in Chains, ChainInv(chain), FatInit
    PROVE  \E chain2 \in Chains : ChainInv(chain2)'
<1>1. /\ disk' = disk /\ ~ready' /\ call' = IdleCall
      /\ torn' = torn \cup Unsaved \cup Lengthening /\ desc' = [fd \in Fds |-> FreeDesc]
  BY DEF FatInit, PowerUp
<1>2. \A fd \in Fds : ~Fresh(fd)'
  BY <1>1 DEF Fresh, FreeDesc
<1>3. Alone'
  BY <1>2, NoneFresh
<1>4. Fat("fat0")' = Fat("fat0") /\ Fat("fat1")' = Fat("fat1") /\ Dir' = Dir
  BY <1>1, FatKept DEF Volume
<1>5. \A g \in Files : g \notin torn' => EntryFits(Dir[g], chain[g])
  BY <1>1, SettledFits DEF Settled
<1>6. call'.pc = "idle" /\ Excused(D, call)' = {} /\ BufferCoherent' /\ Always'
  BY <1>1, CallOfFields DEF Excused, BufferCoherent, Always, MidWrite
<1>7. ASSUME NEW chain2 \in Chains, Sound(Fat("fat0"), Fat("fat1"), chain2, {}),
             \A g \in Files : g \notin torn' => chain2[g] = chain[g]
      PROVE  ChainInv(chain2)'
  <2>1. DirSound(chain2)'
    BY <1>4, <1>5, <1>7 DEF DirSound
  <2> QED
    BY <1>1, <1>3, <1>4, <1>6, <1>7, <2>1 DEF ChainInv
<1>8. CASE Excused(D, call) = {}
  BY <1>7, <1>8 DEF ChainInv
<1>9. CASE Excused(D, call) # {}
  <2> DEFINE f == D.file
             chain2 == Without(chain, f)
  <2>1. call.pc \notin {"idle", "return"}
    BY <1>9 DEF Excused
  <2>2. /\ OnlyChain(chain, chain2, f) /\ Sound(Fat("fat0"), Fat("fat1"), chain2, {})
        /\ (call.op = "write" /\ call.link # 0) \/ D.dir_entry_modified
    BY <1>9, <2>1, ExcusedOwn
  <2>3. Fresh(call.fd) /\ call.fd \in Fds
    BY <2>1, RunningFacts
  <2>4. f \in torn'
    BY <1>1, <2>1, <2>2, <2>3 DEF Lengthening, Unsaved, D
  <2> HIDE DEF chain2
  <2> QED
    BY <1>7, <2>2, <2>4 DEF OnlyChain
<1> QED
  BY <1>8, <1>9

\* The descriptor that fat_open_file takes.
LEMMA OpenFacts ==
    ASSUME IInv, NEW chain \in Chains, ChainInv(chain), NEW f \in Files, FatOpenFile(f)
    PROVE  \E fd \in Fds : LET d == InitFd(f, Load(DirBlock)[f]) IN
           /\ Cached(DirBlock) /\ torn' = torn /\ Holds(fd, d, f) /\ ~Fresh(fd)
           /\ call' = CallOf("open", fd, IF d.cluster_lo = 0 THEN "return" ELSE "open")
           /\ ~d.dir_entry_modified /\ f \notin OpenFiles /\ f \notin torn
<1> DEFINE fd == Min(FreeFds)
           d == InitFd(f, Load(DirBlock)[f])
<1>1. fd \in Fds /\ desc[fd].is_free
  <2>1. FreeFds \subseteq Nat /\ FreeFds # {}
    BY FileAssumption DEF FreeFds, FatOpenFile
  <2>2. fd \in FreeFds
    BY <2>1, MinExists
  <2> QED
    BY <2>2 DEF FreeFds
<1>2. /\ Cached(DirBlock) /\ desc' = [desc EXCEPT ![fd] = d] /\ torn' = torn
      /\ call' = CallOf("open", fd, IF d.cluster_lo = 0 THEN "return" ELSE "open")
      /\ f \notin OpenFiles /\ f \notin torn
  BY DEF FatOpenFile, Starts
<1>3. ~d.is_free /\ ~d.is_stale /\ d.file = f /\ ~d.dir_entry_modified
  BY DEF InitFd
<1>4. ~Fresh(fd)
  BY <1>1 DEF Fresh
<1>5. Holds(fd, d, f)
  BY <1>2, <1>3, <1>4 DEF Holds
<1> QED
  BY <1>1, <1>2, <1>3, <1>4, <1>5

\* fat_open_file finds the directory in the buffer.
LEMMA OffOpen ==
    ASSUME IInv, NEW chain \in Chains, ChainInv(chain), ~ready, NEW f \in Files, FatOpenFile(f)
    PROVE  ChainInv(chain)'
<1> DEFINE d == InitFd(f, Load(DirBlock)[f])
<1>1. PICK fd \in Fds :
           /\ Cached(DirBlock) /\ torn' = torn /\ Holds(fd, d, f) /\ ~Fresh(fd)
           /\ call' = CallOf("open", fd, IF d.cluster_lo = 0 THEN "return" ELSE "open")
           /\ ~d.dir_entry_modified
  BY OpenFacts
<1> HIDE DEF d
<1>2. Alone
  BY DEF ChainInv
<1>3. /\ desc'[fd] = d /\ Fresh(fd)' /\ Alone'
      /\ \A ge \in Fds : ge # fd => desc'[ge] = desc[ge] /\ (Fresh(ge)' <=> Fresh(ge))
  BY <1>1, <1>2, HoldsFacts
<1>4. disk' = disk /\ ~ready'
  BY <1>1, OffBlocks
<1>5. call'.fd = fd /\ call'.pc \in {"return", "open"}
  BY <1>1, CallOfFields
<1>6. D' = d
  BY <1>3, <1>5 DEF D
<1>7. Unsaved \subseteq Unsaved'
  <2>1. SUFFICES ASSUME NEW ge \in Fds, Fresh(ge), desc[ge].dir_entry_modified
                 PROVE  desc[ge].file \in Unsaved'
    BY DEF Unsaved
  <2>2. desc'[ge] = desc[ge] /\ Fresh(ge)'
    BY <1>1, <1>3, <2>1
  <2> QED
    BY <2>1, <2>2 DEF Unsaved
<1> QED
  BY <1>1, <1>3, <1>4, <1>5, <1>6, <1>7, OffStep DEF MidWrite

\* The calls that only begin.
LEMMA OffBegins ==
    ASSUME IInv, NEW chain \in Chains, ChainInv(chain), ~ready, NEW fd \in Fds,
           \/ \E op, len : FatAction(fd, op, len)
           \/ FatTruncate(fd) \/ FatSeekEnd(fd) \/ \E o : FatSeek(fd, o)
    PROVE  ChainInv(chain)'
<1>1. desc[fd] \in FileDescriptor /\ desc \in [Fds -> FileDescriptor]
  BY DEF IInv, DescOK
<1>2. Tame(desc[fd], desc[fd]) /\ (desc' = desc => desc' = [desc EXCEPT ![fd] = desc[fd]])
  BY <1>1 DEF Tame
<1>3. UNCHANGED blockVars => disk' = disk /\ ~ready'
  BY DEF blockVars
<1>4. ASSUME NEW op, NEW len, FatAction(fd, op, len) PROVE ChainInv(chain)'
  <2>1. call'.fd = fd /\ call'.pc = "loop"
    BY <1>4 DEF FatAction, Starts, CallOf, IdleCall
  <2> QED
    BY <1>2, <1>3, <1>4, <2>1, OffCall DEF FatAction, Starts, Usable, MidWrite
<1>5. ASSUME FatSeekEnd(fd) PROVE ChainInv(chain)'
  <2>1. call'.fd = fd /\ call'.pc = "seek_end"
    BY <1>5 DEF FatSeekEnd, Starts, CallOf, IdleCall
  <2> QED
    BY <1>2, <1>3, <1>5, <2>1, OffCall DEF FatSeekEnd, Starts, Usable, MidWrite
<1>6. ASSUME FatTruncate(fd) PROVE ChainInv(chain)'
  <2>1. Fresh(fd) /\ UNCHANGED blockVars /\ torn' = torn
    BY <1>6 DEF FatTruncate, Starts, Usable
  <2>2. call'.fd = fd /\ call'.pc \in {"return", "free_fat0", "find_parent", "cut_fat0"}
    BY <1>6 DEF FatTruncate, Starts, CallOf, IdleCall
  <2>3. \E d2 : Tame(desc[fd], d2) /\ desc' = [desc EXCEPT ![fd] = d2]
    <3> DEFINE d == desc[fd]
               e == [d EXCEPT !.size = d.abs_offset, !.dir_entry_modified = TRUE]
               e0 == [e EXCEPT !.cluster_lo = 0]
    <3>1. Tame(d, e) /\ Tame(d, e0)
      BY <1>1 DEF Tame, FileDescriptor
    <3>2. desc' = desc \/ desc' = [desc EXCEPT ![fd] = e] \/ desc' = [desc EXCEPT ![fd] = e0]
      BY <1>6 DEF FatTruncate
    <3> HIDE DEF e, e0
    <3> QED
      BY <1>2, <3>1, <3>2
  <2> QED
    BY <1>3, <2>1, <2>2, <2>3, OffCall DEF MidWrite
<1>7. ASSUME NEW o, FatSeek(fd, o) PROVE ChainInv(chain)'
  <2>1. CASE FatSeekEnd(fd)
    BY <1>5, <2>1
  <2>2. CASE ~FatSeekEnd(fd)
    <3>1. Fresh(fd) /\ UNCHANGED blockVars /\ torn' = torn
      BY <1>7, <2>2 DEF FatSeek, Starts, Usable
    <3>2. call'.fd = fd /\ call'.pc \in {"seek", "seek_begin"}
      BY <1>7, <2>2, ZenonT(40) DEF FatSeek, Starts, CallOf, IdleCall
    <3>3. \E d2 : Tame(desc[fd], d2) /\ desc' = [desc EXCEPT ![fd] = d2]
      <4> DEFINE head == desc[fd].cluster_lo
                 d == [desc[fd] EXCEPT !.block_addr = FirstBlock(head),
                                       !.block_in_cluster = 0, !.index_in_block = 0,
                                       !.cur_cluster = head]
                 d0 == [d EXCEPT !.next_cluster = EOC, !.abs_offset = o]
      <4>1. Tame(desc[fd], d) /\ Tame(desc[fd], d0)
        BY <1>1 DEF Tame, FileDescriptor
      <4>2. desc' = [desc EXCEPT ![fd] = d] \/ desc' = [desc EXCEPT ![fd] = d0]
        BY <1>7, <2>2 DEF FatSeek
      <4> HIDE DEF d, d0
      <4> QED
        BY <4>1, <4>2
    <3> QED
      BY <1>3, <3>1, <3>2, <3>3, OffCall DEF MidWrite
  <2> QED
    BY <2>1, <2>2
<1> QED
  BY <1>4, <1>5, <1>6, <1>7

\* Every step on a card that does not answer.
LEMMA OffSteps ==
    ASSUME IInv, NEW chain \in Chains, ChainInv(chain), ~ready, ProgramCalls \/ CallStep
    PROVE  ChainInv(chain)'
BY ChainRefuses, ChainOpenFails, ChainClose, ChainMount, OffOpen, OffBegins, OffCallSteps
DEF ProgramCalls

-----------------------------------------------------------------------------
(***************************************************************************)
(* A step of a running call while the card answers.                        *)
(***************************************************************************)
\* The call leaves its descriptor as d2 and the card answers.
GoesOn(d2) ==
    /\ ready' /\ BufferCoherent' /\ Dir' = Dir /\ torn' = torn
    /\ SetDesc(d2) /\ Tame(D, d2)
    /\ call'.fd = call.fd /\ call'.pc # "open"

\* A step of a call, its file's chain perhaps another one.
LEMMA CallRuns ==
    ASSUME IInv, NEW chain \in Chains, ChainInv(chain), ready,
           call.pc \notin {"idle", "return"}, NEW d2, GoesOn(d2),
           NEW chain2, OnlyChain(chain, chain2, D.file),
           Sound(Fat("fat0")', Fat("fat1")', chain2, Excused(d2, call')),
           call'.pc \in {"idle", "return"} => Settle(d2, chain2[D.file], Dir[D.file]),
           Working(d2, call', chain2[D.file], Dir[D.file]),
           Handling(d2, call', Fat("fat0")', Fat("fat1")', chain2)
    PROVE  ChainInv(chain2)'
<1>1. PICK fd \in Fds : fd = call.fd
  BY RunningFacts
<1>2. PICK f \in Files : f = D.file
  BY RunningFacts
<1>3. Fresh(fd) /\ ~D.is_free /\ ~D.is_stale
  BY <1>1, RunningFacts
<1>4. Holds(fd, d2, f)
  BY <1>1, <1>2, <1>3 DEF Holds, GoesOn, SetDesc, Tame, D
<1>5. call'.fd = fd /\ call.fd = fd /\ call'.pc # "open"
  BY <1>1 DEF GoesOn
<1>6. ready' /\ BufferCoherent' /\ Dir' = Dir /\ torn' = torn
  BY DEF GoesOn
<1> QED
  BY <1>2, <1>4, <1>5, <1>6, RunStep

\* The places of a call where no write is under way.
Plain(pc) == pc \notin {"parent_fat0", "cut_fat1"}

\* A step of a call that writes nothing to the FAT.
LEMMA CallGoesOn ==
    ASSUME IInv, NEW chain \in Chains, ChainInv(chain), ready,
           call.pc \notin {"idle", "return"}, Plain(call.pc), NEW d2, GoesOn(d2),
           Fat("fat0")' = Fat("fat0"), Fat("fat1")' = Fat("fat1"),
           call'.pc \notin MidWrite \cup {"free_fat0", "idle"},
           call'.pc = "return" => Settle(d2, chain[D.file], Dir[D.file]),
           Working(d2, call', chain[D.file], Dir[D.file])
    PROVE  ChainInv(chain)'
<1>1. Excused(D, call) = {} /\ Excused(d2, call') = {}
  BY DEF Plain, Excused, MidWrite
<1>2. Sound(Fat("fat0")', Fat("fat1")', chain, Excused(d2, call'))
  BY <1>1, RunningFacts
<1>3. Handling(d2, call', Fat("fat0")', Fat("fat1")', chain)
  BY DEF Handling, MidWrite
<1>4. OnlyChain(chain, chain, D.file)
  BY DEF OnlyChain
<1> QED
  BY <1>2, <1>3, <1>4, CallRuns

\* A step of a call in which the card stops answering and nothing was written.
LEMMA CallStops ==
    ASSUME IInv, NEW chain \in Chains, ChainInv(chain), ready, ~ready',
           call.pc \notin {"idle", "return", "loop"}, Plain(call.pc), call'.pc = "return",
           Fat("fat0")' = Fat("fat0"), Fat("fat1")' = Fat("fat1"), Dir' = Dir,
           torn' = torn, NEW d2, SetDesc(d2),
           Tame(D, d2) \/ (d2.is_free /\ ~D.dir_entry_modified)
    PROVE  ChainInv(chain)'
<1>1. Excused(D, call) = {}
  BY DEF Plain, Excused
<1>2. Sound(Fat("fat0")', Fat("fat1")', chain, {}) /\ OnlyChain(chain, chain, D.file)
  BY <1>1, RunningFacts DEF OnlyChain
<1>3. CASE D.dir_entry_modified
  <2>1. Tame(D, d2) /\ d2.dir_entry_modified
    BY <1>3 DEF Tame
  <2> QED
    BY <1>2, <2>1, FailStep
<1>4. CASE ~D.dir_entry_modified
  <2>1. call.pc \in Places \ {"idle", "return"} /\ call.pc # "loop"
    BY DEF IInv, CallType
  <2>2. EntryFits(Dir[D.file], chain[D.file])
    BY <1>4, <2>1, RunningFacts, WorkingFits
  <2> QED
    BY <1>2, <2>2, FailStep
<1> QED
  BY <1>3, <1>4

\* read_fat_entry of the k-th cluster of the file finds the link of the chain.
LEMMA LinkReadChain ==
    ASSUME IInv, NEW chain \in Chains, ChainInv(chain), ready,
           call.pc \notin {"idle", "return", "loop"}, Plain(call.pc), torn' = torn,
           NEW k \in 1 .. Len(chain[D.file]), NEW c, c = chain[D.file][k],
           NEW ok \in FileDescriptor, NEW failed \in FileDescriptor, NEW then,
           LinkRead(c, ok, failed, then), Tame(D, ok),
           Tame(D, failed) \/ (failed.is_free /\ ~D.dir_entry_modified),
           then.fd = call.fd, then.pc \notin MidWrite \cup {"free_fat0", "open", "idle"},
           LET d2 == [ok EXCEPT !.next_cluster = NextIn(chain[D.file], k)] IN
               /\ then.pc = "return" => Settle(d2, chain[D.file], Dir[D.file])
               /\ Working(d2, then, chain[D.file], Dir[D.file])
    PROVE  ChainInv(chain)'
<1> DEFINE d2 == [ok EXCEPT !.next_cluster = NextIn(chain[D.file], k)]
           d3 == [failed EXCEPT !.next_cluster = 0]
<1>1. /\ D.file \in Files /\ BlockOK /\ BufferCoherent
      /\ Sound(Fat("fat0"), Fat("fat1"), chain, Excused(D, call))
      /\ Fat("fat0") \in Tables /\ Fat("fat1") \in Tables
  BY RunningFacts, FatTables
<1>2. c \in Entries
  BY <1>1, ChainFacts
<1>3. Entry(c) = NextIn(chain[D.file], k) /\ Entry(c) # 0 /\ Fat0(c) \in VolumeBlocks
  BY <1>1, <1>2, EntryIs, ChainLinks
<1>4. Tame(D, d2) /\ (Tame(D, d3) \/ (d3.is_free /\ ~D.dir_entry_modified))
  BY DEF Tame, FileDescriptor
<1>5. CASE /\ Cached(Fat0(c)) /\ Entry(c) # 0
           /\ SetDesc([ok EXCEPT !.next_cluster = Entry(c)])
           /\ call' = then
           /\ UNCHANGED last_error
  <2>1. ready' /\ Volume' = Volume /\ BufferCoherent'
    BY <1>1, <1>5, CachedReady
  <2>2. Fat("fat0")' = Fat("fat0") /\ Fat("fat1")' = Fat("fat1") /\ Dir' = Dir
    BY <2>1, FatKept
  <2>3. GoesOn(d2)
    BY <1>3, <1>4, <1>5, <2>1, <2>2 DEF GoesOn
  <2>4. call'.pc = "return" => Settle(d2, chain[D.file], Dir[D.file])
    BY <1>5
  <2>5. Working(d2, call', chain[D.file], Dir[D.file])
    BY <1>5
  <2>6. call'.pc \notin MidWrite \cup {"free_fat0", "idle"} /\ call.pc \notin {"idle", "return"}
    BY <1>5
  <2> QED
    BY <2>2, <2>3, <2>4, <2>5, <2>6, CallGoesOn
<1>6. CASE CacheFailed(Fat0(c)) /\ SetDesc(d3) /\ Return(FALSE)
  <2>1. ~ready' /\ Volume' = Volume
    BY <1>3, <1>6, CacheFailedReady
  <2>2. Fat("fat0")' = Fat("fat0") /\ Fat("fat1")' = Fat("fat1") /\ Dir' = Dir
    BY <2>1, FatKept
  <2>3. call'.pc = "return"
    BY <1>6, RunningFacts, CallAfter
  <2> QED
    BY <1>4, <1>6, <2>1, <2>2, <2>3, CallStops
<1> QED
  BY <1>3, <1>5, <1>6 DEF LinkRead

\* What Working asks at each place.
LEMMA WorkingAt ==
    ASSUME NEW d, NEW c, NEW ch, NEW e
    PROVE  /\ c.pc = "return" /\ c.op \notin {"read", "write"} => Working(d, c, ch, e)
           /\ c.pc = "return" /\ d.abs_offset = c.off0 + c.result => Working(d, c, ch, e)
           /\ c.pc = "loop" /\ AtLoop(d, c, ch, e) => Working(d, c, ch, e)
           /\ c.pc = "advance" /\ AtAdvance(d, c, ch, e) => Working(d, c, ch, e)
           /\ c.pc \in {"alloc", "alloc_fat1", "parent_fat1", "parent_fat0"}
                /\ AtAlloc(d, c, ch, e) => Working(d, c, ch, e)
           /\ c.pc = "open" /\ c.op = "open" /\ AtOpen(d, ch, e) => Working(d, c, ch, e)
           /\ c.op \notin {"read", "write"} =>
                /\ c.pc = "find_parent" /\ AtFindParent(d, c, ch) => Working(d, c, ch, e)
                /\ \A k \in 1 .. Len(ch) :
                     c.pc = "cut_fat0" /\ AtCut(d, ch, k) /\ d.next_cluster = NextIn(ch, k)
                       => Working(d, c, ch, e)
                /\ c.pc \in {"cut_fat1", "free_fat0", "free_fat1"} /\ AtFree(d, ch)
                     => Working(d, c, ch, e)
                /\ c.pc = "seek_begin" /\ AtSeekBegin(d, c, ch, e) => Working(d, c, ch, e)
                /\ c.pc = "seek" /\ AtSeek(d, c, ch, e) => Working(d, c, ch, e)
                /\ c.pc = "seek_end" /\ AtSeekEnd(d, ch, e) => Working(d, c, ch, e)
BY DEF Working, NoTransfer

\* fat_open_file reads the link of the first cluster.
LEMMA ChainOpenReads ==
    ASSUME IInv, NEW chain \in Chains, ChainInv(chain), ready, OpenReadsFat
    PROVE  ChainInv(chain)'
<1> DEFINE then == [call EXCEPT !.pc = "return"]
           ch == chain[D.file]
           e == Dir[D.file]
<1>1. call.pc = "open" /\ torn' = torn /\ LinkRead(D.cluster_lo, D, FreeDesc, then)
  BY DEF OpenReadsFat
<1>2. /\ call.pc \notin {"idle", "return", "loop"} /\ Plain(call.pc)
      /\ call.pc \notin {"idle", "return"}
  BY <1>1 DEF Plain
<1>3. D \in FileDescriptor /\ ch \in Seq(Clusters) /\ e \in DirEntry /\ Working(D, call, ch, e)
  BY <1>2, RunningFacts
<1>4. AtOpen(D, ch, e) /\ call.op \notin {"read", "write"}
  BY <1>1, <1>3 DEF Working, NoTransfer
<1>5. ~D.dir_entry_modified
  BY <1>1 DEF ChainInv, Always
<1>6. /\ 1 \in 1 .. Len(ch) /\ D.cluster_lo = ch[1]
      /\ Settle([D EXCEPT !.next_cluster = NextIn(ch, 1)], ch, e)
  BY <1>3, <1>4, OpenedSettles
<1>7. then.pc = "return" /\ then.fd = call.fd /\ then.op = call.op
  BY DEF IInv, CallType
<1>8. then.pc \notin MidWrite \cup {"free_fat0", "open", "idle"}
  BY <1>7 DEF MidWrite
<1>9. Working([D EXCEPT !.next_cluster = NextIn(ch, 1)], then, ch, e)
  BY <1>4, <1>7, WorkingAt
<1>10. FreeDesc \in FileDescriptor /\ FreeDesc.is_free /\ Tame(D, D)
  BY <1>3, FreeDescType, TameOps
<1> HIDE DEF then
<1> QED
  BY <1>1, <1>2, <1>3, <1>5, <1>6, <1>7, <1>8, <1>9, <1>10, LinkReadChain

\* seek_advance reads the link of the next cluster.
LEMMA ChainAdvances ==
    ASSUME IInv, NEW chain \in Chains, ChainInv(chain), ready, AdvanceReadsFat
    PROVE  ChainInv(chain)'
<1> DEFINE then == [call EXCEPT !.pc = "loop", !.len = @ - call.chunk,
                                !.result = @ + call.chunk, !.chunk = 0]
           ch == chain[D.file]
           e == Dir[D.file]
           ok == [D EXCEPT !.block_in_cluster = 0]
<1>1. call.pc = "advance" /\ torn' = torn /\ LinkRead(D.cur_cluster, ok, D, then)
  BY DEF AdvanceReadsFat
<1>2. /\ call.pc \notin {"idle", "return", "loop"} /\ Plain(call.pc)
      /\ call.pc \notin {"idle", "return"}
  BY <1>1 DEF Plain
<1>3. D \in FileDescriptor /\ ch \in Seq(Clusters) /\ e \in DirEntry /\ Working(D, call, ch, e)
  BY <1>2, RunningFacts
<1>4. AtAdvance(D, call, ch, e)
  BY <1>1, <1>3 DEF Working
<1>5. /\ then.pc = "loop" /\ then.fd = call.fd /\ then.off0 = call.off0
      /\ then.result = call.result + call.chunk
      /\ call.off0 \in Nat /\ call.result \in Nat /\ call.chunk \in Nat
  BY DEF IInv, CallType
<1>6. ok \in FileDescriptor /\ Tame(D, ok) /\ Tame(D, D)
  BY <1>3 DEF FileDescriptor, Tame
<1> HIDE DEF then
<1>7. PICK k \in 1 .. Len(ch) :
        D.cur_cluster = ch[k] /\ AtLoop([ok EXCEPT !.next_cluster = NextIn(ch, k)], then, ch, e)
  BY <1>3, <1>4, <1>5, AdvanceLoops
<1>8. then.pc \notin MidWrite \cup {"free_fat0", "open", "idle"} /\ then.pc # "return"
  BY <1>5 DEF MidWrite
<1>9. Working([ok EXCEPT !.next_cluster = NextIn(ch, k)], then, ch, e)
  BY <1>5, <1>7, WorkingAt
<1> HIDE DEF ok
<1> QED
  BY <1>1, <1>2, <1>3, <1>5, <1>6, <1>7, <1>8, <1>9, LinkReadChain

\* fat_seek reads the link of the first cluster.
LEMMA ChainSeekBegins ==
    ASSUME IInv, NEW chain \in Chains, ChainInv(chain), ready, SeekBeginReadsFat
    PROVE  ChainInv(chain)'
<1> DEFINE then == [call EXCEPT !.pc = "seek"]
           ch == chain[D.file]
           e == Dir[D.file]
           ok == [D EXCEPT !.abs_offset = call.offset]
           failed == [D EXCEPT !.abs_offset = 0]
<1>1. call.pc = "seek_begin" /\ torn' = torn /\ LinkRead(D.cluster_lo, ok, failed, then)
  BY DEF SeekBeginReadsFat
<1>2. /\ call.pc \notin {"idle", "return", "loop"} /\ Plain(call.pc)
      /\ call.pc \notin {"idle", "return"}
  BY <1>1 DEF Plain
<1>3. D \in FileDescriptor /\ ch \in Seq(Clusters) /\ e \in DirEntry /\ Working(D, call, ch, e)
  BY <1>2, RunningFacts
<1>4. AtSeekBegin(D, call, ch, e) /\ call.op \notin {"read", "write"}
  BY <1>1, <1>3 DEF Working, NoTransfer
<1>5. /\ then.pc = "seek" /\ then.fd = call.fd /\ then.op = call.op
      /\ then.offset = call.offset /\ call.offset \in Nat
  BY DEF IInv, CallType
<1>6. /\ ok \in FileDescriptor /\ Tame(D, ok)
      /\ failed \in FileDescriptor /\ Tame(D, failed)
  BY <1>3, <1>5 DEF FileDescriptor, Tame
<1> HIDE DEF then
<1>7. /\ 1 \in 1 .. Len(ch) /\ D.cluster_lo = ch[1]
      /\ AtSeek([ok EXCEPT !.next_cluster = NextIn(ch, 1)], then, ch, e)
  BY <1>3, <1>4, <1>5, SeekBegins
<1>8. then.pc \notin MidWrite \cup {"free_fat0", "open", "idle"} /\ then.pc # "return"
  BY <1>5 DEF MidWrite
<1>9. Working([ok EXCEPT !.next_cluster = NextIn(ch, 1)], then, ch, e)
  BY <1>4, <1>5, <1>7, WorkingAt
<1> HIDE DEF ok, failed
<1> QED
  BY <1>1, <1>2, <1>3, <1>5, <1>6, <1>7, <1>8, <1>9, LinkReadChain

\* fat_seek and fat_seek_end go to the next cluster.
LEMMA ChainSeekFollows ==
    ASSUME Disciplined, IInv, NEW chain \in Chains, ChainInv(chain), ready,
           SeekFollows \/ SeekEndFollows
    PROVE  ChainInv(chain)'
<1> DEFINE left == [call EXCEPT !.offset = @ - (BytesPerCluster % U16)]
           ch == chain[D.file]
           e == Dir[D.file]
           ok == [D EXCEPT !.cur_cluster = D.next_cluster]
<1>1. call.pc \in {"seek", "seek_end"} /\ torn' = torn
  BY DEF SeekFollows, SeekEndFollows
<1>2. /\ call.pc \notin {"idle", "return", "loop"} /\ Plain(call.pc)
      /\ call.pc \notin {"idle", "return"}
  BY <1>1 DEF Plain
<1>3. D \in FileDescriptor /\ ch \in Seq(Clusters) /\ e \in DirEntry /\ Working(D, call, ch, e)
  BY <1>2, RunningFacts
<1>4. ok \in FileDescriptor /\ Tame(D, ok)
  BY <1>3 DEF FileDescriptor, Tame
<1>5. call.op \notin {"read", "write"}
  BY <1>1, <1>3 DEF Working, NoTransfer
<1>6. CASE SeekFollows
  <2>1. /\ call.pc = "seek" /\ call.offset > BytesPerCluster % U16
        /\ LinkRead(D.next_cluster, ok, ok, left)
    BY <1>6 DEF SeekFollows
  <2>2. AtSeek(D, call, ch, e)
    BY <1>3, <2>1 DEF Working
  <2>3. /\ left.pc = "seek" /\ left.fd = call.fd /\ left.op = call.op /\ call.offset \in Nat
        /\ left.offset = call.offset - (BytesPerCluster % U16)
    BY <2>1 DEF IInv, CallType
  <2> HIDE DEF left
  <2>4. PICK k \in 1 .. Len(ch) :
          /\ D.next_cluster = ch[k]
          /\ AtSeek([ok EXCEPT !.next_cluster = NextIn(ch, k)], left, ch, e)
    BY <1>3, <2>1, <2>2, <2>3, SeekMovesOn, ZenonT(40) DEF Disciplined
  <2>5. left.pc \notin MidWrite \cup {"free_fat0", "open", "idle"} /\ left.pc # "return"
    BY <2>3 DEF MidWrite
  <2>6. Working([ok EXCEPT !.next_cluster = NextIn(ch, k)], left, ch, e)
    BY <1>5, <2>3, <2>4, WorkingAt
  <2> HIDE DEF ok
  <2> QED
    BY <1>1, <1>2, <1>3, <1>4, <2>1, <2>3, <2>4, <2>5, <2>6, LinkReadChain
<1>7. CASE SeekEndFollows
  <2>1. /\ call.pc = "seek_end" /\ D.next_cluster # EOC
        /\ LinkRead(D.next_cluster, ok, ok, call)
    BY <1>7 DEF SeekEndFollows
  <2>2. AtSeekEnd(D, ch, e)
    BY <1>3, <2>1 DEF Working
  <2>3. PICK k \in 1 .. Len(ch) :
          /\ D.next_cluster = ch[k]
          /\ AtSeekEnd([ok EXCEPT !.next_cluster = NextIn(ch, k)], ch, e)
    BY <1>3, <2>1, <2>2, SeekEndMovesOn
  <2>4. call.pc \notin MidWrite \cup {"free_fat0", "open", "idle"} /\ call.pc # "return"
    BY <2>1 DEF MidWrite
  <2>5. Working([ok EXCEPT !.next_cluster = NextIn(ch, k)], call, ch, e)
    BY <1>5, <2>1, <2>3, WorkingAt
  <2> HIDE DEF ok
  <2> QED
    BY <1>1, <1>2, <1>3, <1>4, <2>1, <2>3, <2>4, <2>5, LinkReadChain
<1> QED
  BY <1>6, <1>7

\* A step of a call that touches neither the card nor the buffer.
LEMMA CallThinks ==
    ASSUME IInv, NEW chain \in Chains, ChainInv(chain), ready,
           call.pc \notin {"idle", "return"}, Plain(call.pc), UNCHANGED blockVars, torn' = torn,
           NEW d2, SetDesc(d2), Tame(D, d2), call'.fd = call.fd,
           call'.pc \notin MidWrite \cup {"free_fat0", "open", "idle"},
           call'.pc = "return" => Settle(d2, chain[D.file], Dir[D.file]),
           Working(d2, call', chain[D.file], Dir[D.file])
    PROVE  ChainInv(chain)'
<1>1. BufferCoherent
  BY RunningFacts
<1>2. /\ ready' /\ BufferCoherent' /\ Dir' = Dir
      /\ Fat("fat0")' = Fat("fat0") /\ Fat("fat1")' = Fat("fat1")
  BY <1>1, BlocksKept
<1>3. GoesOn(d2)
  BY <1>2 DEF GoesOn
<1> QED
  BY <1>2, <1>3, CallGoesOn

\* fat_action ends, begins to allocate a cluster, or finds nothing to move.
LEMMA ChainLoopThinks ==
    ASSUME Disciplined, IInv, NEW chain \in Chains, ChainInv(chain), ready,
           ActionDone \/ ActionAllocates \/ ActionAtEnd
    PROVE  ChainInv(chain)'
<1> DEFINE ch == chain[D.file]
           e == Dir[D.file]
<1>1. call.pc = "loop" /\ torn' = torn /\ desc' = desc /\ UNCHANGED blockVars
  BY DEF ActionDone, ActionAllocates, ActionAtEnd, InBlock
<1>2. call.pc \notin {"idle", "return"} /\ Plain(call.pc)
  BY <1>1 DEF Plain
<1>3. /\ D \in FileDescriptor /\ D.file \in Files /\ ch \in Seq(Clusters) /\ e \in DirEntry
      /\ Working(D, call, ch, e) /\ call \in CallType
      /\ Sound(Fat("fat0"), Fat("fat1"), chain, Excused(D, call))
  BY <1>2, RunningFacts
<1>4. AtLoop(D, call, ch, e) /\ D.abs_offset = call.off0 + call.result
  BY <1>1, <1>3 DEF Working, AtLoop
<1>5. SetDesc(D) /\ Tame(D, D) /\ call.len \in Nat
  BY <1>1, <1>3, DescKept, TameOps DEF CallType
<1>6. Distinct(ch)
  BY <1>3, ChainDistinct DEF Sound
<1>7. CASE Return(TRUE) /\ Settle(D, ch, e)
  <2>1. /\ call'.pc = "return" /\ call'.fd = call.fd /\ call'.off0 = call.off0
        /\ call'.result = call.result
    BY <1>3, <1>7, CallAfter
  <2>2. Working(D, call', ch, e)
    BY <1>4, <2>1, WorkingAt
  <2>3. call'.pc \notin MidWrite \cup {"free_fat0", "open", "idle"}
    BY <2>1 DEF MidWrite
  <2> QED
    BY <1>1, <1>2, <1>5, <1>7, <2>1, <2>2, <2>3, CallThinks
<1>8. CASE ActionDone
  BY <1>4, <1>7, <1>8, LoopEnds DEF ActionDone
<1>9. CASE ActionAtEnd
  <2>1. /\ call.len # 0 /\ ~(call.op = "write" /\ NeedsCluster(D))
        /\ ChunkLen(D, call.op, call.len) = 0 /\ Return(TRUE)
    BY <1>9 DEF ActionAtEnd, InBlock, IsWrite
  <2>2. Settle(D, ch, e)
    BY <1>3, <1>4, <1>5, <1>6, <2>1, LoopPlaces DEF Disciplined
  <2> QED
    BY <1>7, <2>1, <2>2
<1>10. CASE ActionAllocates
  <2>1. /\ call.len # 0 /\ call.op = "write" /\ NeedsCluster(D)
        /\ call' = [call EXCEPT !.pc = "alloc", !.sector = 0, !.link = D.cur_cluster]
    BY <1>10 DEF ActionAllocates, IsWrite
  <2>2. /\ call'.pc = "alloc" /\ call'.fd = call.fd /\ call'.link = D.cur_cluster
        /\ call'.op = call.op /\ call'.len = call.len /\ call'.off0 = call.off0
        /\ call'.result = call.result
    BY <1>3, <2>1 DEF CallType
  <2>3. AtAlloc(D, call', ch, e)
    BY <1>3, <1>4, <2>1, <2>2, LoopAllocates
  <2>4. Working(D, call', ch, e)
    BY <2>2, <2>3, WorkingAt
  <2>5. call'.pc \notin MidWrite \cup {"free_fat0", "open", "idle"} /\ call'.pc # "return"
    BY <2>2 DEF MidWrite
  <2> QED
    BY <1>1, <1>2, <1>5, <2>2, <2>4, <2>5, CallThinks
<1> QED
  BY <1>8, <1>9, <1>10

\* alloc_cluster has gone through all sectors of the FAT.
LEMMA ChainFindsNothing ==
    ASSUME IInv, NEW chain \in Chains, ChainInv(chain), ready, AllocFindsNothing
    PROVE  ChainInv(chain)'
<1> DEFINE ch == chain[D.file]
           e == Dir[D.file]
<1>1. call.pc = "alloc" /\ torn' = torn /\ desc' = desc /\ UNCHANGED blockVars /\ Return(TRUE)
  BY DEF AllocFindsNothing
<1>2. call.pc \notin {"idle", "return"} /\ Plain(call.pc)
  BY <1>1 DEF Plain
<1>3. D \in FileDescriptor /\ Working(D, call, ch, e) /\ call \in CallType
  BY <1>2, RunningFacts
<1>4. Settle(D, ch, e) /\ D.abs_offset = call.off0 + call.result
  BY <1>1, <1>3 DEF Working, AtAlloc
<1>5. SetDesc(D) /\ Tame(D, D)
  BY <1>1, <1>3, DescKept, TameOps
<1>6. /\ call'.pc = "return" /\ call'.fd = call.fd /\ call'.off0 = call.off0
      /\ call'.result = call.result
  BY <1>1, <1>3, CallAfter
<1>7. Working(D, call', ch, e)
  BY <1>4, <1>6, WorkingAt
<1>8. call'.pc \notin MidWrite \cup {"free_fat0", "open", "idle"}
  BY <1>6 DEF MidWrite
<1> QED
  BY <1>1, <1>2, <1>4, <1>5, <1>6, <1>7, <1>8, CallThinks

\* fat_truncate, fat_seek and fat_seek_end return true.
LEMMA ChainPlaces ==
    ASSUME Disciplined, IInv, NEW chain \in Chains, ChainInv(chain), ready,
           CutNothing \/ FreeDone \/ SeekDone \/ SeekEndDone
    PROVE  ChainInv(chain)'
<1> DEFINE ch == chain[D.file]
           e == Dir[D.file]
<1>1. /\ call.pc \in {"cut_fat0", "free_fat0", "seek", "seek_end"} /\ torn' = torn
      /\ UNCHANGED blockVars /\ Return(TRUE)
  BY DEF CutNothing, FreeDone, SeekDone, SeekEndDone
<1>2. call.pc \notin {"idle", "return"} /\ Plain(call.pc)
  BY <1>1 DEF Plain
<1>3. /\ D \in FileDescriptor /\ ch \in Seq(Clusters) /\ e \in DirEntry
      /\ Working(D, call, ch, e) /\ call \in CallType
  BY <1>2, RunningFacts
<1>4. call.op \notin {"read", "write"} /\ call.offset \in Nat /\ BytesPerCluster < U16
  BY <1>1, <1>3 DEF Working, NoTransfer, CallType, Disciplined
<1>5. /\ call'.pc = "return" /\ call'.fd = call.fd /\ call'.op = call.op
  BY <1>1, <1>3, CallAfter
<1>6. call'.pc \notin MidWrite \cup {"free_fat0", "open", "idle"}
  BY <1>5 DEF MidWrite
<1>7. ASSUME NEW d2, SetDesc(d2), Tame(D, d2), Settle(d2, ch, e) PROVE ChainInv(chain)'
  <2>1. Working(d2, call', ch, e)
    BY <1>4, <1>5, WorkingAt
  <2> QED
    BY <1>1, <1>2, <1>5, <1>6, <1>7, <2>1, CallThinks
<1>8. CASE CutNothing
  <2>1. call.pc = "cut_fat0" /\ D.next_cluster = EOC /\ SetDesc(Truncated(D))
    BY <1>8 DEF CutNothing
  <2>2. PICK k \in 1 .. Len(ch) : AtCut(D, ch, k) /\ D.next_cluster = NextIn(ch, k)
    BY <1>3, <2>1 DEF Working
  <2>3. k = Len(ch) /\ Len(ch) > 0
    BY <1>3, <2>1, <2>2, NextFacts
  <2>4. Settle(Truncated(D), ch, e) /\ Tame(D, Truncated(D))
    BY <1>3, <1>4, <2>2, <2>3, CutSettles, TameOps
  <2> QED
    BY <1>7, <2>1, <2>4
<1>9. CASE FreeDone
  <2>1. call.pc = "free_fat0" /\ SetDesc(Freed(D, TRUE))
    BY <1>9 DEF FreeDone
  <2>2. AtFree(D, ch)
    BY <1>3, <2>1 DEF Working
  <2>3. Settle(Freed(D, TRUE), ch, e) /\ Tame(D, Freed(D, TRUE))
    BY <1>3, <1>4, <2>2, FreeSettles, TameOps
  <2> QED
    BY <1>7, <2>1, <2>3
<1>10. CASE SeekDone
  <2>1. /\ call.pc = "seek" /\ call.offset <= BytesPerCluster % U16
        /\ SetDesc(PlacedAt(D, call.offset))
    BY <1>10 DEF SeekDone
  <2>2. AtSeek(D, call, ch, e)
    BY <1>3, <2>1 DEF Working
  <2>3. Settle(PlacedAt(D, call.offset), ch, e) /\ Tame(D, PlacedAt(D, call.offset))
    BY <1>3, <1>4, <2>1, <2>2, SeekPlaces, TameOps
  <2> QED
    BY <1>7, <2>1, <2>3
<1>11. CASE SeekEndDone
  <2> DEFINE d2 == PlacedAt([D EXCEPT !.abs_offset = D.size], D.last_cluster_len)
  <2>1. call.pc = "seek_end" /\ D.next_cluster = EOC /\ SetDesc(d2)
    BY <1>11 DEF SeekEndDone
  <2>2. AtSeekEnd(D, ch, e)
    BY <1>3, <2>1 DEF Working
  <2>3. Settle(d2, ch, e) /\ Tame(D, d2)
    BY <1>3, <2>1, <2>2, SeekEndPlaces, TameOps
  <2> HIDE DEF d2
  <2> QED
    BY <1>7, <2>1, <2>3
<1> QED
  BY <1>8, <1>9, <1>10, <1>11

\* The block where the cursor stands is a data block of the volume.
LEMMA DataInside ==
    ASSUME NEW d, NEW ch \in Seq(Clusters), NEW k \in 1 .. Len(ch), Cursor(d, ch, k),
           d.block_in_cluster \in Nat, d.block_in_cluster < SectorsPerCluster
    PROVE  DataBlock(d.block_addr) \in VolumeBlocks
<1> DEFINE b == d.block_in_cluster
           s == SectorsPerCluster
           c == ch[k]
<1>1. c \in Nat /\ 2 <= c /\ c <= EOC - 1 /\ EOC \in Nat /\ s \in Nat
  <2>1. c \in Clusters /\ s \in Nat
    BY NextFacts, Geometry
  <2> HIDE DEF c, s
  <2> QED
    BY <2>1, EocFacts DEF Clusters
<1>2. d.block_addr = FirstBlock(c) + b
  BY DEF Cursor, Standing, Placed
<1> HIDE DEF b, s, c
<1>3. c - 2 \in Nat /\ c - 1 \in Nat /\ EOC - 2 \in Nat /\ c - 1 <= EOC - 2 /\ b \in Nat /\ b < s
  BY <1>1 DEF b, s
<1>4. /\ s * (c - 2) \in Nat /\ s * (c - 1) \in Nat /\ s * (EOC - 2) \in Nat
      /\ s * (c - 1) <= s * (EOC - 2)
  BY <1>1, <1>3, TimesGrows
<1>5. s * (c - 1) = s * (c - 2) + s /\ (c - 2) * s = s * (c - 2) /\ (EOC - 2) * s = s * (EOC - 2)
  BY <1>1, <1>3
<1> DEFINE x == s * (c - 2)
           y == s * (EOC - 2)
<1>6. FirstBlock(c) = x /\ FirstBlock(EOC) = y
  BY <1>5 DEF FirstBlock, s
<1>7. x + b \in 0 .. y - 1
  <2>1. x \in Nat /\ y \in Nat /\ x + s <= y
    BY <1>4, <1>5
  <2> HIDE DEF x, y
  <2> QED
    BY <1>1, <1>3, <2>1
<1>8. d.block_addr \in 0 .. FirstBlock(EOC) - 1
  <2> HIDE DEF x, y
  <2> QED
    BY <1>2, <1>6, <1>7
<1> QED
  BY <1>8 DEF VolumeBlocks, DataBlocks

\* A block that is written as it was.
LEMMA SameWrite ==
    ASSUME BlockOK, BufferCoherent, ready, NEW a \in VolumeBlocks, Wrote(a, Load(a))
    PROVE  Volume' = Volume
<1>1. Load(a) = Volume[a]
  BY LoadIs
<1>2. Volume \in [VolumeBlocks -> BlockData]
  BY DEF BlockOK, Volume
<1> QED
  BY <1>1, <1>2 DEF Wrote

\* Where the chunk of fat_action is, and the descriptor that the size was adjusted in.
LEMMA ChunkFacts ==
    ASSUME Disciplined, IInv, NEW chain \in Chains, ChainInv(chain), ready, InBlock,
           ChunkLen(D, call.op, call.len) # 0
    PROVE  LET ch == chain[D.file]
               e == Dir[D.file]
               n == ChunkLen(D, call.op, call.len)
               d1 == Expanded(D, call.op, call.len)
           IN  /\ D \in FileDescriptor /\ D.file \in Files /\ ch \in Seq(Clusters) /\ e \in DirEntry
               /\ BlockOK /\ BufferCoherent /\ call \in CallType
               /\ Sound(Fat("fat0"), Fat("fat1"), chain, {})
               /\ D.abs_offset = call.off0 + call.result
               /\ DataBlock(D.block_addr) \in VolumeBlocks
               /\ \E k \in 1 .. Len(ch) :
                    /\ Cursor(D, ch, k) /\ D.block_in_cluster < SectorsPerCluster
                    /\ n \in Nat /\ n <= call.len /\ GoodChunk(D, ch, e, d1, n)
<1> DEFINE ch == chain[D.file]
           e == Dir[D.file]
           n == ChunkLen(D, call.op, call.len)
           d1 == Expanded(D, call.op, call.len)
<1>1. /\ call.pc = "loop" /\ call.len # 0 /\ ~(call.op = "write" /\ NeedsCluster(D))
  BY DEF InBlock, IsWrite
<1>2. call.pc \notin {"idle", "return"} /\ Excused(D, call) = {}
  BY <1>1 DEF Excused
<1>3. /\ D \in FileDescriptor /\ D.file \in Files /\ ch \in Seq(Clusters) /\ e \in DirEntry
      /\ Working(D, call, ch, e) /\ call \in CallType /\ BlockOK /\ BufferCoherent
      /\ Sound(Fat("fat0"), Fat("fat1"), chain, {})
  BY <1>2, RunningFacts
<1>4. AtLoop(D, call, ch, e) /\ D.abs_offset = call.off0 + call.result
  BY <1>1, <1>3 DEF Working, AtLoop
<1>5. Distinct(ch) /\ call.len \in Nat
  BY <1>3, ChainDistinct DEF Sound, CallType
<1>6. PICK k \in 1 .. Len(ch) :
        /\ Cursor(D, ch, k) /\ D.block_in_cluster < SectorsPerCluster
        /\ n \in Nat /\ n <= call.len /\ GoodChunk(D, ch, e, d1, n)
  BY <1>1, <1>3, <1>4, <1>5, LoopPlaces DEF Disciplined
<1>7. DataBlock(D.block_addr) \in VolumeBlocks
  BY <1>3, <1>6, DataInside, DescFields
<1> QED
  BY <1>3, <1>4, <1>6, <1>7

\* A chunk is moved and the cursor advanced.
LEMMA ChainMoves ==
    ASSUME Disciplined, IInv, NEW chain \in Chains, ChainInv(chain), ready, ActionMoves
    PROVE  ChainInv(chain)'
<1> DEFINE ch == chain[D.file]
           e == Dir[D.file]
           n == ChunkLen(D, call.op, call.len)
           d1 == Expanded(D, call.op, call.len)
           d2 == SeekAdvance(d1, n)
           a == DataBlock(D.block_addr)
<1>1. /\ InBlock /\ n # 0 /\ SetDesc(d2) /\ torn' = torn
      /\ IF IsWrite THEN Updated(a, Load(a)) ELSE Cached(a)
      /\ call' = IF CrossesCluster(d1, n)
                 THEN [call EXCEPT !.pc = "advance", !.chunk = n]
                 ELSE [call EXCEPT !.len = @ - n, !.result = @ + n]
  BY DEF ActionMoves
<1>2. /\ D \in FileDescriptor /\ D.file \in Files /\ ch \in Seq(Clusters) /\ e \in DirEntry
      /\ BlockOK /\ BufferCoherent /\ call \in CallType
      /\ D.abs_offset = call.off0 + call.result /\ a \in VolumeBlocks
  BY <1>1, ChunkFacts
<1>3. PICK k \in 1 .. Len(ch) :
        /\ Cursor(D, ch, k) /\ D.block_in_cluster < SectorsPerCluster
        /\ n \in Nat /\ n <= call.len /\ GoodChunk(D, ch, e, d1, n)
  BY <1>1, ChunkFacts
<1>4. ready' /\ BufferCoherent' /\ Volume' = Volume
  BY <1>1, <1>2, CachedReady, UpdateReady, SameWrite
<1>5. Fat("fat0")' = Fat("fat0") /\ Fat("fat1")' = Fat("fat1") /\ Dir' = Dir
  BY <1>4, FatKept
<1>6. Tame(D, d2)
  BY <1>2, TameOps
<1>7. call.pc = "loop" /\ call.pc \notin {"idle", "return"} /\ Plain(call.pc)
  BY <1>1 DEF InBlock, Plain
<1>8. call.off0 \in Nat /\ call.result \in Nat /\ call.len \in Nat
  BY <1>2 DEF CallType
<1> HIDE DEF n, d1, d2
<1>9. CASE CrossesCluster(d1, n)
  <2>1. /\ call'.pc = "advance" /\ call'.fd = call.fd /\ call'.off0 = call.off0
        /\ call'.result = call.result /\ call'.chunk = n
    BY <1>1, <1>2, <1>9 DEF CallType
  <2>2. AtAdvance(d2, call', ch, e)
    BY <1>1, <1>2, <1>3, <1>8, <1>9, <2>1, MovedAcross DEF d2
  <2>3. Working(d2, call', ch, e) /\ GoesOn(d2)
    BY <1>1, <1>4, <1>5, <1>6, <2>1, <2>2, WorkingAt DEF GoesOn
  <2>4. call'.pc \notin MidWrite \cup {"free_fat0", "idle"} /\ call'.pc # "return"
    BY <2>1 DEF MidWrite
  <2> QED
    BY <1>5, <1>7, <2>3, <2>4, CallGoesOn
<1>10. CASE ~CrossesCluster(d1, n)
  <2>1. /\ call'.pc = "loop" /\ call'.fd = call.fd /\ call'.off0 = call.off0
        /\ call'.result = call.result + n
    BY <1>1, <1>2, <1>7, <1>10 DEF CallType
  <2>2. Settle(d2, ch, e) /\ d2.abs_offset = D.abs_offset + n
    BY <1>1, <1>2, <1>3, <1>10, MovedInside DEF d2
  <2>3. d2.abs_offset = call'.off0 + call'.result
    BY <1>2, <1>3, <1>8, <2>1, <2>2
  <2>4. ~Emptied(d2)
    <3>1. Len(ch) # 0 /\ ch[1] # 0
      BY <1>2, <1>3, NextFacts
    <3> QED
      BY <2>2, <3>1 DEF Settle, Sane, Extent, Emptied
  <2>5. AtLoop(d2, call', ch, e)
    BY <2>2, <2>3, <2>4 DEF AtLoop, Settle
  <2>6. Working(d2, call', ch, e) /\ GoesOn(d2)
    BY <1>1, <1>4, <1>5, <1>6, <2>1, <2>5, WorkingAt DEF GoesOn
  <2>7. call'.pc \notin MidWrite \cup {"free_fat0", "idle"} /\ call'.pc # "return"
    BY <2>1 DEF MidWrite
  <2> QED
    BY <1>5, <1>7, <2>6, <2>7, CallGoesOn
<1> QED
  BY <1>9, <1>10

\* The card fails while a chunk is moved.
LEMMA ChainMoveFails ==
    ASSUME Disciplined, IInv, NEW chain \in Chains, ChainInv(chain), ready, ActionFails
    PROVE  ChainInv(chain)'
<1> DEFINE ch == chain[D.file]
           e == Dir[D.file]
           n == ChunkLen(D, call.op, call.len)
           d1 == Expanded(D, call.op, call.len)
           a == DataBlock(D.block_addr)
<1>1. /\ InBlock /\ n # 0 /\ SetDesc(d1) /\ torn' = torn /\ Return(TRUE)
      /\ IF IsWrite THEN UpdateFailed(a, Load(a)) ELSE CacheFailed(a)
  BY DEF ActionFails
<1>2. /\ D \in FileDescriptor /\ D.file \in Files /\ ch \in Seq(Clusters) /\ e \in DirEntry
      /\ BlockOK /\ BufferCoherent /\ call \in CallType
      /\ Sound(Fat("fat0"), Fat("fat1"), chain, {}) /\ a \in VolumeBlocks
  BY <1>1, ChunkFacts
<1>3. GoodChunk(D, ch, e, d1, n)
  BY <1>1, ChunkFacts
<1>4. ~ready' /\ Volume' = Volume
  BY <1>1, <1>2, CacheFailedReady, UpdateReady, SameWrite
<1>5. Fat("fat0")' = Fat("fat0") /\ Fat("fat1")' = Fat("fat1") /\ Dir' = Dir
  BY <1>4, FatKept
<1>6. Tame(D, d1)
  BY <1>2, TameOps
<1>7. call.pc \notin {"idle", "return"} /\ call'.pc = "return"
  BY <1>1, <1>2, CallAfter DEF InBlock
<1> HIDE DEF d1, n
<1>8. d1.dir_entry_modified \/ EntryFits(e, ch)
  BY <1>2, <1>3, ExtentFits DEF GoodChunk
<1>9. OnlyChain(chain, chain, D.file) /\ Sound(Fat("fat0")', Fat("fat1")', chain, {})
  BY <1>2, <1>5 DEF OnlyChain
<1>10. torn \subseteq torn' /\ SetDesc(d1)
  BY <1>1
<1> QED
  BY <1>4, <1>5, <1>6, <1>7, <1>8, <1>9, <1>10, FailStep

-----------------------------------------------------------------------------
(* alloc_cluster while the card answers. *)

\* The card fails in a call that leaves the file's chain as it is.
LEMMA CallFails ==
    ASSUME IInv, NEW chain \in Chains, ChainInv(chain), ready, ~ready',
           call.pc \notin {"idle", "return", "loop"}, call'.pc = "return",
           Dir' = Dir, torn \subseteq torn', NEW d2, SetDesc(d2), Tame(D, d2),
           Sound(Fat("fat0")', Fat("fat1")', chain, {})
    PROVE  ChainInv(chain)'
<1>1. OnlyChain(chain, chain, D.file)
  BY DEF OnlyChain
<1>2. CASE D.dir_entry_modified
  <2>1. Tame(D, d2) /\ d2.dir_entry_modified
    BY <1>2 DEF Tame
  <2> QED
    BY <1>1, <2>1, FailStep
<1>3. CASE ~D.dir_entry_modified
  <2>1. call.pc \in Places \ {"idle", "return"} /\ call.pc # "loop"
    BY DEF IInv, CallType
  <2>2. EntryFits(Dir[D.file], chain[D.file])
    BY <1>3, <2>1, RunningFacts, WorkingFits
  <2> QED
    BY <1>1, <2>2, FailStep
<1> QED
  BY <1>2, <1>3

\* The card fails and leaves the file's chain half changed: the file has no chain.
LEMMA CallDrops ==
    ASSUME IInv, NEW chain \in Chains, ChainInv(chain), ready, ~ready',
           call.pc \notin {"idle", "return"}, call'.pc = "return",
           Dir' = Dir, torn \subseteq torn', NEW d2, SetDesc(d2), Tame(D, d2),
           D.file \in torn' \/ d2.dir_entry_modified,
           Fat("fat0")' \in Tables, Fat("fat1")' \in Tables,
           NEW chain2, OnlyChain(chain, chain2, D.file), NEW exc,
           Sound(Fat("fat0")', Fat("fat1")', chain2, exc),
           \A c \in exc : \E k \in 1 .. Len(chain2[D.file]) : chain2[D.file][k] = c
    PROVE  \E chain3 \in Chains : ChainInv(chain3)'
<1>1. chain2 \in Chains /\ D.file \in Files
  BY RunningFacts DEF OnlyChain
<1>2. LET c3 == [chain2 EXCEPT ![D.file] = <<>>] IN
      c3 \in Chains /\ Sound(Fat("fat0")', Fat("fat1")', c3, {})
  BY <1>1, SoundDropped
<1>3. PICK chain3 \in Chains : chain3 = [chain2 EXCEPT ![D.file] = <<>>]
  BY <1>2
<1>4. OnlyChain(chain, chain3, D.file)
  BY <1>1, <1>3 DEF OnlyChain, Chains
<1>5. Sound(Fat("fat0")', Fat("fat1")', chain3, {})
  BY <1>2, <1>3
<1>6. ChainInv(chain3)'
  BY <1>4, <1>5, FailStep
<1> QED
  BY <1>6

\* The cluster behind which alloc_cluster appends is the last one of the chain.
LEMMA ParentIsLast ==
    ASSUME NEW d \in FileDescriptor, NEW c, NEW ch \in Seq(Clusters), NEW e \in DirEntry,
           AtAlloc(d, c, ch, e)
    PROVE  /\ Len(ch) = 0 <=> c.link = 0
           /\ Len(ch) # 0 => Len(ch) \in 1 .. Len(ch) /\ Len(ch) > 0 /\ c.link = ch[Len(ch)]
<1>1. Settle(d, ch, e) /\ NeedsCluster(d) /\ c.link = d.cur_cluster /\ Sane(d, ch, e)
  BY DEF AtAlloc, Settle
<1>2. CASE Len(ch) = 0
  BY <1>1, <1>2 DEF Sane, CursorEmpty
<1>3. CASE Len(ch) # 0
  <2>1. PICK k \in 1 .. Len(ch) : Cursor(d, ch, k)
    BY <1>1, <1>3 DEF Sane
  <2>2. d.cur_cluster = ch[k] /\ d.cur_cluster # 0 /\ d.next_cluster = NextIn(ch, k)
    BY <2>1, NextFacts DEF Cursor, Standing
  <2>3. d.next_cluster = EOC
    BY <1>1, <2>2 DEF NeedsCluster
  <2>4. k = Len(ch)
    BY <2>2, <2>3, NextFacts
  <2> QED
    BY <1>1, <1>3, <2>1, <2>2, <2>4
<1> QED
  BY <1>2, <1>3

\* AtAlloc does not depend on the sector and the cluster found.
LEMMA AllocGoesOn ==
    ASSUME NEW d, NEW c, NEW ch, NEW e, AtAlloc(d, c, ch, e), NEW c2, c2.link = c.link,
           c2.off0 = c.off0, c2.result = c.result, c2.op = c.op, c2.len = c.len
    PROVE  AtAlloc(d, c2, ch, e)
BY DEF AtAlloc

\* A free cluster is looked for and marked in FAT 0.
LEMMA ChainMarks ==
    ASSUME IInv, NEW chain \in Chains, ChainInv(chain), ready, AllocMarks
    PROVE  ChainInv(chain)'
<1> DEFINE ch == chain[D.file]
           e == Dir[D.file]
           p == Fat("fat0")
           q == Fat("fat1")
           s == call.sector
           a == FatBlock("fat0", s)
           c == Min(FreeIn(s))
           x == WithEntry(a, c, EOC)
<1>1. call.pc = "alloc" /\ s < SectorsPerFat /\ desc' = desc /\ torn' = torn
  BY DEF AllocMarks
<1>2. /\ call.pc \notin {"idle", "return"} /\ call.pc \notin {"idle", "return", "loop"}
      /\ Plain(call.pc) /\ Excused(D, call) = {}
  BY <1>1 DEF Plain, Excused
<1>3. /\ D \in FileDescriptor /\ D.file \in Files /\ ch \in Seq(Clusters) /\ e \in DirEntry
      /\ Working(D, call, ch, e) /\ call \in CallType /\ BlockOK /\ BufferCoherent
      /\ Sound(p, q, chain, {}) /\ p \in Tables /\ q \in Tables
  BY <1>2, RunningFacts, FatTables
<1>4. AtAlloc(D, call, ch, e)
  BY <1>1, <1>3 DEF Working
<1>5. s \in Nat /\ s \in Sectors
  BY <1>1, <1>3, VolumeAssumption DEF CallType, Sectors
<1>6. a \in VolumeBlocks /\ Load(a) = Volume[a]
  BY <1>3, <1>5, Contents, LoadIs
<1>7. SetDesc(D) /\ Tame(D, D)
  BY <1>1, <1>3, DescKept, TameOps
<1>8. ASSUME FreeIn(s) # {}
      PROVE  c \in Entries /\ SectorOf(c) = s /\ p[c] = 0
  <2>1. c \in FreeIn(s) /\ c \in Entries
    BY <1>5, <1>8, FreeInType
  <2>2. SectorOf(c) = s /\ Load(a)[c] = 0
    BY <2>1 DEF FreeIn, SectorEntries
  <2> QED
    BY <1>6, <2>1, <2>2 DEF Fat, FatEntry
<1>9. ASSUME FreeIn(s) # {}, Wrote(a, x)
      PROVE  /\ Fat("fat0")' = [p EXCEPT ![c] = EOC] /\ Fat("fat1")' = q /\ Dir' = Dir
             /\ Sound(Fat("fat0")', Fat("fat1")', chain, {})
             /\ Loose(Fat("fat0")', Fat("fat1")', chain, c, {}) /\ Fat("fat0")'[c] = EOC
  <2>1. c \in Entries /\ SectorOf(c) = s /\ p[c] = 0
    BY <1>8, <1>9
  <2> HIDE DEF c
  <2>2. LET b == FatBlock("fat0", SectorOf(c)) IN Wrote(b, WithEntry(b, c, EOC))
    BY <1>9, <2>1
  <2>3. Fat("fat0")' = [p EXCEPT ![c] = EOC] /\ Fat("fat1")' = q /\ Dir' = Dir
    BY <1>3, <2>1, <2>2, EntryChanged
  <2>4. LET p2 == [p EXCEPT ![c] = EOC] IN
        Sound(p2, q, chain, {}) /\ Loose(p2, q, chain, c, {})
    BY <1>3, <2>1, SoundMarked
  <2>5. [p EXCEPT ![c] = EOC][c] = EOC
    BY <1>3, <2>1 DEF Tables
  <2> QED
    BY <2>3, <2>4, <2>5
<1>10. CASE /\ FreeIn(s) # {} /\ Updated(a, x)
            /\ call' = [call EXCEPT !.pc = "alloc_fat1", !.head = c]
  <2>1. ready' /\ Wrote(a, x) /\ BufferCoherent'
    BY <1>3, <1>6, <1>10, UpdateReady
  <2>2. /\ Dir' = Dir /\ Sound(Fat("fat0")', Fat("fat1")', chain, {})
        /\ Loose(Fat("fat0")', Fat("fat1")', chain, c, {}) /\ Fat("fat0")'[c] = EOC
        /\ SectorOf(c) = s
    BY <1>8, <1>9, <1>10, <2>1
  <2> HIDE DEF c
  <2>3. /\ call'.pc = "alloc_fat1" /\ call'.fd = call.fd /\ call'.head = c /\ call'.sector = s
        /\ call'.link = call.link /\ call'.off0 = call.off0 /\ call'.result = call.result
        /\ call'.op = call.op /\ call'.len = call.len
    BY <1>3, <1>10 DEF CallType
  <2>4. GoesOn(D)
    BY <1>1, <1>7, <2>1, <2>2, <2>3 DEF GoesOn
  <2>5. Working(D, call', ch, e)
    BY <1>4, <2>3, AllocGoesOn, WorkingAt
  <2>6. Handling(D, call', Fat("fat0")', Fat("fat1")', chain)
    BY <2>2, <2>3 DEF Handling
  <2>7. Excused(D, call') = {} /\ OnlyChain(chain, chain, D.file)
    BY <2>3 DEF Excused, OnlyChain
  <2> QED
    BY <1>2, <2>2, <2>3, <2>4, <2>5, <2>6, <2>7, CallRuns
<1>11. CASE Cached(a) /\ call' = [call EXCEPT !.sector = @ + 1]
  <2>1. ready' /\ Volume' = Volume /\ BufferCoherent'
    BY <1>3, <1>11, CachedReady
  <2>2. Fat("fat0")' = p /\ Fat("fat1")' = q /\ Dir' = Dir
    BY <2>1, FatKept
  <2>3. /\ call'.pc = "alloc" /\ call'.fd = call.fd
        /\ call'.link = call.link /\ call'.off0 = call.off0 /\ call'.result = call.result
        /\ call'.op = call.op /\ call'.len = call.len
    BY <1>1, <1>3, <1>11 DEF CallType
  <2>4. GoesOn(D)
    BY <1>1, <1>7, <2>1, <2>2, <2>3 DEF GoesOn
  <2>5. Working(D, call', ch, e)
    BY <1>4, <2>3, AllocGoesOn, WorkingAt
  <2>6. call'.pc \notin MidWrite \cup {"free_fat0", "idle"} /\ call'.pc # "return"
    BY <2>3 DEF MidWrite
  <2> QED
    BY <1>2, <2>2, <2>4, <2>5, <2>6, CallGoesOn
<1>12. CASE /\ IF FreeIn(s) = {} THEN CacheFailed(a) ELSE UpdateFailed(a, x)
            /\ Return(TRUE)
  <2>1. call'.pc = "return" /\ torn \subseteq torn'
    BY <1>1, <1>3, <1>12, CallAfter
  <2>2. ~ready' /\ (Volume' = Volume \/ (FreeIn(s) # {} /\ Wrote(a, x)))
    BY <1>3, <1>6, <1>12, CacheFailedReady, UpdateReady
  <2>3. Dir' = Dir /\ Sound(Fat("fat0")', Fat("fat1")', chain, {})
    BY <1>3, <1>9, <2>2, FatKept
  <2> QED
    BY <1>2, <1>7, <2>1, <2>2, <2>3, CallFails
<1> QED
  BY <1>10, <1>11, <1>12 DEF AllocMarks

\* A cluster joins the file's chain and the write goes on behind it.
LEMMA ChainGrows ==
    ASSUME IInv, NEW chain \in Chains, ChainInv(chain), ready,
           call.pc \in {"alloc_fat1", "parent_fat0"}, NEW f \in Files, f = D.file,
           NEW h \in Clusters, h = call.head, ~InChains(chain, h),
           ready', BufferCoherent', Dir' = Dir, torn' = torn,
           SetDesc(WithCluster(D, h)), Goto("loop"),
           Sound(Fat("fat0")', Fat("fat1")', Longer(chain, f, h), {})
    PROVE  \E chain2 \in Chains : chain2 = Longer(chain, f, h) /\ ChainInv(chain2)'
<1> DEFINE ch == chain[f]
           e == Dir[f]
           d2 == WithCluster(D, h)
<1>1. call.pc \notin {"idle", "return"}
  OBVIOUS
<1>2. /\ D \in FileDescriptor /\ ch \in Seq(Clusters) /\ e \in DirEntry
      /\ Working(D, call, ch, e) /\ call \in CallType
      /\ Sound(Fat("fat0"), Fat("fat1"), chain, Excused(D, call))
  BY <1>1, RunningFacts
<1>3. AtAlloc(D, call, ch, e)
  BY <1>2 DEF Working
<1>4. /\ Longer(chain, f, h) \in Chains
      /\ \A g \in Files : g # f => Longer(chain, f, h)[g] = chain[g]
      /\ Len(Longer(chain, f, h)[f]) = Len(ch) + 1 /\ Longer(chain, f, h)[f][Len(ch) + 1] = h
      /\ \A k \in 1 .. Len(ch) : Longer(chain, f, h)[f][k] = ch[k]
  <2>1. ChainsDisjoint(chain)
    BY <1>2 DEF Sound
  <2> QED
    <3> HIDE DEF ch
    <3>1. LET l == chain[f]  chain2 == Longer(chain, f, h)  l2 == chain2[f] IN
          /\ chain2 \in Chains /\ ChainsDisjoint(chain2)
          /\ \A g \in Files : g # f => chain2[g] = chain[g]
          /\ Len(l2) = Len(l) + 1 /\ l2[Len(l) + 1] = h
          /\ \A k \in 1 .. Len(l) : l2[k] = l[k]
      BY <2>1, LongerFacts
    <3> QED
      BY <3>1 DEF ch
<1>5. PICK chain2 \in Chains : chain2 = Longer(chain, f, h)
  BY <1>4
<1>6. OnlyChain(chain, chain2, D.file) /\ chain2[f] \in Seq(Clusters)
  BY <1>4, <1>5, ChainFacts DEF OnlyChain
<1>7. /\ call'.pc = "loop" /\ call'.fd = call.fd /\ call'.op = call.op /\ call'.len = call.len
      /\ call'.link = call.link /\ call'.off0 = call.off0 /\ call'.result = call.result
  BY <1>2 DEF Goto, CallType
<1>8. AtLoop(d2, call', chain2[f], e)
  <2>1. PICK ch2 \in Seq(Clusters) : ch2 = chain2[f]
    BY <1>6
  <2>2. /\ Len(ch2) = Len(ch) + 1 /\ ch2[Len(ch) + 1] = h
        /\ \A k \in 1 .. Len(ch) : ch2[k] = ch[k]
    BY <1>4, <1>5, <2>1
  <2> HIDE DEF ch, e
  <2>3. AtLoop(WithCluster(D, h), call', ch2, e)
    BY <1>2, <1>3, <1>7, <2>2, ClusterJoins
  <2> QED
    BY <2>1, <2>3
<1>9. Tame(D, d2)
  BY <1>2, TameOps
<1> HIDE DEF d2
<1>10. GoesOn(d2)
  BY <1>7, <1>9 DEF GoesOn, d2
<1>11. Working(d2, call', chain2[f], e) /\ Handling(d2, call', Fat("fat0")', Fat("fat1")', chain2)
  BY <1>7, <1>8, WorkingAt DEF Handling
<1>12. Excused(d2, call') = {} /\ call'.pc \notin {"idle", "return"}
  BY <1>7 DEF Excused
<1>13. ChainInv(chain2)'
  BY <1>1, <1>5, <1>6, <1>10, <1>11, <1>12, CallRuns
<1> QED
  BY <1>5, <1>13

\* The sector with the new mark is copied to FAT 1.
LEMMA ChainMirrors ==
    ASSUME IInv, NEW chain \in Chains, ChainInv(chain), ready, AllocMirrors
    PROVE  \E chain2 \in Chains :
               /\ ChainInv(chain2)'
               /\ ready' => chain2 = IF call.link = 0 THEN Longer(chain, D.file, call.head)
                                    ELSE chain
<1> DEFINE ch == chain[D.file]
           e == Dir[D.file]
           p == Fat("fat0")
           q == Fat("fat1")
           s == call.sector
           a == FatBlock("fat1", s)
           q2 == Merged(q, p, s)
<1>1. call.pc = "alloc_fat1" /\ torn' = torn
  BY DEF AllocMirrors
<1>2. /\ call.pc \notin {"idle", "return"} /\ call.pc \notin {"idle", "return", "loop"}
      /\ Excused(D, call) = {}
  BY <1>1 DEF Excused
<1>3. /\ D \in FileDescriptor /\ D.file \in Files /\ ch \in Seq(Clusters) /\ e \in DirEntry
      /\ Working(D, call, ch, e) /\ call \in CallType /\ BlockOK /\ BufferCoherent
      /\ Handling(D, call, p, q, chain)
      /\ Sound(p, q, chain, {}) /\ p \in Tables /\ q \in Tables
  BY <1>2, RunningFacts, FatTables
<1>4. AtAlloc(D, call, ch, e)
  BY <1>1, <1>3 DEF Working
<1>5. /\ Loose(p, q, chain, call.head, {}) /\ p[call.head] = EOC /\ s = SectorOf(call.head)
      /\ call.head \in Clusters /\ ~InChains(chain, call.head)
  BY <1>1, <1>3 DEF Handling, Loose
<1>6. s \in Sectors /\ cache_block_addr = FatBlock("fat0", s) /\ a \in VolumeBlocks
  BY <1>1, Contents DEF IInv, Mirroring
<1>7. /\ q2 \in Tables /\ Sound(p, q2, chain, {})
      /\ Loose(p, q2, chain, call.head, {}) /\ q2[call.head] = EOC
  <2>1. /\ q2 \in Tables /\ Sound(p, q2, chain, {})
        /\ \A c, by : Loose(p, q, chain, c, by) => Loose(p, q2, chain, c, by)
    BY <1>3, SoundMirrored
  <2>2. call.head \in Entries
    BY <1>5, ClusterFacts
  <2>3. q2[call.head] = EOC
    BY <1>5, <2>2 DEF Merged
  <2> QED
    BY <1>5, <2>1, <2>3
<1>8. ASSUME Wrote(a, cache_block)
      PROVE  Fat("fat0")' = p /\ Fat("fat1")' = q2 /\ Dir' = Dir
  BY <1>3, <1>6, <1>8, SectorCopied
<1> HIDE DEF q2
<1>9. CASE FlushOk(a, cache_block) /\ call.link = 0
  <2>2. ready' /\ Wrote(a, cache_block) /\ BufferCoherent'
    BY <1>3, <1>6, <1>9, FlushReady
  <2>a. ~FlushFailed(a, cache_block)
    BY <1>3, <1>6, <2>2, FlushFailedReady
  <2>1. SetDesc(WithCluster(D, call.head)) /\ Goto("loop")
    BY <1>9, <2>a DEF AllocMirrors
  <2>3. Len(ch) = 0
    BY <1>3, <1>4, <1>9, ParentIsLast
  <2>4. PICK f \in Files : f = D.file
    BY <1>3
  <2>5. PICK h \in Clusters : h = call.head
    BY <1>5
  <2>6. Sound(p, q2, Longer(chain, f, h), {})
    BY <1>3, <1>5, <1>7, <2>3, <2>4, <2>5, SoundStarted
  <2>7. Sound(Fat("fat0")', Fat("fat1")', Longer(chain, f, h), {}) /\ Dir' = Dir
    BY <1>8, <2>2, <2>6
  <2>8. \E chain2 \in Chains : chain2 = Longer(chain, f, h) /\ ChainInv(chain2)'
    BY <1>1, <1>5, <2>1, <2>2, <2>4, <2>5, <2>7, ChainGrows
  <2> QED
    BY <1>9, <2>4, <2>5, <2>8
<1>10. CASE FlushOk(a, cache_block) /\ call.link # 0
  <2>2. ready' /\ Wrote(a, cache_block) /\ BufferCoherent'
    BY <1>3, <1>6, <1>10, FlushReady
  <2>a. ~FlushFailed(a, cache_block)
    BY <1>3, <1>6, <2>2, FlushFailedReady
  <2>1. desc' = desc /\ Goto("parent_fat1")
    BY <1>10, <2>a DEF AllocMirrors
  <2>3. Fat("fat0")' = p /\ Fat("fat1")' = q2 /\ Dir' = Dir
    BY <1>8, <2>2
  <2>4. /\ call'.pc = "parent_fat1" /\ call'.fd = call.fd /\ call'.op = call.op
        /\ call'.len = call.len /\ call'.head = call.head
        /\ call'.link = call.link /\ call'.off0 = call.off0 /\ call'.result = call.result
    BY <1>3, <2>1 DEF Goto, CallType
  <2>5. SetDesc(D) /\ Tame(D, D)
    BY <1>3, <2>1, DescKept, TameOps
  <2>6. GoesOn(D)
    BY <1>1, <2>2, <2>3, <2>4, <2>5 DEF GoesOn
  <2>7. Working(D, call', ch, e)
    BY <1>4, <2>4, AllocGoesOn, WorkingAt
  <2>8. Handling(D, call', Fat("fat0")', Fat("fat1")', chain)
    BY <1>5, <1>7, <1>10, <2>3, <2>4 DEF Handling
  <2>9. Excused(D, call') = {} /\ OnlyChain(chain, chain, D.file) /\ call'.pc \notin {"idle", "return"}
    BY <2>4 DEF Excused, OnlyChain
  <2>10. ChainInv(chain)'
    BY <1>2, <1>7, <2>3, <2>6, <2>7, <2>8, <2>9, CallRuns
  <2> QED
    BY <1>10, <2>10
<1>11. CASE FlushFailed(a, cache_block) /\ Return(TRUE) /\ desc' = desc
  <2>1. call'.pc = "return" /\ torn \subseteq torn' /\ SetDesc(D) /\ Tame(D, D)
    BY <1>1, <1>3, <1>11, CallAfter, DescKept, TameOps
  <2>2. ~ready' /\ (Volume' = Volume \/ Wrote(a, cache_block))
    BY <1>3, <1>6, <1>11, FlushFailedReady
  <2>3. Dir' = Dir /\ Sound(Fat("fat0")', Fat("fat1")', chain, {})
    BY <1>3, <1>7, <1>8, <2>2, FatKept
  <2>4. ChainInv(chain)'
    BY <1>2, <2>1, <2>2, <2>3, CallFails
  <2> QED
    BY <2>2, <2>4
<1> QED
  BY <1>9, <1>10, <1>11 DEF AllocMirrors

\* The old last cluster is linked to the new one in FAT 1.
LEMMA ChainParentLinks ==
    ASSUME IInv, NEW chain \in Chains, ChainInv(chain), ready, ParentLinks
    PROVE  \E chain2 \in Chains : ChainInv(chain2)' /\ (ready' => chain2 = chain)
<1> DEFINE ch == chain[D.file]
           e == Dir[D.file]
           p == Fat("fat0")
           q == Fat("fat1")
           last == call.link
           h == call.head
           a == Fat1(last)
           x == WithEntry(a, last, h)
           q2 == [q EXCEPT ![last] = h]
<1>1. call.pc = "parent_fat1" /\ desc' = desc
  BY DEF ParentLinks
<1>2. /\ call.pc \notin {"idle", "return"} /\ call.pc \notin {"idle", "return", "loop"}
      /\ Excused(D, call) = {}
  BY <1>1 DEF Excused
<1>3. /\ D \in FileDescriptor /\ D.file \in Files /\ ch \in Seq(Clusters) /\ e \in DirEntry
      /\ Working(D, call, ch, e) /\ call \in CallType /\ BlockOK /\ BufferCoherent
      /\ Handling(D, call, p, q, chain)
      /\ Sound(p, q, chain, {}) /\ p \in Tables /\ q \in Tables
  BY <1>2, RunningFacts, FatTables
<1>4. AtAlloc(D, call, ch, e)
  BY <1>1, <1>3 DEF Working
<1>5. Loose(p, q, chain, h, {}) /\ p[h] = EOC /\ q[h] = EOC /\ last # 0
  BY <1>1, <1>3 DEF Handling
<1>6. Len(ch) > 0 /\ last = ch[Len(ch)] /\ Len(ch) \in 1 .. Len(ch)
  BY <1>3, <1>4, <1>5, ParentIsLast
<1>7. last \in Entries /\ a \in VolumeBlocks
  BY <1>3, <1>6, NextFacts, ClusterFacts, FatAreas
<1>8. /\ q2 \in Tables /\ Sound(p, q2, chain, {last})
      /\ Loose(p, q2, chain, h, {last}) /\ q2[h] = EOC /\ q2[last] = h
  <2>1. PICK f \in Files : f = D.file
    BY <1>3
  <2>2. Len(chain[f]) > 0 /\ last = chain[f][Len(chain[f])]
    BY <1>6, <2>1
  <2>3. h \in Clusters /\ h \in 0 .. EOC
    BY <1>5, ClusterFacts DEF Loose
  <2>4. q2 = Relinked(q, last, h)
    BY DEF Relinked
  <2> HIDE DEF p, q, h, last, q2
  <2>5. PICK p0 \in Tables, q0 \in Tables : p0 = p /\ q0 = q
    BY <1>3
  <2>6. PICK h0 \in Clusters, l0 \in Entries : h0 = h /\ l0 = last
    BY <1>7, <2>3
  <2>8. Sound(p0, q0, chain, {}) /\ Len(chain[f]) > 0
    BY <1>3, <2>2, <2>5
  <2>9. Loose(p0, q0, chain, h0, {}) /\ p0[h0] = EOC /\ q0[h0] = EOC
    BY <1>5, <2>5, <2>6
  <2>10. l0 = chain[f][Len(chain[f])]
    BY <2>2, <2>6
  <2>11. LET r == Relinked(q0, l0, h0) IN
        r \in Tables /\ Sound(p0, r, chain, {l0}) /\ Loose(p0, r, chain, h0, {l0})
    BY <2>8, <2>9, <2>10, SoundParent, Zenon
  <2>12. h0 # l0 /\ h0 \in Entries
    BY <1>6, <2>1, <2>9, <2>10, ClusterFacts DEF Loose, InChains
  <2>13. Relinked(q0, l0, h0)[h0] = EOC /\ Relinked(q0, l0, h0)[l0] = h0
    BY <2>9, <2>12 DEF Relinked, Tables
  <2> QED
    BY <2>4, <2>5, <2>6, <2>11, <2>13
<1>9. ASSUME Wrote(a, x)
      PROVE  Fat("fat0")' = p /\ Fat("fat1")' = q2 /\ Dir' = Dir
  BY <1>3, <1>7, <1>9, EntryChanged DEF Fat1
<1>10. SetDesc(D) /\ Tame(D, D)
  BY <1>1, <1>3, DescKept, TameOps
<1> HIDE DEF q2, x
<1>11. CASE Updated(a, x) /\ Goto("parent_fat0") /\ torn' = torn
  <2>1. ready' /\ Wrote(a, x) /\ BufferCoherent'
    BY <1>3, <1>7, <1>11, UpdateReady
  <2>2. Fat("fat0")' = p /\ Fat("fat1")' = q2 /\ Dir' = Dir
    BY <1>9, <2>1
  <2>3. /\ call'.pc = "parent_fat0" /\ call'.fd = call.fd /\ call'.op = call.op
        /\ call'.len = call.len /\ call'.head = h
        /\ call'.link = last /\ call'.off0 = call.off0 /\ call'.result = call.result
    BY <1>3, <1>11 DEF Goto, CallType
  <2>4. GoesOn(D)
    BY <1>10, <1>11, <2>1, <2>2, <2>3 DEF GoesOn
  <2>5. Working(D, call', ch, e)
    BY <1>4, <2>3, AllocGoesOn, WorkingAt
  <2>6. Handling(D, call', Fat("fat0")', Fat("fat1")', chain)
    BY <1>5, <1>8, <2>2, <2>3 DEF Handling
  <2>7. Excused(D, call') = {last} /\ OnlyChain(chain, chain, D.file)
        /\ call'.pc \notin {"idle", "return"}
    BY <2>3 DEF Excused, OnlyChain
  <2>8. ChainInv(chain)'
    BY <1>2, <1>8, <2>2, <2>4, <2>5, <2>6, <2>7, CallRuns
  <2> QED
    BY <2>8
<1>12. CASE UpdateFailed(a, x) /\ Return(TRUE) /\ Tears
  <2>1. call'.pc = "return" /\ torn \subseteq torn' /\ D.file \in torn'
    BY <1>3, <1>12, CallAfter DEF Tears
  <2>2. ~ready' /\ (Volume' = Volume \/ Wrote(a, x))
    BY <1>3, <1>7, <1>12, UpdateReady
  <2>3. CASE Volume' = Volume
    <3>1. Dir' = Dir /\ Sound(Fat("fat0")', Fat("fat1")', chain, {})
      BY <1>3, <2>3, FatKept
    <3>2. ChainInv(chain)'
      BY <1>2, <1>10, <2>1, <2>2, <3>1, CallFails
    <3> QED
      BY <2>2, <3>2
  <2>4. CASE Wrote(a, x)
    <3>1. /\ Dir' = Dir /\ Sound(Fat("fat0")', Fat("fat1")', chain, {last})
          /\ Fat("fat0")' \in Tables /\ Fat("fat1")' \in Tables
      BY <1>3, <1>8, <1>9, <2>4
    <3>2. OnlyChain(chain, chain, D.file)
      BY DEF OnlyChain
    <3>3. \A c \in {last} : \E k \in 1 .. Len(chain[D.file]) : chain[D.file][k] = c
      BY <1>6
    <3>4. \E chain3 \in Chains : ChainInv(chain3)'
      BY <1>2, <1>10, <2>1, <2>2, <3>1, <3>2, <3>3, CallDrops
    <3> QED
      BY <2>2, <3>4
  <2> QED
    BY <2>2, <2>3, <2>4
<1> QED
  BY <1>11, <1>12 DEF ParentLinks, x

\* That sector is copied to FAT 0, and the new cluster belongs to the file.
LEMMA ChainParentMirrors ==
    ASSUME IInv, NEW chain \in Chains, ChainInv(chain), ready, ParentMirrors
    PROVE  \E chain2 \in Chains :
               ChainInv(chain2)' /\ (ready' => chain2 = Longer(chain, D.file, call.head))
<1> DEFINE ch == chain[D.file]
           e == Dir[D.file]
           p == Fat("fat0")
           q == Fat("fat1")
           last == call.link
           a == Fat0(last)
           p2 == Merged(p, q, SectorOf(last))
<1>1. call.pc = "parent_fat0"
  BY DEF ParentMirrors
<1>2. call.pc \notin {"idle", "return"} /\ Excused(D, call) = {last}
  BY <1>1 DEF Excused
<1>3. /\ D \in FileDescriptor /\ D.file \in Files /\ ch \in Seq(Clusters) /\ e \in DirEntry
      /\ Working(D, call, ch, e) /\ call \in CallType /\ BlockOK /\ BufferCoherent
      /\ Handling(D, call, p, q, chain)
      /\ Sound(p, q, chain, {last}) /\ p \in Tables /\ q \in Tables
  BY <1>2, RunningFacts, FatTables
<1>4. AtAlloc(D, call, ch, e)
  BY <1>1, <1>3 DEF Working
<1>5. /\ Loose(p, q, chain, call.head, {last}) /\ p[call.head] = EOC /\ q[call.head] = EOC
      /\ last # 0 /\ q[last] = call.head /\ call.head \in Clusters /\ ~InChains(chain, call.head)
  BY <1>1, <1>3 DEF Handling, Loose
<1>6. Len(ch) > 0 /\ last = ch[Len(ch)] /\ Len(ch) \in 1 .. Len(ch)
  BY <1>3, <1>4, <1>5, ParentIsLast
<1>7. last \in Entries /\ a \in VolumeBlocks /\ SectorOf(last) \in Sectors
  BY <1>3, <1>6, NextFacts, ClusterFacts, FatAreas
<1>8. PICK f \in Files : f = D.file
  BY <1>3
<1>9. PICK h \in Clusters : h = call.head
  BY <1>5
<1>10. p2 \in Tables /\ Sound(p2, q, Longer(chain, f, h), {})
  BY <1>3, <1>5, <1>6, <1>8, <1>9, SoundLengthened
<1>11. cache_block_addr = FatBlock("fat1", SectorOf(last))
  BY <1>1 DEF IInv, Mirroring, Fat1
<1>12. ASSUME Wrote(a, cache_block)
       PROVE  Fat("fat0")' = p2 /\ Fat("fat1")' = q /\ Dir' = Dir
  BY <1>3, <1>7, <1>11, <1>12, SectorCopied DEF Fat0
<1> HIDE DEF p2
<1>13. CASE /\ FlushOk(a, cache_block) /\ SetDesc(WithCluster(D, call.head))
            /\ Goto("loop") /\ torn' = torn
  <2>1. ready' /\ Wrote(a, cache_block) /\ BufferCoherent'
    BY <1>3, <1>7, <1>13, FlushReady
  <2>2. Sound(Fat("fat0")', Fat("fat1")', Longer(chain, f, h), {}) /\ Dir' = Dir
    BY <1>10, <1>12, <2>1
  <2>3. \E chain2 \in Chains : chain2 = Longer(chain, f, h) /\ ChainInv(chain2)'
    BY <1>1, <1>5, <1>8, <1>9, <1>13, <2>1, <2>2, ChainGrows
  <2> QED
    BY <1>8, <1>9, <2>3
<1>14. CASE FlushFailed(a, cache_block) /\ Return(TRUE) /\ Tears /\ desc' = desc
  <2>1. call'.pc = "return" /\ torn \subseteq torn' /\ D.file \in torn' /\ SetDesc(D) /\ Tame(D, D)
    BY <1>3, <1>14, CallAfter, DescKept, TameOps DEF Tears
  <2>2. ~ready' /\ (Volume' = Volume \/ Wrote(a, cache_block))
    BY <1>3, <1>7, <1>14, FlushFailedReady
  <2>3. CASE Volume' = Volume
    <3>1. /\ Dir' = Dir /\ Sound(Fat("fat0")', Fat("fat1")', chain, {last})
          /\ Fat("fat0")' \in Tables /\ Fat("fat1")' \in Tables
      BY <1>3, <2>3, FatKept
    <3>2. OnlyChain(chain, chain, D.file)
      BY DEF OnlyChain
    <3>3. \A c \in {last} : \E k \in 1 .. Len(chain[D.file]) : chain[D.file][k] = c
      BY <1>6
    <3>4. \E chain3 \in Chains : ChainInv(chain3)'
      BY <1>2, <2>1, <2>2, <3>1, <3>2, <3>3, CallDrops
    <3> QED
      BY <2>2, <3>4
  <2>4. CASE Wrote(a, cache_block)
    <3>1. /\ Dir' = Dir /\ Sound(Fat("fat0")', Fat("fat1")', Longer(chain, f, h), {})
          /\ Fat("fat0")' \in Tables /\ Fat("fat1")' \in Tables
      BY <1>3, <1>10, <1>12, <2>4
    <3>2. OnlyChain(chain, Longer(chain, f, h), D.file)
      BY <1>3, <1>5, <1>8, <1>9, LongerFacts DEF OnlyChain, Sound
    <3>3. PICK chain2 : chain2 = Longer(chain, f, h)
      OBVIOUS
    <3>4. \E chain3 \in Chains : ChainInv(chain3)'
      BY <1>2, <2>1, <2>2, <3>1, <3>2, <3>3, CallDrops
    <3> QED
      BY <2>2, <3>4
  <2> QED
    BY <2>2, <2>3, <2>4
<1> QED
  BY <1>13, <1>14 DEF ParentMirrors
\* One turn of the search for the cluster before the current one.
LEMMA ChainFindsParent ==
    ASSUME IInv, NEW chain \in Chains, ChainInv(chain), ready, FindParent
    PROVE  ChainInv(chain)'
<1> DEFINE ch == chain[D.file]
           e == Dir[D.file]
           h == call.head
           d2 == [D EXCEPT !.next_cluster = D.cur_cluster, !.cur_cluster = call.head,
                           !.block_in_cluster = SectorsPerCluster]
<1>1. call.pc = "find_parent" /\ torn' = torn
  BY DEF FindParent
<1>2. /\ call.pc \notin {"idle", "return"} /\ call.pc \notin {"idle", "return", "loop"}
      /\ Excused(D, call) = {} /\ Plain(call.pc)
  BY <1>1 DEF Excused, Plain
<1>3. /\ D \in FileDescriptor /\ D.file \in Files /\ ch \in Seq(Clusters) /\ e \in DirEntry
      /\ Working(D, call, ch, e) /\ call \in CallType /\ BlockOK /\ BufferCoherent
      /\ Sound(Fat("fat0"), Fat("fat1"), chain, {})
      /\ Fat("fat0") \in Tables /\ Fat("fat1") \in Tables
  BY <1>2, RunningFacts, FatTables
<1>4. AtFindParent(D, call, ch) /\ call.op \notin {"read", "write"}
  BY <1>1, <1>3 DEF Working, NoTransfer
<1>5. Distinct(ch)
  BY <1>3, ChainDistinct DEF Sound
<1>6. PICK j \in 1 .. Len(ch) :
          /\ h = ch[j]
          /\ NextIn(ch, j) = D.cur_cluster => AtCut(d2, ch, j) /\ d2.next_cluster = NextIn(ch, j)
          /\ NextIn(ch, j) # D.cur_cluster =>
               \A c2 : c2.head = NextIn(ch, j) => AtFindParent(D, c2, ch)
  BY <1>3, <1>4, <1>5, ParentFound, ZenonT(40)
<1>7. h \in Entries /\ h # EOC /\ NextIn(ch, j) \in 0 .. EOC
  BY <1>3, <1>6, NextFacts, ClusterFacts, ChainFacts
<1>8. Fat("fat0")[h] = NextIn(ch, j) /\ Fat("fat0")[h] # 0
  BY <1>3, <1>6, ChainLinks
<1>9. Entry(h) = NextIn(ch, j) /\ Entry(h) # 0 /\ Fat0(h) \in VolumeBlocks
  BY <1>3, <1>7, <1>8, EntryIs
<1>10. CASE Cached(Fat0(h)) /\ Entry(h) = D.cur_cluster /\ SetDesc(d2) /\ Goto("cut_fat0")
  <2>1. ready' /\ BufferCoherent' /\ Volume' = Volume
    BY <1>3, <1>10, CachedReady
  <2>2. Fat("fat0")' = Fat("fat0") /\ Fat("fat1")' = Fat("fat1") /\ Dir' = Dir
    BY <2>1, FatKept
  <2>3. call'.pc = "cut_fat0" /\ call'.fd = call.fd /\ call'.op = call.op
    BY <1>3, <1>10 DEF Goto, CallType
  <2>4. Tame(D, d2)
    BY <1>3 DEF Tame, FileDescriptor
  <2>5. AtCut(d2, ch, j) /\ d2.next_cluster = NextIn(ch, j)
    BY <1>6, <1>9, <1>10
  <2> HIDE DEF d2
  <2>6. GoesOn(d2)
    BY <1>1, <1>10, <2>1, <2>2, <2>3, <2>4 DEF GoesOn
  <2>7. Working(d2, call', ch, e)
    BY <1>4, <2>3, <2>5, WorkingAt
  <2>8. call'.pc \notin MidWrite \cup {"free_fat0", "idle"} /\ call'.pc # "return"
    BY <2>3 DEF MidWrite
  <2> QED
    BY <1>2, <2>2, <2>6, <2>7, <2>8, CallGoesOn
<1>11. CASE /\ Cached(Fat0(h)) /\ Entry(h) # D.cur_cluster
            /\ call' = [call EXCEPT !.head = Entry(h)] /\ desc' = desc
  <2>1. ready' /\ BufferCoherent' /\ Volume' = Volume
    BY <1>3, <1>11, CachedReady
  <2>2. Fat("fat0")' = Fat("fat0") /\ Fat("fat1")' = Fat("fat1") /\ Dir' = Dir
    BY <2>1, FatKept
  <2>3. /\ call'.pc = "find_parent" /\ call'.fd = call.fd /\ call'.op = call.op
        /\ call'.head = NextIn(ch, j)
    BY <1>1, <1>3, <1>9, <1>11 DEF CallType
  <2>4. SetDesc(D) /\ Tame(D, D)
    BY <1>3, <1>11, DescKept, TameOps
  <2>5. AtFindParent(D, call', ch)
    BY <1>6, <1>9, <1>11, <2>3
  <2>6. GoesOn(D)
    BY <1>1, <2>1, <2>2, <2>3, <2>4 DEF GoesOn
  <2>7. Working(D, call', ch, e)
    BY <1>4, <2>3, <2>5, WorkingAt
  <2>8. call'.pc \notin MidWrite \cup {"free_fat0", "idle"} /\ call'.pc # "return"
    BY <2>3 DEF MidWrite
  <2> QED
    BY <1>2, <2>2, <2>6, <2>7, <2>8, CallGoesOn
<1>12. CASE CacheFailed(Fat0(h)) /\ Return(FALSE) /\ desc' = desc
  <2>1. ~ready' /\ Volume' = Volume
    BY <1>9, <1>12, CacheFailedReady
  <2>2. Fat("fat0")' = Fat("fat0") /\ Fat("fat1")' = Fat("fat1") /\ Dir' = Dir
    BY <2>1, FatKept
  <2>3. call'.pc = "return" /\ SetDesc(D) /\ Tame(D, D)
    BY <1>3, <1>12, CallAfter, DescKept, TameOps
  <2> QED
    BY <1>1, <1>2, <2>1, <2>2, <2>3, CallStops
<1> QED
  BY <1>7, <1>9, <1>10, <1>11, <1>12 DEF FindParent
\* A descriptor at the place where its chain is cut.
LEMMA CutShorter ==
    ASSUME NEW d, NEW chain \in Chains, NEW f \in Files, NEW k \in 1 .. Len(chain[f]),
           AtCut(d, chain[f], k)
    PROVE  LET ch2 == Cut(chain, f, k)[f] IN
           /\ AtFree(d, ch2) /\ Len(ch2) = k /\ Len(ch2) > 0
           /\ k \in 1 .. Len(ch2) /\ ch2[k] = chain[f][k]
<1> DEFINE ch2 == Cut(chain, f, k)[f]
<1>1. Len(ch2) = k /\ \A i \in 1 .. k : ch2[i] = chain[f][i]
  BY CutFacts
<1> HIDE DEF ch2
<1>2. k \in Nat /\ k > 0 /\ 1 \in 1 .. k /\ k \in 1 .. k
  BY ChainFacts
<1>3. ch2[1] = chain[f][1] /\ ch2[k] = chain[f][k]
  BY <1>1, <1>2
<1>4. AtCut(d, ch2, k)
  BY <1>3 DEF AtCut, Cutting, Standing
<1> QED
  BY <1>1, <1>2, <1>3, <1>4 DEF AtFree, ch2

\* SoundCut with names for the two clusters and the shorter chains.
LEMMA CutSound ==
    ASSUME NEW p \in Tables, NEW q \in Tables, NEW chain \in Chains, NEW f \in Files,
           Sound(p, q, chain, {}), NEW k \in 1 .. Len(chain[f]), k < Len(chain[f]),
           NEW cur, cur = chain[f][k], NEW next, next = chain[f][k + 1]
    PROVE  LET p2 == Relinked(p, cur, EOC) chain2 == Cut(chain, f, k) IN
           /\ p2 \in Tables /\ Sound(p2, q, chain2, {cur})
           /\ Loose(p2, q, chain2, next, {cur}) /\ p2[next] # 0
BY SoundCut DEF Relinked

\* The entry of the last cluster that stays becomes an end of chain in FAT 0.
LEMMA ChainCuts ==
    ASSUME IInv, NEW chain \in Chains, ChainInv(chain), ready, CutFat0
    PROVE  \E chain2 \in Chains :
               /\ ChainInv(chain2)'
               /\ ready' => \E k \in 1 .. Len(chain[D.file]) :
                               /\ k < Len(chain[D.file]) /\ chain2 = Cut(chain, D.file, k)
                               /\ D.cur_cluster = chain[D.file][k]
                               /\ D.next_cluster = chain[D.file][k + 1]
<1>0. call.pc = "cut_fat0" /\ torn' = torn /\ desc' = desc /\ D.next_cluster # EOC
  BY DEF CutFat0
<1>1. /\ call.pc \notin {"idle", "return"} /\ call.pc \notin {"idle", "return", "loop"}
      /\ Excused(D, call) = {}
  BY <1>0 DEF Excused
<1>2. PICK f \in Files : f = D.file
  BY <1>1, RunningFacts
<1> DEFINE ch == chain[f]
           e == Dir[f]
           p == Fat("fat0")
           q == Fat("fat1")
           a == Fat0(D.cur_cluster)
           x == WithEntry(a, D.cur_cluster, EOC)
           p2 == Relinked(p, D.cur_cluster, EOC)
<1>3. /\ D \in FileDescriptor /\ ch \in Seq(Clusters) /\ e \in DirEntry
      /\ Working(D, call, ch, e) /\ call \in CallType /\ BlockOK /\ BufferCoherent
      /\ Sound(p, q, chain, {}) /\ p \in Tables /\ q \in Tables
  BY <1>1, <1>2, RunningFacts, FatTables
<1>4. PICK k \in 1 .. Len(ch) : AtCut(D, ch, k) /\ D.next_cluster = NextIn(ch, k)
  BY <1>0, <1>3 DEF Working
<1>5. call.op \notin {"read", "write"}
  BY <1>0, <1>3 DEF Working, NoTransfer
<1>6. /\ D.cur_cluster = ch[k] /\ k < Len(ch) /\ D.next_cluster = ch[k + 1]
      /\ D.cur_cluster \in Entries /\ D.dir_entry_modified
  BY <1>0, <1>3, <1>4, NextFacts, ClusterFacts DEF AtCut, Cutting, Standing
<1>7. PICK chain2 \in Chains : chain2 = Cut(chain, f, k)
  BY CutFacts
<1>8. OnlyChain(chain, chain2, D.file)
  BY <1>2, <1>7, CutFacts DEF OnlyChain
<1>9. /\ AtFree(D, chain2[f]) /\ Len(chain2[f]) > 0 /\ k \in 1 .. Len(chain2[f])
      /\ chain2[f][k] = D.cur_cluster
  BY <1>4, <1>6, <1>7, CutShorter
<1>10. /\ p2 \in Tables /\ Sound(p2, q, chain2, {D.cur_cluster})
       /\ Loose(p2, q, chain2, D.next_cluster, {D.cur_cluster}) /\ p2[D.next_cluster] # 0
  <2>1. PICK p0 \in Tables, q0 \in Tables : p0 = p /\ q0 = q
    BY <1>3
  <2>2. PICK cur, next : cur = D.cur_cluster /\ next = D.next_cluster
    OBVIOUS
  <2>3. Sound(p0, q0, chain, {}) /\ k < Len(chain[f])
    BY <1>3, <1>6, <2>1
  <2>4. cur = chain[f][k] /\ next = chain[f][k + 1]
    BY <1>6, <2>2
  <2>5. LET r == Relinked(p0, cur, EOC) c2 == Cut(chain, f, k) IN
        /\ r \in Tables /\ Sound(r, q0, c2, {cur})
        /\ Loose(r, q0, c2, next, {cur}) /\ r[next] # 0
    BY <2>3, <2>4, CutSound, ZenonT(40)
  <2> QED
    BY <1>7, <2>1, <2>2, <2>5
<1>11. a \in VolumeBlocks
  BY <1>6, FatAreas
<1>12. ASSUME Wrote(a, x)
       PROVE  Fat("fat0")' = p2 /\ Fat("fat1")' = q /\ Dir' = Dir
  BY <1>3, <1>6, <1>12, EntryChanged DEF Fat0, Relinked
<1>13. SetDesc(D) /\ Tame(D, D)
  BY <1>0, <1>3, DescKept, TameOps
<1> HIDE DEF p2, x
<1>14. CASE Updated(a, x) /\ Goto("cut_fat1")
  <2>1. ready' /\ Wrote(a, x) /\ BufferCoherent'
    BY <1>3, <1>11, <1>14, UpdateReady
  <2>2. Fat("fat0")' = p2 /\ Fat("fat1")' = q /\ Dir' = Dir
    BY <1>12, <2>1
  <2>3. call'.pc = "cut_fat1" /\ call'.fd = call.fd /\ call'.op = call.op
    BY <1>3, <1>14 DEF Goto, CallType
  <2>4. GoesOn(D)
    BY <1>0, <1>13, <2>1, <2>2, <2>3 DEF GoesOn
  <2>5. Working(D, call', chain2[f], e)
    BY <1>5, <1>9, <2>3, WorkingAt
  <2>6. Handling(D, call', Fat("fat0")', Fat("fat1")', chain2)
    BY <1>2, <1>9, <1>10, <2>2, <2>3 DEF Handling
  <2>7. Excused(D, call') = {D.cur_cluster} /\ call'.pc \notin {"idle", "return"}
    BY <2>3 DEF Excused
  <2>8. ChainInv(chain2)'
    BY <1>1, <1>2, <1>8, <1>10, <2>2, <2>4, <2>5, <2>6, <2>7, CallRuns
  <2> QED
    BY <1>2, <1>6, <1>7, <2>8
<1>15. CASE UpdateFailed(a, x) /\ Return(FALSE)
  <2>1. call'.pc = "return" /\ torn \subseteq torn'
    BY <1>0, <1>3, <1>15, CallAfter
  <2>2. ~ready' /\ (Volume' = Volume \/ Wrote(a, x))
    BY <1>3, <1>11, <1>15, UpdateReady
  <2>3. CASE Volume' = Volume
    <3>1. Dir' = Dir /\ Sound(Fat("fat0")', Fat("fat1")', chain, {})
      BY <1>3, <2>3, FatKept
    <3>2. ChainInv(chain)'
      BY <1>1, <1>13, <2>1, <2>2, <3>1, CallFails
    <3> QED
      BY <2>2, <3>2
  <2>4. CASE Wrote(a, x)
    <3>1. /\ Dir' = Dir /\ Sound(Fat("fat0")', Fat("fat1")', chain2, {D.cur_cluster})
          /\ Fat("fat0")' \in Tables /\ Fat("fat1")' \in Tables
      BY <1>3, <1>10, <1>12, <2>4
    <3>2. \A c \in {D.cur_cluster} : \E i \in 1 .. Len(chain2[D.file]) : chain2[D.file][i] = c
      BY <1>2, <1>9
    <3>3. \E chain3 \in Chains : ChainInv(chain3)'
      BY <1>1, <1>6, <1>8, <1>13, <2>1, <2>2, <3>1, <3>2, CallDrops
    <3> QED
      BY <2>2, <3>3
  <2> QED
    BY <2>2, <2>3, <2>4
<1> QED
  BY <1>14, <1>15 DEF CutFat0, x
\* SoundCutTwice and SoundFreedTwice for entries written by Relinked.
LEMMA RelinkedSound ==
    ASSUME NEW p \in Tables, NEW q \in Tables, NEW chain \in Chains, NEW c, NEW next
    PROVE  /\ \A f \in Files :
                Len(chain[f]) > 0 /\ c = chain[f][Len(chain[f])] /\ Sound(p, q, chain, {c})
                  /\ Loose(p, q, chain, next, {c}) =>
                  LET q2 == Relinked(q, c, EOC) IN
                  q2 \in Tables /\ Sound(p, q2, chain, {}) /\ Loose(p, q2, chain, next, {})
           /\ Sound(p, q, chain, {}) /\ Loose(p, q, chain, c, {}) /\ p[c] = 0 =>
                LET q2 == Relinked(q, c, 0) IN
                /\ q2 \in Tables /\ Sound(p, q2, chain, {})
                /\ Loose(p, q, chain, next, {c}) => Loose(p, q2, chain, next, {})
<1>1. ASSUME NEW f \in Files, Len(chain[f]) > 0, c = chain[f][Len(chain[f])],
             Sound(p, q, chain, {c}), Loose(p, q, chain, next, {c})
      PROVE  LET q2 == Relinked(q, c, EOC) IN
             q2 \in Tables /\ Sound(p, q2, chain, {}) /\ Loose(p, q2, chain, next, {})
  BY <1>1, SoundCutTwice, Zenon DEF Relinked
<1>2. ASSUME Sound(p, q, chain, {}), Loose(p, q, chain, c, {}), p[c] = 0
      PROVE  LET q2 == Relinked(q, c, 0) IN
             /\ q2 \in Tables /\ Sound(p, q2, chain, {})
             /\ Loose(p, q, chain, next, {c}) => Loose(p, q2, chain, next, {})
  BY <1>2, SoundFreedTwice, Zenon DEF Relinked
<1> QED
  BY <1>1, <1>2
\* The same entry in FAT 1: the chain is cut, and the rest belongs to no file.
LEMMA ChainCutsTwice ==
    ASSUME IInv, NEW chain \in Chains, ChainInv(chain), ready, CutFat1
    PROVE  \E chain2 \in Chains : ChainInv(chain2)' /\ (ready' => chain2 = chain)
<1>0. call.pc = "cut_fat1" /\ torn' = torn /\ desc' = desc
  BY DEF CutFat1
<1>1. /\ call.pc \notin {"idle", "return"} /\ call.pc \notin {"idle", "return", "loop"}
      /\ Excused(D, call) = {D.cur_cluster}
  BY <1>0 DEF Excused
<1>2. PICK f \in Files : f = D.file
  BY <1>1, RunningFacts
<1> DEFINE ch == chain[f]
           e == Dir[f]
           p == Fat("fat0")
           q == Fat("fat1")
           cur == D.cur_cluster
           next == D.next_cluster
           a == Fat1(cur)
           x == WithEntry(a, cur, EOC)
           q2 == Relinked(q, cur, EOC)
<1>3. /\ D \in FileDescriptor /\ ch \in Seq(Clusters) /\ e \in DirEntry
      /\ Working(D, call, ch, e) /\ call \in CallType /\ BlockOK /\ BufferCoherent
      /\ Sound(p, q, chain, {cur}) /\ p \in Tables /\ q \in Tables
      /\ Handling(D, call, p, q, chain)
  BY <1>1, <1>2, RunningFacts, FatTables
<1>4. AtFree(D, ch) /\ call.op \notin {"read", "write"}
  BY <1>0, <1>3 DEF Working, NoTransfer
<1>5. Len(ch) > 0 /\ Loose(p, q, chain, next, {cur}) /\ p[next] # 0
  BY <1>0, <1>2, <1>3 DEF Handling
<1>6. cur = ch[Len(ch)] /\ D.dir_entry_modified
  BY <1>4, <1>5 DEF AtFree, AtCut, Cutting, Standing
<1>7. Len(ch) \in 1 .. Len(ch) /\ cur \in Entries
  BY <1>3, <1>5, <1>6, ChainFacts
<1>8. q2 \in Tables /\ Sound(p, q2, chain, {}) /\ Loose(p, q2, chain, next, {})
  <2>1. PICK p0 \in Tables, q0 \in Tables : p0 = p /\ q0 = q
    BY <1>3
  <2>2. PICK cur0, next0 : cur0 = cur /\ next0 = next
    OBVIOUS
  <2>3. /\ Len(chain[f]) > 0 /\ cur0 = chain[f][Len(chain[f])]
        /\ Sound(p0, q0, chain, {cur0}) /\ Loose(p0, q0, chain, next0, {cur0})
    BY <1>3, <1>5, <1>6, <2>1, <2>2
  <2>4. LET r == Relinked(q0, cur0, EOC) IN
        r \in Tables /\ Sound(p0, r, chain, {}) /\ Loose(p0, r, chain, next0, {})
    BY <2>3, RelinkedSound, Zenon
  <2> QED
    BY <2>1, <2>2, <2>4
<1>9. a \in VolumeBlocks
  BY <1>7, FatAreas
<1>10. ASSUME Wrote(a, x)
       PROVE  Fat("fat0")' = p /\ Fat("fat1")' = q2 /\ Dir' = Dir
  BY <1>3, <1>7, <1>10, EntryChanged DEF Fat1, Relinked
<1>11. SetDesc(D) /\ Tame(D, D) /\ OnlyChain(chain, chain, D.file)
  BY <1>0, <1>3, DescKept, TameOps DEF OnlyChain
<1> HIDE DEF q2, x
<1>12. CASE /\ Updated(a, x)
            /\ call' = [call EXCEPT !.pc = "free_fat0", !.head = D.next_cluster]
  <2>1. ready' /\ Wrote(a, x) /\ BufferCoherent'
    BY <1>3, <1>9, <1>12, UpdateReady
  <2>2. Fat("fat0")' = p /\ Fat("fat1")' = q2 /\ Dir' = Dir
    BY <1>10, <2>1
  <2>3. call'.pc = "free_fat0" /\ call'.fd = call.fd /\ call'.op = call.op /\ call'.head = next
    BY <1>3, <1>12 DEF CallType
  <2>4. GoesOn(D)
    BY <1>0, <1>11, <2>1, <2>2, <2>3 DEF GoesOn
  <2>5. Working(D, call', ch, e)
    BY <1>4, <2>3, WorkingAt
  <2>6. Handling(D, call', Fat("fat0")', Fat("fat1")', chain)
    BY <1>5, <1>8, <2>2, <2>3 DEF Handling
  <2>7. Excused(D, call') = {} /\ call'.pc \notin {"idle", "return"}
    BY <2>3 DEF Excused
  <2>8. ChainInv(chain)'
    BY <1>1, <1>2, <1>8, <1>11, <2>2, <2>4, <2>5, <2>6, <2>7, CallRuns
  <2> QED
    BY <2>8
<1>13. CASE UpdateFailed(a, x) /\ Return(FALSE)
  <2>1. call'.pc = "return" /\ torn \subseteq torn'
    BY <1>0, <1>3, <1>13, CallAfter
  <2>2. ~ready' /\ (Volume' = Volume \/ Wrote(a, x))
    BY <1>3, <1>9, <1>13, UpdateReady
  <2>3. CASE Volume' = Volume
    <3>1. /\ Dir' = Dir /\ Sound(Fat("fat0")', Fat("fat1")', chain, {cur})
          /\ Fat("fat0")' \in Tables /\ Fat("fat1")' \in Tables
      BY <1>3, <2>3, FatKept
    <3>2. \A c \in {cur} : \E i \in 1 .. Len(chain[D.file]) : chain[D.file][i] = c
      BY <1>2, <1>6, <1>7
    <3>3. \E chain3 \in Chains : ChainInv(chain3)'
      BY <1>1, <1>6, <1>11, <2>1, <2>2, <3>1, <3>2, CallDrops
    <3> QED
      BY <2>2, <3>3
  <2>4. CASE Wrote(a, x)
    <3>1. Dir' = Dir /\ Sound(Fat("fat0")', Fat("fat1")', chain, {})
      BY <1>8, <1>10, <2>4
    <3>2. ChainInv(chain)'
      BY <1>1, <1>11, <2>1, <2>2, <3>1, CallFails
    <3> QED
      BY <2>2, <3>2
  <2> QED
    BY <2>2, <2>3, <2>4
<1> QED
  BY <1>12, <1>13 DEF CutFat1, x

\* A cluster that belongs to no file is freed, in FAT 0.
LEMMA ChainFrees ==
    ASSUME IInv, NEW chain \in Chains, ChainInv(chain), ready, FreeFat0
    PROVE  ChainInv(chain)'
<1>0. call.pc = "free_fat0" /\ torn' = torn /\ call.head # EOC
  BY DEF FreeFat0
<1>1. /\ call.pc \notin {"idle", "return"} /\ call.pc \notin {"idle", "return", "loop"}
      /\ Excused(D, call) = {}
  BY <1>0 DEF Excused
<1>2. PICK f \in Files : f = D.file
  BY <1>1, RunningFacts
<1> DEFINE ch == chain[f]
           e == Dir[f]
           p == Fat("fat0")
           q == Fat("fat1")
           h == call.head
           next == p[h]
           a == Fat0(h)
           x == WithEntry(a, h, 0)
           p2 == Relinked(p, h, 0)
<1>3. /\ D \in FileDescriptor /\ ch \in Seq(Clusters) /\ e \in DirEntry
      /\ Working(D, call, ch, e) /\ call \in CallType /\ BlockOK /\ BufferCoherent
      /\ Sound(p, q, chain, {}) /\ p \in Tables /\ q \in Tables
      /\ Handling(D, call, p, q, chain)
  BY <1>1, <1>2, RunningFacts, FatTables
<1>4. AtFree(D, ch) /\ call.op \notin {"read", "write"}
  BY <1>0, <1>3 DEF Working, NoTransfer
<1>5. Loose(p, q, chain, h, {}) /\ p[h] # 0 /\ h \in Entries
  BY <1>0, <1>3, ClusterFacts DEF Handling, Loose
<1>6. Entry(h) = next /\ a \in VolumeBlocks
  BY <1>3, <1>5, EntryIs
<1>7. /\ p2 \in Tables /\ Sound(p2, q, chain, {})
      /\ Loose(p2, q, chain, h, {}) /\ p2[h] = 0
      /\ next # EOC => Loose(p2, q, chain, next, {h}) /\ p2[next] # 0
  <2>1. PICK p0 \in Tables, q0 \in Tables : p0 = p /\ q0 = q
    BY <1>3
  <2>2. PICK h0, next0 : h0 = h /\ next0 = next
    OBVIOUS
  <2>3. /\ Sound(p0, q0, chain, {}) /\ Loose(p0, q0, chain, h0, {})
        /\ p0[h0] # 0 /\ next0 = p0[h0]
    BY <1>3, <1>5, <2>1, <2>2
  <2>4. LET r == Relinked(p0, h0, 0) IN
        /\ r \in Tables /\ Sound(r, q0, chain, {})
        /\ Loose(r, q0, chain, h0, {}) /\ r[h0] = 0
        /\ next0 # EOC => Loose(r, q0, chain, next0, {h0}) /\ r[next0] # 0
    BY <2>3, SoundFreed DEF Relinked
  <2> QED
    BY <2>1, <2>2, <2>4
<1>8. ASSUME Wrote(a, x)
      PROVE  Fat("fat0")' = p2 /\ Fat("fat1")' = q /\ Dir' = Dir
  BY <1>3, <1>5, <1>8, EntryChanged DEF Fat0, Relinked
<1> HIDE DEF p2, x, next
<1>9. CASE /\ Updated(a, x) /\ desc' = desc
           /\ call' = [call EXCEPT !.pc = "free_fat1", !.link = Entry(h)]
  <2>1. ready' /\ Wrote(a, x) /\ BufferCoherent'
    BY <1>3, <1>6, <1>9, UpdateReady
  <2>2. Fat("fat0")' = p2 /\ Fat("fat1")' = q /\ Dir' = Dir
    BY <1>8, <2>1
  <2>3. /\ call'.pc = "free_fat1" /\ call'.fd = call.fd /\ call'.op = call.op
        /\ call'.head = h /\ call'.link = next
    BY <1>3, <1>6, <1>9 DEF CallType
  <2>4. SetDesc(D) /\ Tame(D, D) /\ OnlyChain(chain, chain, D.file)
    BY <1>3, <1>9, DescKept, TameOps DEF OnlyChain
  <2>5. GoesOn(D)
    BY <1>0, <2>1, <2>2, <2>3, <2>4 DEF GoesOn
  <2>6. Working(D, call', ch, e)
    BY <1>4, <2>3, WorkingAt
  <2>7. Handling(D, call', Fat("fat0")', Fat("fat1")', chain)
    BY <1>7, <2>2, <2>3 DEF Handling
  <2>8. Excused(D, call') = {} /\ call'.pc \notin {"idle", "return"}
    BY <2>3 DEF Excused
  <2> QED
    BY <1>1, <1>2, <1>7, <2>2, <2>4, <2>5, <2>6, <2>7, <2>8, CallRuns
<1>10. CASE UpdateFailed(a, x) /\ SetDesc(Freed(D, FALSE)) /\ Return(FALSE)
  <2>1. call'.pc = "return" /\ torn \subseteq torn' /\ Tame(D, Freed(D, FALSE))
    BY <1>0, <1>3, <1>10, CallAfter, TameOps
  <2>2. ~ready' /\ (Volume' = Volume \/ Wrote(a, x))
    BY <1>3, <1>6, <1>10, UpdateReady
  <2>3. Dir' = Dir /\ Sound(Fat("fat0")', Fat("fat1")', chain, {})
    BY <1>3, <1>7, <1>8, <2>2, FatKept
  <2> QED
    BY <1>1, <1>10, <2>1, <2>2, <2>3, CallFails
<1>11. Entry(h) # 0
  BY <1>5, <1>6 DEF next
<1> QED
  BY <1>9, <1>10, <1>11 DEF FreeFat0, x

\* The same cluster is freed in FAT 1, and the next one is in turn.
LEMMA ChainFreesTwice ==
    ASSUME IInv, NEW chain \in Chains, ChainInv(chain), ready, FreeFat1
    PROVE  ChainInv(chain)'
<1>0. call.pc = "free_fat1" /\ torn' = torn
  BY DEF FreeFat1
<1>1. /\ call.pc \notin {"idle", "return"} /\ call.pc \notin {"idle", "return", "loop"}
      /\ Excused(D, call) = {}
  BY <1>0 DEF Excused
<1>2. PICK f \in Files : f = D.file
  BY <1>1, RunningFacts
<1> DEFINE ch == chain[f]
           e == Dir[f]
           p == Fat("fat0")
           q == Fat("fat1")
           h == call.head
           next == call.link
           a == Fat1(h)
           x == WithEntry(a, h, 0)
           q2 == Relinked(q, h, 0)
<1>3. /\ D \in FileDescriptor /\ ch \in Seq(Clusters) /\ e \in DirEntry
      /\ Working(D, call, ch, e) /\ call \in CallType /\ BlockOK /\ BufferCoherent
      /\ Sound(p, q, chain, {}) /\ p \in Tables /\ q \in Tables
      /\ Handling(D, call, p, q, chain)
  BY <1>1, <1>2, RunningFacts, FatTables
<1>4. AtFree(D, ch) /\ call.op \notin {"read", "write"}
  BY <1>0, <1>3 DEF Working, NoTransfer
<1>5. /\ Loose(p, q, chain, h, {}) /\ p[h] = 0 /\ h \in Entries
      /\ next # EOC => Loose(p, q, chain, next, {h}) /\ p[next] # 0
  BY <1>0, <1>3, ClusterFacts DEF Handling, Loose
<1>6. a \in VolumeBlocks
  BY <1>5, FatAreas
<1>7. /\ q2 \in Tables /\ Sound(p, q2, chain, {})
      /\ Loose(p, q, chain, next, {h}) => Loose(p, q2, chain, next, {})
  BY <1>3, <1>5, RelinkedSound
<1>8. ASSUME Wrote(a, x)
      PROVE  Fat("fat0")' = p /\ Fat("fat1")' = q2 /\ Dir' = Dir
  BY <1>3, <1>5, <1>8, EntryChanged DEF Fat1, Relinked
<1> HIDE DEF q2, x
<1>9. CASE /\ Updated(a, x) /\ desc' = desc
           /\ call' = [call EXCEPT !.pc = "free_fat0", !.head = call.link]
  <2>1. ready' /\ Wrote(a, x) /\ BufferCoherent'
    BY <1>3, <1>6, <1>9, UpdateReady
  <2>2. Fat("fat0")' = p /\ Fat("fat1")' = q2 /\ Dir' = Dir
    BY <1>8, <2>1
  <2>3. /\ call'.pc = "free_fat0" /\ call'.fd = call.fd /\ call'.op = call.op
        /\ call'.head = next
    BY <1>3, <1>9 DEF CallType
  <2>4. SetDesc(D) /\ Tame(D, D) /\ OnlyChain(chain, chain, D.file)
    BY <1>3, <1>9, DescKept, TameOps DEF OnlyChain
  <2>5. GoesOn(D)
    BY <1>0, <2>1, <2>2, <2>3, <2>4 DEF GoesOn
  <2>6. Working(D, call', ch, e)
    BY <1>4, <2>3, WorkingAt
  <2>7. Handling(D, call', Fat("fat0")', Fat("fat1")', chain)
    BY <1>5, <1>7, <2>2, <2>3 DEF Handling
  <2>8. Excused(D, call') = {} /\ call'.pc \notin {"idle", "return"}
    BY <2>3 DEF Excused
  <2> QED
    BY <1>1, <1>2, <1>7, <2>2, <2>4, <2>5, <2>6, <2>7, <2>8, CallRuns
<1>10. CASE UpdateFailed(a, x) /\ SetDesc(Freed(D, FALSE)) /\ Return(FALSE)
  <2>1. call'.pc = "return" /\ torn \subseteq torn' /\ Tame(D, Freed(D, FALSE))
    BY <1>0, <1>3, <1>10, CallAfter, TameOps
  <2>2. ~ready' /\ (Volume' = Volume \/ Wrote(a, x))
    BY <1>3, <1>6, <1>10, UpdateReady
  <2>3. Dir' = Dir /\ Sound(Fat("fat0")', Fat("fat1")', chain, {})
    BY <1>3, <1>7, <1>8, <2>2, FatKept
  <2> QED
    BY <1>1, <1>10, <2>1, <2>2, <2>3, CallFails
<1> QED
  BY <1>9, <1>10 DEF FreeFat1, x
-----------------------------------------------------------------------------
(* The calls of the program while the card answers.                        *)

\* fat_open_file finds a file that nobody has open.
LEMMA ChainOpens ==
    ASSUME Disciplined, IInv, NEW chain \in Chains, ChainInv(chain), ready, NEW f \in Files,
           FatOpenFile(f)
    PROVE  ChainInv(chain)'
<1> DEFINE d == InitFd(f, Load(DirBlock)[f])
           e == Dir[f]
<1>1. PICK fd \in Fds :
           /\ Cached(DirBlock) /\ torn' = torn /\ Holds(fd, d, f) /\ ~Fresh(fd)
           /\ call' = CallOf("open", fd, IF d.cluster_lo = 0 THEN "return" ELSE "open")
           /\ ~d.dir_entry_modified /\ f \notin OpenFiles /\ f \notin torn
  BY OpenFacts
<1>2. BlockOK /\ BufferCoherent /\ call.pc = "idle"
  BY DEF IInv, ChainInv, FatOpenFile, Idle
<1>3. ready' /\ BufferCoherent' /\ Volume' = Volume /\ DirBlock \in VolumeBlocks
  BY <1>1, <1>2, CachedReady
<1>4. Fat("fat0")' = Fat("fat0") /\ Fat("fat1")' = Fat("fat1") /\ Dir' = Dir
  BY <1>3, FatKept
<1>5. d = InitFd(f, e)
  BY <1>2, <1>3, LoadIs DEF Dir
<1>6. EntryFits(e, chain[f]) /\ e \in DirEntry /\ chain[f] \in Seq(Clusters)
  <2>1. f \notin Unsaved
    BY <1>1 DEF Unsaved, OpenFiles
  <2>2. EntryFits(e, chain[f])
    BY <1>1, <2>1 DEF ChainInv, DirSound
  <2> QED
    BY <1>2, <2>2, FatTables, ChainFacts
<1>7. /\ d.cluster_lo = 0 => Settle(d, chain[f], e)
      /\ d.cluster_lo # 0 => AtOpen(d, chain[f], e)
  BY <1>5, <1>6, InitFits DEF Disciplined
<1> HIDE DEF d
<1>8. /\ call'.fd = fd /\ call'.op = "open"
      /\ call'.pc = IF d.cluster_lo = 0 THEN "return" ELSE "open"
  BY <1>1 DEF CallOf, IdleCall
<1>9. Working(d, call', chain[f], e)
  BY <1>7, <1>8, WorkingAt
<1>10. Handling(d, call', Fat("fat0")', Fat("fat1")', chain) /\ Excused(d, call') = {}
  BY <1>8 DEF Handling, Excused
<1>11. Excused(D, call) = {}
  BY <1>2 DEF Excused
<1>12. Sound(Fat("fat0")', Fat("fat1")', chain, {})
  BY <1>4, <1>11 DEF ChainInv
<1>13. OnlyChain(chain, chain, f)
  BY DEF OnlyChain
<1>14. call'.pc \in {"idle", "return"} => Settle(d, chain[f], e)
  BY <1>7, <1>8
<1> QED
  BY <1>1, <1>2, <1>3, <1>4, <1>8, <1>9, <1>10, <1>12, <1>13, <1>14, RunStep

\* A call on an open file that does not touch the card yet.
LEMMA CallBegins ==
    ASSUME IInv, NEW chain \in Chains, ChainInv(chain), ready, call.pc = "idle",
           UNCHANGED blockVars, torn' = torn, NEW fd \in Fds, Fresh(fd),
           NEW d2, desc' = [desc EXCEPT ![fd] = d2], Tame(desc[fd], d2),
           call'.fd = fd, call'.pc # "open",
           NEW f \in Files, f = desc[fd].file,
           NEW chain2, OnlyChain(chain, chain2, f),
           Sound(Fat("fat0"), Fat("fat1"), chain2, Excused(d2, call')),
           call'.pc \in {"idle", "return"} => Settle(d2, chain2[f], Dir[f]),
           Working(d2, call', chain2[f], Dir[f]),
           Handling(d2, call', Fat("fat0"), Fat("fat1"), chain2)
    PROVE  ChainInv(chain2)'
<1>1. /\ ready' /\ BufferCoherent' /\ Dir' = Dir
      /\ Fat("fat0")' = Fat("fat0") /\ Fat("fat1")' = Fat("fat1")
  BY BlocksKept DEF ChainInv
<1>2. Holds(fd, d2, f)
  BY DEF Holds, Fresh, Tame
<1> QED
  BY <1>1, <1>2, RunStep

\* Nothing is under way between calls.
LEMMA IdleSound ==
    ASSUME IInv, NEW chain \in Chains, ChainInv(chain), ready, call.pc = "idle",
           NEW fd \in Fds, Fresh(fd)
    PROVE  /\ Sound(Fat("fat0"), Fat("fat1"), chain, {})
           /\ Fat("fat0") \in Tables /\ Fat("fat1") \in Tables
           /\ desc[fd] \in FileDescriptor /\ desc[fd].file \in Files
           /\ chain[desc[fd].file] \in Seq(Clusters) /\ Dir[desc[fd].file] \in DirEntry
           /\ Settle(desc[fd], chain[desc[fd].file], Dir[desc[fd].file])
           /\ Distinct(chain[desc[fd].file])
           /\ Tame(desc[fd], desc[fd])
           /\ desc' = desc => desc' = [desc EXCEPT ![fd] = desc[fd]]
<1>1. Excused(D, call) = {} /\ Quiet(fd)
  BY DEF Excused, Quiet
<1>2. Sound(Fat("fat0"), Fat("fat1"), chain, {}) /\ ChainsDisjoint(chain)
  BY <1>1 DEF ChainInv, Sound
<1>3. desc[fd].file \in Files /\ Settle(desc[fd], chain[desc[fd].file], Dir[desc[fd].file])
  BY <1>1, SettleFits
<1>4. desc[fd] \in FileDescriptor /\ desc \in [Fds -> FileDescriptor] /\ BlockOK
  BY DEF IInv, DescOK
<1>5. Fat("fat0") \in Tables /\ Fat("fat1") \in Tables /\ Dir[desc[fd].file] \in DirEntry
  BY <1>3, <1>4, FatTables
<1>6. chain[desc[fd].file] \in Seq(Clusters) /\ Distinct(chain[desc[fd].file])
  BY <1>2, <1>3, ChainFacts, ChainDistinct
<1>7. Tame(desc[fd], desc[fd]) /\ (desc' = desc => desc' = [desc EXCEPT ![fd] = desc[fd]])
  BY <1>4 DEF Tame
<1> QED
  BY <1>2, <1>3, <1>4, <1>5, <1>6, <1>7

\* fat_read, fat_write and fat_seek_end begin.
LEMMA ChainBegins ==
    ASSUME Disciplined, IInv, NEW chain \in Chains, ChainInv(chain), ready, NEW fd \in Fds,
           \/ \E op \in {"read", "write"}, len \in Lens : FatAction(fd, op, len)
           \/ FatSeekEnd(fd)
    PROVE  ChainInv(chain)'
<1>1. /\ call.pc = "idle" /\ Fresh(fd) /\ UNCHANGED blockVars /\ torn' = torn /\ desc' = desc
      /\ ~Emptied(desc[fd])
  BY DEF FatAction, FatSeekEnd, Idle, Usable, Starts, Disciplined
<1>2. PICK f \in Files : f = desc[fd].file
  BY <1>1, IdleSound
<1> DEFINE d == desc[fd]
           ch == chain[f]
           e == Dir[f]
<1>3. /\ Sound(Fat("fat0"), Fat("fat1"), chain, {})
      /\ d \in FileDescriptor /\ ch \in Seq(Clusters) /\ e \in DirEntry
      /\ Settle(d, ch, e) /\ Tame(d, d) /\ desc' = [desc EXCEPT ![fd] = d]
  BY <1>1, <1>2, IdleSound
<1>4. /\ call'.fd = fd
      /\ \/ call'.pc = "loop" /\ call'.off0 = d.abs_offset /\ call'.result = 0
         \/ call'.pc = "seek_end" /\ call'.op = "seek"
  BY DEF FatAction, FatSeekEnd, Starts, CallOf, IdleCall
<1>5. Working(d, call', ch, e)
  <2> HIDE DEF d, ch, e
  <2>1. CASE call'.pc = "loop" /\ call'.off0 = d.abs_offset /\ call'.result = 0
    <3>1. AtLoop(d, call', ch, e)
      BY <1>1, <1>3, <2>1, CallsBegin DEF d
    <3> QED
      BY <2>1, <3>1, WorkingAt
  <2>2. CASE call'.pc = "seek_end" /\ call'.op = "seek"
    <3>1. PICK c : c = [off0 |-> d.abs_offset, result |-> 0]
      OBVIOUS
    <3>2. c.off0 = d.abs_offset /\ c.result = 0
      BY <3>1
    <3>3. AtSeekEnd(d, ch, e)
      BY <1>1, <1>3, <3>2, CallsBegin DEF d
    <3> QED
      BY <2>2, <3>3, WorkingAt
  <2> QED
    BY <1>4, <2>1, <2>2
<1>6. /\ Excused(d, call') = {} /\ Handling(d, call', Fat("fat0"), Fat("fat1"), chain)
      /\ call'.pc \notin {"idle", "return"} /\ call'.pc # "open"
  BY <1>4 DEF Excused, Handling
<1>7. OnlyChain(chain, chain, f)
  BY DEF OnlyChain
<1> HIDE DEF d
<1> QED
  BY <1>1, <1>2, <1>3, <1>4, <1>5, <1>6, <1>7, CallBegins DEF d
\* fat_seek begins.
LEMMA ChainSeeks ==
    ASSUME Disciplined, IInv, NEW chain \in Chains, ChainInv(chain), ready, NEW fd \in Fds,
           NEW offset \in Offsets, FatSeek(fd, offset)
    PROVE  ChainInv(chain)'
<1>1. CASE FatSeekEnd(fd)
  BY <1>1, ChainBegins
<1>2. CASE ~FatSeekEnd(fd)
  <2>1. /\ call.pc = "idle" /\ Fresh(fd) /\ UNCHANGED blockVars /\ torn' = torn
        /\ offset <= desc[fd].size /\ ~InnerBoundary(desc[fd], offset)
    BY <1>2 DEF FatSeek, Idle, Usable, Starts, Disciplined
  <2>2. PICK f \in Files : f = desc[fd].file
    BY <2>1, IdleSound
  <2> DEFINE d == desc[fd]
             ch == chain[f]
             e == Dir[f]
             head == d.cluster_lo
             d2 == [d EXCEPT !.block_addr = FirstBlock(head),
                             !.block_in_cluster = 0, !.index_in_block = 0,
                             !.cur_cluster = head]
             d3 == [d2 EXCEPT !.next_cluster = EOC, !.abs_offset = offset]
  <2>3. /\ Sound(Fat("fat0"), Fat("fat1"), chain, {})
        /\ d \in FileDescriptor /\ ch \in Seq(Clusters) /\ e \in DirEntry
        /\ Settle(d, ch, e)
    BY <2>1, <2>2, IdleSound
  <2>4. offset \in Nat
    BY FileAssumption
  <2>5. /\ call'.fd = fd /\ call'.op = "seek" /\ call'.offset = offset
        /\ call'.pc = IF head = 0 THEN "seek" ELSE "seek_begin"
    BY <1>2, ZenonT(40) DEF FatSeek, Starts, CallOf, IdleCall
  <2>6. desc' = [desc EXCEPT ![fd] = IF head = 0 THEN d3 ELSE d2]
    BY <1>2 DEF FatSeek
  <2>7. Tame(d, d2) /\ Tame(d, d3)
    BY <2>3 DEF Tame, FileDescriptor
  <2>8. (head = 0 => AtSeek(d3, call', ch, e)) /\ (head # 0 => AtSeekBegin(d2, call', ch, e))
    <3> HIDE DEF ch, e
    <3> QED
      BY <2>1, <2>3, <2>4, <2>5, SeekStarts
  <2>9. PICK n : n = IF head = 0 THEN d3 ELSE d2
    OBVIOUS
  <2> HIDE DEF d2, d3
  <2>10. Tame(d, n) /\ desc' = [desc EXCEPT ![fd] = n]
    BY <2>6, <2>7, <2>9
  <2>11. Working(n, call', ch, e)
    BY <2>5, <2>8, <2>9, WorkingAt
  <2>12. /\ Excused(n, call') = {} /\ Handling(n, call', Fat("fat0"), Fat("fat1"), chain)
         /\ call'.pc \notin {"idle", "return"} /\ call'.pc # "open"
    BY <2>5 DEF Excused, Handling
  <2>13. OnlyChain(chain, chain, f)
    BY DEF OnlyChain
  <2> QED
    BY <2>1, <2>2, <2>3, <2>5, <2>10, <2>11, <2>12, <2>13, CallBegins
<1> QED
  BY <1>1, <1>2

\* fat_truncate begins; at the start of the file all clusters leave its chain.
LEMMA ChainTruncates ==
    ASSUME IInv, NEW chain \in Chains, ChainInv(chain), ready, NEW fd \in Fds,
           FatTruncate(fd)
    PROVE  \E chain2 \in Chains :
               /\ ChainInv(chain2)'
               /\ IF call'.pc = "free_fat0"
                  THEN /\ chain2 = Without(chain, desc[fd].file)
                       /\ Len(chain[desc[fd].file]) > 0
                       /\ call'.head = chain[desc[fd].file][1]
                  ELSE chain2 = chain
<1>1. call.pc = "idle" /\ Fresh(fd) /\ UNCHANGED blockVars /\ torn' = torn
  BY DEF FatTruncate, Idle, Usable, Starts
<1>2. PICK f \in Files : f = desc[fd].file
  BY <1>1, IdleSound
<1> DEFINE d == desc[fd]
           ch == chain[f]
           en == Dir[f]
           e == [d EXCEPT !.size = d.abs_offset, !.dir_entry_modified = TRUE]
           e0 == [e EXCEPT !.cluster_lo = 0]
           atStart == d.block_in_cluster = 0 /\ d.index_in_block = 0
<1>3. /\ Sound(Fat("fat0"), Fat("fat1"), chain, {})
      /\ Fat("fat0") \in Tables /\ Fat("fat1") \in Tables
      /\ d \in FileDescriptor /\ ch \in Seq(Clusters) /\ en \in DirEntry
      /\ Settle(d, ch, en) /\ Tame(d, d) /\ Distinct(ch)
      /\ desc' = desc => desc' = [desc EXCEPT ![fd] = d]
  BY <1>1, <1>2, IdleSound
<1>4. Tame(d, e) /\ Tame(d, e0)
  BY <1>3 DEF Tame, FileDescriptor
<1>5. call'.fd = fd /\ call'.op = "truncate" /\ OnlyChain(chain, chain, f)
  BY DEF FatTruncate, Starts, CallOf, IdleCall, OnlyChain
<1>6. d.abs_offset # d.size =>
        /\ Len(ch) > 0
        /\ atStart /\ d.cur_cluster = d.cluster_lo => d.cur_cluster = ch[1] /\ AtFree(e0, <<>>)
        /\ atStart /\ d.cur_cluster # d.cluster_lo =>
             \A c : c.head = d.cluster_lo => AtFindParent(e, c, ch)
        /\ ~atStart => \E k \in 1 .. Len(ch) : AtCut(e, ch, k) /\ e.next_cluster = NextIn(ch, k)
  <2> HIDE DEF ch, en
  <2> QED
    BY <1>3, TruncateBegins
<1> HIDE DEF e, e0
<1>7. CASE d.abs_offset = d.size
  <2>1. desc' = desc /\ call'.pc = "return"
    BY <1>7 DEF FatTruncate, Starts, CallOf, IdleCall
  <2>2. Working(d, call', ch, en)
    BY <1>5, <2>1, WorkingAt
  <2>3. /\ Excused(d, call') = {} /\ Handling(d, call', Fat("fat0"), Fat("fat1"), chain)
        /\ call'.pc # "open"
    BY <2>1 DEF Excused, Handling
  <2> HIDE DEF d
  <2>4. ChainInv(chain)'
    BY <1>1, <1>2, <1>3, <1>5, <2>1, <2>2, <2>3, CallBegins DEF d
  <2> QED
    BY <2>1, <2>4
<1>8. CASE d.abs_offset # d.size /\ atStart /\ d.cur_cluster = d.cluster_lo
  <2>1. /\ desc' = [desc EXCEPT ![fd] = e0]
        /\ call'.pc = "free_fat0" /\ call'.head = d.cur_cluster
    BY <1>8 DEF FatTruncate, Starts, CallOf, IdleCall, e, e0
  <2>2. PICK chain2 \in Chains : chain2 = Without(chain, f)
    BY <1>3, <1>6, <1>8, SoundEmptied DEF Without
  <2>3. /\ Sound(Fat("fat0"), Fat("fat1"), chain2, {})
        /\ Loose(Fat("fat0"), Fat("fat1"), chain2, d.cur_cluster, {})
        /\ Fat("fat0")[d.cur_cluster] # 0
    <3>1. PICK p0 \in Tables, q0 \in Tables : p0 = Fat("fat0") /\ q0 = Fat("fat1")
      BY <1>3
    <3>2. Sound(p0, q0, chain, {}) /\ Len(chain[f]) > 0
      BY <1>3, <1>6, <1>8, <3>1
    <3>3. LET c2 == [chain EXCEPT ![f] = <<>>]  head == chain[f][1] IN
          Sound(p0, q0, c2, {}) /\ Loose(p0, q0, c2, head, {}) /\ p0[head] # 0
      BY <3>2, SoundEmptied
    <3>4. d.cur_cluster = chain[f][1] /\ chain2 = [chain EXCEPT ![f] = <<>>]
      BY <1>6, <1>8, <2>2 DEF Without
    <3> QED
      BY <3>1, <3>3, <3>4
  <2>4. chain2[f] = <<>> /\ OnlyChain(chain, chain2, f)
    BY <2>2 DEF Without, Chains, OnlyChain
  <2>5. Working(e0, call', chain2[f], en)
    BY <1>5, <1>6, <1>8, <2>1, <2>4, WorkingAt
  <2>6. /\ Excused(e0, call') = {} /\ Handling(e0, call', Fat("fat0"), Fat("fat1"), chain2)
        /\ call'.pc \notin {"idle", "return"} /\ call'.pc # "open"
    BY <2>1, <2>3 DEF Excused, Handling
  <2>7. ChainInv(chain2)'
    BY <1>1, <1>2, <1>4, <1>5, <2>1, <2>3, <2>4, <2>5, <2>6, CallBegins
  <2> QED
    BY <1>2, <1>6, <1>8, <2>1, <2>2, <2>7
<1>9. CASE d.abs_offset # d.size /\ atStart /\ d.cur_cluster # d.cluster_lo
  <2>1. /\ desc' = [desc EXCEPT ![fd] = e]
        /\ call'.pc = "find_parent" /\ call'.head = d.cluster_lo
    BY <1>9 DEF FatTruncate, Starts, CallOf, IdleCall, e
  <2>2. AtFindParent(e, call', ch)
    BY <1>6, <1>9, <2>1
  <2>3. Working(e, call', ch, en)
    BY <1>5, <2>1, <2>2, WorkingAt
  <2>4. /\ Excused(e, call') = {} /\ Handling(e, call', Fat("fat0"), Fat("fat1"), chain)
        /\ call'.pc \notin {"idle", "return"} /\ call'.pc # "open"
    BY <2>1 DEF Excused, Handling
  <2>5. ChainInv(chain)'
    BY <1>1, <1>2, <1>3, <1>4, <1>5, <2>1, <2>3, <2>4, CallBegins
  <2> QED
    BY <2>1, <2>5
<1>10. CASE d.abs_offset # d.size /\ ~atStart
  <2>1. desc' = [desc EXCEPT ![fd] = e] /\ call'.pc = "cut_fat0"
    BY <1>10 DEF FatTruncate, Starts, CallOf, IdleCall, e
  <2>2. Working(e, call', ch, en)
    BY <1>5, <1>6, <1>10, <2>1, WorkingAt
  <2>3. /\ Excused(e, call') = {} /\ Handling(e, call', Fat("fat0"), Fat("fat1"), chain)
        /\ call'.pc \notin {"idle", "return"} /\ call'.pc # "open"
    BY <2>1 DEF Excused, Handling
  <2>4. ChainInv(chain)'
    BY <1>1, <1>2, <1>3, <1>4, <1>5, <2>1, <2>2, <2>3, CallBegins
  <2> QED
    BY <2>1, <2>4
<1> QED
  BY <1>7, <1>8, <1>9, <1>10
-----------------------------------------------------------------------------
(***************************************************************************)
(* The invariant holds in every reachable state.                           *)
(***************************************************************************)
\* Some chains explain the state.
ChainsExist == \E chain \in Chains : ChainInv(chain)

\* On a formatted volume no cluster is allocated.
LEMMA InitFat ==
    ASSUME Init, NEW copy \in {"fat0", "fat1"}, NEW c \in Entries
    PROVE  Fat(copy)[c] = IF c < 2 THEN EOC ELSE 0
<1>1. Volume = FormattedVolume
  BY DEF Init, Volume
<1>2. SectorOf(c) \in Sectors /\ c \in SectorEntries(SectorOf(c))
  BY FatAreas
<1>3. FatBlock(copy, SectorOf(c)) \in FatBlocks /\ FatBlock(copy, SectorOf(c)) \in VolumeBlocks
  BY <1>2 DEF FatBlocks, VolumeBlocks
<1>4. Volume[FatBlock(copy, SectorOf(c))] = EmptySector(SectorOf(c))
  BY <1>1, <1>3 DEF FormattedVolume, FatBlock
<1> QED
  BY <1>2, <1>4 DEF Fat, FatEntry, EmptySector

\* On a formatted volume every chain is empty.
LEMMA InitChains == ASSUME Init PROVE ChainsExist
<1> DEFINE chain == [f \in Files |-> <<>>]
<1>1. chain \in Chains /\ \A f \in Files : chain[f] = <<>> /\ Len(chain[f]) = 0
  BY DEF Chains
<1>2. /\ Volume = FormattedVolume /\ ~ready /\ call = IdleCall
      /\ desc = [fd \in Fds |-> FreeDesc]
  BY DEF Init, Volume
<1>3. ASSUME NEW copy \in {"fat0", "fat1"}, NEW c \in Entries
      PROVE  Fat(copy)[c] = IF c < 2 THEN EOC ELSE 0
  BY InitFat
<1>4. \A f \in Files : Dir[f] = [cluster_lo |-> 0, size |-> 0]
  <2>1. DirBlock \in VolumeBlocks /\ DirBlock \notin FatBlocks
    BY DEF DirBlock, VolumeBlocks, FatBlocks, FatBlock
  <2> QED
    BY <1>2, <2>1 DEF Dir, FormattedVolume
<1> HIDE DEF chain
<1>5. LinksSound(Fat("fat0"), Fat("fat1"))
  <2>1. \A c \in Entries : Fat("fat0")[c] \notin Clusters /\ Fat("fat1")[c] \notin Clusters
    BY <1>3, ClusterFacts
  <2>2. \A b \in Entries, k \in Clusters : ~Linked(Fat("fat0"), Fat("fat1"), b, k)
    BY <2>1 DEF Linked
  <2>3. \A c \in Entries : Fat("fat0")[c] \in {0, EOC} /\ Fat("fat1")[c] \in {0, EOC}
    BY <1>3
  <2>4. \A c \in {0, 1} : Fat("fat0")[c] = EOC /\ Fat("fat1")[c] = EOC
    BY <1>3, ClusterFacts
  <2> QED
    BY <2>2, <2>3, <2>4 DEF LinksSound
<1>6. Sound(Fat("fat0"), Fat("fat1"), chain, {})
  <2>1. ChainsDisjoint(chain) /\ ChainsLinked(Fat("fat0"), Fat("fat1"), chain, {})
        /\ HeadsFree(Fat("fat0"), Fat("fat1"), chain)
    BY <1>1 DEF ChainsDisjoint, ChainsLinked, HeadsFree
  <2> QED
    BY <1>5, <2>1 DEF Sound
<1>7. DirSound(chain)
  BY <1>1, <1>4 DEF DirSound, EntryFits
<1>8. Alone
  BY <1>2 DEF Alone, Fresh, FreeDesc
<1>9. BufferCoherent /\ Always /\ Excused(D, call) = {}
  BY <1>2, CallOfFields DEF BufferCoherent, Always, Excused, MidWrite
<1> QED
  BY <1>1, <1>2, <1>6, <1>7, <1>8, <1>9 DEF ChainInv, ChainsExist

\* The steps of the program on a card that answers.
LEMMA ReadyCalls ==
    ASSUME Disciplined, IInv, NEW chain \in Chains, ChainInv(chain), ready, ProgramCalls
    PROVE  ChainsExist'
<1>1. \A c \in Chains : ChainInv(c)' => ChainsExist'
  BY DEF ChainsExist
<1>2. ASSUME NEW f \in Files, FatOpenFile(f) \/ FatOpenFileFails(f) PROVE ChainsExist'
  BY <1>1, <1>2, ChainOpens, ChainOpenFails
<1>3. ASSUME NEW fd \in Fds, FatClose(fd) \/ FatRefuses(fd) PROVE ChainsExist'
  BY <1>1, <1>3, ChainClose, ChainRefuses
<1>4. ASSUME NEW fd \in Fds,
             \/ \E op \in {"read", "write"}, len \in Lens : FatAction(fd, op, len)
             \/ FatSeekEnd(fd)
      PROVE  ChainsExist'
  BY <1>1, <1>4, ChainBegins
<1>5. ASSUME NEW fd \in Fds, NEW offset \in Offsets, FatSeek(fd, offset) PROVE ChainsExist'
  BY <1>1, <1>5, ChainSeeks
<1>6. ASSUME NEW fd \in Fds, FatTruncate(fd) PROVE ChainsExist'
  BY <1>1, <1>6, ChainTruncates
<1>7. ASSUME FatMount PROVE ChainsExist'
  BY <1>1, <1>7, ChainMount
<1> QED
  BY <1>2, <1>3, <1>4, <1>5, <1>6, <1>7 DEF ProgramCalls

\* The steps of a running call on a card that answers.
LEMMA ReadyCallSteps ==
    ASSUME Disciplined, IInv, NEW chain \in Chains, ChainInv(chain), ready, CallStep
    PROVE  ChainsExist'
<1>1. \A c \in Chains : ChainInv(c)' => ChainsExist'
  BY DEF ChainsExist
<1>2. CASE OpenReadsFat \/ AdvanceReadsFat \/ SeekBeginReadsFat \/ SeekFollows \/ SeekEndFollows
  BY <1>1, <1>2, ChainOpenReads, ChainAdvances, ChainSeekBegins, ChainSeekFollows
<1>3. CASE ActionDone \/ ActionAllocates \/ ActionAtEnd \/ ActionMoves \/ ActionFails
  BY <1>1, <1>3, ChainLoopThinks, ChainMoves, ChainMoveFails
<1>4. CASE AllocMarks \/ AllocFindsNothing \/ AllocMirrors \/ ParentLinks \/ ParentMirrors
  BY <1>1, <1>4, ChainMarks, ChainFindsNothing, ChainMirrors, ChainParentLinks, ChainParentMirrors
<1>5. CASE FindParent \/ CutNothing \/ CutFat0 \/ CutFat1
  BY <1>1, <1>5, ChainFindsParent, ChainPlaces, ChainCuts, ChainCutsTwice
<1>6. CASE FreeFat0 \/ FreeFat1 \/ FreeDone \/ SeekDone \/ SeekEndDone \/ Returned
  BY <1>1, <1>6, ChainFrees, ChainFreesTwice, ChainPlaces, ChainReturned
<1> QED
  BY <1>2, <1>3, <1>4, <1>5, <1>6 DEF CallStep

\* A step that changes nothing.
LEMMA ChainStutters ==
    ASSUME NEW chain, ChainInv(chain), UNCHANGED vars
    PROVE  ChainInv(chain)'
BY DEF vars, blockVars, ChainInv, Volume, Fat, Dir, DirSound, Unsaved, OpenFiles, Fresh, Alone,
       BufferCoherent, Always, DescsSound, CallSound, Quiet, D

\* Every step of every call, every error of the card, every remount and every
\* reset leaves chains that explain the state.
LEMMA ChainsNext == ASSUME Disciplined, IInv, ChainsExist, [Next]_vars PROVE ChainsExist'
<1>1. PICK chain \in Chains : ChainInv(chain)
  BY DEF ChainsExist
<1>2. \A c \in Chains : ChainInv(c)' => ChainsExist'
  BY DEF ChainsExist
<1>3. CASE FatInit
  BY <1>1, <1>2, <1>3, ChainReset
<1>4. CASE ready /\ (ProgramCalls \/ CallStep)
  BY <1>1, <1>4, ReadyCalls, ReadyCallSteps
<1>5. CASE ~ready /\ (ProgramCalls \/ CallStep)
  BY <1>1, <1>2, <1>5, OffSteps
<1>6. CASE UNCHANGED vars
  BY <1>1, <1>2, <1>6, ChainStutters
<1> QED
  BY <1>3, <1>4, <1>5, <1>6 DEF Next

\* In every state that the library reaches, through card errors, remounts and
\* resets, the FAT, the directory and the descriptors fit together.
THEOREM ChainsAlways == ASSUME Disciplined PROVE Spec => []ChainsExist
<1>1. Init => ChainsExist
  BY InitChains
<1>2. IInv /\ ChainsExist /\ [Next]_vars => ChainsExist'
  BY ChainsNext
<1> QED
  BY <1>1, <1>2, SpecIInv, PTL DEF Spec
-----------------------------------------------------------------------------
(***************************************************************************)
(* What the chains say about the volume.                                   *)
(***************************************************************************)
\* A chain of distinct clusters is shorter than the FAT.
LEMMA ChainShort ==
    ASSUME NEW ch \in Seq(Clusters), Distinct(ch)
    PROVE  /\ Len(ch) \in Nat /\ Len(ch) < EOC
           /\ Cardinality({ch[k] : k \in 1 .. Len(ch)}) = Len(ch)
<1> DEFINE L == Len(ch)
           S == {ch[k] : k \in 1 .. L}
<1>1. L \in Nat /\ ch \in [1 .. L -> Clusters] /\ EOC \in Nat /\ EOC >= 2
  BY EocFacts
<1>2. ch \in Surjection(1 .. L, S) /\ ch \in Injection(1 .. L, S)
  BY <1>1 DEF Surjection, Injection, Distinct, IsInjective
<1>3. ExistsBijection(1 .. L, S)
  BY <1>2 DEF ExistsBijection, Bijection
<1>4. Cardinality(S) = L
  BY <1>1, <1>3, FS_CountingElements
<1>5. S \subseteq 2 .. EOC - 1
  BY <1>1 DEF Clusters
<1>6. IsFiniteSet(2 .. EOC - 1) /\ Cardinality(2 .. EOC - 1) <= EOC - 1
  <2>1. 2 \in Int /\ EOC - 1 \in Int
    BY <1>1
  <2>2. /\ IsFiniteSet(2 .. (EOC - 1))
        /\ Cardinality(2 .. (EOC - 1)) = IF 2 > (EOC - 1) THEN 0 ELSE (EOC - 1) - 2 + 1
    BY <2>1, FS_Interval
  <2> QED
    BY <1>1, <2>2
<1>7. Cardinality(S) <= Cardinality(2 .. EOC - 1) /\ Cardinality(2 .. EOC - 1) \in Nat
  BY <1>5, <1>6, FS_Subset, FS_CardinalityType
<1>8. L < EOC
  <2> DEFINE n == Cardinality(2 .. EOC - 1)
  <2>1. L <= n /\ n <= EOC - 1 /\ n \in Nat
    BY <1>4, <1>6, <1>7
  <2> HIDE DEF n, L
  <2> QED
    BY <1>1, <2>1
<1> QED
  BY <1>1, <1>4, <1>8

\* The elements of a chain as ChainFrom counts them.
Element(ch, k) == IF k < Len(ch) THEN ch[k + 1] ELSE IF Len(ch) = 0 THEN 0 ELSE EOC

\* The recursion of ChainFrom, walked along a chain.
LEMMA ChainWalk ==
    ASSUME NEW v, NEW ch \in Seq(Clusters), NEW head,
           head = IF Len(ch) = 0 THEN 0 ELSE ch[1],
           \A k \in 1 .. Len(ch) : FatEntry(v, "fat0", ch[k]) = NextIn(ch, k)
    PROVE  \A k \in 0 .. EOC : ChainFrom(v, head)[k] = Element(ch, k)
<1> DEFINE Body(g) == [k \in 0 .. EOC |->
                         IF k = 0 THEN head
                         ELSE IF g[k - 1] \in Clusters THEN FatEntry(v, "fat0", g[k - 1])
                         ELSE g[k - 1]]
           g0 == [k \in 0 .. EOC |-> Element(ch, k)]
           nth == ChainFrom(v, head)
<1>0. EOC \in Nat /\ Len(ch) \in Nat
  BY EocFacts
<1>1. nth = CHOOSE h : h = Body(h)
  BY DEF ChainFrom
<1>2. ASSUME NEW k \in 0 .. EOC, k # 0
      PROVE  Element(ch, k) = IF Element(ch, k - 1) \in Clusters
                              THEN FatEntry(v, "fat0", Element(ch, k - 1))
                              ELSE Element(ch, k - 1)
  <2>1. CASE k - 1 < Len(ch)
    <3>1. k \in 1 .. Len(ch) /\ Element(ch, k - 1) = ch[k]
      BY <1>0, <1>2, <2>1 DEF Element
    <3>2. ch[k] \in Clusters /\ FatEntry(v, "fat0", ch[k]) = NextIn(ch, k)
      BY <3>1
    <3>3. Element(ch, k) = NextIn(ch, k)
      BY <1>0, <3>1 DEF Element, NextIn
    <3> QED
      BY <3>1, <3>2, <3>3
  <2>2. CASE ~(k - 1 < Len(ch))
    <3>1. ~(k < Len(ch))
      BY <1>0, <1>2, <2>2
    <3> QED
      BY <2>2, <3>1, ClusterFacts DEF Element
  <2> QED
    BY <2>1, <2>2
<1>3. Element(ch, 0) = head
  BY <1>0 DEF Element
<1>4. g0 = Body(g0)
  <2>1. ASSUME NEW k \in 0 .. EOC PROVE g0[k] = Body(g0)[k]
    <3>1. CASE k = 0
      BY <1>3, <3>1
    <3>2. CASE k # 0
      <4>1. k - 1 \in 0 .. EOC
        BY <1>0, <3>2
      <4>2. g0[k] = Element(ch, k) /\ g0[k - 1] = Element(ch, k - 1)
        BY <4>1
      <4> QED
        BY <1>2, <3>2, <4>2
    <3> QED
      BY <3>1, <3>2
  <2> QED
    BY <2>1
<1>5. nth = Body(nth)
  <2>1. \E h : h = Body(h)
    BY <1>4
  <2> HIDE DEF Body, nth
  <2> QED
    BY <1>1, <2>1
<1> HIDE DEF nth
<1>6. nth[0] = head /\ \A k \in 0 .. EOC : k # 0 =>
        nth[k] = IF nth[k - 1] \in Clusters THEN FatEntry(v, "fat0", nth[k - 1]) ELSE nth[k - 1]
  BY <1>0, <1>5
<1>7. \A k \in 0 .. EOC : nth[k] = Element(ch, k)
  <2> DEFINE W == {k \in 0 .. EOC : nth[k] # Element(ch, k)}
  <2>1. SUFFICES ASSUME W # {} PROVE FALSE
    OBVIOUS
  <2>2. W \subseteq Nat
    OBVIOUS
  <2>3. PICK m \in W : \A y \in W : m <= y
    <3> HIDE DEF W
    <3> QED
      BY <2>1, <2>2, MinExists
  <2>4. m # 0
    BY <1>3, <1>6
  <2>5. m - 1 \in 0 .. EOC /\ m - 1 \notin W /\ m \in 0 .. EOC
    BY <1>0, <2>3, <2>4
  <2>6. nth[m - 1] = Element(ch, m - 1)
    BY <2>5
  <2>7. nth[m] = Element(ch, m)
    BY <1>2, <1>6, <2>4, <2>5, <2>6
  <2> QED
    BY <2>3, <2>7
<1> QED
  BY <1>7 DEF nth
\* A chain is what ChainFrom reads on the card.
LEMMA ChainOnVolume ==
    ASSUME BlockOK, NEW chain \in Chains, NEW exc,
           Sound(Fat("fat0"), Fat("fat1"), chain, exc), NEW f \in Files, NEW head,
           head = IF Len(chain[f]) = 0 THEN 0 ELSE chain[f][1]
    PROVE  LET ch == chain[f] IN
           /\ Len(ch) \in Nat /\ Len(ch) < EOC
           /\ \A k \in 0 .. EOC : ChainFrom(Volume, head)[k] = Element(ch, k)
           /\ ChainClusters(Volume, head) = {ch[k] : k \in 1 .. Len(ch)}
           /\ Cardinality(ChainClusters(Volume, head)) = Len(ch)
           /\ Len(ch) > 0 => head \in Clusters /\ ProperChain(Volume, head)
<1> DEFINE ch == chain[f]
<1>1. ch \in Seq(Clusters) /\ Distinct(ch) /\ EOC \in Nat
  BY ChainFacts, ChainDistinct, EocFacts DEF Sound
<1>2. /\ Len(ch) \in Nat /\ Len(ch) < EOC
      /\ Cardinality({ch[k] : k \in 1 .. Len(ch)}) = Len(ch)
  <2> HIDE DEF ch
  <2> QED
    BY <1>1, ChainShort
<1>3. \A k \in 1 .. Len(ch) : FatEntry(Volume, "fat0", ch[k]) = NextIn(ch, k)
  <2>1. ASSUME NEW k \in 1 .. Len(ch) PROVE FatEntry(Volume, "fat0", ch[k]) = NextIn(ch, k)
    <3>1. Fat("fat0")[ch[k]] = NextIn(ch, k) /\ ch[k] \in Entries
      BY ChainFacts DEF Sound, ChainsLinked
    <3> QED
      BY <3>1 DEF Fat
  <2> QED
    BY <2>1
<1>a. Len(ch) \in Nat /\ Len(ch) < EOC /\ EOC \in Nat /\ ch \in Seq(Clusters)
  BY <1>1, <1>2
<1>b. head = IF Len(ch) = 0 THEN 0 ELSE ch[1]
  OBVIOUS
<1> HIDE DEF ch
<1>4. \A k \in 0 .. EOC : ChainFrom(Volume, head)[k] = Element(ch, k)
  BY <1>1, <1>3, <1>b, ChainWalk
<1>5. ChainClusters(Volume, head) = {ch[k] : k \in 1 .. Len(ch)}
  <2>1. ASSUME NEW k \in 1 .. Len(ch) PROVE ch[k] \in ChainClusters(Volume, head)
    <3>1. k - 1 \in 0 .. EOC /\ Element(ch, k - 1) = ch[k] /\ ch[k] \in Clusters
      BY <1>a DEF Element
    <3> QED
      BY <1>4, <3>1 DEF ChainClusters
  <2>2. ASSUME NEW c \in ChainClusters(Volume, head) PROVE \E k \in 1 .. Len(ch) : c = ch[k]
    <3>1. PICK j \in 0 .. EOC : c = ChainFrom(Volume, head)[j]
      BY DEF ChainClusters
    <3>2. c = Element(ch, j) /\ c \in Clusters
      BY <1>4, <3>1 DEF ChainClusters
    <3>3. j < Len(ch) /\ c = ch[j + 1]
      BY <3>2, ClusterFacts DEF Element
    <3>4. j + 1 \in 1 .. Len(ch)
      BY <1>a, <3>3
    <3> QED
      BY <3>3, <3>4
  <2> QED
    BY <2>1, <2>2
<1>6. ASSUME Len(ch) > 0 PROVE head \in Clusters /\ ProperChain(Volume, head)
  <2>1. head = ch[1] /\ head \in Clusters
    BY <1>a, <1>b, <1>6
  <2>2. EOC \in 0 .. EOC /\ Element(ch, EOC) = EOC
    BY <1>a, <1>6 DEF Element
  <2> QED
    BY <1>4, <2>1, <2>2 DEF ProperChain
<1> QED
  BY <1>2, <1>4, <1>5, <1>6 DEF ch

\* The number of clusters that a size needs.
LEMMA ClustersNeeded ==
    ASSUME NEW L \in Nat, L > 0, NEW r \in Nat, r > 0, r <= BytesPerCluster,
           NEW size, size = Base(L) + r
    PROVE  ClustersFor(size) = L /\ ((size - 1) % BytesPerCluster) + 1 = r /\ size # 0
<1>1. BytesPerCluster \in Nat /\ BytesPerCluster > 0 /\ Base(L) \in Nat
  BY Geometry
<1>2. PICK B \in Nat : B = BytesPerCluster
  BY <1>1
<1>3. r - 1 \in Nat /\ r - 1 < B /\ L - 1 \in Nat /\ B > 0
  BY <1>1, <1>2
<1>4. Base(L) = (L - 1) * B /\ Base(L) + B = L * B
  <2>1. Base(L) = (L - 1) * B /\ Base(L + 1) = L * B
    BY <1>2 DEF Base
  <2>2. Base(L + 1) = Base(L) + B
    BY <1>2, Geometry
  <2> QED
    BY <2>1, <2>2
<1>5. size + B - 1 = L * B + (r - 1) /\ size - 1 = (L - 1) * B + (r - 1)
  <2>1. size + B - 1 = (Base(L) + B) + (r - 1) /\ size - 1 = Base(L) + (r - 1)
    BY <1>1, <1>2
  <2> QED
    BY <1>4, <2>1
<1>6. (size + B - 1) \div B = L
  <2>1. PICK a \in Int, t \in Nat : a = size + B - 1 /\ t = r - 1
    BY <1>1, <1>2, <1>3
  <2>2. a = L * B + t /\ t < B
    BY <1>3, <1>5, <2>1
  <2>3. a \div B = L
    BY <1>3, <2>2, Division
  <2> QED
    BY <2>1, <2>3
<1>7. (size - 1) % B = r - 1
  <2>1. PICK a \in Int, t \in Nat, x \in Nat : a = size - 1 /\ t = r - 1 /\ x = L - 1
    BY <1>1, <1>3
  <2>2. a = x * B + t /\ t < B
    BY <1>3, <1>5, <2>1
  <2>3. a % B = t
    BY <1>3, <2>2, Division
  <2> QED
    BY <2>1, <2>3
<1>8. ((size - 1) % B) + 1 = r /\ size # 0
  BY <1>1, <1>7
<1> QED
  BY <1>2, <1>6, <1>8 DEF ClustersFor

\* An entry that fits its chain agrees with the FAT on the card.
LEMMA FitsConsistent ==
    ASSUME BlockOK, NEW chain \in Chains, NEW exc,
           Sound(Fat("fat0"), Fat("fat1"), chain, exc), NEW f \in Files,
           NEW e, e.size \in Nat, EntryFits(e, chain[f])
    PROVE  /\ EntryConsistent(Volume, e)
           /\ e.cluster_lo = IF Len(chain[f]) = 0 THEN 0 ELSE chain[f][1]
<1> DEFINE ch == chain[f]
           head == e.cluster_lo
<1>1. head = IF Len(ch) = 0 THEN 0 ELSE ch[1]
  BY DEF EntryFits
<1>2. /\ Len(ch) \in Nat
      /\ Cardinality(ChainClusters(Volume, head)) = Len(ch)
      /\ Len(ch) > 0 => head \in Clusters /\ ProperChain(Volume, head)
  BY <1>1, ChainOnVolume
<1>3. CASE Len(ch) = 0
  BY <1>3 DEF EntryFits, EntryConsistent
<1>4. CASE Len(ch) > 0
  <2>1. PICK L \in Nat : L = Len(ch)
    BY <1>2
  <2>2. Base(L) < e.size /\ e.size <= Base(L + 1)
    BY <1>4, <2>1 DEF EntryFits
  <2>3. /\ Base(L) \in Nat /\ Base(L + 1) = Base(L) + BytesPerCluster /\ BytesPerCluster \in Nat
    BY <1>4, <2>1, Geometry
  <2>4. PICK r \in Nat : r = e.size - Base(L)
    BY <2>2, <2>3
  <2>5. r > 0 /\ r <= BytesPerCluster /\ e.size = Base(L) + r
    BY <2>2, <2>3, <2>4
  <2>6. ClustersFor(e.size) = L /\ e.size # 0
    BY <1>4, <2>1, <2>5, ClustersNeeded
  <2> QED
    BY <1>1, <1>2, <1>4, <2>1, <2>6 DEF EntryConsistent
<1> QED
  BY <1>2, <1>3, <1>4

-----------------------------------------------------------------------------
(***************************************************************************)
(* What the properties of the file layer say follows from the chains.      *)
(***************************************************************************)

\* The first copy of the FAT is a set of chains.
LEMMA LinksOfSound ==
    ASSUME NEW p \in Tables, NEW q \in Tables, LinksSound(p, q)
    PROVE  /\ \A c \in Clusters : p[c] \in Clusters => p[p[c]] # 0
           /\ \A b, c \in Clusters : b # c /\ p[b] = p[c] => p[b] \notin Clusters
BY ClusterFacts DEF LinksSound, Linked

\* At every instant, through every card error and reset, no FAT entry links to a
\* free cluster and no two entries to the same: the order of the writes of
\* alloc_cluster, write_fat_entry and fat_truncate keeps the FAT a set of chains.
THEOREM LinksAlwaysSound == ASSUME Disciplined PROVE Spec => []FatLinksSound
<1>1. IInv /\ ChainsExist => FatLinksSound
  <2> SUFFICES ASSUME IInv, NEW chain \in Chains, ChainInv(chain)
               PROVE  FatLinksSound
    BY DEF ChainsExist
  <2>2. Fat("fat0") \in Tables /\ Fat("fat1") \in Tables
    BY FatTables DEF IInv
  <2>3. LinksSound(Fat("fat0"), Fat("fat1"))
    BY DEF ChainInv, Sound
  <2>4. \A c \in Clusters : FatEntry(Volume, "fat0", c) = Fat("fat0")[c]
    BY ClusterFacts DEF Fat
  <2>5. PICK p0 \in Tables, q0 \in Tables : p0 = Fat("fat0") /\ q0 = Fat("fat1")
    BY <2>2
  <2>6. /\ \A c \in Clusters : p0[c] \in Clusters => p0[p0[c]] # 0
        /\ \A b, c \in Clusters : b # c /\ p0[b] = p0[c] => p0[b] \notin Clusters
    BY <2>3, <2>5, LinksOfSound
  <2> QED
    BY <2>4, <2>5, <2>6 DEF FatLinksSound
<1> QED
  BY <1>1, ChainsAlways, SpecIInv, PTL

\* A file whose entry fits its chain uses exactly the clusters of the chain.
LEMMA FitsClusters ==
    ASSUME BlockOK, NEW chain \in Chains, NEW exc,
           Sound(Fat("fat0"), Fat("fat1"), chain, exc), NEW f \in Files,
           NEW e \in DirEntry, EntryFits(e, chain[f])
    PROVE  ChainClusters(Volume, e.cluster_lo) = {chain[f][k] : k \in 1 .. Len(chain[f])}
<1>1. e.size \in Nat
  BY DEF DirEntry
<1>2. PICK head : head = e.cluster_lo
  OBVIOUS
<1>3. head = IF Len(chain[f]) = 0 THEN 0 ELSE chain[f][1]
  BY <1>1, <1>2, FitsConsistent
<1>4. ChainClusters(Volume, head) = {chain[f][k] : k \in 1 .. Len(chain[f])}
  BY <1>3, ChainOnVolume, Zenon
<1> QED
  BY <1>2, <1>4

\* At every instant the directory entry and the chain of a file that nobody is
\* changing and no fault caught half changed agree, and no two such files share a
\* cluster: a card error or a reset during the update of one file, wherever it
\* comes between the writes, never damages another.
THEOREM SettledAlwaysIntact == ASSUME Disciplined PROVE Spec => []SettledFilesIntact
<1>1. IInv /\ ChainsExist => SettledFilesIntact
  <2> SUFFICES ASSUME IInv, NEW chain \in Chains, ChainInv(chain)
               PROVE  SettledFilesIntact
    BY DEF ChainsExist
  <2>1. PICK exc : Sound(Fat("fat0"), Fat("fat1"), chain, exc)
    BY DEF ChainInv
  <2>2. BlockOK /\ ChainsDisjoint(chain)
    BY <2>1 DEF IInv, Sound
  <2>3. ASSUME NEW f \in Settled
        PROVE  /\ f \in Files /\ Dir[f] \in DirEntry /\ EntryFits(Dir[f], chain[f])
               /\ EntryConsistent(Volume, Dir[f])
               /\ ChainClusters(Volume, Dir[f].cluster_lo)
                    = {chain[f][k] : k \in 1 .. Len(chain[f])}
    <3>1. f \in Files /\ EntryFits(Dir[f], chain[f])
      BY SettledFits DEF Settled
    <3>2. PICK e \in DirEntry : e = Dir[f]
      BY <2>2, <3>1, FatTables
    <3>3. e.size \in Nat
      BY DEF DirEntry
    <3>4. EntryConsistent(Volume, e)
      BY <2>1, <2>2, <3>1, <3>2, <3>3, FitsConsistent
    <3>5. ChainClusters(Volume, e.cluster_lo) = {chain[f][k] : k \in 1 .. Len(chain[f])}
      BY <2>1, <2>2, <3>1, <3>2, FitsClusters
    <3> QED
      BY <3>1, <3>2, <3>4, <3>5
  <2>4. ASSUME NEW f \in Settled, NEW g \in Settled \ {f}
        PROVE  ChainClusters(Volume, Dir[f].cluster_lo)
                 \cap ChainClusters(Volume, Dir[g].cluster_lo) = {}
    <3>1. f \in Files /\ g \in Files /\ f # g
      BY <2>3
    <3>2. {chain[f][k] : k \in 1 .. Len(chain[f])} \cap {chain[g][k] : k \in 1 .. Len(chain[g])} = {}
      BY <2>2, <3>1 DEF ChainsDisjoint
    <3> QED
      BY <2>3, <3>2
  <2> QED
    BY <2>3, <2>4 DEF SettledFilesIntact, Dir
<1> QED
  BY <1>1, ChainsAlways, SpecIInv, PTL

\* The offset of a cursor in the k-th cluster, split into cluster, block and byte.
LEMMA OffsetSplits ==
    ASSUME NEW d \in FileDescriptor, NEW ch, NEW k \in Nat, k > 0, Standing(d, ch, k)
    PROVE  /\ d.block_in_cluster < SectorsPerCluster =>
                /\ ClusterIndex(d) = k - 1
                /\ ClusterOffset(d) \div BlockSize = d.block_in_cluster
                /\ ClusterOffset(d) % BlockSize = d.index_in_block
           /\ d.block_in_cluster >= SectorsPerCluster =>
                /\ ClusterIndex(d) = k /\ ClusterOffset(d) = 0
                /\ d.block_in_cluster = SectorsPerCluster /\ d.index_in_block = 0
<1>1. /\ BlockSize \in Nat /\ BlockSize > 0 /\ SectorsPerCluster \in Nat
      /\ BytesPerCluster \in Nat /\ BytesPerCluster > 0
      /\ Span(SectorsPerCluster) = BytesPerCluster
  BY Geometry
<1>2. PICK b \in Nat, i \in Nat, a \in Nat :
        b = d.block_in_cluster /\ i = d.index_in_block /\ a = d.abs_offset
  BY DescFields
<1>3. /\ b <= SectorsPerCluster /\ i < BlockSize /\ a = Base(k) + Span(b) + i
      /\ b = SectorsPerCluster => i = 0
  BY <1>2 DEF Standing, Placed
<1>4. Base(k) = (k - 1) * BytesPerCluster /\ Base(k + 1) = Base(k) + BytesPerCluster
  BY <1>1, Geometry DEF Base
<1>8. PICK C \in Nat, B \in Nat : C = BytesPerCluster /\ B = BlockSize /\ C > 0 /\ B > 0
  BY <1>1
<1>5. ASSUME b < SectorsPerCluster
      PROVE  /\ a \div BytesPerCluster = k - 1
             /\ (a % BytesPerCluster) \div BlockSize = b
             /\ (a % BytesPerCluster) % BlockSize = i
  <2>1. Span(b) \in Nat /\ Span(b) + BlockSize <= BytesPerCluster
    BY <1>5, Geometry
  <2>2. PICK t \in Nat, x \in Nat : t = Span(b) + i /\ x = k - 1
    BY <2>1
  <2>3. t < C /\ a = x * C + t
    BY <1>1, <1>3, <1>4, <1>8, <2>1, <2>2
  <2>4. a \div C = x /\ a % C = t
    BY <1>8, <2>3, Division
  <2>5. t = b * B + i /\ i < B
    BY <1>3, <1>8, <2>2 DEF Span
  <2>6. t \div B = b /\ t % B = i
    BY <1>8, <2>5, Division
  <2> QED
    BY <1>8, <2>2, <2>4, <2>6
<1>6. ASSUME b >= SectorsPerCluster
      PROVE  a \div BytesPerCluster = k /\ a % BytesPerCluster = 0 /\ i = 0
  <2>1. b = SectorsPerCluster /\ i = 0
    BY <1>1, <1>3, <1>6
  <2>2. Base(k) \in Nat /\ Base(k + 1) = k * BytesPerCluster
    BY <1>1, Geometry DEF Base
  <2>3. PICK t \in Nat : t = 0
    OBVIOUS
  <2>4. a = k * C + t /\ t < C
    BY <1>1, <1>3, <1>4, <1>8, <2>1, <2>2, <2>3
  <2>5. a \div C = k /\ a % C = t
    BY <1>8, <2>4, Division
  <2> QED
    BY <1>8, <2>1, <2>3, <2>5
<1>7. b >= SectorsPerCluster => b = SectorsPerCluster
  BY <1>1, <1>3
<1> QED
  BY <1>2, <1>5, <1>6, <1>7 DEF ClusterIndex, ClusterOffset

\* The chain on the card, from the first cluster in the descriptor.
LEMMA ChainOfDesc ==
    ASSUME BlockOK, NEW chain \in Chains, NEW exc,
           Sound(Fat("fat0"), Fat("fat1"), chain, exc), NEW f \in Files,
           NEW d, Extent(d, chain[f]), NEW k \in 1 .. Len(chain[f])
    PROVE  /\ ChainOf(d)[k - 1] = chain[f][k] /\ chain[f][k] \in Clusters
           /\ FatEntry(Volume, "fat0", chain[f][k]) = NextIn(chain[f], k)
<1> DEFINE ch == chain[f]
<1>1. ch \in Seq(Clusters) /\ Len(ch) \in Nat /\ ch[k] \in Clusters /\ ch[k] \in Entries
  BY ChainFacts
<1>2. Len(ch) # 0
  BY <1>1
<1>3. PICK head : head = d.cluster_lo
  OBVIOUS
<1>4. head = IF Len(chain[f]) = 0 THEN 0 ELSE chain[f][1]
  BY <1>2, <1>3 DEF Extent
<1>5. Len(ch) < EOC /\ \A j \in 0 .. EOC : ChainFrom(Volume, head)[j] = Element(ch, j)
  BY <1>4, ChainOnVolume, SMTT(40)
<1>6. k - 1 \in 0 .. EOC /\ Element(ch, k - 1) = ch[k]
  BY <1>1, <1>5, EocFacts DEF Element
<1>7. ChainOf(d)[k - 1] = ch[k]
  BY <1>3, <1>5, <1>6 DEF ChainOf
<1>8. Fat("fat0")[ch[k]] = NextIn(ch, k)
  BY DEF Sound, ChainsLinked
<1> QED
  BY <1>1, <1>7, <1>8 DEF Fat

\* Between calls, while the card answers, the cached cluster, link, block and
\* index of every descriptor agree with its absolute offset and with the FAT on
\* the card, after any sequence of fat_read, fat_write, fat_seek, fat_seek_end and
\* fat_truncate on any descriptors.
THEOREM CursorAlwaysMatches == ASSUME Disciplined PROVE Spec => []CursorMatchesOffset
<1>1. IInv /\ ChainsExist => CursorMatchesOffset
  <2> SUFFICES ASSUME IInv, NEW chain \in Chains, ChainInv(chain), ready, Idle,
                      NEW fd \in Fds, Fresh(fd)
               PROVE  LET d == desc[fd] IN
                      /\ d.abs_offset <= d.size
                      /\ d.cluster_lo = 0 => CursorInEmpty(d)
                      /\ d.cluster_lo # 0 =>
                          /\ d.cur_cluster \in Clusters
                          /\ d.next_cluster = FatEntry(Volume, "fat0", d.cur_cluster)
                          /\ CursorInside(d) \/ CursorAfterLast(d)
    BY DEF ChainsExist, CursorMatchesOffset
  <2>1. PICK d \in FileDescriptor, f \in Files : d = desc[fd] /\ f = desc[fd].file
    BY IdleSound DEF Idle
  <2>2. /\ Sound(Fat("fat0"), Fat("fat1"), chain, {}) /\ BlockOK
        /\ chain[f] \in Seq(Clusters)
    BY <2>1, IdleSound DEF Idle, IInv
  <2>3. Settle(d, chain[f], Dir[f])
    BY <2>1, IdleSound DEF Idle
  <2>4. /\ Extent(d, chain[f]) /\ d.abs_offset <= d.size
        /\ IF Len(chain[f]) = 0 THEN CursorEmpty(d)
           ELSE \E k \in 1 .. Len(chain[f]) : Cursor(d, chain[f], k)
    BY <2>3 DEF Settle, Sane
  <2>5. CASE Len(chain[f]) = 0
    BY <2>1, <2>4, <2>5 DEF Extent, CursorEmpty, CursorInEmpty
  <2>6. CASE Len(chain[f]) # 0
    <3>1. PICK k \in 1 .. Len(chain[f]) : Cursor(d, chain[f], k)
      BY <2>4, <2>6
    <3>2. /\ Standing(d, chain[f], k) /\ d.next_cluster = NextIn(chain[f], k)
          /\ d.block_in_cluster = SectorsPerCluster => d.next_cluster = EOC
          /\ d.cur_cluster = chain[f][k] /\ Placed(d)
      BY <3>1 DEF Cursor, Standing
    <3>3. /\ ChainOf(d)[k - 1] = chain[f][k] /\ chain[f][k] \in Clusters
          /\ FatEntry(Volume, "fat0", chain[f][k]) = NextIn(chain[f], k)
      BY <2>2, <2>4, ChainOfDesc
    <3>4. d.cur_cluster \in Clusters /\ d.next_cluster = FatEntry(Volume, "fat0", d.cur_cluster)
      BY <3>2, <3>3
    <3>5. d.cluster_lo # 0
      BY <2>2, <2>4, <2>6, ClusterFacts DEF Extent
    <3>6. k \in Nat /\ k > 0 /\ d.block_in_cluster \in Nat /\ SectorsPerCluster \in Nat
      BY DescFields, Geometry
    <3>7. CASE d.block_in_cluster < SectorsPerCluster
      <4>1. /\ ClusterIndex(d) = k - 1
            /\ ClusterOffset(d) \div BlockSize = d.block_in_cluster
            /\ ClusterOffset(d) % BlockSize = d.index_in_block
        BY <3>2, <3>6, <3>7, OffsetSplits
      <4>2. d.block_addr = FirstBlock(d.cur_cluster) + d.block_in_cluster
        BY <3>2, <3>6, <3>7 DEF Placed
      <4>3. CursorInside(d)
        BY <3>2, <3>3, <4>1, <4>2 DEF CursorInside
      <4> QED
        BY <2>1, <2>4, <3>4, <3>5, <4>3
    <3>8. CASE d.block_in_cluster >= SectorsPerCluster
      <4>1. /\ ClusterIndex(d) = k /\ ClusterOffset(d) = 0
            /\ d.block_in_cluster = SectorsPerCluster /\ d.index_in_block = 0
        BY <3>2, <3>6, <3>8, OffsetSplits
      <4>2. CursorAfterLast(d)
        BY <3>2, <3>3, <3>6, <4>1 DEF CursorAfterLast
      <4> QED
        BY <2>1, <2>4, <3>4, <3>5, <4>2
    <3> QED
      BY <3>6, <3>7, <3>8
  <2> QED
    BY <2>5, <2>6
<1> QED
  BY <1>1, ChainsAlways, SpecIInv, PTL

\* Between calls, while the card answers, last_cluster_len is what the size
\* implies and the chain on the card has exactly the clusters the size needs, but
\* for a descriptor whose file was truncated to nothing.
THEOREM LengthsAlwaysMatch == ASSUME Disciplined PROVE Spec => []LengthsMatchChain
<1>1. IInv /\ ChainsExist => LengthsMatchChain
  <2> SUFFICES ASSUME IInv, NEW chain \in Chains, ChainInv(chain), ready, Idle,
                      NEW fd \in Fds, Fresh(fd), ~Emptied(desc[fd])
               PROVE  LengthsAgree(desc[fd])
    BY DEF ChainsExist, LengthsMatchChain
  <2>1. PICK d \in FileDescriptor, f \in Files : d = desc[fd] /\ f = desc[fd].file
    BY IdleSound DEF Idle
  <2>2. /\ Sound(Fat("fat0"), Fat("fat1"), chain, {}) /\ BlockOK
        /\ chain[f] \in Seq(Clusters) /\ Dir[f] \in DirEntry
    BY <2>1, IdleSound DEF Idle, IInv
  <2>3. Settle(d, chain[f], Dir[f])
    BY <2>1, IdleSound DEF Idle
  <2>4. Extent(d, chain[f]) /\ Filled(d, chain[f])
    BY <2>3 DEF Settle, Sane
  <2>5. EntryFits(d, chain[f]) /\ d.size \in Nat /\ d.last_cluster_len \in Nat
    BY <2>2, <2>4, ExtentFits, DescFields
  <2>6. EntryConsistent(Volume, d)
    BY <2>2, <2>5, FitsConsistent
  <2>7. CASE Len(chain[f]) = 0
    <3>1. d.size = 0 /\ d.last_cluster_len = 0
      BY <2>1, <2>4, <2>7 DEF Extent, Emptied
    <3> QED
      BY <2>1, <2>6, <3>1 DEF LengthsAgree
  <2>8. CASE Len(chain[f]) # 0
    <3>1. PICK L \in Nat : L = Len(chain[f]) /\ L > 0
      BY <2>2, <2>8
    <3>2. PICK r \in Nat, size \in Nat : r = d.last_cluster_len /\ size = d.size
      BY <2>5
    <3>3. r > 0 /\ r <= BytesPerCluster /\ size = Base(L) + r
      BY <2>4, <2>8, <3>1, <3>2 DEF Extent, Filled
    <3>4. ((size - 1) % BytesPerCluster) + 1 = r /\ size # 0
      BY <3>1, <3>3, ClustersNeeded
    <3> QED
      BY <2>1, <2>6, <3>2, <3>4 DEF LengthsAgree
  <2> QED
    BY <2>7, <2>8
<1> QED
  BY <1>1, ChainsAlways, SpecIInv, PTL

\* Whatever mixture of calls came before, the bytes that fat_read and fat_write
\* are about to move lie where the FAT says the byte at abs_offset of this file
\* lies, do not leave their block and do not pass the end of the file.
THEOREM TransfersInOwnFile == ASSUME Disciplined PROVE Spec => []TransferInOwnFile
<1>1. ASSUME Disciplined PROVE IInv /\ ChainsExist => TransferInOwnFile
  <2> SUFFICES ASSUME IInv, NEW chain \in Chains, ChainInv(chain), ready, InBlock,
                      ChunkLen(D, call.op, call.len) # 0
               PROVE  LET n == ChunkLen(D, call.op, call.len)
                          c == ChainOf(D)[ClusterIndex(D)]
                      IN  /\ c \in Clusters
                          /\ D.block_addr = FirstBlock(c) + ClusterOffset(D) \div BlockSize
                          /\ D.index_in_block = ClusterOffset(D) % BlockSize
                          /\ D.index_in_block + n <= BlockSize
                          /\ D.abs_offset + n <= Expanded(D, call.op, call.len).size
    BY DEF ChainsExist, TransferInOwnFile
  <2>1. PICK d \in FileDescriptor, f \in Files : d = D /\ f = D.file
    BY <1>1, ChunkFacts
  <2>2. /\ Sound(Fat("fat0"), Fat("fat1"), chain, {}) /\ BlockOK
        /\ chain[f] \in Seq(Clusters)
    BY <1>1, <2>1, ChunkFacts
  <2>3. PICK n, d1 : n = ChunkLen(D, call.op, call.len) /\ d1 = Expanded(D, call.op, call.len)
    OBVIOUS
  <2>4. PICK k \in 1 .. Len(chain[f]) :
          /\ Cursor(d, chain[f], k) /\ d.block_in_cluster < SectorsPerCluster
          /\ GoodChunk(d, chain[f], Dir[f], d1, n)
    BY <1>1, <2>1, <2>3, ChunkFacts
  <2>5. d.index_in_block + n <= BlockSize /\ d.abs_offset + n <= d1.size
    BY <2>4 DEF GoodChunk
  <2>6. Standing(d, chain[f], k) /\ d.cur_cluster = chain[f][k] /\ Placed(d)
    BY <2>4 DEF Cursor, Standing
  <2>7. Extent(d, chain[f])
    <3>1. call.pc = "loop" /\ call.pc \notin {"idle", "return"}
      BY DEF InBlock
    <3>2. Working(d, call, chain[f], Dir[f])
      BY <2>1, <3>1, RunningFacts
    <3> QED
      BY <3>1, <3>2 DEF Working, AtLoop, Sane
  <2>8. ChainOf(d)[k - 1] = chain[f][k] /\ chain[f][k] \in Clusters
    BY <2>2, <2>7, ChainOfDesc
  <2>9. k \in Nat /\ k > 0 /\ d.block_in_cluster \in Nat /\ SectorsPerCluster \in Nat
    BY DescFields, Geometry
  <2>10. /\ ClusterIndex(d) = k - 1
         /\ ClusterOffset(d) \div BlockSize = d.block_in_cluster
         /\ ClusterOffset(d) % BlockSize = d.index_in_block
    BY <2>4, <2>6, <2>9, OffsetSplits
  <2>11. d.block_addr = FirstBlock(chain[f][k]) + d.block_in_cluster
    BY <2>4, <2>6, <2>9 DEF Placed
  <2> QED
    BY <2>1, <2>3, <2>5, <2>8, <2>10, <2>11
<1> QED
  BY <1>1, ChainsAlways, SpecIInv, PTL

\* The places of fat_read and fat_write.
Transfer == {"loop", "advance", "alloc", "alloc_fat1", "parent_fat1", "parent_fat0", "return"}

\* The descriptor of a read or a write is in use until the program has the result.
Owning == call.op \in {"read", "write"} => Fresh(call.fd) /\ call.pc \in Transfer

\* A step of fat_read or fat_write that goes on, or returns, with its descriptor.
LEMMA OwningStep ==
    ASSUME IInv, Owning, NEW d2, SetDesc(d2), Tame(D, d2), call'.op = call.op,
           call'.fd = call.fd, call'.pc \in Transfer
    PROVE  Owning'
<1>1. PICK fd \in Fds : fd = call.fd
  BY DEF IInv, CallType
<1>2. desc \in [Fds -> FileDescriptor]
  BY DEF IInv, DescOK
<1>3. desc'[fd] = d2 /\ D = desc[fd] /\ call'.fd = fd
  BY <1>1, <1>2 DEF SetDesc, D
<1>4. Fresh(fd) => ~desc'[fd].is_free /\ ~desc'[fd].is_stale
  BY <1>3 DEF Fresh, Tame
<1> QED
  BY <1>1, <1>3, <1>4 DEF Owning, Fresh

\* pfd->next_cluster = read_fat_entry(cur_cluster) in seek_advance.
LEMMA OwningReads ==
    ASSUME IInv, Owning, AdvanceReadsFat
    PROVE  Owning'
<1> DEFINE then == [call EXCEPT !.pc = "loop", !.len = @ - call.chunk,
                                !.result = @ + call.chunk, !.chunk = 0]
           ok == [D EXCEPT !.block_in_cluster = 0]
<1>1. call \in CallType /\ D \in FileDescriptor
  BY DType DEF IInv
<1>2. \/ call' = then /\ \E n : SetDesc([ok EXCEPT !.next_cluster = n])
      \/ Return(FALSE) /\ \E n : SetDesc([D EXCEPT !.next_cluster = n])
  BY DEF AdvanceReadsFat, LinkRead
<1>3. \A n : Tame(D, [ok EXCEPT !.next_cluster = n]) /\ Tame(D, [D EXCEPT !.next_cluster = n])
  BY <1>1 DEF Tame, FileDescriptor
<1>4. \E d2 : SetDesc(d2) /\ Tame(D, d2)
  BY <1>2, <1>3
<1>5. call'.op = call.op /\ call'.fd = call.fd /\ call'.pc \in {"loop", "return"}
  BY <1>1, <1>2, CallAfter DEF CallType
<1> QED
  BY <1>4, <1>5, OwningStep DEF Transfer

\* The steps of fat_read and fat_write.
LEMMA OwningMoves ==
    ASSUME IInv, Owning,
           \/ ActionDone \/ ActionAllocates \/ ActionAtEnd \/ ActionMoves \/ ActionFails
           \/ AdvanceReadsFat
           \/ AllocMarks \/ AllocFindsNothing \/ AllocMirrors
           \/ ParentLinks \/ ParentMirrors
    PROVE  Owning'
<1>1. call \in CallType /\ D \in FileDescriptor
  BY DType DEF IInv
<1>2. /\ Tame(D, D) /\ (desc' = desc => SetDesc(D))
      /\ \A op, len : Tame(D, Expanded(D, op, len))
      /\ \A op, len, n : Tame(D, SeekAdvance(Expanded(D, op, len), n))
      /\ \A c : Tame(D, WithCluster(D, c))
  BY <1>1, TameOps, DescKept
<1>3. ASSUME \/ ActionDone \/ ActionAllocates \/ ActionAtEnd \/ ActionMoves \/ ActionFails
             \/ AllocMarks \/ AllocFindsNothing \/ AllocMirrors
             \/ ParentLinks \/ ParentMirrors
      PROVE  \E d2 : SetDesc(d2) /\ Tame(D, d2)
  <2>1. \/ desc' = desc \/ (\E op, len : SetDesc(Expanded(D, op, len)))
        \/ (\E op, len, n : SetDesc(SeekAdvance(Expanded(D, op, len), n)))
        \/ \E c : SetDesc(WithCluster(D, c))
    BY <1>3 DEF ActionDone, ActionAllocates, ActionAtEnd, ActionMoves, ActionFails, AllocMarks,
                AllocFindsNothing, AllocMirrors, ParentLinks, ParentMirrors
  <2> QED
    BY <1>2, <2>1
<1>4. ASSUME ActionDone \/ ActionAllocates \/ ActionAtEnd \/ ActionFails
      PROVE  call'.op = call.op /\ call'.fd = call.fd /\ call'.pc \in {"alloc", "return"}
  BY <1>1, <1>4, CallAfter
  DEF ActionDone, ActionAllocates, ActionAtEnd, ActionFails, CallType
<1>5. ASSUME ActionMoves
      PROVE  call'.op = call.op /\ call'.fd = call.fd /\ call'.pc \in {"loop", "advance"}
  <2>1. call.pc = "loop" /\ \E n : \/ call' = [call EXCEPT !.pc = "advance", !.chunk = n]
                                   \/ call' = [call EXCEPT !.len = @ - n, !.result = @ + n]
    BY <1>5 DEF ActionMoves, InBlock
  <2> QED
    BY <1>1, <2>1 DEF CallType
<1>6. ASSUME AllocMarks \/ AllocFindsNothing \/ AllocMirrors \/ ParentLinks \/ ParentMirrors
      PROVE  call'.op = call.op /\ call'.fd = call.fd /\ call'.pc \in Transfer
  <2>1. \/ \E c : call' = [call EXCEPT !.pc = "alloc_fat1", !.head = c]
        \/ call.pc = "alloc" /\ call' = [call EXCEPT !.sector = @ + 1]
        \/ Return(TRUE)
        \/ \E pc \in Transfer : call' = [call EXCEPT !.pc = pc]
    BY <1>6 DEF AllocMarks, AllocFindsNothing, AllocMirrors, ParentLinks, ParentMirrors,
                Goto, Transfer
  <2> QED
    BY <1>1, <2>1, CallAfter DEF CallType, Transfer
<1>7. CASE AdvanceReadsFat
  BY <1>7, OwningReads
<1>8. CASE ~AdvanceReadsFat
  <2>1. call'.op = call.op /\ call'.fd = call.fd /\ call'.pc \in Transfer
    BY <1>4, <1>5, <1>6, <1>8 DEF Transfer
  <2> QED
    BY <1>3, <1>8, <2>1, OwningStep
<1> QED
  BY <1>7, <1>8

\* The other calls are no reads and no writes, and stay what they are.
LEMMA OwningOthers ==
    ASSUME IInv, Owning,
           \/ OpenReadsFat \/ FindParent \/ CutNothing \/ CutFat0 \/ CutFat1
           \/ FreeFat0 \/ FreeFat1 \/ FreeDone
           \/ SeekBeginReadsFat \/ SeekFollows \/ SeekDone
           \/ SeekEndFollows \/ SeekEndDone
    PROVE  Owning'
<1>1. call \in CallType
  BY DEF IInv
<1>2. call.pc \in {"open", "find_parent", "cut_fat0", "cut_fat1", "free_fat0", "free_fat1",
                   "seek_begin", "seek", "seek_end"}
  BY DEF OpenReadsFat, FindParent, CutNothing, CutFat0, CutFat1, FreeFat0, FreeFat1, FreeDone,
         SeekBeginReadsFat, SeekFollows, SeekDone, SeekEndFollows, SeekEndDone
<1>3. call.op \notin {"read", "write"}
  BY <1>2 DEF Owning, Transfer
<1>4. ASSUME NEW c, NEW ok, NEW failed, NEW then, then.op = call.op,
             LinkRead(c, ok, failed, then)
      PROVE  call'.op = call.op
  BY <1>1, <1>4, CallAfter DEF LinkRead
<1>5. ASSUME OpenReadsFat \/ SeekBeginReadsFat \/ SeekFollows \/ SeekEndFollows
      PROVE  call'.op = call.op
  <2>1. /\ [call EXCEPT !.pc = "return"].op = call.op
        /\ [call EXCEPT !.pc = "seek"].op = call.op
        /\ [call EXCEPT !.offset = @ - (BytesPerCluster % U16)].op = call.op
    BY <1>1 DEF CallType
  <2> QED
    BY <1>4, <1>5, <2>1 DEF OpenReadsFat, SeekBeginReadsFat, SeekFollows, SeekEndFollows
<1>6. ASSUME \/ FindParent \/ CutNothing \/ CutFat0 \/ CutFat1
             \/ FreeFat0 \/ FreeFat1 \/ FreeDone \/ SeekDone \/ SeekEndDone
      PROVE  call'.op = call.op
  <2>1. \/ \E ret : Return(ret)
        \/ \E pc : call' = [call EXCEPT !.pc = pc]
        \/ \E h : call' = [call EXCEPT !.head = h]
        \/ \E pc, h : call' = [call EXCEPT !.pc = pc, !.head = h]
        \/ \E pc, l : call' = [call EXCEPT !.pc = pc, !.link = l]
    BY <1>6 DEF FindParent, CutNothing, CutFat0, CutFat1, FreeFat0, FreeFat1, FreeDone,
                SeekDone, SeekEndDone, Goto
  <2> QED
    BY <1>1, <2>1, CallAfter DEF CallType
<1> QED
  BY <1>3, <1>5, <1>6 DEF Owning

\* Calls begin with a descriptor in use.
LEMMA OwningBegins ==
    ASSUME IInv, Owning, ProgramCalls \/ FatInit
    PROVE  Owning'
<1>1. ASSUME NEW fd \in Fds, NEW op \in {"read", "write"}, NEW len \in Lens,
             FatAction(fd, op, len)
      PROVE  Owning'
  <2>1. Fresh(fd) /\ desc' = desc /\ call'.fd = fd /\ call'.pc = "loop"
    BY <1>1 DEF FatAction, Usable, Starts, CallOf, IdleCall
  <2> QED
    BY <2>1 DEF Owning, Fresh, Transfer
<1>2. ASSUME NEW f \in Files, FatOpenFile(f) \/ FatOpenFileFails(f)
      PROVE  call'.op = "open"
  BY <1>2 DEF FatOpenFile, FatOpenFileFails, Starts, CallOf, IdleCall
<1>3. ASSUME NEW fd \in Fds, FatClose(fd) \/ FatRefuses(fd) \/ FatTruncate(fd) \/ FatSeekEnd(fd)
      PROVE  call'.op \in {"close", "none", "truncate", "seek"}
  BY <1>3 DEF FatClose, FatRefuses, FatTruncate, FatSeekEnd, Starts, CallOf, IdleCall
<1>4. ASSUME NEW fd \in Fds, NEW offset \in Offsets, FatSeek(fd, offset)
      PROVE  call'.op = "seek"
  BY <1>4 DEF FatSeek, FatSeekEnd, Starts, CallOf, IdleCall
<1>5. ASSUME FatMount PROVE call'.op = "mount"
  BY <1>5 DEF FatMount, CallOf, IdleCall
<1>6. ASSUME FatInit PROVE call'.op = "none"
  BY <1>6 DEF FatInit, IdleCall
<1>7. ASSUME call'.op \notin {"read", "write"} PROVE Owning'
  BY <1>7 DEF Owning
<1> QED
  BY <1>1, <1>2, <1>3, <1>4, <1>5, <1>6, <1>7 DEF ProgramCalls

\* fat_read and fat_write return the "number of bytes actually" moved: while the
\* card answers, the cursor has advanced by exactly the count the program is told,
\* whether the call did all of it, met the end of the file or found the card full.
THEOREM CountsAlwaysMatch == ASSUME Disciplined PROVE Spec => []CountMatchesOffsetOnReady
<1>1. Init => Owning
  BY DEF Init, Owning, IdleCall
<1>2. IInv /\ Owning /\ [Next]_vars => Owning'
  <2> SUFFICES ASSUME IInv, Owning, [Next]_vars PROVE Owning'
    OBVIOUS
  <2>1. CASE Returned
    BY <2>1 DEF Returned, IdleCall, Owning
  <2>2. CASE UNCHANGED vars
    BY <2>2 DEF vars, Owning, Fresh
  <2> QED
    BY <2>1, <2>2, OwningMoves, OwningOthers, OwningBegins DEF Next, CallStep
<1>3. IInv /\ ChainsExist /\ Owning => CountMatchesOffsetOnReady
  <2> SUFFICES ASSUME IInv, NEW chain \in Chains, ChainInv(chain), Owning, ready,
                      AtReturnOf({"read", "write"})
               PROVE  D.abs_offset = call.off0 + call.result
    BY DEF ChainsExist, CountMatchesOffsetOnReady
  <2>1. call.pc = "return" /\ call.op \in {"read", "write"} /\ Fresh(call.fd)
    BY DEF AtReturnOf, Owning
  <2>2. Working(D, call, chain[D.file], Dir[D.file])
    BY <2>1 DEF ChainInv, CallSound
  <2> QED
    BY <2>1, <2>2 DEF Working
<1>4. Spec => []Owning
  BY <1>1, <1>2, SpecIInv, PTL DEF Spec
<1> QED
  BY <1>3, <1>4, ChainsAlways, SpecIInv, PTL

-----------------------------------------------------------------------------
(***************************************************************************)
(* Without faults every allocated cluster is accounted for, and the two    *)
(* copies of the FAT differ only where a call is about to write.           *)
(***************************************************************************)
\* No card error, no reset, no remount, and the program is disciplined.
Undisturbed ==
    ReadErrors = {} /\ WriteErrors = {} /\ Usage = {} /\ BytesPerCluster < U16

\* Of FAT copies p and q and the files' chains: `rest' is what fat_truncate has
\* still to free, from cluster `first' on; the clusters in `hand' are marked by
\* alloc_cluster and not linked yet; the entries in `behind' are not written in
\* the other copy yet.
Accounted(p, q, chain, rest, first, hand, behind) ==
    /\ first = IF Len(rest) = 0 THEN EOC ELSE rest[1]
    /\ \A k \in 1 .. Len(rest) : p[rest[k]] = NextIn(rest, k)
    /\ \A b \in Clusters : p[b] # 0 =>
           InChains(chain, b) \/ b \in hand \/ \E k \in 1 .. Len(rest) : rest[k] = b
    /\ \A b \in Entries \ behind : p[b] = q[b]

\* alloc_cluster marks a free cluster in FAT 0 and copies its sector to FAT 1.
LEMMA MarkAccounted ==
    ASSUME NEW p \in Tables, NEW q \in Tables, NEW chain, NEW c \in Entries,
           Accounted(p, q, chain, <<>>, EOC, {}, {})
    PROVE  Accounted([p EXCEPT ![c] = EOC], q, chain, <<>>, EOC, {c}, {c})
<1>1. \A b \in Entries : [p EXCEPT ![c] = EOC][b] = IF b = c THEN EOC ELSE p[b]
  BY DEF Tables
<1> QED
  BY <1>1, ClusterFacts DEF Accounted

\* The second copy gets the sector with the new mark.
LEMMA MirrorAccounted ==
    ASSUME NEW p \in Tables, NEW q \in Tables, NEW chain, NEW c \in Entries,
           Accounted(p, q, chain, <<>>, EOC, {c}, {c})
    PROVE  Accounted(p, Merged(q, p, SectorOf(c)), chain, <<>>, EOC, {c}, {})
<1>1. \A b \in Entries :
         Merged(q, p, SectorOf(c))[b] = IF SectorOf(b) = SectorOf(c) THEN p[b] ELSE q[b]
  BY DEF Merged
<1> QED
  BY <1>1 DEF Accounted

\* The old last cluster is linked to the new one in FAT 1, and that sector copied
\* to FAT 0.
LEMMA LinkAccounted ==
    ASSUME NEW p \in Tables, NEW q \in Tables, NEW chain, NEW c, NEW last \in Entries,
           Accounted(p, q, chain, <<>>, EOC, {c}, {})
    PROVE  Accounted(p, [q EXCEPT ![last] = c], chain, <<>>, EOC, {c}, {last})
<1>1. \A b \in Entries : [q EXCEPT ![last] = c][b] = IF b = last THEN c ELSE q[b]
  BY DEF Tables
<1> QED
  BY <1>1 DEF Accounted

\* The first copy gets the sector with the new link.
LEMMA LinkMirrorAccounted ==
    ASSUME NEW p \in Tables, NEW q \in Tables, NEW chain, NEW c, NEW last \in Entries,
           InChains(chain, last), Accounted(p, q, chain, <<>>, EOC, {c}, {last})
    PROVE  Accounted(Merged(p, q, SectorOf(last)), q, chain, <<>>, EOC, {c}, {})
<1>1. \A b \in Entries :
         Merged(p, q, SectorOf(last))[b] = IF SectorOf(b) = SectorOf(last) THEN q[b] ELSE p[b]
  BY DEF Merged
<1>2. \A b \in Entries : b # last => Merged(p, q, SectorOf(last))[b] = p[b]
  BY <1>1 DEF Accounted
<1>3. \A b \in Entries : Merged(p, q, SectorOf(last))[b] = q[b]
  BY <1>1, <1>2 DEF Accounted
<1> QED
  BY <1>2, <1>3, ClusterFacts DEF Accounted

\* The new cluster joins the file's chain.
LEMMA JoinAccounted ==
    ASSUME NEW p \in Tables, NEW q \in Tables, NEW chain \in Chains, NEW f \in Files,
           NEW c \in Clusters, ChainsDisjoint(chain), ~InChains(chain, c),
           Accounted(p, q, chain, <<>>, EOC, {c}, {})
    PROVE  Accounted(p, q, Longer(chain, f, c), <<>>, EOC, {}, {})
<1>1. PICK chain2 : chain2 = Longer(chain, f, c)
  OBVIOUS
<1>2. /\ \A g \in Files : g # f => chain2[g] = chain[g]
      /\ Len(chain2[f]) = Len(chain[f]) + 1 /\ chain2[f][Len(chain[f]) + 1] = c
      /\ \A k \in 1 .. Len(chain[f]) : chain2[f][k] = chain[f][k]
  BY <1>1, LongerFacts, ZenonT(40)
<1>3. Len(chain[f]) \in Nat
  BY ChainFacts
<1>4. InChains(chain2, c)
  <2>1. Len(chain[f]) + 1 \in 1 .. Len(chain2[f])
    BY <1>2, <1>3
  <2> QED
    BY <1>2, <2>1 DEF InChains
<1>5. ASSUME NEW b, InChains(chain, b) PROVE InChains(chain2, b)
  <2>a. PICK g \in Files : \E k \in 1 .. Len(chain[g]) : chain[g][k] = b
    BY <1>5 DEF InChains
  <2>1. PICK k \in 1 .. Len(chain[g]) : chain[g][k] = b
    BY <2>a
  <2>2. k \in 1 .. Len(chain2[g]) /\ chain2[g][k] = b
    BY <1>2, <1>3, <2>1
  <2> QED
    BY <2>2 DEF InChains
<1> QED
  BY <1>1, <1>4, <1>5 DEF Accounted

\* fat_truncate at the start of a file: its whole chain is to be freed.
LEMMA EmptiedAccounted ==
    ASSUME NEW p \in Tables, NEW q \in Tables, NEW chain \in Chains, NEW f \in Files,
           Sound(p, q, chain, {}), Len(chain[f]) > 0,
           Accounted(p, q, chain, <<>>, EOC, {}, {})
    PROVE  Accounted(p, q, Without(chain, f), chain[f], chain[f][1], {}, {})
<1>1. \A g \in Files : g # f => Without(chain, f)[g] = chain[g]
  BY DEF Without, Chains
<1>2. \A k \in 1 .. Len(chain[f]) : p[chain[f][k]] = NextIn(chain[f], k)
  BY DEF Sound, ChainsLinked
<1>3. ASSUME NEW b, InChains(chain, b)
      PROVE  InChains(Without(chain, f), b) \/ \E k \in 1 .. Len(chain[f]) : chain[f][k] = b
  BY <1>1, <1>3 DEF InChains
<1> QED
  BY <1>2, <1>3 DEF Accounted

\* The chain is cut behind its k-th cluster, in FAT 0 and then in FAT 1.
LEMMA CutAccounted ==
    ASSUME NEW p \in Tables, NEW q \in Tables, NEW chain \in Chains, NEW f \in Files,
           Sound(p, q, chain, {}), NEW k \in 1 .. Len(chain[f]), k < Len(chain[f]),
           Accounted(p, q, chain, <<>>, EOC, {}, {})
    PROVE  \E rest \in Seq(Clusters) :
               Accounted(Relinked(p, chain[f][k], EOC), q, Cut(chain, f, k), rest,
                         chain[f][k + 1], {}, {chain[f][k]})
<1>1. PICK ch \in Seq(Clusters) : ch = chain[f]
  BY ChainFacts
<1>2. PICK n \in Nat : n = Len(ch)
  BY <1>1
<1>3. k \in Nat /\ 1 <= k /\ k < n
  BY <1>1, <1>2
<1>4. PICK rest : rest = SubSeq(ch, k + 1, n)
  OBVIOUS
<1>5. /\ rest \in Seq(Clusters) /\ Len(rest) = n - k
      /\ \A i \in 1 .. n - k : rest[i] = ch[k + i]
  BY <1>1, <1>2, <1>3, <1>4
<1>6. PICK p2 : p2 = Relinked(p, ch[k], EOC)
  OBVIOUS
<1>7. ch[k] \in Entries /\ \A b \in Entries : p2[b] = IF b = ch[k] THEN EOC ELSE p[b]
  <2>1. ch[k] \in Entries
    BY <1>1, ChainFacts
  <2> QED
    BY <1>6, <2>1 DEF Relinked, Tables
<1>8. Distinct(ch)
  BY <1>1, ChainDistinct DEF Sound
<1>9. ASSUME NEW i \in 1 .. Len(rest)
      PROVE  p2[rest[i]] = NextIn(rest, i)
  <2>1. i \in Nat /\ k + i \in 1 .. Len(ch) /\ k + i # k /\ rest[i] = ch[k + i] /\ k \in 1 .. Len(ch)
    BY <1>2, <1>3, <1>5
  <2>2. rest[i] # ch[k]
    BY <1>8, <2>1 DEF Distinct
  <2>3. ch[k + i] \in Entries
    BY <1>1, <2>1, ChainFacts
  <2>4. p[ch[k + i]] = NextIn(ch, k + i)
    BY <1>1, <2>1 DEF Sound, ChainsLinked
  <2>5. p2[rest[i]] = NextIn(ch, k + i)
    BY <1>7, <2>1, <2>2, <2>3, <2>4
  <2>6. CASE k + i < n
    <3>1. i + 1 \in 1 .. n - k /\ i < Len(rest)
      BY <1>3, <1>5, <2>1, <2>6
    <3>2. rest[i + 1] = ch[k + (i + 1)]
      BY <1>5, <3>1
    <3>3. k + (i + 1) = (k + i) + 1
      BY <1>3, <2>1
    <3>4. NextIn(rest, i) = ch[(k + i) + 1]
      BY <3>1, <3>2, <3>3 DEF NextIn
    <3> QED
      BY <1>2, <2>5, <2>6, <3>4 DEF NextIn
  <2>7. CASE ~(k + i < n)
    <3>1. ~(i < Len(rest)) /\ ~(k + i < Len(ch))
      BY <1>2, <1>3, <1>5, <2>1, <2>7
    <3> QED
      BY <2>5, <3>1 DEF NextIn
  <2> QED
    BY <2>6, <2>7
<1>10. chain[f][k + 1] = IF Len(rest) = 0 THEN EOC ELSE rest[1]
  BY <1>1, <1>3, <1>5
<1>11. PICK chain2 : chain2 = Cut(chain, f, k)
  OBVIOUS
<1>12. /\ \A g \in Files : g # f => chain2[g] = chain[g]
       /\ Len(chain2[f]) = k /\ \A i \in 1 .. k : chain2[f][i] = chain[f][i]
  BY <1>11, CutFacts, Zenon
<1>13. ASSUME NEW b, InChains(chain, b)
       PROVE  InChains(chain2, b) \/ \E i \in 1 .. Len(rest) : rest[i] = b
  <2>a. PICK g \in Files : \E i \in 1 .. Len(chain[g]) : chain[g][i] = b
    BY <1>13 DEF InChains
  <2>1. PICK i \in 1 .. Len(chain[g]) : chain[g][i] = b
    BY <2>a
  <2>2. CASE g # f
    BY <1>12, <2>1, <2>2 DEF InChains
  <2>3. CASE g = f /\ i <= k
    <3>1. i \in 1 .. k
      BY <1>3, <2>3
    <3> QED
      BY <1>12, <2>1, <2>3, <3>1 DEF InChains
  <2>4. CASE g = f /\ ~(i <= k)
    <3>1. i \in Nat /\ i - k \in 1 .. n - k /\ k + (i - k) = i
      BY <1>1, <1>2, <1>3, <2>4
    <3>2. rest[i - k] = ch[i]
      BY <1>5, <3>1
    <3> QED
      BY <1>1, <1>5, <2>1, <2>4, <3>1, <3>2
  <2> QED
    BY <2>2, <2>3, <2>4
<1>14. \A b \in Entries \ {ch[k]} : p2[b] = q[b]
  BY <1>7 DEF Accounted
<1>15. ASSUME NEW b \in Clusters, p2[b] # 0
       PROVE  InChains(chain2, b) \/ \E i \in 1 .. Len(rest) : rest[i] = b
  <2>1. CASE b = ch[k]
    <3>1. k \in 1 .. k
      BY <1>3
    <3> QED
      BY <1>1, <1>12, <2>1, <3>1 DEF InChains
  <2>2. CASE b # ch[k]
    <3>1. p[b] # 0
      BY <1>7, <1>15, <2>2, ClusterFacts
    <3>2. InChains(chain, b)
      BY <3>1 DEF Accounted
    <3> QED
      BY <1>13, <3>2
  <2> QED
    BY <2>1, <2>2
<1>16. Accounted(p2, q, chain2, rest, chain[f][k + 1], {}, {ch[k]})
  BY <1>9, <1>10, <1>14, <1>15 DEF Accounted
<1> QED
  BY <1>1, <1>5, <1>6, <1>11, <1>16

\* The second copy gets the entry that the first one has.
LEMMA CutTwiceAccounted ==
    ASSUME NEW p \in Tables, NEW q \in Tables, NEW chain, NEW rest, NEW first,
           NEW c \in Entries, NEW v, p[c] = v, Accounted(p, q, chain, rest, first, {}, {c})
    PROVE  Accounted(p, Relinked(q, c, v), chain, rest, first, {}, {})
<1>1. \A b \in Entries : Relinked(q, c, v)[b] = IF b = c THEN v ELSE q[b]
  BY DEF Relinked, Tables
<1> QED
  BY <1>1 DEF Accounted

\* A cluster is freed in FAT 0; the same entry is then written in FAT 1.
LEMMA FreeAccounted ==
    ASSUME NEW p \in Tables, NEW q \in Tables, NEW chain, NEW rest \in Seq(Clusters), NEW h,
           h # EOC, \A b \in Entries : ~Linked(p, q, b, h),
           Accounted(p, q, chain, rest, h, {}, {})
    PROVE  \E rest2 \in Seq(Clusters) :
               Accounted(Relinked(p, h, 0), q, chain, rest2, p[h], {}, {h})
<1>1. Len(rest) # 0 /\ h = rest[1]
  BY DEF Accounted
<1>2. PICK n \in Nat : n = Len(rest) /\ n > 0
  BY <1>1
<1>3. PICK rest2 : rest2 = Tail(rest)
  OBVIOUS
<1>4. /\ rest2 \in Seq(Clusters) /\ Len(rest2) = n - 1
      /\ \A i \in 1 .. n - 1 : rest2[i] = rest[i + 1]
  BY <1>1, <1>2, <1>3
<1>5. \A i \in 1 .. n : rest[i] \in Clusters /\ rest[i] \in Entries
  <2>1. \A i \in 1 .. Len(rest) : rest[i] \in Clusters
    OBVIOUS
  <2> QED
    BY <1>2, <2>1, ClusterFacts
<1>6. h \in Entries
  BY <1>1, <1>2, <1>5
<1>7. PICK p2 : p2 = Relinked(p, h, 0)
  OBVIOUS
<1>8. \A b \in Entries : p2[b] = IF b = h THEN 0 ELSE p[b]
  BY <1>6, <1>7 DEF Relinked, Tables
<1>9. \A i \in 1 .. n : p[rest[i]] = NextIn(rest, i)
  BY <1>2 DEF Accounted
<1>10. p[h] = IF Len(rest2) = 0 THEN EOC ELSE rest2[1]
  <2>1. 1 \in 1 .. n /\ p[h] = NextIn(rest, 1)
    BY <1>1, <1>2, <1>9
  <2>2. CASE n = 1
    BY <1>2, <1>4, <2>1, <2>2 DEF NextIn
  <2>3. CASE n # 1
    <3>1. 1 \in 1 .. n - 1 /\ 1 < Len(rest) /\ 1 + 1 = 2
      BY <1>2, <2>3
    <3>2. rest2[1] = rest[2] /\ NextIn(rest, 1) = rest[2]
      BY <1>4, <3>1 DEF NextIn
    <3> QED
      BY <1>2, <1>4, <2>1, <2>3, <3>2
  <2> QED
    BY <2>2, <2>3
<1>11. ASSUME NEW i \in 1 .. Len(rest2)
       PROVE  p2[rest2[i]] = NextIn(rest2, i)
  <2>1. i \in Nat /\ i + 1 \in 1 .. n /\ i \in 1 .. n /\ i < n /\ rest2[i] = rest[i + 1]
    BY <1>2, <1>4
  <2>2. rest[i + 1] # h
    <3>1. p[rest[i]] = rest[i + 1]
      BY <1>2, <1>9, <2>1 DEF NextIn
    <3> QED
      BY <1>5, <2>1, <3>1 DEF Linked
  <2>3. p2[rest2[i]] = NextIn(rest, i + 1)
    BY <1>5, <1>8, <1>9, <2>1, <2>2
  <2>4. CASE i + 1 < n
    <3>1. i + 1 \in 1 .. n - 1 /\ i < Len(rest2)
      BY <1>2, <1>4, <2>1, <2>4
    <3>2. rest2[i + 1] = rest[(i + 1) + 1]
      BY <1>4, <3>1
    <3> QED
      BY <1>2, <2>3, <2>4, <3>1, <3>2 DEF NextIn
  <2>5. CASE ~(i + 1 < n)
    <3>1. ~(i < Len(rest2)) /\ ~(i + 1 < Len(rest))
      BY <1>2, <1>4, <2>1, <2>5
    <3> QED
      BY <2>3, <3>1 DEF NextIn
  <2> QED
    BY <2>4, <2>5
<1>12. ASSUME NEW b \in Clusters, p2[b] # 0
       PROVE  InChains(chain, b) \/ \E i \in 1 .. Len(rest2) : rest2[i] = b
  <2>1. b # h /\ p[b] # 0
    BY <1>8, <1>12, ClusterFacts
  <2>2. CASE InChains(chain, b)
    BY <2>2
  <2>3. CASE \E k \in 1 .. Len(rest) : rest[k] = b
    <3>1. PICK k \in 1 .. n : rest[k] = b
      BY <1>2, <2>3
    <3>2. k # 1
      BY <1>1, <2>1, <3>1
    <3>3. k - 1 \in 1 .. n - 1 /\ (k - 1) + 1 = k
      BY <1>2, <3>1, <3>2
    <3>4. rest2[k - 1] = b
      BY <1>4, <3>1, <3>3
    <3> QED
      BY <1>4, <3>3, <3>4
  <2> QED
    BY <2>1, <2>2, <2>3 DEF Accounted
<1>13. \A b \in Entries \ {h} : p2[b] = q[b]
  BY <1>8 DEF Accounted
<1>14. Accounted(p2, q, chain, rest2, p[h], {}, {h})
  BY <1>10, <1>11, <1>12, <1>13 DEF Accounted
<1> QED
  BY <1>4, <1>7, <1>14

-----------------------------------------------------------------------------
(* The account of a state, and the steps that leave it as it is. *)

\* What is in hand, where the rest of a cut chain begins, and which entry is
\* behind in the other copy, at each place of a call.
Handed(c) ==
    IF c.pc \in {"alloc_fat1", "parent_fat1", "parent_fat0"} THEN {c.head} ELSE {}

RestFrom(d, c) ==
    IF c.pc = "cut_fat1" THEN d.next_cluster
    ELSE IF c.pc = "free_fat0" THEN c.head
    ELSE IF c.pc = "free_fat1" THEN c.link ELSE EOC

Behind(d, c) ==
    IF c.pc \in {"alloc_fat1", "free_fat1"} THEN {c.head} ELSE Excused(d, c)

AllAccounted(chain) ==
    \E rest \in Seq(Clusters) :
        Accounted(Fat("fat0"), Fat("fat1"), chain, rest,
                  RestFrom(D, call), Handed(call), Behind(D, call))

\* No file is torn, and before the card is mounted nothing is open.
Unfaulted ==
    /\ torn = {}
    /\ ~ready => cache_block_addr = INVALID_BLOCK_ADDR /\ \A fd \in Fds : desc[fd].is_free

\* The chains that explain the state account for all of it.
ExactExists ==
    Unfaulted /\ \E chain \in Chains : ChainInv(chain) /\ AllAccounted(chain)

\* A place of a call where nothing is in hand and nothing is left to free.
Bare(c) ==
    \/ c.pc \notin {"alloc_fat1", "parent_fat1", "parent_fat0", "cut_fat1",
                    "free_fat0", "free_fat1"}
    \/ c.pc = "free_fat0" /\ c.head = EOC

\* At a bare place no cluster is in hand, left over or half written.
LEMMA BareFacts ==
    ASSUME NEW d, NEW c, Bare(c)
    PROVE  RestFrom(d, c) = EOC /\ Handed(c) = {} /\ Behind(d, c) = {}
BY DEF Bare, RestFrom, Handed, Behind, Excused

\* A rest that begins at the end of a chain is empty.
LEMMA RestEmpty ==
    ASSUME NEW p, NEW q, NEW chain, NEW rest \in Seq(Clusters), NEW hand, NEW behind,
           Accounted(p, q, chain, rest, EOC, hand, behind)
    PROVE  rest = <<>>
<1>1. Len(rest) # 0 => rest[1] \in Clusters
  OBVIOUS
<1>2. Len(rest) = 0
  BY <1>1, ClusterFacts DEF Accounted
<1> QED
  BY <1>2

\* At such a place the account says nothing of a rest.
LEMMA BareAccount ==
    ASSUME NEW chain, Bare(call)
    PROVE  AllAccounted(chain) <=>
               Accounted(Fat("fat0"), Fat("fat1"), chain, <<>>, EOC, {}, {})
<1>1. RestFrom(D, call) = EOC /\ Handed(call) = {} /\ Behind(D, call) = {}
  BY BareFacts
<1>2. ASSUME NEW rest \in Seq(Clusters),
             Accounted(Fat("fat0"), Fat("fat1"), chain, rest, EOC, {}, {})
      PROVE  rest = <<>>
  BY <1>2, RestEmpty
<1>3. <<>> \in Seq(Clusters)
  OBVIOUS
<1> QED
  BY <1>1, <1>2, <1>3 DEF AllAccounted

\* The same after a step that ends at a bare place.
LEMMA BareAccountNext ==
    ASSUME NEW chain, Bare(call)',
           Accounted(Fat("fat0")', Fat("fat1")', chain, <<>>, EOC, {}, {})
    PROVE  AllAccounted(chain)'
<1>1. /\ RestFrom(D', call') = EOC /\ Handed(call') = {} /\ Behind(D', call') = {}
  <2>1. PICK d, c : d = D' /\ c = call'
    OBVIOUS
  <2>2. Bare(c)
    BY <2>1 DEF Bare
  <2>3. RestFrom(d, c) = EOC /\ Handed(c) = {} /\ Behind(d, c) = {}
    BY <2>2, BareFacts
  <2> QED
    BY <2>1, <2>3
<1>2. <<>> \in Seq(Clusters)
  OBVIOUS
<1> QED
  BY <1>1, <1>2 DEF AllAccounted

\* A step that leaves the FAT and the account alone.
Quietly ==
    /\ ready' /\ torn' = torn /\ Bare(call) /\ Bare(call)'
    /\ Fat("fat0")' = Fat("fat0") /\ Fat("fat1")' = Fat("fat1")

\* A quiet step keeps the account.
LEMMA QuietStep ==
    ASSUME NEW chain \in Chains, AllAccounted(chain), Unfaulted, Quietly, ChainInv(chain)'
    PROVE  ExactExists'
<1>1. Accounted(Fat("fat0"), Fat("fat1"), chain, <<>>, EOC, {}, {})
  BY BareAccount DEF Quietly
<1>2. AllAccounted(chain)'
  BY <1>1, BareAccountNext DEF Quietly
<1>3. Unfaulted'
  BY DEF Unfaulted, Quietly
<1> QED
  BY <1>2, <1>3 DEF ExactExists

\* A card without errors that was mounted takes and gives every block.
LEMMA CardObeys ==
    ASSUME Undisturbed, ready, NEW a, NEW x
    PROVE  /\ Cached(a) => ready' /\ disk' = disk
           /\ CacheFailed(a) => ready' /\ disk' = disk
           /\ ~FlushFailed(a, x)
           /\ UpdateFailed(a, x) => ready' /\ disk' = disk
           /\ Updated(a, x) \/ FlushOk(a, x) => ready'
           /\ a \in VolumeBlocks => ~CacheFailed(a) /\ ~UpdateFailed(a, x)
<1>1. Cached(a) => ready' /\ disk' = disk
  BY DEF Cached, CacheOk
<1>2. \A r : ~CacheFails(a, r) /\ ~FlushFails(a, x, r)
  BY DEF Undisturbed, CacheFails, FlushFails
<1>3. CacheFailed(a) => ready' /\ disk' = disk /\ a \notin VolumeBlocks
  BY <1>2 DEF CacheFailed, CacheBeyondEnd
<1>4. ~FlushFailed(a, x)
  BY <1>2 DEF FlushFailed
<1>5. Updated(a, x) \/ FlushOk(a, x) => ready'
  BY DEF Updated, UpdateOk, FlushOk
<1> QED
  BY <1>1, <1>3, <1>4, <1>5 DEF UpdateFailed

\* The volume is as it was, so is the FAT.
LEMMA DiskKept ==
    ASSUME disk' = disk
    PROVE  Fat("fat0")' = Fat("fat0") /\ Fat("fat1")' = Fat("fat1") /\ Volume' = Volume
<1>1. Volume' = Volume
  BY DEF Volume
<1> QED
  BY <1>1, FatKept

\* The steps of a call that follow a link of the FAT.
LEMMA QuietLinkReads ==
    ASSUME Undisturbed, IInv, ready, OpenReadsFat \/ AdvanceReadsFat \/ SeekBeginReadsFat
                                       \/ SeekFollows \/ SeekEndFollows
    PROVE  Quietly
<1>1. call \in CallType
  BY DEF IInv
<1>2. ASSUME NEW c, NEW ok, NEW failed, NEW then, LinkRead(c, ok, failed, then),
             Bare(then), Bare(call), torn' = torn
      PROVE  Quietly
  <2>1. ready' /\ disk' = disk
    BY <1>2, CardObeys DEF LinkRead
  <2>2. call' = then \/ call'.pc = "return"
    BY <1>1, <1>2, CallAfter DEF LinkRead
  <2>3. Bare(call)'
    BY <1>2, <2>2 DEF Bare
  <2> QED
    BY <1>2, <2>1, <2>3, DiskKept DEF Quietly
<1>3. CASE OpenReadsFat
  <2>1. Bare(call) /\ Bare([call EXCEPT !.pc = "return"])
    BY <1>1, <1>3 DEF OpenReadsFat, Bare, CallType
  <2> QED
    BY <1>2, <1>3, <2>1 DEF OpenReadsFat
<1>4. CASE AdvanceReadsFat
  <2>1. /\ Bare(call)
        /\ Bare([call EXCEPT !.pc = "loop", !.len = @ - call.chunk,
                             !.result = @ + call.chunk, !.chunk = 0])
    BY <1>1, <1>4 DEF AdvanceReadsFat, Bare, CallType
  <2> QED
    BY <1>2, <1>4, <2>1 DEF AdvanceReadsFat
<1>5. CASE SeekBeginReadsFat
  <2>1. Bare(call) /\ Bare([call EXCEPT !.pc = "seek"])
    BY <1>1, <1>5 DEF SeekBeginReadsFat, Bare, CallType
  <2> QED
    BY <1>2, <1>5, <2>1 DEF SeekBeginReadsFat
<1>6. CASE SeekFollows
  <2>1. Bare(call) /\ Bare([call EXCEPT !.offset = @ - (BytesPerCluster % U16)])
    BY <1>1, <1>6 DEF SeekFollows, Bare, CallType
  <2> QED
    BY <1>2, <1>6, <2>1 DEF SeekFollows
<1>7. CASE SeekEndFollows
  <2>1. Bare(call)
    BY <1>7 DEF SeekEndFollows, Bare
  <2> QED
    BY <1>2, <1>7, <2>1 DEF SeekEndFollows
<1> QED
  BY <1>3, <1>4, <1>5, <1>6, <1>7

\* The steps of a call that touch no block, or data, or only look at the FAT.
LEMMA QuietSteps ==
    ASSUME Undisturbed, IInv, BufferCoherent, ready,
           \/ ActionDone \/ ActionAllocates \/ ActionAtEnd \/ ActionMoves \/ ActionFails
           \/ AllocFindsNothing \/ FindParent \/ CutNothing \/ FreeDone
           \/ SeekDone \/ SeekEndDone \/ Returned
    PROVE  Quietly
<1>1. call \in CallType /\ BlockOK
  BY DEF IInv
<1>2. \A ret : Return(ret) => call'.pc = "return"
  BY <1>1, CallAfter
<1>3. ASSUME UNCHANGED blockVars, Bare(call), call'.pc \in {"return", "alloc", "idle"}, torn' = torn
      PROVE  Quietly
  BY <1>3, BlocksKept DEF Quietly, Bare
<1>4. CASE ActionDone \/ ActionAllocates \/ ActionAtEnd
  <2>1. call.pc = "loop" /\ call'.pc \in {"return", "alloc"} /\ torn' = torn /\ UNCHANGED blockVars
    BY <1>1, <1>2, <1>4 DEF ActionDone, ActionAllocates, ActionAtEnd, InBlock, CallType
  <2> QED
    BY <1>3, <2>1 DEF Bare
<1>5. CASE ActionMoves \/ ActionFails
  <2>1. call.pc = "loop" /\ call'.pc \in {"loop", "advance", "return"} /\ torn' = torn
    BY <1>1, <1>2, <1>5 DEF ActionMoves, ActionFails, InBlock, CallType
  <2>2. PICK a : a = DataBlock(D.block_addr)
    OBVIOUS
  <2>3. Cached(a) \/ CacheFailed(a) \/ Updated(a, Load(a)) \/ UpdateFailed(a, Load(a))
    BY <1>5, <2>2 DEF ActionMoves, ActionFails
  <2>4. ready' /\ Volume' = Volume
    <3>1. CASE Updated(a, Load(a))
      <4>1. a \in VolumeBlocks
        BY <3>1 DEF Updated
      <4> QED
        BY <1>1, <3>1, <4>1, UpdateReady, SameWrite
    <3>2. CASE Cached(a) \/ CacheFailed(a) \/ UpdateFailed(a, Load(a))
      BY <3>2, CardObeys, DiskKept
    <3> QED
      BY <2>3, <3>1, <3>2
  <2> QED
    BY <2>1, <2>4, FatKept DEF Quietly, Bare
<1>6. CASE AllocFindsNothing \/ CutNothing \/ SeekDone \/ SeekEndDone \/ Returned
  <2>1. /\ call.pc \in {"alloc", "cut_fat0", "seek", "seek_end", "return"}
        /\ call'.pc \in {"return", "idle"} /\ torn' = torn /\ UNCHANGED blockVars
    BY <1>2, <1>6, CallOfFields
    DEF AllocFindsNothing, CutNothing, SeekDone, SeekEndDone, Returned
  <2> QED
    BY <1>3, <2>1 DEF Bare
<1>7. CASE FreeDone
  <2>1. /\ call.pc = "free_fat0" /\ call.head = EOC
        /\ call'.pc = "return" /\ torn' = torn /\ UNCHANGED blockVars
    BY <1>2, <1>7 DEF FreeDone
  <2> QED
    BY <1>3, <2>1 DEF Bare
<1>8. CASE FindParent
  <2>1. call.pc = "find_parent" /\ call'.pc \in {"find_parent", "cut_fat0", "return"} /\ torn' = torn
    BY <1>1, <1>2, <1>8 DEF FindParent, Goto, CallType
  <2>2. ready' /\ disk' = disk
    BY <1>8, CardObeys DEF FindParent, blockVars
  <2> QED
    BY <2>1, <2>2, DiskKept DEF Quietly, Bare
<1> QED
  BY <1>4, <1>5, <1>6, <1>7, <1>8

\* The calls of the program that do not lengthen or shorten a chain.
LEMMA QuietCalls ==
    ASSUME Undisturbed, IInv, BufferCoherent, ready,
           \/ \E f \in Files : FatOpenFile(f) \/ FatOpenFileFails(f)
           \/ \E fd \in Fds :
                \/ FatClose(fd) \/ FatRefuses(fd) \/ FatSeekEnd(fd)
                \/ \E op \in {"read", "write"}, len \in Lens : FatAction(fd, op, len)
                \/ \E offset \in Offsets : FatSeek(fd, offset)
    PROVE  Quietly
<1>1. BlockOK /\ DirBlock \in VolumeBlocks
  BY Contents DEF IInv
<1>2. ASSUME call.pc = "idle", torn' = torn,
             call'.pc \in {"open", "loop", "seek", "seek_begin", "seek_end", "return"},
             ready', Fat("fat0")' = Fat("fat0"), Fat("fat1")' = Fat("fat1")
      PROVE  Quietly
  BY <1>2 DEF Quietly, Bare
<1>3. ASSUME NEW f \in Files, FatOpenFile(f) \/ FatOpenFileFails(f) PROVE Quietly
  <2>1. call.pc = "idle" /\ torn' = torn /\ call'.pc \in {"open", "return"}
    BY <1>3 DEF FatOpenFile, FatOpenFileFails, Idle, Starts, CallOf, IdleCall
  <2>2. Cached(DirBlock) \/ CacheFailed(DirBlock) \/ UNCHANGED blockVars
    BY <1>3 DEF FatOpenFile, FatOpenFileFails
  <2>3. ready' /\ disk' = disk
    BY <2>2, CardObeys DEF blockVars
  <2> QED
    BY <1>2, <2>1, <2>3, DiskKept
<1>4. ASSUME NEW fd \in Fds, FatClose(fd) PROVE Quietly
  <2>1. call.pc = "idle"
    BY <1>4 DEF FatClose, Idle
  <2>2. call'.pc = "return"
    <3>1. \/ call' = CallOf("close", fd, "return")
          \/ call' = [CallOf("close", fd, "return") EXCEPT !.ret = FALSE]
      BY <1>4 DEF FatClose
    <3> QED
      BY <3>1 DEF CallOf, IdleCall
  <2>3. PICK x : \/ UNCHANGED blockVars /\ torn' = torn
                 \/ Updated(DirBlock, x) /\ torn' = torn
                 \/ UpdateFailed(DirBlock, x)
    BY <1>4 DEF FatClose
  <2>4. CASE UNCHANGED blockVars /\ torn' = torn
    BY <1>2, <2>1, <2>2, <2>4, BlocksKept
  <2>5. CASE Updated(DirBlock, x) /\ torn' = torn
    <3>1. ready' /\ Wrote(DirBlock, x)
      BY <1>1, <2>5, UpdateReady
    <3> QED
      BY <1>1, <1>2, <2>1, <2>2, <2>5, <3>1, DirWrote
  <2>6. ~UpdateFailed(DirBlock, x)
    BY <1>1, CardObeys
  <2> QED
    BY <2>3, <2>4, <2>5, <2>6
<1>5. ASSUME NEW fd \in Fds, FatRefuses(fd) \/ FatSeekEnd(fd) PROVE Quietly
  <2>1. /\ call.pc = "idle" /\ torn' = torn /\ call'.pc \in {"seek_end", "return"}
        /\ UNCHANGED blockVars
    <3>1. CASE FatRefuses(fd)
      BY <3>1 DEF FatRefuses, Idle, CallOf, IdleCall, blockVars
    <3>2. CASE FatSeekEnd(fd)
      BY <3>2 DEF FatSeekEnd, Idle, Starts, CallOf, IdleCall, blockVars
    <3> QED
      BY <1>5, <3>1, <3>2
  <2> QED
    BY <1>2, <2>1, BlocksKept
<1>6. ASSUME NEW fd \in Fds, NEW op \in {"read", "write"}, NEW len \in Lens, FatAction(fd, op, len)
      PROVE  Quietly
  <2>1. /\ call.pc = "idle" /\ torn' = torn /\ call'.pc = "loop" /\ UNCHANGED blockVars
    BY <1>6 DEF FatAction, Idle, Starts, CallOf, IdleCall
  <2> QED
    BY <1>2, <2>1, BlocksKept
<1>7. ASSUME NEW fd \in Fds, NEW offset \in Offsets, FatSeek(fd, offset) PROVE Quietly
  <2>1. /\ call.pc = "idle" /\ torn' = torn /\ UNCHANGED blockVars
        /\ call'.pc \in {"seek_end", "seek_begin", "seek"}
    <3>1. CASE FatSeekEnd(fd)
      <4>1. call' = [CallOf("seek", fd, "seek_end") EXCEPT !.off0 = desc[fd].size]
        BY <3>1, Zenon DEF FatSeekEnd, Starts
      <4>2. call'.pc = "seek_end"
        BY <4>1 DEF CallOf, IdleCall
      <4> QED
        BY <3>1, <4>2, Zenon DEF FatSeekEnd, Starts, Idle
    <3>2. CASE ~FatSeekEnd(fd)
      <4>1. /\ call.pc = "idle" /\ torn' = torn /\ UNCHANGED blockVars
            /\ \E pc \in {"seek_begin", "seek"} :
                  call' = [CallOf("seek", fd, pc) EXCEPT !.offset = offset, !.off0 = offset]
        BY <1>7, <3>2, ZenonT(40) DEF FatSeek, Idle, Starts
      <4>2. PICK pc \in {"seek_begin", "seek"} :
              call' = [CallOf("seek", fd, pc) EXCEPT !.offset = offset, !.off0 = offset]
        BY <4>1
      <4>3. call'.pc = pc
        BY <4>2 DEF CallOf, IdleCall
      <4> QED
        BY <4>1, <4>2, <4>3
    <3> QED
      BY <3>1, <3>2
  <2> QED
    BY <1>2, <2>1, BlocksKept
<1> QED
  BY <1>3, <1>4, <1>5, <1>6, <1>7

-----------------------------------------------------------------------------
(* The steps that change what the account says. *)

\* A step that leaves another account.
LEMMA AccountStep ==
    ASSUME Unfaulted, ready', torn' = torn, NEW chain \in Chains, ChainInv(chain)',
           NEW rest \in Seq(Clusters),
           Accounted(Fat("fat0")', Fat("fat1")', chain, rest,
                     RestFrom(D, call)', Handed(call)', Behind(D, call)')
    PROVE  ExactExists'
<1>1. AllAccounted(chain)'
  BY DEF AllAccounted
<1>2. Unfaulted'
  BY DEF Unfaulted
<1> QED
  BY <1>1, <1>2 DEF ExactExists

\* fat_truncate begins.
LEMMA ExactTruncates ==
    ASSUME Undisturbed, IInv, Unfaulted, NEW chain \in Chains, ChainInv(chain),
           AllAccounted(chain), ready, NEW fd \in Fds, FatTruncate(fd)
    PROVE  ExactExists'
<1>1. /\ call.pc = "idle" /\ Fresh(fd) /\ UNCHANGED blockVars /\ torn' = torn
      /\ call'.pc \in {"return", "free_fat0", "find_parent", "cut_fat0"}
  BY DEF FatTruncate, Idle, Usable, Starts, CallOf, IdleCall
<1>2. /\ ready' /\ Fat("fat0")' = Fat("fat0") /\ Fat("fat1")' = Fat("fat1") /\ Bare(call)
  BY <1>1, BlocksKept DEF Bare
<1>3. PICK chain2 \in Chains :
          /\ ChainInv(chain2)'
          /\ IF call'.pc = "free_fat0"
             THEN /\ chain2 = Without(chain, desc[fd].file)
                  /\ Len(chain[desc[fd].file]) > 0
                  /\ call'.head = chain[desc[fd].file][1]
             ELSE chain2 = chain
  BY ChainTruncates
<1>4. CASE call'.pc # "free_fat0"
  <2>1. Quietly
    BY <1>1, <1>2, <1>4 DEF Quietly, Bare
  <2> QED
    BY <1>3, <1>4, <2>1, QuietStep
<1>5. CASE call'.pc = "free_fat0"
  <2>1. PICK f \in Files : f = desc[fd].file
    BY <1>1, IdleSound
  <2>2. PICK p \in Tables, q \in Tables : p = Fat("fat0") /\ q = Fat("fat1")
    BY FatTables DEF IInv
  <2>3. Sound(p, q, chain, {}) /\ Accounted(p, q, chain, <<>>, EOC, {}, {})
    BY <1>1, <1>2, <2>2, IdleSound, BareAccount
  <2>4. PICK rest \in Seq(Clusters) : rest = chain[f]
    BY ChainFacts
  <2>5. Accounted(p, q, chain2, rest, chain[f][1], {}, {})
    BY <1>3, <1>5, <2>1, <2>3, <2>4, EmptiedAccounted
  <2>6. /\ RestFrom(D, call)' = chain[f][1] /\ Handed(call)' = {} /\ Behind(D, call)' = {}
    BY <1>3, <1>5, <2>1 DEF RestFrom, Handed, Behind, Excused
  <2> QED
    BY <1>1, <1>2, <1>3, <2>2, <2>5, <2>6, AccountStep
<1> QED
  BY <1>4, <1>5

\* alloc_cluster marks a free cluster in FAT 0, or looks in the next sector.
LEMMA ExactMarks ==
    ASSUME Undisturbed, IInv, Unfaulted, NEW chain \in Chains, ChainInv(chain),
           AllAccounted(chain), ready, AllocMarks
    PROVE  ExactExists'
<1> DEFINE s == call.sector
           a == FatBlock("fat0", s)
           c == Min(FreeIn(s))
           x == WithEntry(a, c, EOC)
<1>1. call.pc = "alloc" /\ s < SectorsPerFat /\ desc' = desc /\ torn' = torn
  BY DEF AllocMarks
<1>2. BlockOK /\ BufferCoherent /\ call \in CallType
  BY DEF IInv, ChainInv
<1>3. s \in Nat /\ s \in Sectors
  BY <1>1, <1>2, VolumeAssumption DEF CallType, Sectors
<1>4. a \in VolumeBlocks
  BY <1>3, Contents
<1>5. ChainInv(chain)'
  BY ChainMarks
<1>6. Bare(call)
  BY <1>1 DEF Bare
<1>7. ~CacheFailed(a) /\ ~UpdateFailed(a, x)
  BY <1>4, CardObeys
<1>8. CASE /\ FreeIn(s) # {} /\ Updated(a, x)
           /\ call' = [call EXCEPT !.pc = "alloc_fat1", !.head = c]
  <2>1. c \in Entries /\ SectorOf(c) = s
    <3>1. c \in FreeIn(s) /\ c \in Entries
      BY <1>3, <1>8, FreeInType
    <3> QED
      BY <3>1 DEF FreeIn, SectorEntries
  <2>2. ready' /\ Wrote(a, x)
    BY <1>2, <1>4, <1>8, UpdateReady
  <2>3. call'.pc = "alloc_fat1" /\ call'.head = c
    BY <1>2, <1>8 DEF CallType
  <2> HIDE DEF c
  <2>4. Fat("fat0")' = [Fat("fat0") EXCEPT ![c] = EOC] /\ Fat("fat1")' = Fat("fat1")
    <3>1. LET b == FatBlock("fat0", SectorOf(c)) IN Wrote(b, WithEntry(b, c, EOC))
      BY <2>1, <2>2
    <3> QED
      BY <1>2, <2>1, <3>1, EntryChanged
  <2>5. PICK p \in Tables, q \in Tables : p = Fat("fat0") /\ q = Fat("fat1")
    BY <1>2, FatTables
  <2>6. Accounted(p, q, chain, <<>>, EOC, {}, {})
    BY <1>6, <2>5, BareAccount
  <2>7. Accounted([p EXCEPT ![c] = EOC], q, chain, <<>>, EOC, {c}, {c})
    BY <2>1, <2>6, MarkAccounted
  <2>8. /\ RestFrom(D, call)' = EOC /\ Handed(call)' = {c} /\ Behind(D, call)' = {c}
    BY <2>3 DEF RestFrom, Handed, Behind
  <2>9. <<>> \in Seq(Clusters)
    OBVIOUS
  <2> QED
    BY <1>1, <1>5, <2>2, <2>4, <2>5, <2>7, <2>8, <2>9, AccountStep
<1>9. CASE Cached(a) /\ call' = [call EXCEPT !.sector = @ + 1]
  <2>1. call'.pc = "alloc"
    BY <1>1, <1>2, <1>9 DEF CallType
  <2>2. ready' /\ disk' = disk
    BY <1>9, CardObeys
  <2>3. Quietly
    BY <1>1, <1>6, <2>1, <2>2, DiskKept DEF Quietly, Bare
  <2> QED
    BY <1>5, <2>3, QuietStep
<1> QED
  BY <1>7, <1>8, <1>9 DEF AllocMarks

\* The sector with the new mark is copied to FAT 1.
LEMMA ExactMirrors ==
    ASSUME Undisturbed, IInv, Unfaulted, NEW chain \in Chains, ChainInv(chain),
           AllAccounted(chain), ready, AllocMirrors
    PROVE  ExactExists'
<1> DEFINE s == call.sector
           a == FatBlock("fat1", s)
<1>1. call.pc = "alloc_fat1" /\ torn' = torn /\ call.pc \notin {"idle", "return"}
  BY DEF AllocMirrors
<1>2. /\ BlockOK /\ BufferCoherent /\ call \in CallType /\ D.file \in Files
      /\ Handling(D, call, Fat("fat0"), Fat("fat1"), chain)
      /\ Sound(Fat("fat0"), Fat("fat1"), chain, {})
  BY <1>1, RunningFacts DEF Excused
<1>3. PICK p \in Tables, q \in Tables : p = Fat("fat0") /\ q = Fat("fat1")
  BY <1>2, FatTables
<1>4. PICK c \in Clusters : c = call.head
  BY <1>1, <1>2 DEF Handling, Loose
<1>5. s = SectorOf(c) /\ ~InChains(chain, c) /\ c \in Entries
  BY <1>1, <1>2, <1>4, ClusterFacts DEF Handling, Loose
<1>6. s \in Sectors /\ cache_block_addr = FatBlock("fat0", s) /\ a \in VolumeBlocks
  BY <1>1, Contents DEF IInv, Mirroring
<1>7. FlushOk(a, cache_block) /\ ~FlushFailed(a, cache_block)
  BY CardObeys DEF AllocMirrors
<1>8. ready' /\ Wrote(a, cache_block)
  BY <1>2, <1>6, <1>7, FlushReady
<1>9. Fat("fat0")' = p /\ Fat("fat1")' = Merged(q, p, SectorOf(c))
  BY <1>2, <1>3, <1>5, <1>6, <1>8, SectorCopied
<1>10. PICK rest \in Seq(Clusters) : Accounted(p, q, chain, rest, EOC, {c}, {c})
  <2>1. RestFrom(D, call) = EOC /\ Handed(call) = {c} /\ Behind(D, call) = {c}
    BY <1>1, <1>4 DEF RestFrom, Handed, Behind
  <2> QED
    BY <1>3, <2>1 DEF AllAccounted
<1>11. rest = <<>>
  BY <1>10, RestEmpty
<1>12. Accounted(p, Merged(q, p, SectorOf(c)), chain, <<>>, EOC, {c}, {})
  BY <1>5, <1>10, <1>11, MirrorAccounted
<1>13. Merged(q, p, SectorOf(c)) \in Tables
  BY DEF Merged, Tables
<1>14. PICK chain2 \in Chains :
           /\ ChainInv(chain2)'
           /\ chain2 = IF call.link = 0 THEN Longer(chain, D.file, c) ELSE chain
  BY <1>4, <1>8, ChainMirrors
<1>15. <<>> \in Seq(Clusters)
  OBVIOUS
<1>16. CASE call.link = 0
  <2>1. PICK f \in Files : f = D.file
    BY <1>2
  <2>2. Accounted(p, Merged(q, p, SectorOf(c)), chain2, <<>>, EOC, {}, {})
    BY <1>2, <1>5, <1>12, <1>13, <1>14, <1>16, <2>1, JoinAccounted DEF Sound
  <2>3. call'.pc = "loop"
    BY <1>2, <1>7, <1>16, CallAfter DEF AllocMirrors
  <2>4. RestFrom(D, call)' = EOC /\ Handed(call)' = {} /\ Behind(D, call)' = {}
    BY <2>3 DEF RestFrom, Handed, Behind, Excused
  <2> QED
    BY <1>1, <1>8, <1>9, <1>14, <1>15, <2>2, <2>4, AccountStep
<1>17. CASE call.link # 0
  <2>1. call'.pc = "parent_fat1" /\ call'.head = c
    BY <1>2, <1>4, <1>7, <1>17 DEF AllocMirrors, Goto, CallType
  <2>2. RestFrom(D, call)' = EOC /\ Handed(call)' = {c} /\ Behind(D, call)' = {}
    BY <2>1 DEF RestFrom, Handed, Behind, Excused
  <2> QED
    BY <1>1, <1>8, <1>9, <1>12, <1>14, <1>15, <1>17, <2>2, AccountStep
<1> QED
  BY <1>16, <1>17

\* The parent is linked in FAT 1.
LEMMA ExactParentLinks ==
    ASSUME Undisturbed, IInv, Unfaulted, NEW chain \in Chains, ChainInv(chain),
           AllAccounted(chain), ready, ParentLinks
    PROVE  ExactExists'
<1>1. call.pc = "parent_fat1" /\ desc' = desc /\ call.pc \notin {"idle", "return"}
  BY DEF ParentLinks
<1>2. /\ BlockOK /\ BufferCoherent /\ call \in CallType
      /\ D \in FileDescriptor /\ D.file \in Files /\ Dir[D.file] \in DirEntry
      /\ chain[D.file] \in Seq(Clusters)
      /\ Working(D, call, chain[D.file], Dir[D.file])
      /\ Handling(D, call, Fat("fat0"), Fat("fat1"), chain)
  BY <1>1, RunningFacts
<1>3. PICK p \in Tables, q \in Tables : p = Fat("fat0") /\ q = Fat("fat1")
  BY <1>2, FatTables
<1>4. PICK c : c = call.head
  OBVIOUS
<1>5. PICK last \in Clusters : last = call.link
  <2>1. AtAlloc(D, call, chain[D.file], Dir[D.file]) /\ call.link # 0
    BY <1>1, <1>2 DEF Working, Handling
  <2> QED
    BY <1>2, <2>1, ParentIsLast
<1>6. last \in Entries /\ Fat1(last) \in VolumeBlocks
  BY <1>5, ClusterFacts, FatAreas
<1>7. PICK x : x = WithEntry(Fat1(last), last, c)
  OBVIOUS
<1>8. Updated(Fat1(last), x) /\ Goto("parent_fat0") /\ torn' = torn
  BY <1>4, <1>5, <1>6, <1>7, CardObeys DEF ParentLinks
<1>9. ready' /\ Wrote(Fat1(last), x)
  BY <1>2, <1>6, <1>8, UpdateReady
<1>10. Fat("fat1")' = [q EXCEPT ![last] = c] /\ Fat("fat0")' = p
  BY <1>2, <1>3, <1>6, <1>7, <1>9, EntryChanged DEF Fat1
<1>11. PICK rest \in Seq(Clusters) : Accounted(p, q, chain, rest, EOC, {c}, {})
  <2>1. RestFrom(D, call) = EOC /\ Handed(call) = {c} /\ Behind(D, call) = {}
    BY <1>1, <1>4 DEF RestFrom, Handed, Behind, Excused
  <2> QED
    BY <1>3, <2>1 DEF AllAccounted
<1>12. rest = <<>>
  BY <1>11, RestEmpty
<1>13. Accounted(p, [q EXCEPT ![last] = c], chain, <<>>, EOC, {c}, {last})
  BY <1>6, <1>11, <1>12, LinkAccounted
<1>14. ChainInv(chain)'
  BY <1>9, ChainParentLinks
<1>15. call'.pc = "parent_fat0" /\ call'.head = c /\ call'.link = last
  BY <1>2, <1>4, <1>5, <1>8 DEF Goto, CallType
<1>16. RestFrom(D, call)' = EOC /\ Handed(call)' = {c} /\ Behind(D, call)' = {last}
  BY <1>15 DEF RestFrom, Handed, Behind, Excused
<1>17. <<>> \in Seq(Clusters)
  OBVIOUS
<1> QED
  BY <1>8, <1>9, <1>10, <1>13, <1>14, <1>16, <1>17, AccountStep

\* The parent's sector is copied to FAT 0 and the new cluster belongs to the file.
LEMMA ExactParentMirrors ==
    ASSUME Undisturbed, IInv, Unfaulted, NEW chain \in Chains, ChainInv(chain),
           AllAccounted(chain), ready, ParentMirrors
    PROVE  ExactExists'
<1>1. call.pc = "parent_fat0" /\ call.pc \notin {"idle", "return"}
  BY DEF ParentMirrors
<1>2. /\ BlockOK /\ BufferCoherent /\ call \in CallType
      /\ D \in FileDescriptor /\ D.file \in Files /\ Dir[D.file] \in DirEntry
      /\ chain[D.file] \in Seq(Clusters)
      /\ Working(D, call, chain[D.file], Dir[D.file])
      /\ Handling(D, call, Fat("fat0"), Fat("fat1"), chain)
      /\ Sound(Fat("fat0"), Fat("fat1"), chain, Excused(D, call))
  BY <1>1, RunningFacts
<1>3. PICK p \in Tables, q \in Tables : p = Fat("fat0") /\ q = Fat("fat1")
  BY <1>2, FatTables
<1>4. PICK c \in Clusters : c = call.head
  BY <1>1, <1>2 DEF Handling, Loose
<1>5. PICK f \in Files : f = D.file
  BY <1>2
<1>6. PICK last \in Clusters : last = call.link /\ InChains(chain, last)
  <2>1. AtAlloc(D, call, chain[D.file], Dir[D.file]) /\ call.link # 0
    BY <1>1, <1>2 DEF Working, Handling
  <2>2. Len(chain[f]) \in 1 .. Len(chain[f]) /\ call.link = chain[f][Len(chain[f])]
    BY <1>2, <1>5, <2>1, ParentIsLast
  <2> QED
    BY <2>2, ChainFacts DEF InChains
<1>7. last \in Entries /\ Fat0(last) \in VolumeBlocks /\ SectorOf(last) \in Sectors
  BY ClusterFacts, FatAreas
<1>8. cache_block_addr = FatBlock("fat1", SectorOf(last))
  BY <1>1, <1>6 DEF IInv, Mirroring, Fat1
<1>9. /\ FlushOk(Fat0(last), cache_block) /\ Goto("loop") /\ torn' = torn
  BY <1>6, CardObeys DEF ParentMirrors
<1>10. ready' /\ Wrote(Fat0(last), cache_block)
  BY <1>2, <1>7, <1>9, FlushReady
<1>11. Fat("fat0")' = Merged(p, q, SectorOf(last)) /\ Fat("fat1")' = q
  BY <1>2, <1>3, <1>7, <1>8, <1>10, SectorCopied DEF Fat0
<1>12. PICK rest \in Seq(Clusters) : Accounted(p, q, chain, rest, EOC, {c}, {last})
  <2>1. RestFrom(D, call) = EOC /\ Handed(call) = {c} /\ Behind(D, call) = {last}
    BY <1>1, <1>4, <1>6 DEF RestFrom, Handed, Behind, Excused
  <2> QED
    BY <1>3, <2>1 DEF AllAccounted
<1>13. rest = <<>>
  BY <1>12, RestEmpty
<1>14. Accounted(Merged(p, q, SectorOf(last)), q, chain, <<>>, EOC, {c}, {})
  BY <1>6, <1>7, <1>12, <1>13, LinkMirrorAccounted
<1>15. Merged(p, q, SectorOf(last)) \in Tables
  BY DEF Merged, Tables
<1>16. PICK chain2 \in Chains : ChainInv(chain2)' /\ chain2 = Longer(chain, f, c)
  BY <1>4, <1>5, <1>10, ChainParentMirrors
<1>17. ChainsDisjoint(chain) /\ ~InChains(chain, c)
  BY <1>1, <1>2, <1>4 DEF Sound, Handling, Loose
<1>18. Accounted(Merged(p, q, SectorOf(last)), q, chain2, <<>>, EOC, {}, {})
  BY <1>14, <1>15, <1>16, <1>17, JoinAccounted
<1>19. call'.pc = "loop"
  BY <1>2, <1>9, CallAfter
<1>20. RestFrom(D, call)' = EOC /\ Handed(call)' = {} /\ Behind(D, call)' = {}
  BY <1>19 DEF RestFrom, Handed, Behind, Excused
<1>21. <<>> \in Seq(Clusters)
  OBVIOUS
<1> QED
  BY <1>9, <1>10, <1>11, <1>16, <1>18, <1>20, <1>21, AccountStep

\* The last cluster that stays is marked as the end of the chain in FAT 0.
LEMMA ExactCuts ==
    ASSUME Undisturbed, IInv, Unfaulted, NEW chain \in Chains, ChainInv(chain),
           AllAccounted(chain), ready, CutFat0
    PROVE  ExactExists'
<1>1. call.pc = "cut_fat0" /\ torn' = torn /\ desc' = desc /\ call.pc \notin {"idle", "return"}
  BY DEF CutFat0
<1>2. /\ BlockOK /\ BufferCoherent /\ call \in CallType /\ D.file \in Files /\ Bare(call)
      /\ chain[D.file] \in Seq(Clusters)
      /\ Working(D, call, chain[D.file], Dir[D.file])
      /\ Sound(Fat("fat0"), Fat("fat1"), chain, {})
  BY <1>1, RunningFacts DEF Excused, Bare
<1>3. PICK p \in Tables, q \in Tables : p = Fat("fat0") /\ q = Fat("fat1")
  BY <1>2, FatTables
<1>4. PICK f \in Files : f = D.file
  BY <1>2
<1>5. PICK cur \in Clusters : cur = D.cur_cluster
  <2>1. PICK k \in 1 .. Len(chain[f]) : AtCut(D, chain[f], k)
    BY <1>1, <1>2, <1>4 DEF Working
  <2> QED
    BY <2>1, ChainFacts DEF AtCut, Standing
<1>6. cur \in Entries /\ Fat0(cur) \in VolumeBlocks
  BY ClusterFacts, FatAreas
<1>7. PICK x : x = WithEntry(Fat0(cur), cur, EOC)
  OBVIOUS
<1>8. Updated(Fat0(cur), x) /\ Goto("cut_fat1")
  BY <1>5, <1>6, <1>7, CardObeys DEF CutFat0
<1>9. ready' /\ Wrote(Fat0(cur), x)
  BY <1>2, <1>6, <1>8, UpdateReady
<1>10. Fat("fat0")' = Relinked(p, cur, EOC) /\ Fat("fat1")' = q
  BY <1>2, <1>3, <1>6, <1>7, <1>9, EntryChanged DEF Fat0, Relinked
<1>11. PICK chain2 \in Chains :
           /\ ChainInv(chain2)'
           /\ \E k \in 1 .. Len(chain[f]) :
                /\ k < Len(chain[f]) /\ chain2 = Cut(chain, f, k)
                /\ cur = chain[f][k] /\ D.next_cluster = chain[f][k + 1]
  BY <1>4, <1>5, <1>9, ChainCuts
<1>12. PICK k \in 1 .. Len(chain[f]) :
           /\ k < Len(chain[f]) /\ chain2 = Cut(chain, f, k)
           /\ cur = chain[f][k] /\ D.next_cluster = chain[f][k + 1]
  BY <1>11
<1>13. Accounted(p, q, chain, <<>>, EOC, {}, {}) /\ Sound(p, q, chain, {})
  BY <1>2, <1>3, BareAccount
<1>14. PICK rest \in Seq(Clusters) :
           Accounted(Relinked(p, chain[f][k], EOC), q, Cut(chain, f, k), rest,
                     chain[f][k + 1], {}, {chain[f][k]})
  BY <1>12, <1>13, CutAccounted
<1>15. call'.pc = "cut_fat1" /\ D' = D
  BY <1>1, <1>2, <1>8, CallAfter DEF D
<1>16. RestFrom(D, call)' = chain[f][k + 1] /\ Handed(call)' = {} /\ Behind(D, call)' = {cur}
  BY <1>5, <1>12, <1>15 DEF RestFrom, Handed, Behind, Excused
<1> QED
  BY <1>1, <1>9, <1>10, <1>11, <1>12, <1>14, <1>16, AccountStep

\* The same entry in FAT 1.
LEMMA ExactCutsTwice ==
    ASSUME Undisturbed, IInv, Unfaulted, NEW chain \in Chains, ChainInv(chain),
           AllAccounted(chain), ready, CutFat1
    PROVE  ExactExists'
<1>1. call.pc = "cut_fat1" /\ torn' = torn /\ desc' = desc /\ call.pc \notin {"idle", "return"}
  BY DEF CutFat1
<1>2. /\ BlockOK /\ BufferCoherent /\ call \in CallType /\ D.file \in Files
      /\ chain[D.file] \in Seq(Clusters)
      /\ Working(D, call, chain[D.file], Dir[D.file])
      /\ Handling(D, call, Fat("fat0"), Fat("fat1"), chain)
      /\ Sound(Fat("fat0"), Fat("fat1"), chain, Excused(D, call))
  BY <1>1, RunningFacts
<1>3. PICK p \in Tables, q \in Tables : p = Fat("fat0") /\ q = Fat("fat1")
  BY <1>2, FatTables
<1>4. PICK f \in Files : f = D.file
  BY <1>2
<1>5. PICK cur \in Clusters : cur = D.cur_cluster /\ p[cur] = EOC
  <2>1. Len(chain[f]) > 0 /\ D.cur_cluster = chain[f][Len(chain[f])]
    BY <1>1, <1>2, <1>4 DEF Working, Handling, AtFree, AtCut, Standing
  <2>2. Len(chain[f]) \in 1 .. Len(chain[f])
    BY <1>2, <1>4, <2>1
  <2> QED
    BY <1>2, <1>3, <2>1, <2>2, ChainFacts, ChainLinks
<1>6. cur \in Entries /\ Fat1(cur) \in VolumeBlocks
  BY ClusterFacts, FatAreas
<1>7. PICK x : x = WithEntry(Fat1(cur), cur, EOC)
  OBVIOUS
<1>8. /\ Updated(Fat1(cur), x)
      /\ call' = [call EXCEPT !.pc = "free_fat0", !.head = D.next_cluster]
  BY <1>5, <1>6, <1>7, CardObeys DEF CutFat1
<1>9. ready' /\ Wrote(Fat1(cur), x)
  BY <1>2, <1>6, <1>8, UpdateReady
<1>10. Fat("fat1")' = Relinked(q, cur, EOC) /\ Fat("fat0")' = p
  BY <1>2, <1>3, <1>6, <1>7, <1>9, EntryChanged DEF Fat1, Relinked
<1>11. PICK next : next = D.next_cluster
  OBVIOUS
<1>12. PICK rest \in Seq(Clusters) : Accounted(p, q, chain, rest, next, {}, {cur})
  <2>1. RestFrom(D, call) = next /\ Handed(call) = {} /\ Behind(D, call) = {cur}
    BY <1>1, <1>5, <1>11 DEF RestFrom, Handed, Behind, Excused
  <2> QED
    BY <1>3, <2>1 DEF AllAccounted
<1>13. Accounted(p, Relinked(q, cur, EOC), chain, rest, next, {}, {})
  BY <1>5, <1>6, <1>12, CutTwiceAccounted
<1>14. ChainInv(chain)'
  BY <1>9, ChainCutsTwice
<1>15. call'.pc = "free_fat0" /\ call'.head = next
  BY <1>2, <1>8, <1>11 DEF CallType
<1>16. RestFrom(D, call)' = next /\ Handed(call)' = {} /\ Behind(D, call)' = {}
  BY <1>15 DEF RestFrom, Handed, Behind, Excused
<1> QED
  BY <1>1, <1>9, <1>10, <1>13, <1>14, <1>16, AccountStep

\* A cluster of the rest is freed in FAT 0.
LEMMA ExactFrees ==
    ASSUME Undisturbed, IInv, Unfaulted, NEW chain \in Chains, ChainInv(chain),
           AllAccounted(chain), ready, FreeFat0
    PROVE  ExactExists'
<1>1. /\ call.pc = "free_fat0" /\ torn' = torn /\ call.head # EOC
      /\ call.pc \notin {"idle", "return"}
  BY DEF FreeFat0
<1>2. /\ BlockOK /\ BufferCoherent /\ call \in CallType
      /\ Handling(D, call, Fat("fat0"), Fat("fat1"), chain)
  BY <1>1, RunningFacts
<1>3. PICK p \in Tables, q \in Tables : p = Fat("fat0") /\ q = Fat("fat1")
  BY <1>2, FatTables
<1>4. PICK h \in Clusters : h = call.head
  BY <1>1, <1>2 DEF Handling, Loose
<1>5. p[h] # 0 /\ \A b \in Entries : ~Linked(p, q, b, h)
  BY <1>1, <1>2, <1>3, <1>4 DEF Handling, Loose
<1>6. h \in Entries /\ Entry(h) = p[h] /\ Fat0(h) \in VolumeBlocks
  BY <1>2, <1>3, ClusterFacts, EntryIs
<1>7. PICK x : x = WithEntry(Fat0(h), h, 0)
  OBVIOUS
<1>8. /\ Updated(Fat0(h), x) /\ desc' = desc
      /\ call' = [call EXCEPT !.pc = "free_fat1", !.link = p[h]]
  BY <1>4, <1>5, <1>6, <1>7, CardObeys DEF FreeFat0
<1>9. ready' /\ Wrote(Fat0(h), x)
  BY <1>2, <1>6, <1>8, UpdateReady
<1>10. Fat("fat0")' = Relinked(p, h, 0) /\ Fat("fat1")' = q
  BY <1>2, <1>3, <1>6, <1>7, <1>9, EntryChanged DEF Fat0, Relinked
<1>11. PICK rest \in Seq(Clusters) : Accounted(p, q, chain, rest, h, {}, {})
  <2>1. RestFrom(D, call) = h /\ Handed(call) = {} /\ Behind(D, call) = {}
    BY <1>1, <1>4 DEF RestFrom, Handed, Behind, Excused
  <2> QED
    BY <1>3, <2>1 DEF AllAccounted
<1>12. PICK rest2 \in Seq(Clusters) :
           Accounted(Relinked(p, h, 0), q, chain, rest2, p[h], {}, {h})
  BY <1>1, <1>4, <1>5, <1>11, FreeAccounted
<1>13. ChainInv(chain)'
  BY ChainFrees
<1>14. call'.pc = "free_fat1" /\ call'.head = h /\ call'.link = p[h]
  BY <1>2, <1>4, <1>8 DEF CallType
<1>15. RestFrom(D, call)' = p[h] /\ Handed(call)' = {} /\ Behind(D, call)' = {h}
  BY <1>14 DEF RestFrom, Handed, Behind, Excused
<1> QED
  BY <1>1, <1>9, <1>10, <1>12, <1>13, <1>15, AccountStep

\* The same cluster is freed in FAT 1.
LEMMA ExactFreesTwice ==
    ASSUME Undisturbed, IInv, Unfaulted, NEW chain \in Chains, ChainInv(chain),
           AllAccounted(chain), ready, FreeFat1
    PROVE  ExactExists'
<1>1. call.pc = "free_fat1" /\ torn' = torn /\ call.pc \notin {"idle", "return"}
  BY DEF FreeFat1
<1>2. /\ BlockOK /\ BufferCoherent /\ call \in CallType
      /\ Handling(D, call, Fat("fat0"), Fat("fat1"), chain)
  BY <1>1, RunningFacts
<1>3. PICK p \in Tables, q \in Tables : p = Fat("fat0") /\ q = Fat("fat1")
  BY <1>2, FatTables
<1>4. PICK h \in Clusters : h = call.head /\ p[h] = 0
  BY <1>1, <1>2, <1>3 DEF Handling, Loose
<1>5. h \in Entries /\ Fat1(h) \in VolumeBlocks
  BY ClusterFacts, FatAreas
<1>6. PICK x, next : x = WithEntry(Fat1(h), h, 0) /\ next = call.link
  OBVIOUS
<1>7. /\ Updated(Fat1(h), x) /\ desc' = desc
      /\ call' = [call EXCEPT !.pc = "free_fat0", !.head = next]
  BY <1>4, <1>5, <1>6, CardObeys DEF FreeFat1
<1>8. ready' /\ Wrote(Fat1(h), x)
  BY <1>2, <1>5, <1>7, UpdateReady
<1>9. Fat("fat1")' = Relinked(q, h, 0) /\ Fat("fat0")' = p
  BY <1>2, <1>3, <1>5, <1>6, <1>8, EntryChanged DEF Fat1, Relinked
<1>10. PICK rest \in Seq(Clusters) : Accounted(p, q, chain, rest, next, {}, {h})
  <2>1. RestFrom(D, call) = next /\ Handed(call) = {} /\ Behind(D, call) = {h}
    BY <1>1, <1>4, <1>6 DEF RestFrom, Handed, Behind
  <2> QED
    BY <1>3, <2>1 DEF AllAccounted
<1>11. Accounted(p, Relinked(q, h, 0), chain, rest, next, {}, {})
  BY <1>4, <1>5, <1>10, CutTwiceAccounted
<1>12. ChainInv(chain)'
  BY ChainFreesTwice
<1>13. call'.pc = "free_fat0" /\ call'.head = next
  BY <1>2, <1>7 DEF CallType
<1>14. RestFrom(D, call)' = next /\ Handed(call)' = {} /\ Behind(D, call)' = {}
  BY <1>13 DEF RestFrom, Handed, Behind, Excused
<1> QED
  BY <1>1, <1>8, <1>9, <1>11, <1>12, <1>14, AccountStep

\* A program without those usages is disciplined.
LEMMA UndisturbedDisciplined == ASSUME Undisturbed PROVE Disciplined
BY DEF Undisturbed, Disciplined

\* The steps of the program while the card answers.
LEMMA ExactCalls ==
    ASSUME Undisturbed, IInv, Unfaulted, NEW chain \in Chains, ChainInv(chain),
           AllAccounted(chain), ready, ProgramCalls
    PROVE  ExactExists'
<1>1. Disciplined /\ BufferCoherent
  BY UndisturbedDisciplined DEF ChainInv
<1>2. ASSUME Quietly, ChainInv(chain)' PROVE ExactExists'
  BY <1>2, QuietStep
<1>3. ASSUME NEW f \in Files, FatOpenFile(f) \/ FatOpenFileFails(f) PROVE ExactExists'
  <2>1. Quietly
    BY <1>1, <1>3, QuietCalls
  <2>2. ChainInv(chain)'
    BY <1>1, <1>3, ChainOpens, ChainOpenFails
  <2> QED
    BY <1>2, <2>1, <2>2
<1>4. ASSUME NEW fd \in Fds, FatClose(fd) \/ FatRefuses(fd) PROVE ExactExists'
  <2>1. Quietly
    BY <1>1, <1>4, QuietCalls
  <2>2. ChainInv(chain)'
    BY <1>1, <1>4, ChainClose, ChainRefuses
  <2> QED
    BY <1>2, <2>1, <2>2
<1>5. ASSUME NEW fd \in Fds,
             \/ \E op \in {"read", "write"}, len \in Lens : FatAction(fd, op, len)
             \/ FatSeekEnd(fd)
      PROVE  ExactExists'
  <2>1. Quietly
    BY <1>1, <1>5, QuietCalls
  <2>2. ChainInv(chain)'
    BY <1>1, <1>5, ChainBegins
  <2> QED
    BY <1>2, <2>1, <2>2
<1>6. ASSUME NEW fd \in Fds, NEW offset \in Offsets, FatSeek(fd, offset) PROVE ExactExists'
  <2>1. Quietly
    BY <1>1, <1>6, QuietCalls
  <2>2. ChainInv(chain)'
    BY <1>1, <1>6, ChainSeeks
  <2> QED
    BY <1>2, <2>1, <2>2
<1>7. ASSUME NEW fd \in Fds, FatTruncate(fd) PROVE ExactExists'
  BY <1>7, ExactTruncates
<1>8. ~FatMount
  BY DEF FatMount, Undisturbed
<1> QED
  BY <1>3, <1>4, <1>5, <1>6, <1>7, <1>8 DEF ProgramCalls

\* The steps of a running call while the card answers.
LEMMA ExactCallSteps ==
    ASSUME Undisturbed, IInv, Unfaulted, NEW chain \in Chains, ChainInv(chain),
           AllAccounted(chain), ready, CallStep
    PROVE  ExactExists'
<1>1. Disciplined /\ BufferCoherent
  BY UndisturbedDisciplined DEF ChainInv
<1>2. ASSUME Quietly, ChainInv(chain)' PROVE ExactExists'
  BY <1>2, QuietStep
<1>3. CASE OpenReadsFat \/ AdvanceReadsFat \/ SeekBeginReadsFat \/ SeekFollows \/ SeekEndFollows
  <2>1. Quietly
    BY <1>3, QuietLinkReads
  <2>2. ChainInv(chain)'
    BY <1>1, <1>3, ChainOpenReads, ChainAdvances, ChainSeekBegins, ChainSeekFollows
  <2> QED
    BY <1>2, <2>1, <2>2
<1>4. CASE ActionDone \/ ActionAllocates \/ ActionAtEnd \/ ActionMoves \/ ActionFails
  <2>1. Quietly
    BY <1>1, <1>4, QuietSteps
  <2>2. ChainInv(chain)'
    BY <1>1, <1>4, ChainLoopThinks, ChainMoves, ChainMoveFails
  <2> QED
    BY <1>2, <2>1, <2>2
<1>5. CASE AllocFindsNothing \/ FindParent \/ CutNothing \/ FreeDone
  <2>1. Quietly
    BY <1>1, <1>5, QuietSteps
  <2>2. ChainInv(chain)'
    BY <1>1, <1>5, ChainFindsNothing, ChainFindsParent, ChainPlaces
  <2> QED
    BY <1>2, <2>1, <2>2
<1>6. CASE SeekDone \/ SeekEndDone \/ Returned
  <2>1. Quietly
    BY <1>1, <1>6, QuietSteps
  <2>2. ChainInv(chain)'
    BY <1>1, <1>6, ChainPlaces, ChainReturned
  <2> QED
    BY <1>2, <2>1, <2>2
<1>7. CASE AllocMarks \/ AllocMirrors \/ ParentLinks \/ ParentMirrors
  BY <1>7, ExactMarks, ExactMirrors, ExactParentLinks, ExactParentMirrors
<1>8. CASE CutFat0 \/ CutFat1 \/ FreeFat0 \/ FreeFat1
  BY <1>8, ExactCuts, ExactCutsTwice, ExactFrees, ExactFreesTwice
<1> QED
  BY <1>3, <1>4, <1>5, <1>6, <1>7, <1>8 DEF CallStep

\* Before the first fat_mount every call comes back with nothing done.
LEMMA ExactUnmounted ==
    ASSUME Undisturbed, IInv, Unfaulted, NEW chain \in Chains, ChainInv(chain),
           AllAccounted(chain), ~ready, ProgramCalls \/ CallStep
    PROVE  ExactExists'
<1>1. call.pc \in {"idle", "return"}
  <2>1. call.fd \in Fds
    BY DEF IInv, CallType
  <2> QED
    BY <2>1 DEF ChainInv, Always, Unfaulted, Fresh
<1>2. torn = {} /\ cache_block_addr = INVALID_BLOCK_ADDR /\ \A fd \in Fds : desc[fd].is_free
  BY DEF Unfaulted
<1>3. slot = Card /\ Card # NoCard /\ INVALID_BLOCK_ADDR \notin VolumeBlocks
  BY FileAssumption DEF IInv, BlockOK
<1>4. \A a \in VolumeBlocks : ~Hit(a)
  BY <1>2, <1>3 DEF Hit
<1>5. DirBlock \in VolumeBlocks
  BY DEF VolumeBlocks
<1>6. Unsaved = {}
  BY <1>2 DEF Unsaved, Fresh
<1>7. /\ \A f \in Files : ~FatOpenFile(f)
      /\ \A fd \in Fds : ~FatTruncate(fd) /\ ~FatSeekEnd(fd)
      /\ \A fd \in Fds : \A op, len : ~FatAction(fd, op, len)
      /\ \A fd \in Fds : \A offset : ~FatSeek(fd, offset)
      /\ \A fd \in Fds : ~FatClose(fd)
  <2>1. ~Cached(DirBlock)
    BY <1>4, <1>5 DEF Cached, CacheOk
  <2> QED
    BY <1>2, <2>1 DEF FatOpenFile, FatTruncate, FatSeekEnd, FatAction, FatSeek, FatClose,
                      Usable, Fresh
<1>8. ASSUME disk' = disk, torn' = {}, \A fd \in Fds : desc'[fd].is_free,
             call'.pc \in {"idle", "return"},
             ready' \/ cache_block_addr' = INVALID_BLOCK_ADDR
      PROVE  ExactExists'
  <2>1. Unfaulted'
    BY <1>8 DEF Unfaulted
  <2>2. Bare(call) /\ Bare(call)'
    BY <1>1, <1>8 DEF Bare
  <2>3. Accounted(Fat("fat0"), Fat("fat1"), chain, <<>>, EOC, {}, {})
    BY <2>2, BareAccount
  <2>4. Fat("fat0")' = Fat("fat0") /\ Fat("fat1")' = Fat("fat1")
    BY <1>8, DiskKept
  <2>5. Accounted(Fat("fat0")', Fat("fat1")', chain, <<>>, EOC, {}, {})
    BY <2>3, <2>4
  <2>6. AllAccounted(chain)'
    BY <2>2, <2>5, BareAccountNext
  <2>7. ChainInv(chain)'
    BY OffSteps
  <2> QED
    BY <2>1, <2>6, <2>7 DEF ExactExists
<1>9. ASSUME Returned \/ \E fd \in Fds : FatRefuses(fd) PROVE ExactExists'
  <2>1. UNCHANGED <<blockVars, desc, torn>> /\ call'.pc \in {"idle", "return"}
    <3>1. CASE Returned
      BY <3>1 DEF Returned, IdleCall
    <3>2. ASSUME NEW fd \in Fds, FatRefuses(fd)
          PROVE  UNCHANGED <<blockVars, desc, torn>> /\ call'.pc = "return"
      BY <3>2 DEF FatRefuses, CallOf, IdleCall
    <3> QED
      BY <1>9, <3>1, <3>2
  <2> QED
    BY <1>2, <1>8, <2>1 DEF blockVars
<1>10. ASSUME NEW f \in Files, FatOpenFileFails(f) PROVE ExactExists'
  <2>1. desc' = desc /\ torn' = torn /\ call'.pc = "return"
    BY <1>10 DEF FatOpenFileFails, CallOf, IdleCall
  <2>2. UNCHANGED blockVars \/ CacheFailed(DirBlock)
    BY <1>10 DEF FatOpenFileFails
  <2>3. disk' = disk /\ cache_block_addr' = INVALID_BLOCK_ADDR
    BY <1>2, <2>2 DEF blockVars, CacheFailed, CacheFails, CacheBeyondEnd
  <2> QED
    BY <1>2, <1>8, <2>1, <2>3
<1>11. ASSUME FatMount PROVE ExactExists'
  <2>1. torn' = {} /\ call'.pc = "return"
    BY <1>2, <1>6, <1>11 DEF FatMount, CallOf, IdleCall
  <2>2. \A fd \in Fds : desc'[fd].is_free
    BY <1>2, <1>11 DEF FatMount
  <2>3. \A r : ~MountStops(r)
    BY <1>3 DEF MountStops, Undisturbed
  <2>4. MountReads(BootBlock)
    BY <1>11, <2>3 DEF FatMount
  <2>5. disk' = disk /\ ready'
    BY <2>4 DEF MountReads
  <2> QED
    BY <1>8, <2>1, <2>2, <2>5
<1>12. CallStep => Returned
  BY <1>1 DEF CallStep, OpenReadsFat, ActionDone, ActionAllocates, ActionAtEnd, ActionMoves,
              ActionFails, InBlock, AdvanceReadsFat, AllocMarks, AllocFindsNothing,
              AllocMirrors, ParentLinks, ParentMirrors, FindParent, CutNothing, CutFat0,
              CutFat1, FreeFat0, FreeFat1, FreeDone, SeekBeginReadsFat, SeekFollows,
              SeekDone, SeekEndFollows, SeekEndDone
<1>13. ProgramCalls =>
         FatMount \/ (\E fd \in Fds : FatRefuses(fd)) \/ \E f \in Files : FatOpenFileFails(f)
  BY <1>7 DEF ProgramCalls
<1> QED
  BY <1>9, <1>10, <1>11, <1>12, <1>13

\* A formatted volume that nobody has mounted yet.
LEMMA ExactInit == ASSUME Init PROVE ExactExists
<1>1. PICK chain \in Chains : ChainInv(chain)
  BY InitChains DEF ChainsExist
<1>2. Unfaulted
  BY DEF Init, Unfaulted, FreeDesc
<1>3. Bare(call)
  BY DEF Init, IdleCall, Bare
<1>4. /\ \A c \in Entries : Fat("fat0")[c] = Fat("fat1")[c]
      /\ \A c \in Clusters : Fat("fat0")[c] = 0
  <2>1. \A c \in Entries, copy \in {"fat0", "fat1"} : Fat(copy)[c] = IF c < 2 THEN EOC ELSE 0
    BY InitFat
  <2>2. \A c \in Clusters : c \in Entries /\ ~(c < 2)
    BY ClusterFacts, EocFacts DEF Clusters
  <2> QED
    BY <2>1, <2>2
<1>5. Accounted(Fat("fat0"), Fat("fat1"), chain, <<>>, EOC, {}, {})
  BY <1>4 DEF Accounted
<1>6. AllAccounted(chain)
  BY <1>3, <1>5, BareAccount
<1> QED
  BY <1>1, <1>2, <1>6 DEF ExactExists

\* Every step of a program that runs undisturbed accounts for every cluster.
LEMMA ExactNext == ASSUME Undisturbed, IInv, ExactExists, [Next]_vars PROVE ExactExists'
<1>1. PICK chain \in Chains : ChainInv(chain) /\ AllAccounted(chain)
  BY DEF ExactExists
<1>2. Unfaulted
  BY DEF ExactExists
<1>3. CASE ready /\ (ProgramCalls \/ CallStep)
  BY <1>1, <1>2, <1>3, ExactCalls, ExactCallSteps
<1>4. CASE ~ready /\ (ProgramCalls \/ CallStep)
  BY <1>1, <1>2, <1>4, ExactUnmounted
<1>5. ~FatInit
  BY DEF FatInit, Undisturbed
<1>6. CASE UNCHANGED vars
  <2>1. ChainInv(chain)'
    BY <1>1, <1>6, ChainStutters
  <2>2. Unfaulted'
    BY <1>2, <1>6 DEF Unfaulted, vars
  <2>3. AllAccounted(chain)'
    BY <1>1, <1>6 DEF AllAccounted, vars, Fat, Volume, D
  <2> QED
    BY <2>1, <2>2, <2>3 DEF ExactExists
<1> QED
  BY <1>3, <1>4, <1>5, <1>6 DEF Next

\* In every state that the library reaches on a card that answers, every cluster
\* that is not free is in the chain of a file or in the hands of the running call,
\* and the copies of the FAT differ at most where that call is writing.
THEOREM ExactAlways == ASSUME Undisturbed PROVE Spec => []ExactExists
<1>1. Init => ExactExists
  BY ExactInit
<1>2. IInv /\ ExactExists /\ [Next]_vars => ExactExists'
  BY ExactNext
<1> QED
  BY <1>1, <1>2, SpecIInv, PTL DEF Spec

\* The clusters of a file, from its descriptor or from its directory entry.
LEMMA CurrentChain ==
    ASSUME IInv, Unfaulted, NEW chain \in Chains, ChainInv(chain), ready, Idle,
           NEW f \in Files
    PROVE  CurrentClusters(f) = {chain[f][k] : k \in 1 .. Len(chain[f])}
<1>1. PICK exc : Sound(Fat("fat0"), Fat("fat1"), chain, exc)
  BY DEF ChainInv
<1>2. BlockOK
  BY DEF IInv
<1>3. PICK e : e = CurrentEntry(f)
  OBVIOUS
<1>4. e.cluster_lo = IF Len(chain[f]) = 0 THEN 0 ELSE chain[f][1]
  <2>1. CASE f \in OpenFiles
    <3> DEFINE fd == CHOOSE x \in Fds : Fresh(x) /\ desc[x].file = f
    <3>1. \E x \in Fds : Fresh(x) /\ desc[x].file = f
      BY <2>1 DEF OpenFiles
    <3>2. fd \in Fds /\ Fresh(fd) /\ desc[fd].file = f
      BY <3>1
    <3>3. e = desc[fd]
      BY <1>3, <2>1 DEF CurrentEntry
    <3> HIDE DEF fd
    <3>4. Settle(desc[fd], chain[f], Dir[f])
      BY <3>2 DEF ChainInv, DescsSound, Quiet, Idle
    <3> QED
      BY <3>3, <3>4 DEF Settle, Sane, Extent
  <2>2. CASE f \notin OpenFiles
    <3>1. f \notin torn /\ f \notin Unsaved
      BY <2>2 DEF Unfaulted, Unsaved, OpenFiles
    <3>2. EntryFits(Dir[f], chain[f])
      BY <2>2, <3>1 DEF ChainInv, DirSound
    <3>3. e = Dir[f]
      BY <1>3, <2>2 DEF CurrentEntry, Dir
    <3> QED
      BY <3>2, <3>3 DEF EntryFits
  <2> QED
    BY <2>1, <2>2
<1>5. PICK head : head = e.cluster_lo
  OBVIOUS
<1>6. head = IF Len(chain[f]) = 0 THEN 0 ELSE chain[f][1]
  BY <1>4, <1>5
<1>7. ChainClusters(Volume, head) = {chain[f][k] : k \in 1 .. Len(chain[f])}
  BY <1>1, <1>2, <1>6, ChainOnVolume, Zenon
<1> QED
  BY <1>3, <1>5, <1>7 DEF CurrentClusters

\* Between calls every cluster is in a chain or free and the copies are equal.
LEMMA IdleAccounted ==
    ASSUME NEW chain \in Chains, AllAccounted(chain), Idle
    PROVE  /\ \A b \in Clusters : Fat("fat0")[b] # 0 => InChains(chain, b)
           /\ \A b \in Entries : Fat("fat0")[b] = Fat("fat1")[b]
<1>1. Accounted(Fat("fat0"), Fat("fat1"), chain, <<>>, EOC, {}, {})
  BY BareAccount DEF Idle, Bare
<1>2. Len(<<>>) = 0
  OBVIOUS
<1> QED
  BY <1>1, <1>2 DEF Accounted

\* Between calls the allocated clusters are exactly those of the files' chains,
\* and no cluster belongs to two files: without faults fat_write and fat_truncate
\* neither leak nor share a cluster, whatever the order of the calls.
THEOREM AllocationAlwaysExact == ASSUME Undisturbed PROVE Spec => []AllocationExact
<1>1. IInv /\ ExactExists => AllocationExact
  <2> SUFFICES ASSUME IInv, Unfaulted, NEW chain \in Chains, ChainInv(chain),
                      AllAccounted(chain), ready, Idle
               PROVE  /\ Allocated("fat0") = UNION {CurrentClusters(f) : f \in Files}
                      /\ \A f, g \in Files :
                           f # g => CurrentClusters(f) \cap CurrentClusters(g) = {}
    BY DEF ExactExists, AllocationExact
  <2>1. \A f \in Files : CurrentClusters(f) = {chain[f][k] : k \in 1 .. Len(chain[f])}
    BY CurrentChain
  <2>2. PICK exc : Sound(Fat("fat0"), Fat("fat1"), chain, exc)
    BY DEF ChainInv
  <2>3. ASSUME NEW f \in Files, NEW g \in Files, f # g
        PROVE  CurrentClusters(f) \cap CurrentClusters(g) = {}
    BY <2>1, <2>2, <2>3 DEF Sound, ChainsDisjoint
  <2>4. \A c \in Clusters : FatEntry(Volume, "fat0", c) = Fat("fat0")[c]
    BY ClusterFacts DEF Fat
  <2>5. ASSUME NEW c \in Allocated("fat0")
        PROVE  \E f \in Files : c \in CurrentClusters(f)
    <3>1. c \in Clusters /\ Fat("fat0")[c] # 0
      BY <2>4 DEF Allocated
    <3>2. InChains(chain, c)
      BY <3>1, IdleAccounted
    <3> QED
      BY <2>1, <3>2 DEF InChains
  <2>6. ASSUME NEW f \in Files, NEW c \in CurrentClusters(f)
        PROVE  c \in Allocated("fat0")
    <3>1. PICK k \in 1 .. Len(chain[f]) : c = chain[f][k]
      BY <2>1
    <3>2. c \in Clusters /\ Fat("fat0")[c] = NextIn(chain[f], k)
      BY <2>2, <3>1, ChainFacts DEF Sound, ChainsLinked
    <3>3. NextIn(chain[f], k) # 0
      BY <3>1, ChainFacts, ClusterFacts DEF NextIn
    <3> QED
      BY <2>4, <3>2, <3>3 DEF Allocated
  <2> QED
    BY <2>3, <2>5, <2>6
<1> QED
  BY <1>1, ExactAlways, SpecIInv, PTL

\* Between calls, without faults, the two copies of the FAT are equal, in spite of
\* being written in a different order by alloc_cluster and write_fat_entry.
THEOREM CopiesAlwaysAgree == ASSUME Undisturbed PROVE Spec => []FatCopiesAgree
<1>1. IInv /\ ExactExists => FatCopiesAgree
  <2> SUFFICES ASSUME IInv, NEW chain \in Chains, AllAccounted(chain), Idle,
                      NEW s \in Sectors
               PROVE  Volume[FatBlock("fat0", s)] = Volume[FatBlock("fat1", s)]
    BY DEF ExactExists, FatCopiesAgree
  <2>1. ASSUME NEW copy \in {"fat0", "fat1"}
        PROVE  /\ Volume[FatBlock(copy, s)] \in [SectorEntries(s) -> 0 .. EOC]
               /\ \A c \in SectorEntries(s) : Volume[FatBlock(copy, s)][c] = Fat(copy)[c]
    <3>1. FatBlock(copy, s) \in FatBlocks /\ FatBlock(copy, s) \in VolumeBlocks
          /\ FatBlock(copy, s)[2] = s
      BY DEF FatBlocks, VolumeBlocks, FatBlock
    <3>2. Volume[FatBlock(copy, s)] \in ContentOf(FatBlock(copy, s))
      BY <3>1 DEF IInv, BlockOK
    <3> QED
      BY <3>1, <3>2 DEF ContentOf, Fat, FatEntry, SectorEntries
  <2>2. \A c \in SectorEntries(s) : Fat("fat0")[c] = Fat("fat1")[c]
    BY IdleAccounted DEF SectorEntries
  <2> QED
    BY <2>1, <2>2
<1> QED
  BY <1>1, ExactAlways, SpecIInv, PTL
=============================================================================
