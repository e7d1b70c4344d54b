------------------------- MODULE FatFileProperties --------------------------
(***************************************************************************)
(* What makes the file layer of lib/fat/fat.c correct, between calls, when *)
(* a call returns, and at every instant on the card.                       *)
(***************************************************************************)
EXTENDS FatFile

(***************************************************************************)
(* What a cursor should be.  A descriptor's position is abs_offset; its    *)
(* other fields must say the same.                                         *)
(***************************************************************************)
ChainOf(d) == ChainFrom(Volume, d.cluster_lo)

ClusterIndex(d) == d.abs_offset \div BytesPerCluster
ClusterOffset(d) == d.abs_offset % BytesPerCluster

CursorInside(d) ==
    /\ d.cur_cluster = ChainOf(d)[ClusterIndex(d)]
    /\ d.block_in_cluster = ClusterOffset(d) \div BlockSize
    /\ d.index_in_block = ClusterOffset(d) % BlockSize
    /\ d.block_addr = FirstBlock(d.cur_cluster) + d.block_in_cluster

CursorAfterLast(d) ==
    /\ ClusterOffset(d) = 0 /\ ClusterIndex(d) > 0
    /\ d.cur_cluster = ChainOf(d)[ClusterIndex(d) - 1]
    /\ d.next_cluster = EOC
    /\ d.block_in_cluster = SectorsPerCluster
    /\ d.index_in_block = 0

CursorInEmpty(d) ==
    /\ d.cur_cluster = 0 /\ d.next_cluster = EOC
    /\ d.abs_offset = 0 /\ d.block_in_cluster = 0 /\ d.index_in_block = 0

\* Between calls, on a card that works, the cached cluster, link, block and
\* index of every descriptor agree with its absolute offset and with the FAT on
\* the card (private.h: "value from the FAT", "block index in current cluster").
CursorMatchesOffset ==
    ready /\ Idle =>
        \A fd \in Fds : LET d == desc[fd] IN
            Fresh(fd) =>
                /\ d.abs_offset <= d.size
                /\ d.cluster_lo = 0 => CursorInEmpty(d)
                /\ d.cluster_lo # 0 =>
                    /\ d.cur_cluster \in Clusters
                    /\ d.next_cluster = FatEntry(Volume, "fat0", d.cur_cluster)
                    /\ CursorInside(d) \/ CursorAfterLast(d)

LengthsAgree(d) ==
    /\ EntryConsistent(Volume, d)
    /\ d.last_cluster_len =
         IF d.size = 0 THEN 0 ELSE ((d.size - 1) % BytesPerCluster) + 1

\* private.h: last_cluster_len is the "number of bytes in the last cluster in
\* the chain".  Between calls it is what the size implies, and the chain on the
\* card has exactly the clusters the size needs, but for a descriptor whose file
\* was truncated to nothing.
LengthsMatchChain ==
    ready /\ Idle =>
        \A fd \in Fds :
            Fresh(fd) /\ ~Emptied(desc[fd]) => LengthsAgree(desc[fd])

\* Whatever mixture of calls came before, the bytes that fat_read and fat_write
\* are about to move lie where the FAT says the byte at abs_offset of this file
\* lies, do not leave their block and do not pass the end of the file.
TransferInOwnFile ==
    LET n == ChunkLen(D, call.op, call.len)
        c == ChainOf(D)[ClusterIndex(D)]
    IN  InBlock /\ ready /\ n # 0 =>
            /\ c \in Clusters
            /\ D.block_addr = FirstBlock(c) + ClusterOffset(D) \div BlockSize
            /\ D.index_in_block = ClusterOffset(D) % BlockSize
            /\ D.index_in_block + n <= BlockSize
            /\ D.abs_offset + n <= Expanded(D, call.op, call.len).size

AtReturnOf(ops) == call.pc = "return" /\ call.op \in ops

\* fat.h: fat_read and fat_write return the "number of bytes actually" moved:
\* while the card works, a call that stops at the end of the file too, the
\* cursor has advanced by exactly the count the program is told.
CountMatchesOffsetOnReady ==
    ready /\ AtReturnOf({"read", "write"}) => D.abs_offset = call.off0 + call.result

-----------------------------------------------------------------------------
(***************************************************************************)
(* The volume.  The entry of a file in use is in its descriptor, not yet   *)
(* on the card.                                                            *)
(***************************************************************************)
CurrentEntry(f) ==
    IF f \in OpenFiles
    THEN desc[CHOOSE fd \in Fds : Fresh(fd) /\ desc[fd].file = f]
    ELSE Volume[DirBlock][f]

CurrentClusters(f) == ChainClusters(Volume, CurrentEntry(f).cluster_lo)

Allocated(copy) == {c \in Clusters : FatEntry(Volume, copy, c) # 0}

\* Without faults, between calls: the allocated clusters are exactly those of
\* the files' chains, and no cluster belongs to two files.  fat_write and
\* fat_truncate neither leak nor share a cluster.
AllocationExact ==
    ready /\ Idle =>
        /\ Allocated("fat0") = UNION {CurrentClusters(f) : f \in Files}
        /\ \A f, g \in Files :
            f # g => CurrentClusters(f) \cap CurrentClusters(g) = {}

\* Without faults, between calls, the two copies of the FAT are equal, in spite
\* of being written in a different order by alloc_cluster and write_fat_entry.
FatCopiesAgree ==
    ready /\ Idle =>
        \A s \in Sectors : Volume[FatBlock("fat0", s)] = Volume[FatBlock("fat1", s)]

\* At every instant, through every card error and reset, no FAT entry links to
\* a free cluster and no two entries link to the same cluster: the order of the
\* writes in alloc_cluster and fat_truncate keeps the FAT a set of chains.
FatLinksSound ==
    LET link(c) == FatEntry(Volume, "fat0", c)
    IN  /\ \A c \in Clusters : link(c) \in Clusters => link(link(c)) # 0
        /\ \A b, c \in Clusters :
            b # c /\ link(b) = link(c) => link(b) \notin Clusters

\* Files that nobody is changing and no fault has caught half changed.
Settled == Files \ (torn \cup Unsaved \cup Lengthening)

\* At every instant, whatever happens to the other files, the directory entry
\* and the chain of a settled file agree and share no cluster with another
\* settled file: a fault during the update of one file never damages another.
SettledFilesIntact ==
    LET entry(f) == Volume[DirBlock][f]
        used(f) == ChainClusters(Volume, entry(f).cluster_lo)
    IN  \A f \in Settled :
            /\ EntryConsistent(Volume, entry(f))
            /\ \A g \in Settled \ {f} : used(f) \cap used(g) = {}

-----------------------------------------------------------------------------
\* Every call comes back: the loops over chains and FAT sectors end, also when
\* the card fails in the middle of them.
EventuallyReturns == ~Idle ~> Idle
=============================================================================
