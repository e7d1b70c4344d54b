----------------------------- MODULE FatVolume ------------------------------
(***************************************************************************)
(* The layout of a FAT16 volume as lib/fat/fat.c sees it after fat_mount   *)
(* (struct FatInfo): two copies of the file allocation table, a directory, *)
(* and data blocks grouped into clusters.  Sizes are parameters: the code  *)
(* has 512-byte blocks, 256 entries in a FAT sector and 16-bit entries.    *)
(*                                                                         *)
(* Block addresses are pairs of an area and an index in it.  A FAT sector  *)
(* is the function from the cluster numbers it describes to their entries, *)
(* the directory maps files to the two fields of their entry that the file *)
(* layer changes, and bytes of data are not represented.                   *)
(***************************************************************************)
EXTENDS Integers, FiniteSets

CONSTANTS BlockSize,          \* CARD_BLOCK_SIZE
          SectorsPerCluster,  \* fat_info.sectors_per_cluster
          EntriesPerSector,   \* CARD_BLOCK_SIZE >> 1
          SectorsPerFat,      \* fat_info.sectors_per_fat
          U16,                \* 2^16, the range of the code's uint16_t
          Files               \* the directory entries of regular files

ASSUME VolumeAssumption ==
    /\ BlockSize \in Nat \ {0}
    /\ SectorsPerCluster \in Nat \ {0}
    /\ EntriesPerSector \in Nat /\ EntriesPerSector > 2
    /\ SectorsPerFat \in Nat \ {0}
    /\ U16 \in Nat \ {0}

BytesPerCluster == BlockSize * SectorsPerCluster

\* The end-of-chain mark: every entry from FAT_MIN_LAST_CLUSTER up is one value.
EOC == EntriesPerSector * SectorsPerFat

Entries == 0 .. EOC - 1
Clusters == 2 .. EOC - 1
Sectors == 0 .. SectorsPerFat - 1

SectorOf(c) == c \div EntriesPerSector

SectorEntries(s) == {c \in Entries : SectorOf(c) = s}

FatBlock(copy, s) == <<copy, s>>
DirBlock == <<"dir", 0>>
BootBlock == <<"boot", 0>>
DataBlock(n) == <<"data", n>>

\* The data block where cluster c begins, counted from fat_info.data_offset.
FirstBlock(c) == (c - 2) * SectorsPerCluster

FatBlocks == {FatBlock(copy, s) : copy \in {"fat0", "fat1"}, s \in Sectors}
DataBlocks == {DataBlock(n) : n \in 0 .. FirstBlock(EOC) - 1}
VolumeBlocks == FatBlocks \cup {DirBlock, BootBlock} \cup DataBlocks

DirEntry == [cluster_lo : 0 .. EOC, size : Nat]

\* The content of a block whose bytes are not represented.
Bytes == <<>>

ContentOf(a) ==
    IF a \in FatBlocks THEN [SectorEntries(a[2]) -> 0 .. EOC]
    ELSE IF a = DirBlock THEN [Files -> DirEntry]
    ELSE {Bytes}

BlockData ==
    {Bytes} \cup [Files -> DirEntry]
        \cup UNION {[SectorEntries(s) -> 0 .. EOC] : s \in Sectors}

\* A freshly formatted volume whose files are empty.  The entries of clusters
\* 0 and 1 are reserved and not free.
EmptySector(s) == [c \in SectorEntries(s) |-> IF c < 2 THEN EOC ELSE 0]

FormattedVolume ==
    [a \in VolumeBlocks |->
        IF a \in FatBlocks THEN EmptySector(a[2])
        ELSE IF a = DirBlock THEN [f \in Files |-> [cluster_lo |-> 0, size |-> 0]]
        ELSE Bytes]

-----------------------------------------------------------------------------
(***************************************************************************)
(* Reading a volume v: what the FAT and the directory say, independently   *)
(* of how the driver walks them.                                           *)
(***************************************************************************)
FatEntry(v, copy, c) == v[FatBlock(copy, SectorOf(c))][c]

\* The k-th element of the chain that starts at `head'; EOC after its end, and
\* 0 after a link to a free cluster.
ChainFrom(v, head) ==
    LET nth[k \in 0 .. EOC] ==
            IF k = 0 THEN head
            ELSE IF nth[k - 1] \in Clusters THEN FatEntry(v, "fat0", nth[k - 1])
            ELSE nth[k - 1]
    IN  nth

ChainClusters(v, head) == {ChainFrom(v, head)[k] : k \in 0 .. EOC} \cap Clusters

\* The chain ends in an end-of-chain mark and not in a loop or a free cluster.
ProperChain(v, head) == head \in Clusters => ChainFrom(v, head)[EOC] = EOC

ClustersFor(size) == (size + BytesPerCluster - 1) \div BytesPerCluster

\* A directory entry and the FAT agree on how many clusters the file has.
EntryConsistent(v, e) ==
    IF e.size = 0 THEN e.cluster_lo = 0
    ELSE /\ e.cluster_lo \in Clusters
         /\ ProperChain(v, e.cluster_lo)
         /\ Cardinality(ChainClusters(v, e.cluster_lo)) = ClustersFor(e.size)
=============================================================================
