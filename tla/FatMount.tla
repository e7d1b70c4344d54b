------------------------------ MODULE FatMount ------------------------------
(***************************************************************************)
(* The geometry that fat_mount of lib/fat/fat.c computes from the BIOS     *)
(* parameter block of a volume.                                            *)
(***************************************************************************)
EXTENDS Integers

CONSTANTS BlockSize,       \* CARD_BLOCK_SIZE: 512 in the source
          EntriesPerBlock, \* directory entries in a block: 16 in the source
          MinFat16,        \* clusters a FAT16 volume has at least: 4085
          MinFat32,        \* clusters it has fewer than: 65525
          U32              \* 2 ^ 32 in the source

ASSUME MountAssumption ==
    /\ BlockSize \in Nat \ {0} /\ EntriesPerBlock \in Nat \ {0}
    /\ MinFat16 \in Nat /\ MinFat32 \in Nat /\ U32 \in Nat \ {0}

\* The loop over sectors_per_cluster: the logarithm, rounded down.
Log2(n) == CHOOSE k \in 0 .. 7 : 2 ^ k <= n /\ n < 2 ^ (k + 1)

\* fat_info before the first mount: static, so zero.
NoInfo == [fat0_offset |-> 0, fat1_offset |-> 0, root_dir_block |-> 0,
           data_offset |-> 0, n_dir_entries |-> 0, n_clusters |-> 0,
           sectors_per_fat |-> 0, log_sectors_per_cluster |-> 0,
           sectors_per_cluster |-> 0]

\* The offsets of the first FAT and of the first block behind the FATs.
Fat0(bpb) == bpb.n_hidden_sectors + bpb.n_reserved_sectors

\* Mutant of BehindFats: the second FAT is forgotten.
BehindOneFat(bpb) == Fat0(bpb) + bpb.sectors_per_fat

BehindFats(bpb) ==
    Fat0(bpb) + (IF bpb.n_fats = 2 THEN 2 ELSE 1) * bpb.sectors_per_fat

DataOffset(bpb) ==
    BehindFats(bpb) + (bpb.n_dir_entries + EntriesPerBlock - 1) \div EntriesPerBlock

\* total_sectors counts from the start of the volume, the offset from that of
\* the card: what is left is too little by n_hidden_sectors.
NClusters(bpb) ==
    LET sectors == IF bpb.total_sectors = 0 THEN bpb.large_sectors ELSE bpb.total_sectors
    IN  ((sectors - DataOffset(bpb)) % U32) \div 2 ^ Log2(bpb.sectors_per_cluster)

\* The assignments to fat_info up to the count of the clusters.
WithFats(bpb, info) ==
    [info EXCEPT !.fat0_offset = Fat0(bpb),
                 !.fat1_offset = IF bpb.n_fats = 2 THEN Fat0(bpb) + bpb.sectors_per_fat
                                 ELSE @]
WithLayout(bpb, info) ==
    [WithFats(bpb, info) EXCEPT
        !.root_dir_block = BehindFats(bpb),
        !.sectors_per_fat = bpb.sectors_per_fat,
        !.sectors_per_cluster = bpb.sectors_per_cluster,
        !.log_sectors_per_cluster = Log2(bpb.sectors_per_cluster),
        !.n_dir_entries = bpb.n_dir_entries,
        !.data_offset = DataOffset(bpb)]

\* What fat_mount makes of fat_info, and the error it returns: each refusal
\* leaves what was assigned before it.
Mounted(bpb, info) ==
    LET refused(i, error) == [info |-> i, error |-> error]
        clusters == NClusters(bpb)
    IN  CASE bpb.bytes_per_sector # BlockSize ->
               refused(info, "UNSUPPORTED_SECTOR_SIZE")
          [] bpb.bytes_per_sector = BlockSize /\ bpb.n_fats > 2 ->
               refused(WithFats(bpb, info), "TOO_MANY_FATS")
          [] bpb.bytes_per_sector = BlockSize /\ bpb.n_fats <= 2
             /\ clusters \notin MinFat16 .. MinFat32 - 1 ->
               refused(WithLayout(bpb, info), "UNSUPPORTED_FAT_TYPE")
          [] bpb.bytes_per_sector = BlockSize /\ bpb.n_fats <= 2
             /\ clusters \in MinFat16 .. MinFat32 - 1 ->
               [info |-> [WithLayout(bpb, info) EXCEPT !.n_clusters = clusters],
                error |-> "OK"]
=============================================================================
