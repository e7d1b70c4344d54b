---------------------------- MODULE FatDirProofs ----------------------------
(***************************************************************************)
(* Proofs about directories and paths, for every set of formatted cards,   *)
(* names, paths and descriptors and every geometry.                        *)
(*                                                                         *)
(* The invariant is that the card stays formatted (Formatted): what a call *)
(* creates is one entry in a free slot of a directory, its name is not yet *)
(* there, and no slot before it is an end mark.  The search finds that     *)
(* slot because it visits the blocks of the directory in their order       *)
(* (VisitedInOrder), which rests on the geometry that fat_mount computed.  *)
(* A listing passes the same slots one by one (ListInv, in the last part). *)
(***************************************************************************)
EXTENDS FatDir, WellFoundedInduction, FiniteSetTheorems, SequenceTheorems, TLAPS

-----------------------------------------------------------------------------
(***************************************************************************)
(* The geometry.                                                           *)
(***************************************************************************)
\* fat_info has its fields.
IsInfo(info) ==
    info = [fat0_offset |-> info.fat0_offset, fat1_offset |-> info.fat1_offset,
            root_dir_block |-> info.root_dir_block, data_offset |-> info.data_offset,
            n_dir_entries |-> info.n_dir_entries, n_clusters |-> info.n_clusters,
            sectors_per_fat |-> info.sectors_per_fat,
            log_sectors_per_cluster |-> info.log_sectors_per_cluster,
            sectors_per_cluster |-> info.sectors_per_cluster]

\* fat_info describes the volume v.
Describes(info, v) ==
    /\ info.fat0_offset = Fat0(v)
    /\ v.n_fats = 2 => info.fat1_offset = Fat0(v) + v.sectors_per_fat
    /\ info.root_dir_block = BehindFats(v)
    /\ info.data_offset = DataOffset(v)
    /\ info.sectors_per_fat = v.sectors_per_fat
    /\ info.sectors_per_cluster = v.sectors_per_cluster
    /\ info.log_sectors_per_cluster = Log2(v.sectors_per_cluster)
    /\ info.n_clusters = NClusters(v)
    /\ NClusters(v) \in MinFat16 .. MinFat32 - 1

\* What fat_mount makes of fat_info when it accepts a volume describes it, and
\* whether it accepts it does not depend on what was mounted before.
LEMMA MountDescribes ==
    ASSUME NEW v, v.n_fats \in Nat, NEW info, IsInfo(info)
    PROVE  /\ IsInfo(Mounted(v, info).info)
           /\ Mounted(v, info).error = Mounted(v, NoInfo).error
           /\ Mounted(v, info).error = "OK" => Describes(Mounted(v, info).info, v)
<1> DEFINE clusters == NClusters(v)
           fit == clusters \in MinFat16 .. MinFat32 - 1
<1>1. /\ IsInfo(WithFats(v, info))
      /\ WithFats(v, info).fat0_offset = Fat0(v)
      /\ v.n_fats = 2 => WithFats(v, info).fat1_offset = Fat0(v) + v.sectors_per_fat
  <2> DEFINE f1 == IF v.n_fats = 2 THEN Fat0(v) + v.sectors_per_fat ELSE info.fat1_offset
             w == WithFats(v, info)
  <2>1. DOMAIN info = {"fat0_offset", "fat1_offset", "root_dir_block", "data_offset",
                       "n_dir_entries", "n_clusters", "sectors_per_fat",
                       "log_sectors_per_cluster", "sectors_per_cluster"}
    BY DEF IsInfo
  <2>2. w = [info EXCEPT !.fat0_offset = Fat0(v), !.fat1_offset = f1]
    BY DEF WithFats
  <2> QED
    BY <2>1, <2>2 DEF IsInfo
<1>2. LET u == WithFats(v, info)
          w == WithLayout(v, info) IN
      /\ IsInfo(w)
      /\ w.fat0_offset = u.fat0_offset /\ w.fat1_offset = u.fat1_offset
      /\ w.root_dir_block = BehindFats(v) /\ w.data_offset = DataOffset(v)
      /\ w.sectors_per_fat = v.sectors_per_fat
      /\ w.sectors_per_cluster = v.sectors_per_cluster
      /\ w.log_sectors_per_cluster = Log2(v.sectors_per_cluster)
  <2>1. PICK u : u = WithFats(v, info)
    OBVIOUS
  <2>2. PICK a, b, c, d : /\ a = BehindFats(v) /\ b = DataOffset(v)
                          /\ c = v.sectors_per_cluster /\ d = Log2(v.sectors_per_cluster)
    OBVIOUS
  <2>3. WithLayout(v, info) =
          [u EXCEPT !.root_dir_block = a, !.sectors_per_fat = v.sectors_per_fat,
                    !.sectors_per_cluster = c, !.log_sectors_per_cluster = d,
                    !.n_dir_entries = v.n_dir_entries, !.data_offset = b]
    BY <2>1, <2>2 DEF WithLayout
  <2>4. u = [fat0_offset |-> u.fat0_offset, fat1_offset |-> u.fat1_offset,
             root_dir_block |-> u.root_dir_block, data_offset |-> u.data_offset,
             n_dir_entries |-> u.n_dir_entries, n_clusters |-> u.n_clusters,
             sectors_per_fat |-> u.sectors_per_fat,
             log_sectors_per_cluster |-> u.log_sectors_per_cluster,
             sectors_per_cluster |-> u.sectors_per_cluster]
    BY <1>1, <2>1 DEF IsInfo
  <2>5. WithLayout(v, info) =
          [fat0_offset |-> u.fat0_offset, fat1_offset |-> u.fat1_offset,
           root_dir_block |-> a, data_offset |-> b, n_dir_entries |-> v.n_dir_entries,
           n_clusters |-> u.n_clusters, sectors_per_fat |-> v.sectors_per_fat,
           log_sectors_per_cluster |-> d, sectors_per_cluster |-> c]
    BY <2>3, <2>4
  <2> QED
    BY <2>1, <2>2, <2>5 DEF IsInfo
<1>3. ASSUME v.bytes_per_sector # BlockSize, NEW i
      PROVE  Mounted(v, i) = [info |-> i, error |-> "UNSUPPORTED_SECTOR_SIZE"]
  BY <1>3 DEF Mounted
<1>4. ASSUME v.bytes_per_sector = BlockSize, v.n_fats > 2, NEW i
      PROVE  Mounted(v, i) = [info |-> WithFats(v, i), error |-> "TOO_MANY_FATS"]
  BY <1>4 DEF Mounted
<1>5. ASSUME v.bytes_per_sector = BlockSize, v.n_fats <= 2, ~fit, NEW i
      PROVE  Mounted(v, i) = [info |-> WithLayout(v, i), error |-> "UNSUPPORTED_FAT_TYPE"]
  BY <1>5 DEF Mounted
<1>6. ASSUME v.bytes_per_sector = BlockSize, v.n_fats <= 2, fit, NEW i
      PROVE  Mounted(v, i) = [info |-> [WithLayout(v, i) EXCEPT !.n_clusters = clusters],
                              error |-> "OK"]
  BY <1>6 DEF Mounted
<1>7. LET w == [WithLayout(v, info) EXCEPT !.n_clusters = clusters] IN
      IsInfo(w) /\ (fit => Describes(w, v))
  <2>1. PICK u : u = WithLayout(v, info)
    OBVIOUS
  <2>2. PICK w : w = [u EXCEPT !.n_clusters = clusters]
    OBVIOUS
  <2>3. u = [fat0_offset |-> u.fat0_offset, fat1_offset |-> u.fat1_offset,
             root_dir_block |-> u.root_dir_block, data_offset |-> u.data_offset,
             n_dir_entries |-> u.n_dir_entries, n_clusters |-> u.n_clusters,
             sectors_per_fat |-> u.sectors_per_fat,
             log_sectors_per_cluster |-> u.log_sectors_per_cluster,
             sectors_per_cluster |-> u.sectors_per_cluster]
    BY <1>2, <2>1 DEF IsInfo
  <2>4. w = [fat0_offset |-> u.fat0_offset, fat1_offset |-> u.fat1_offset,
             root_dir_block |-> u.root_dir_block, data_offset |-> u.data_offset,
             n_dir_entries |-> u.n_dir_entries, n_clusters |-> clusters,
             sectors_per_fat |-> u.sectors_per_fat,
             log_sectors_per_cluster |-> u.log_sectors_per_cluster,
             sectors_per_cluster |-> u.sectors_per_cluster]
    BY <2>2, <2>3
  <2>5. IsInfo(w)
    BY <2>4 DEF IsInfo
  <2>6. fit => Describes(w, v)
    BY <1>1, <1>2, <2>1, <2>4 DEF Describes
  <2> QED
    BY <2>1, <2>2, <2>5, <2>6
<1>8. v.n_fats > 2 \/ v.n_fats <= 2
  OBVIOUS
<1> HIDE DEF fit, clusters
<1> QED
  BY <1>1, <1>2, <1>3, <1>4, <1>5, <1>6, <1>7, <1>8

\* Division of natural numbers.
LEMMA Quotient ==
    ASSUME NEW n \in Nat \ {0}, NEW a \in Nat
    PROVE  /\ a \div n \in Nat /\ a % n \in 0 .. n - 1
           /\ a = (a \div n) * n + (a % n)
<1>1. a \div n \in Nat /\ a % n \in Nat /\ a % n < n /\ a = n * (a \div n) + (a % n)
  OBVIOUS
<1>2. PICK q \in Nat, r \in Nat : q = a \div n /\ r = a % n
  BY <1>1
<1>3. n * q = q * n
  OBVIOUS
<1> QED
  BY <1>1, <1>2, <1>3

\* The order of the products by a positive number.
LEMMA ProductOrder ==
    ASSUME NEW n \in Nat \ {0}, NEW x \in Nat, NEW y \in Nat, x < y
    PROVE  x * n + n <= y * n
<1>1. PICK z \in Nat : y = x + 1 + z
  <2>1. y - x - 1 \in Nat /\ y = x + 1 + (y - x - 1)
    OBVIOUS
  <2> QED
    BY <2>1
<1>2. y * n = x * n + n + z * n /\ z * n \in Nat /\ x * n \in Nat
  BY <1>1
<1> QED
  BY <1>2

\* The only quotient and the only remainder.
LEMMA Splits ==
    ASSUME NEW n \in Nat \ {0}, NEW q \in Nat, NEW r \in Nat, r < n, NEW a, a = q * n + r
    PROVE  a \in Nat /\ a \div n = q /\ a % n = r
<1>1. a \in Nat /\ q * n \in Nat
  OBVIOUS
<1>2. PICK x \in Nat, s \in Nat : x = a \div n /\ s = a % n /\ s < n /\ a = x * n + s
  BY <1>1, Quotient
<1>3. ~(x < q) /\ ~(q < x)
  <2>1. x * n \in Nat
    BY <1>2
  <2>2. x < q => x * n + n <= q * n
    BY <1>2, ProductOrder
  <2>3. q < x => q * n + n <= x * n
    BY <1>2, ProductOrder
  <2> QED
    BY <1>1, <1>2, <2>1, <2>2, <2>3
<1>4. x = q
  BY <1>2, <1>3
<1> QED
  BY <1>1, <1>2, <1>4

\* A difference of numbers in 32 bits.
LEMMA WrappedDifference ==
    ASSUME NEW u \in Nat \ {0}, NEW x \in Int
    PROVE  /\ 0 <= x /\ x < u => x % u = x
           /\ -u <= x /\ x < 0 => x % u = x + u
OBVIOUS

\* Quotients grow with their dividends.
LEMMA QuotientGrows ==
    ASSUME NEW n \in Nat \ {0}, NEW a \in Nat, NEW b \in Nat, a <= b
    PROVE  a \div n <= b \div n
<1>1. PICK q \in Nat, r \in Nat : q = a \div n /\ r < n /\ a = q * n + r
  BY Quotient
<1>2. PICK p \in Nat, t \in Nat : p = b \div n /\ t < n /\ b = p * n + t
  BY Quotient
<1>3. p < q => p * n + n <= q * n
  BY ProductOrder
<1>4. p * n \in Nat /\ q * n \in Nat
  OBVIOUS
<1> QED
  BY <1>1, <1>2, <1>3, <1>4

\* The count of clusters does not wrap to that of a FAT16 volume: a difference
\* that was negative is too large for one.
LEMMA ClustersCounted ==
    ASSUME NEW u \in Nat \ {0}, NEW S \in Nat \ {0}, NEW min \in Nat, NEW max \in Nat,
           NEW end \in Nat, NEW sectors \in Nat, NEW data \in Nat, NEW n,
           sectors <= end, data <= end, end + max * S <= u,
           n = ((sectors - data) % u) \div S
    PROVE  /\ n \in min .. max - 1 <=> /\ sectors - data >= 0
                                      /\ (sectors - data) \div S \in min .. max - 1
           /\ n \in min .. max - 1 => n = (sectors - data) \div S
<1>1. max * S \in Nat
  OBVIOUS
<1>2. PICK x \in Int : x = sectors - data
  OBVIOUS
<1>3. CASE x < 0
  <2>1. -u <= x
    BY <1>1, <1>2
  <2>2. x % u = x + u /\ x + u \in Nat
    BY <1>2, <1>3, <2>1, WrappedDifference
  <2>3. max * S <= x + u
    BY <1>1, <1>2
  <2>4. PICK a \in Nat : a = x + u
    BY <2>2
  <2>5. PICK q \in Nat, r \in Nat : q = a \div S /\ r < S /\ a = q * S + r
    BY Quotient
  <2>6. q = n
    BY <1>2, <2>2, <2>4, <2>5
  <2>7. q < max => q * S + S <= max * S
    BY <2>5, ProductOrder
  <2>8. q * S \in Nat
    BY <2>5
  <2>9. ~(n < max) /\ n \in Nat
    BY <1>1, <2>3, <2>4, <2>5, <2>6, <2>7, <2>8
  <2> QED
    BY <1>2, <1>3, <2>9
<1>4. CASE x >= 0
  <2>1. max >= 1 => max * S >= 1
    OBVIOUS
  <2>2. PICK a \in Nat : a = x
    BY <1>4
  <2>3. a <= u
    BY <1>1, <1>2, <2>2
  <2>4. CASE a < u
    <3>1. x % u = a
      BY <1>2, <1>4, <2>2, <2>4, WrappedDifference
    <3> QED
      BY <1>2, <1>4, <2>2, <3>1
  <2>5. CASE a = u
    <3>1. max * S = 0
      BY <1>1, <1>2, <2>2, <2>5
    <3>2. max = 0
      BY <2>1, <3>1
    <3> QED
      BY <3>2
  <2> QED
    BY <2>3, <2>4, <2>5
<1> QED
  BY <1>2, <1>3, <1>4

\* When fat_mount returns true.
LEMMA MountAccepts ==
    ASSUME NEW v, v.n_fats \in Nat, NEW info
    PROVE  Mounted(v, info).error = "OK" <=>
             /\ v.bytes_per_sector = BlockSize /\ v.n_fats <= 2
             /\ NClusters(v) \in MinFat16 .. MinFat32 - 1
<1>1. CASE v.bytes_per_sector # BlockSize
  BY <1>1 DEF Mounted
<1>2. CASE v.bytes_per_sector = BlockSize /\ v.n_fats > 2
  BY <1>2 DEF Mounted
<1>3. CASE v.bytes_per_sector = BlockSize /\ v.n_fats <= 2
  <2>1. ~(v.n_fats > 2)
    BY <1>3
  <2> QED
    BY <1>3, <2>1 DEF Mounted
<1> QED
  BY <1>1, <1>2, <1>3

\* A volume that fat_mount accepts is laid out.
LEMMA AcceptedLaidOut ==
    ASSUME NEW c, Formatted(c), Mounted(Volume(c), NoInfo).error = "OK"
    PROVE  LaidOut(c)
<1>1. Volume(c).n_fats \in Nat /\ Volume(c).n_fats = c.layout.fats
  BY DEF Formatted
<1>2. Volume(c).bytes_per_sector = BlockSize /\ Volume(c).n_fats <= 2
  BY <1>1, MountAccepts
<1> QED
  BY <1>1, <1>2 DEF Formatted

\* The invariant: the card stays formatted, fat_info describes its volume, and a
\* refused one is none that fat_mount accepts.
DirInv ==
    /\ Formatted(card)
    /\ IsInfo(fat_info)
    /\ ready => (mounted <=> Mounted(Volume(card), NoInfo).error = "OK")
    /\ mounted => /\ Mounted(Volume(card), NoInfo).error = "OK"
                  /\ Describes(fat_info, Volume(card))

\* Where the areas of a volume are that is laid out.
LEMMA AreasLaidOut ==
    ASSUME NEW c, LaidOut(c), Volume(c).n_fats = c.layout.fats
    PROVE  /\ c.layout.fat0 = Fat0(Volume(c)) /\ c.layout.root = BehindFats(Volume(c))
           /\ c.layout.data = DataOffset(Volume(c))
           /\ c.layout.fat0 \in Nat /\ c.layout.root \in Nat /\ c.layout.data \in Nat
           /\ c.layout.root <= c.layout.data
           /\ c.layout.fat0 + c.layout.sectors <= c.layout.root
<1>1. PICK v : v = Volume(c)
  OBVIOUS
<1>2. PICK l : l = c.layout
  OBVIOUS
<1>3. /\ v.n_hidden_sectors \in Nat /\ v.n_reserved_sectors \in Nat /\ v.n_dir_entries \in Nat
      /\ l.fats \in {1, 2} /\ v.sectors_per_fat = l.sectors /\ l.sectors \in Nat
      /\ l.fat0 = v.n_hidden_sectors + v.n_reserved_sectors
      /\ l.root = l.fat0 + l.fats * l.sectors
      /\ l.data = l.root + (v.n_dir_entries + EntriesPerBlock - 1) \div EntriesPerBlock
  BY <1>1, <1>2 DEF LaidOut
<1>4. /\ l.fat0 = Fat0(v) /\ l.root = BehindFats(v) /\ l.fat0 \in Nat /\ l.root \in Nat
      /\ l.fat0 + l.sectors <= l.root
  <2>1. v.n_fats = l.fats
    BY <1>1, <1>2
  <2>2. l.fats * l.sectors = (IF v.n_fats = 2 THEN 2 ELSE 1) * v.sectors_per_fat
    BY <1>3, <2>1
  <2>3. l.fats * l.sectors \in Nat /\ l.sectors <= l.fats * l.sectors
    BY <1>3
  <2> QED
    BY <1>3, <2>2, <2>3 DEF Fat0, BehindFats
<1>5. (v.n_dir_entries + EntriesPerBlock - 1) \div EntriesPerBlock \in Nat
  <2>1. EntriesPerBlock \in Nat \ {0} /\ v.n_dir_entries + EntriesPerBlock - 1 \in Nat
    BY <1>3, MountAssumption
  <2> QED
    BY <2>1, Quotient
<1>6. l.data = DataOffset(v) /\ l.data \in Nat /\ l.root <= l.data
  BY <1>3, <1>4, <1>5 DEF DataOffset
<1> QED
  BY <1>1, <1>2, <1>4, <1>6

\* What fat_mount counts on a volume that is laid out.
LEMMA CountLaidOut ==
    ASSUME NEW c, LaidOut(c), Volume(c).n_fats = c.layout.fats,
           NEW n, n = NClusters(Volume(c)),
           NEW left, left = Sectors(Volume(c)) - c.layout.data
    PROVE  /\ Sectors(Volume(c)) \in Nat
           /\ IsFat16Count(n) <=>
                left >= 0 /\ IsFat16Count(left \div Volume(c).sectors_per_cluster)
           /\ IsFat16Count(n) => n = left \div Volume(c).sectors_per_cluster
<1>1. PICK v : v = Volume(c)
  OBVIOUS
<1>2. PICK sectors : sectors = Sectors(v)
  OBVIOUS
<1>3. /\ v.n_hidden_sectors \in Nat /\ sectors \in Nat /\ c.layout.last \in Nat
      /\ v.n_hidden_sectors + sectors <= c.layout.last + 1
      /\ c.layout.data <= v.n_hidden_sectors + sectors
      /\ v.sectors_per_cluster \in Nat \ {0}
      /\ v.sectors_per_cluster = 2 ^ Log2(v.sectors_per_cluster)
      /\ c.layout.last + 1 + MinFat32 * v.sectors_per_cluster <= U32
  BY <1>1, <1>2 DEF LaidOut
<1>4. c.layout.data = DataOffset(v) /\ c.layout.data \in Nat
  BY <1>1, AreasLaidOut
<1>5. PICK S \in Nat \ {0}, data \in Nat, end \in Nat :
        S = v.sectors_per_cluster /\ data = c.layout.data /\ end = c.layout.last + 1
  BY <1>3, <1>4
<1>6. n = ((sectors - data) % U32) \div S
  <2>1. sectors = IF v.total_sectors = 0 THEN v.large_sectors ELSE v.total_sectors
    BY <1>2 DEF Sectors
  <2> QED
    BY <1>1, <1>3, <1>4, <1>5, <2>1 DEF NClusters
<1>7. PICK min \in Nat, max \in Nat, u \in Nat \ {0} :
        min = MinFat16 /\ max = MinFat32 /\ u = U32
  BY MountAssumption
<1>8. sectors <= end /\ data <= end /\ end + max * S <= u /\ sectors \in Nat
  BY <1>3, <1>5, <1>7
<1>9. /\ n \in min .. max - 1 <=> /\ sectors - data >= 0
                                  /\ (sectors - data) \div S \in min .. max - 1
      /\ n \in min .. max - 1 => n = (sectors - data) \div S
  BY <1>6, <1>7, <1>8, ClustersCounted
<1>10. left = sectors - data
  BY <1>1, <1>2, <1>5
<1> QED
  BY <1>1, <1>2, <1>3, <1>5, <1>7, <1>9, <1>10 DEF IsFat16Count

\* What fat_mount computed is where the areas are.
LEMMA MountedAreas ==
    ASSUME DirInv, mounted
    PROVE  /\ LaidOut(card) /\ ChainsLinked(card) /\ DirsPlaced(card)
           /\ card.layout.root \in Nat /\ card.layout.data \in Nat
           /\ card.layout.root <= card.layout.data
           /\ fat_info.fat0_offset = card.layout.fat0
           /\ fat_info.sectors_per_fat = card.layout.sectors
           /\ card.layout.sectors \in Nat
           /\ fat_info.root_dir_block = card.layout.root
           /\ fat_info.data_offset = card.layout.data
           /\ fat_info.sectors_per_cluster = Volume(card).sectors_per_cluster
           /\ Volume(card).sectors_per_cluster \in Nat \ {0}
           /\ 2 ^ fat_info.log_sectors_per_cluster = Volume(card).sectors_per_cluster
<1>1. LaidOut(card) /\ ChainsLinked(card) /\ DirsPlaced(card)
  BY AcceptedLaidOut DEF DirInv, Formatted
<1>2. PICK v : v = Volume(card)
  OBVIOUS
<1>3. PICK l : l = card.layout
  OBVIOUS
<1>4. Describes(fat_info, v)
  BY <1>2 DEF DirInv
<1>5. /\ v.sectors_per_fat = l.sectors /\ l.sectors \in Nat
      /\ v.sectors_per_cluster \in Nat \ {0}
      /\ v.sectors_per_cluster = 2 ^ Log2(v.sectors_per_cluster)
  BY <1>1, <1>2, <1>3 DEF LaidOut
<1>6. Volume(card).n_fats = card.layout.fats
  BY DEF DirInv, Formatted
<1>7. /\ l.fat0 = Fat0(v) /\ l.root = BehindFats(v) /\ l.data = DataOffset(v)
      /\ l.root \in Nat /\ l.data \in Nat /\ l.root <= l.data
  BY <1>1, <1>2, <1>3, <1>6, AreasLaidOut
<1> QED
  BY <1>1, <1>2, <1>3, <1>4, <1>5, <1>7 DEF Describes

\* fat_mount's geometry is that of the volume.
LEMMA GeometryHolds == ASSUME DirInv PROVE GeometrySound
<1>1. Volume(card).n_fats = card.layout.fats /\ Volume(card).n_fats \in Nat
  BY DEF DirInv, Formatted
<1>2. ASSUME mounted
      PROVE  /\ card.layout.fats = 2 =>
                  fat_info.fat1_offset = card.layout.fat0 + card.layout.sectors
             /\ fat_info.n_clusters <= card.layout.clusters
             /\ fat_info.data_offset + fat_info.n_clusters * fat_info.sectors_per_cluster
                  <= card.layout.last + 1
             /\ fat_info.n_clusters + 2 <= fat_info.sectors_per_fat * EntriesPerSector
  <2>1. /\ LaidOut(card)
        /\ fat_info.fat0_offset = card.layout.fat0
        /\ fat_info.sectors_per_fat = card.layout.sectors
        /\ fat_info.data_offset = card.layout.data
        /\ card.layout.data \in Nat /\ card.layout.sectors \in Nat
        /\ fat_info.sectors_per_cluster = Volume(card).sectors_per_cluster
    BY <1>2, MountedAreas
  <2>2. Describes(fat_info, Volume(card))
    BY <1>2 DEF DirInv
  <2>3. PICK v : v = Volume(card)
    OBVIOUS
  <2>4. PICK l : l = card.layout
    OBVIOUS
  <2>5. PICK sectors : sectors = Sectors(v)
    OBVIOUS
  <2>6. /\ v.n_hidden_sectors \in Nat /\ sectors \in Nat /\ l.last \in Nat
        /\ v.n_hidden_sectors + sectors <= l.last + 1
        /\ v.sectors_per_fat = l.sectors
        /\ v.sectors_per_cluster \in Nat \ {0}
        /\ l.data <= v.n_hidden_sectors + sectors
        /\ l.clusters = (v.n_hidden_sectors + sectors - l.data) \div v.sectors_per_cluster
        /\ l.clusters + 2 <= l.sectors * EntriesPerSector
    BY <2>1, <2>3, <2>4, <2>5 DEF LaidOut
  <2>7. l.fats = 2 => fat_info.fat1_offset = l.fat0 + l.sectors
    BY <1>1, <2>1, <2>2, <2>3, <2>4, <2>6 DEF Describes
  <2>8. PICK S \in Nat \ {0}, data \in Nat, hidden \in Nat :
          S = v.sectors_per_cluster /\ data = l.data /\ hidden = v.n_hidden_sectors
    BY <2>1, <2>4, <2>6
  <2>9. PICK left \in Int : left = sectors - data
    BY <2>6
  <2>10. fat_info.n_clusters = NClusters(v) /\ IsFat16Count(NClusters(v))
    BY <2>2, <2>3 DEF Describes, IsFat16Count
  <2>11. left >= 0 /\ NClusters(v) = left \div S
    <3>1. left = Sectors(Volume(card)) - card.layout.data
      BY <2>3, <2>4, <2>5, <2>8, <2>9
    <3>2. PICK n : n = NClusters(Volume(card)) /\ IsFat16Count(n)
      BY <2>3, <2>10
    <3>3. left >= 0 /\ n = left \div Volume(card).sectors_per_cluster
      BY <1>1, <2>1, <3>1, <3>2, CountLaidOut
    <3> QED
      BY <2>3, <2>8, <3>2, <3>3
  <2>12. PICK n \in Nat, r \in Nat : n = left \div S /\ r < S /\ left = n * S + r
    <3>1. left \in Nat
      BY <2>9, <2>11
    <3> HIDE <2>9, <2>11
    <3> QED
      BY <3>1, Quotient
  <2>13. fat_info.n_clusters = n
    BY <2>10, <2>11, <2>12
  <2>14. PICK room \in Nat : room = hidden + sectors - data /\ left <= room
    BY <2>4, <2>6, <2>8, <2>9
  <2>15. n <= l.clusters /\ l.clusters \in Nat
    <3>1. l.clusters = room \div S
      BY <2>6, <2>8, <2>14
    <3>2. left \in Nat
      BY <2>9, <2>11
    <3>3. n <= room \div S
      BY <2>12, <2>14, <3>2, QuotientGrows
    <3>4. room \div S \in Nat
      BY <2>14, Quotient
    <3> QED
      BY <3>1, <3>3, <3>4
  <2>16. data + n * S <= l.last + 1
    <3>1. n * S \in Nat /\ n * S <= left
      BY <2>12
    <3> QED
      BY <2>6, <2>8, <2>9, <3>1
  <2>17. n + 2 <= l.sectors * EntriesPerSector
    <3>1. l.sectors * EntriesPerSector \in Nat
      BY <2>1, <2>4, DirAssumption
    <3> QED
      BY <2>6, <2>15, <3>1
  <2> QED
    BY <2>1, <2>3, <2>4, <2>7, <2>8, <2>13, <2>15, <2>16, <2>17
<1>3. ASSUME ready, TypeKept(card) PROVE mounted <=> Supported(card)
  <2>1. mounted <=> /\ Volume(card).bytes_per_sector = BlockSize /\ Volume(card).n_fats <= 2
                    /\ IsFat16Count(NClusters(Volume(card)))
    BY <1>1, <1>3, MountAccepts DEF DirInv, IsFat16Count
  <2>2. ASSUME Volume(card).bytes_per_sector = BlockSize, card.layout.fats <= 2
        PROVE  IsFat16Count(NClusters(Volume(card))) <=> IsFat16Count(card.layout.clusters)
    <3>1. LaidOut(card)
      BY <2>2 DEF DirInv, Formatted
    <3>2. PICK left : left = Sectors(Volume(card)) - card.layout.data
      OBVIOUS
    <3>3. IsFat16Count(NClusters(Volume(card)))
            <=> left >= 0 /\ IsFat16Count(left \div Volume(card).sectors_per_cluster)
      BY <1>1, <3>1, <3>2, CountLaidOut
    <3> QED
      BY <1>3, <3>2, <3>3 DEF TypeKept
  <2> QED
    BY <1>1, <2>1, <2>2 DEF Supported
<1>4. mounted => /\ fat_info.fat0_offset = card.layout.fat0
                 /\ fat_info.sectors_per_fat = card.layout.sectors
                 /\ fat_info.root_dir_block = card.layout.root
                 /\ fat_info.data_offset = card.layout.data
  BY MountedAreas
<1> QED
  BY <1>2, <1>3, <1>4 DEF GeometrySound

-----------------------------------------------------------------------------
(***************************************************************************)
(* The blocks of a directory.                                              *)
(***************************************************************************)
\* A non-empty set of natural numbers has a least element.
LEMMA MinExists ==
    ASSUME NEW S, S \subseteq Nat, S # {}
    PROVE  Min(S) \in S /\ \A y \in S : Min(S) <= y
<1>1. PICK x \in S : \A y \in S : ~(<<y, x>> \in OpToRel(<, Nat))
  BY WFMin, NatLessThanWellFounded
<1>2. ASSUME NEW y \in S PROVE x <= y
  <2>1. x \in Nat /\ y \in Nat
    OBVIOUS
  <2>2. y < x => <<y, x>> \in OpToRel(<, Nat)
    BY <2>1 DEF OpToRel
  <2>3. ~(y < x)
    BY <1>1, <2>2, Zenon
  <2> QED
    BY <2>1, <2>3
<1>3. \E z \in S : \A y \in S : z <= y
  BY <1>2
<1> QED
  BY <1>3 DEF Min

\* A chain without a loop is no longer than the FAT.
LEMMA ChainInFat ==
    ASSUME NEW fat, IsFiniteSet(DOMAIN fat), NEW chain, Follows(fat, chain)
    PROVE  /\ Cardinality(DOMAIN fat) \in Nat /\ Len(chain) \in Nat
           /\ Len(chain) > 0 /\ Len(chain) <= Cardinality(DOMAIN fat)
<1> DEFINE S == {chain[k] : k \in 1 .. Len(chain)}
<1>1. chain \in Seq({k \in DOMAIN fat : k >= 2}) /\ chain # <<>>
  BY DEF Follows
<1>2. /\ Len(chain) \in Nat /\ Len(chain) > 0 /\ DOMAIN chain = 1 .. Len(chain)
      /\ \A k \in 1 .. Len(chain) : chain[k] \in DOMAIN fat
      /\ chain \in [1 .. Len(chain) -> DOMAIN fat]
  BY <1>1
<1>3. \A i, j \in 1 .. Len(chain) : chain[i] = chain[j] => i = j
  BY <1>2 DEF Follows
<1>4. chain \in Surjection(1 .. Len(chain), S) /\ chain \in Injection(1 .. Len(chain), S)
  BY <1>2, <1>3 DEF Surjection, Injection, IsInjective
<1>5. ExistsBijection(1 .. Len(chain), S)
  BY <1>4 DEF ExistsBijection, Bijection
<1>6. Cardinality(S) = Len(chain)
  BY <1>2, <1>5, FS_CountingElements
<1>7. S \subseteq DOMAIN fat
  BY <1>2
<1> HIDE DEF S
<1>8. Cardinality(S) <= Cardinality(DOMAIN fat) /\ Cardinality(DOMAIN fat) \in Nat
  BY <1>7, FS_Subset, FS_CardinalityType
<1> QED
  BY <1>2, <1>6, <1>8

\* What LinksFrom has at n.
LinkAt(fat, chain, n) ==
    IF n < Len(chain) THEN chain[n + 1] ELSE IF n = Len(chain) THEN fat[chain[n]] ELSE EOC

\* The recursion of LinksFrom, walked along a chain.
LEMMA LinksWalk ==
    ASSUME NEW fat, IsFiniteSet(DOMAIN fat), EOC \notin DOMAIN fat,
           NEW chain, Follows(fat, chain)
    PROVE  \A n \in 0 .. Cardinality(DOMAIN fat) :
               LinksFrom(fat, chain[1])[n] = LinkAt(fat, chain, n)
<1> DEFINE c == chain[1]
           bound == Cardinality(DOMAIN fat)
           Body(g) == [n \in 0 .. bound |->
                         IF n = 0 THEN c
                         ELSE IF IsCluster(fat, g[n - 1]) THEN fat[g[n - 1]] ELSE EOC]
           g0 == [n \in 0 .. bound |-> LinkAt(fat, chain, n)]
           nth == LinksFrom(fat, c)
           L == Len(chain)
<1>0. bound \in Nat /\ L \in Nat /\ L > 0 /\ L <= bound
  BY ChainInFat
<1>1. nth = CHOOSE h : h = Body(h)
  BY DEF LinksFrom
<1>a. \A k \in 1 .. L : IsCluster(fat, chain[k])
  <2>1. chain \in Seq({k \in DOMAIN fat : k >= 2})
    BY DEF Follows
  <2> QED
    BY <2>1 DEF IsCluster
<1>b. \A k \in 1 .. L : IF k < L THEN fat[chain[k]] = chain[k + 1] ELSE ~IsCluster(fat, fat[chain[k]])
  <2>1. DOMAIN chain = 1 .. L
    BY DEF Follows
  <2> QED
    BY <2>1 DEF Follows
<1>c. ~IsCluster(fat, EOC)
  BY DEF IsCluster
<1> HIDE DEF bound, L
<1>2. ASSUME NEW n \in 0 .. bound, n # 0
      PROVE  LinkAt(fat, chain, n) = IF IsCluster(fat, LinkAt(fat, chain, n - 1))
                                     THEN fat[LinkAt(fat, chain, n - 1)] ELSE EOC
  <2>1. CASE n - 1 < L
    <3>1. n \in 1 .. L /\ LinkAt(fat, chain, n - 1) = chain[n]
      BY <1>0, <1>2, <2>1 DEF LinkAt, L
    <3>2. IsCluster(fat, chain[n])
      BY <1>a, <3>1
    <3>3. LinkAt(fat, chain, n) = fat[chain[n]]
      BY <1>0, <1>b, <3>1 DEF LinkAt, L
    <3> QED
      BY <3>1, <3>2, <3>3
  <2>2. CASE n - 1 = L
    <3>1. LinkAt(fat, chain, n - 1) = fat[chain[L]] /\ L \in 1 .. L
      BY <1>0, <2>2 DEF LinkAt, L
    <3>2. ~IsCluster(fat, fat[chain[L]])
      BY <1>0, <1>b, <3>1
    <3>3. LinkAt(fat, chain, n) = EOC
      BY <1>0, <1>2, <2>2 DEF LinkAt, L
    <3> QED
      BY <3>1, <3>2, <3>3
  <2>3. CASE n - 1 > L
    <3>1. LinkAt(fat, chain, n - 1) = EOC /\ LinkAt(fat, chain, n) = EOC
      BY <1>0, <1>2, <2>3 DEF LinkAt, L
    <3> QED
      BY <1>c, <3>1
  <2> QED
    BY <1>0, <1>2, <2>1, <2>2, <2>3
<1>3. LinkAt(fat, chain, 0) = c
  BY <1>0 DEF LinkAt, L
<1>4. g0 = Body(g0)
  <2>1. ASSUME NEW n \in 0 .. bound PROVE g0[n] = Body(g0)[n]
    <3>1. CASE n = 0
      BY <1>3, <3>1
    <3>2. CASE n # 0
      <4>1. n - 1 \in 0 .. bound
        BY <1>0, <3>2
      <4>2. g0[n] = LinkAt(fat, chain, n) /\ g0[n - 1] = LinkAt(fat, chain, n - 1)
        BY <4>1
      <4> QED
        BY <1>2, <3>2, <4>2
    <3> QED
      BY <3>1, <3>2
  <2> QED
    BY <2>1
<1>5. nth = Body(nth)
  <2>1. \E h : h = Body(h)
    BY <1>4
  <2> HIDE DEF Body, nth
  <2> QED
    BY <1>1, <2>1
<1> HIDE DEF nth
<1>6. nth[0] = c /\ \A n \in 0 .. bound : n # 0 =>
        nth[n] = IF IsCluster(fat, nth[n - 1]) THEN fat[nth[n - 1]] ELSE EOC
  BY <1>0, <1>5
<1>7. \A n \in 0 .. bound : nth[n] = LinkAt(fat, chain, n)
  <2> DEFINE W == {n \in 0 .. bound : nth[n] # LinkAt(fat, chain, n)}
  <2>1. SUFFICES ASSUME W # {} PROVE FALSE
    OBVIOUS
  <2>2. W \subseteq Nat
    OBVIOUS
  <2>3. PICK m \in W : \A y \in W : m <= y
    <3> HIDE DEF W
    <3> QED
      BY <2>1, <2>2, MinExists
  <2>4. m # 0
    BY <1>3, <1>6
  <2>5. m - 1 \in 0 .. bound /\ m - 1 \notin W /\ m \in 0 .. bound
    BY <1>0, <2>3, <2>4
  <2>6. nth[m - 1] = LinkAt(fat, chain, m - 1)
    BY <2>5
  <2>7. nth[m] = LinkAt(fat, chain, m)
    BY <1>2, <1>6, <2>4, <2>5, <2>6
  <2> QED
    BY <2>3, <2>7
<1> QED
  BY <1>7 DEF nth, bound

\* What the search takes for the chain of a cluster is its chain.
LEMMA ChainFound ==
    ASSUME NEW fat, IsFiniteSet(DOMAIN fat), EOC \notin DOMAIN fat,
           NEW chain, Follows(fat, chain)
    PROVE  /\ Len(ChainOf(fat, chain[1])) = Len(chain)
           /\ \A k \in 1 .. Len(chain) : ChainOf(fat, chain[1])[k] = chain[k]
<1> DEFINE bound == Cardinality(DOMAIN fat)
           links == LinksFrom(fat, chain[1])
           S == {n \in 0 .. bound : n = bound \/ ~IsCluster(fat, links[n])}
           L == Len(chain)
<1>1. bound \in Nat /\ L \in Nat /\ L > 0 /\ L <= bound
  BY ChainInFat
<1>2. \A n \in 0 .. bound : links[n] = LinkAt(fat, chain, n)
  BY LinksWalk
<1>3. /\ \A k \in 1 .. L : IsCluster(fat, chain[k])
      /\ ~IsCluster(fat, fat[chain[L]])
  <2>1. chain \in Seq({k \in DOMAIN fat : k >= 2}) /\ DOMAIN chain = 1 .. L
    BY DEF Follows
  <2>2. L \in DOMAIN chain /\ ~(L < Len(chain))
    BY <1>1, <2>1
  <2>3. ~IsCluster(fat, fat[chain[L]])
    BY <2>2 DEF Follows
  <2> QED
    BY <2>1, <2>3 DEF IsCluster
<1> HIDE DEF bound, L, links
<1>4. \A n \in 0 .. L - 1 : links[n] = chain[n + 1] /\ IsCluster(fat, links[n])
  <2>1. ASSUME NEW n \in 0 .. L - 1 PROVE links[n] = chain[n + 1] /\ IsCluster(fat, links[n])
    <3>1. n \in 0 .. bound /\ n < L /\ n + 1 \in 1 .. L
      BY <1>1
    <3>2. links[n] = chain[n + 1]
      BY <1>2, <3>1 DEF LinkAt, L
    <3> QED
      BY <1>3, <3>1, <3>2
  <2> QED
    BY <2>1
<1>5. L \in S
  <2>1. L \in 0 .. bound
    BY <1>1
  <2>2. links[L] = fat[chain[L]]
    BY <1>1, <1>2, <2>1 DEF LinkAt, L
  <2> QED
    BY <1>3, <2>1, <2>2
<1>6. \A n \in S : ~(n < L)
  BY <1>1, <1>4
<1>7. S \subseteq Nat
  OBVIOUS
<1>8. Min(S) = L
  <2> HIDE DEF S
  <2>1. Min(S) \in S /\ \A y \in S : Min(S) <= y
    BY <1>5, <1>7, MinExists
  <2>2. Min(S) \in Nat /\ Min(S) <= L /\ ~(Min(S) < L)
    BY <1>5, <1>6, <1>7, <2>1
  <2> QED
    BY <1>1, <2>2
<1>9. ChainOf(fat, chain[1]) = [n \in 1 .. Min(S) |-> links[n - 1]]
  BY DEF ChainOf, bound, links
<1>10. ChainOf(fat, chain[1]) = [n \in 1 .. L |-> links[n - 1]]
  BY <1>8, <1>9
<1>11. \A k \in 1 .. L : links[k - 1] = chain[k]
  BY <1>1, <1>4
<1>12. Len([n \in 1 .. L |-> links[n - 1]]) = L
  BY <1>1
<1> QED
  BY <1>10, <1>11, <1>12 DEF L

\* A FAT of a number of sectors: its clusters, and the sector of each.
LEMMA FatClusters ==
    ASSUME NEW blocks, NEW first, NEW sectors \in Nat, NEW fat, fat = FatAt(blocks, first, sectors)
    PROVE  /\ IsFiniteSet(DOMAIN fat) /\ EOC \notin DOMAIN fat
           /\ \A k \in DOMAIN fat : /\ k \in Nat /\ k \div EntriesPerSector \in 0 .. sectors - 1
                                    /\ fat[k] = FatEntry(blocks, first, k)
<1>1. PICK E \in Nat \ {0} : E = EntriesPerSector
  BY DirAssumption
<1>2. sectors * E \in Nat
  OBVIOUS
<1>3. DOMAIN fat = {n \in 0 .. sectors * E - 1 : n < EOC}
  BY <1>1 DEF FatAt
<1>4. IsFiniteSet(DOMAIN fat)
  <2>1. IsFiniteSet(0 .. sectors * E - 1)
    <3>1. PICK m \in Int : m = sectors * E - 1
      <4>1. sectors * E - 1 \in Int
        BY <1>2
      <4> QED
        BY <4>1
    <3>2. 0 \in Int
      OBVIOUS
    <3>3. IsFiniteSet(0 .. m)
      BY <3>2, FS_Interval, Zenon
    <3> QED
      BY <3>1, <3>3
  <2>2. DOMAIN fat \subseteq 0 .. sectors * E - 1
    BY <1>3
  <2> QED
    BY <2>1, <2>2, FS_Subset
<1>5. EOC \notin DOMAIN fat
  <2>1. EOC \in Nat
    BY DirAssumption
  <2> QED
    BY <1>3, <2>1
<1>6. ASSUME NEW k \in DOMAIN fat
      PROVE  /\ k \in Nat /\ k \div EntriesPerSector \in 0 .. sectors - 1
             /\ fat[k] = FatEntry(blocks, first, k)
  <2>1. PICK a \in Nat : a = k /\ a < sectors * E
    BY <1>2, <1>3
  <2>2. PICK q \in Nat, r \in Nat : q = a \div E /\ r < E /\ a = q * E + r
    BY Quotient
  <2>3. sectors < q => sectors * E + E <= q * E
    BY <2>2, ProductOrder
  <2>4. q * E \in Nat /\ (sectors = q => sectors * E = q * E)
    BY <2>2
  <2>5. q < sectors
    BY <1>2, <2>1, <2>2, <2>3, <2>4
  <2>6. fat[k] = FatEntry(blocks, first, k)
    BY <1>3 DEF FatAt
  <2> QED
    BY <1>1, <2>1, <2>2, <2>5, <2>6
<1> QED
  BY <1>4, <1>5, <1>6

\* FATs of the same sectors are the same.
LEMMA SameFat ==
    ASSUME NEW b, NEW d, NEW first, NEW sectors \in Nat,
           \A s \in 0 .. sectors - 1 : b[first + s] = d[first + s]
    PROVE  FatAt(b, first, sectors) = FatAt(d, first, sectors)
<1>1. PICK f, g : f = FatAt(b, first, sectors) /\ g = FatAt(d, first, sectors)
  OBVIOUS
<1>2. DOMAIN f = DOMAIN g
  BY <1>1 DEF FatAt
<1>3. ASSUME NEW k \in DOMAIN f PROVE f[k] = g[k]
  <2>1. k \div EntriesPerSector \in 0 .. sectors - 1 /\ f[k] = FatEntry(b, first, k)
    BY <1>1, FatClusters
  <2>2. k \in DOMAIN g /\ g[k] = FatEntry(d, first, k)
    BY <1>1, <1>2, FatClusters
  <2> QED
    BY <2>1, <2>2 DEF FatEntry
<1>4. f = [k \in DOMAIN f |-> f[k]] /\ g = [k \in DOMAIN g |-> g[k]]
  BY <1>1 DEF FatAt
<1> QED
  BY <1>1, <1>2, <1>3, <1>4

\* What is read of the FAT.
LEMMA ReadsFat ==
    ASSUME fat_info.sectors_per_fat \in Nat, NEW c \in DOMAIN Fat
    PROVE  read_fat_entry(c) = Fat[c]
<1>1. PICK sectors \in Nat : sectors = fat_info.sectors_per_fat
  OBVIOUS
<1>1a. PICK first, blocks : first = fat_info.fat0_offset /\ blocks = card.blocks
  OBVIOUS
<1>2. PICK fat : fat = FatAt(blocks, first, sectors)
  OBVIOUS
<1>3. Fat = fat
  BY <1>1, <1>1a, <1>2 DEF Fat
<1>4. fat[c] = FatEntry(blocks, first, c)
  BY <1>2, <1>3, FatClusters
<1> QED
  BY <1>1, <1>1a, <1>3, <1>4 DEF read_fat_entry

\* The search visits the blocks of the directory first, in their order.
LEMMA VisitedInOrder ==
    ASSUME DirInv, mounted, NEW dir \in Dirs
    PROVE  /\ Len(card.dirs[dir]) \in Nat /\ Len(Visited(dir)) \in Nat
           /\ DOMAIN card.dirs[dir] = 1 .. Len(card.dirs[dir])
           /\ Len(card.dirs[dir]) <= Len(Visited(dir))
           /\ dir # 0 => Len(Visited(dir)) = Len(card.dirs[dir])
           /\ \A i \in 1 .. Len(card.dirs[dir]) : Visited(dir)[i] = card.dirs[dir][i]
<1>1. /\ LaidOut(card) /\ ChainsLinked(card) /\ DirsPlaced(card)
      /\ card.layout.root \in Nat /\ card.layout.data \in Nat
      /\ card.layout.root <= card.layout.data
      /\ fat_info.fat0_offset = card.layout.fat0
      /\ fat_info.sectors_per_fat = card.layout.sectors /\ card.layout.sectors \in Nat
      /\ fat_info.root_dir_block = card.layout.root
      /\ fat_info.data_offset = card.layout.data
      /\ fat_info.sectors_per_cluster = Volume(card).sectors_per_cluster
      /\ Volume(card).sectors_per_cluster \in Nat \ {0}
      /\ 2 ^ fat_info.log_sectors_per_cluster = Volume(card).sectors_per_cluster
  BY MountedAreas
<1>2. PICK D : D = card.dirs[dir]
  OBVIOUS
<1>3. D \in Seq(DOMAIN card.blocks \ Described(card))
  BY <1>2 DEF DirInv, Formatted, DirsApart, Dirs
<1>4. Len(D) \in Nat /\ DOMAIN D = 1 .. Len(D)
  BY <1>3
<1>5. CASE dir = 0
  <2>1. PICK root \in Nat, data \in Nat, last \in Nat :
          /\ root = card.layout.root /\ data = card.layout.data /\ last = card.layout.last
          /\ root <= data /\ data <= last + 1 /\ DOMAIN card.blocks = 0 .. last
    BY <1>1 DEF LaidOut
  <2>2. D = [i \in 1 .. data - root |-> root + i - 1]
    BY <1>1, <1>2, <1>5, <2>1 DEF DirsPlaced, BlocksAt, Dirs
  <2>3. Len(D) = data - root
    BY <2>1, <2>2
  <2>4. {a \in DOMAIN card.blocks : a >= fat_info.root_dir_block} = root .. last
    BY <1>1, <2>1
  <2>5. Cardinality(root .. last) = last - root + 1
    <3>1. root \in Int /\ last \in Int
      BY <2>1
    <3>2. Cardinality(root .. last) = IF root > last THEN 0 ELSE last - root + 1
      BY <3>1, FS_Interval, Zenon
    <3> QED
      BY <2>1, <3>2
  <2>6. Visited(dir) = [i \in 1 .. last - root + 1 |-> root + i - 1]
    BY <1>1, <1>5, <2>1, <2>4, <2>5 DEF Visited
  <2>7. Len(Visited(dir)) = last - root + 1
    BY <2>1, <2>6
  <2>8. ASSUME NEW i \in 1 .. Len(D) PROVE Visited(dir)[i] = D[i]
    <3>0. i \in 1 .. data - root
      BY <2>3
    <3>1. i \in 1 .. data - root /\ i \in 1 .. last - root + 1
      <4>1. data - root \in Nat /\ last - root + 1 \in Nat /\ data - root <= last - root + 1
        <5>1. root <= data /\ data <= last + 1
          BY <2>1
        <5> QED
          BY <5>1
      <4> QED
        BY <3>0, <4>1
    <3> QED
      BY <2>2, <2>6, <3>1, Zenon
  <2>9. Len(D) <= Len(Visited(dir)) /\ Len(Visited(dir)) \in Nat
    <3>1. PICK m, n : m = Len(D) /\ n = Len(Visited(dir))
      OBVIOUS
    <3>2. m = data - root /\ n = last - root + 1
      BY <2>3, <2>7, <3>1
    <3>3. root <= data /\ data <= last + 1
      BY <2>1
    <3>4. m <= n /\ n \in Nat
      BY <3>2, <3>3
    <3> QED
      BY <3>1, <3>4, Zenon
  <2> QED
    BY <1>2, <1>4, <1>5, <2>8, <2>9, Zenon
<1>6. CASE dir # 0
  <2>1. PICK chain, fat : chain = card.chains[dir] /\ fat = FatOf(card)
    OBVIOUS
  <2>2. dir \in DOMAIN card.chains
    BY <1>1, <1>6 DEF ChainsLinked, Dirs
  <2>3. IsFiniteSet(DOMAIN fat) /\ EOC \notin DOMAIN fat /\ Follows(fat, chain) /\ chain[1] = dir
    <3>1. Follows(fat, chain) /\ chain[1] = dir
      BY <1>1, <2>1, <2>2 DEF ChainsLinked
    <3>2. PICK sectors \in Nat : sectors = card.layout.sectors
      BY <1>1
    <3>2a. PICK first, blocks : fat = FatAt(blocks, first, sectors)
      BY <1>1, <2>1, <3>2 DEF FatOf
    <3> QED
      BY <3>1, <3>2, <3>2a, FatClusters
  <2>4. Fat = fat
    BY <1>1, <2>1 DEF Fat, FatOf
  <2>5. /\ Len(ChainOf(Fat, dir)) = Len(chain)
        /\ \A k \in 1 .. Len(chain) : ChainOf(Fat, dir)[k] = chain[k]
    BY <2>3, <2>4, ChainFound
  <2>6. PICK L \in Nat : L = Len(chain)
    BY <2>3, ChainInFat
  <2>7. PICK size \in Nat \ {0} : size = Volume(card).sectors_per_cluster
    BY <1>1
  <2>8. PICK data \in Nat : data = card.layout.data
    BY <1>1
  <2>9. D = [i \in 1 .. L * size |-> data + (chain[(i - 1) \div size + 1] - 2) * size
                                          + ((i - 1) % size)]
    <3>1. PICK l, chains : l = card.layout /\ chains = card.chains
      OBVIOUS
    <3>2. D = BlocksAt(l, size, dir, chains)
      BY <1>1, <1>2, <2>7, <3>1 DEF DirsPlaced, Dirs
    <3>3. l.data = data /\ chains[dir] = chain
      BY <2>1, <2>8, <3>1
    <3>4. BlocksAt(l, size, dir, chains) =
             [i \in 1 .. L * size |-> data + (chain[(i - 1) \div size + 1] - 2) * size
                                          + ((i - 1) % size)]
      BY <1>6, <2>6, <3>3 DEF BlocksAt
    <3> QED
      BY <3>2, <3>4, Zenon
  <2>10. PICK found : found = ChainOf(Fat, dir)
    OBVIOUS
  <2>11. Visited(dir) = [i \in 1 .. L * size |->
                           data + (found[(i - 1) \div size + 1] - 2) * size + ((i - 1) % size)]
    BY <1>1, <1>6, <2>5, <2>6, <2>7, <2>8, <2>10 DEF Visited, BlockOf
  <2>12. L * size \in Nat
    BY <2>6, <2>7
  <2>13. ASSUME NEW i \in 1 .. L * size PROVE found[(i - 1) \div size + 1] = chain[(i - 1) \div size + 1]
    <3>1. i - 1 \in Nat
      BY <2>12
    <3>2. PICK q \in Nat, r \in Nat : q = (i - 1) \div size /\ r < size /\ i - 1 = q * size + r
      BY <3>1, Quotient
    <3>3. q < L
      <4>1. L < q \/ L = q => L * size <= q * size
        <5>1. L < q => L * size + size <= q * size
          BY <3>2, ProductOrder
        <5>2. q * size \in Nat
          BY <3>2
        <5> QED
          BY <2>12, <5>1, <5>2
      <4>2. q * size \in Nat
        BY <3>2
      <4> QED
        BY <2>12, <3>2, <4>1, <4>2
    <3>4. q + 1 \in 1 .. Len(chain)
      BY <2>6, <3>2, <3>3
    <3> QED
      BY <2>5, <2>10, <3>2, <3>4
  <2>14. Visited(dir) = D
    BY <2>9, <2>11, <2>13
  <2> QED
    BY <1>2, <1>4, <1>6, <2>14
<1> QED
  BY <1>5, <1>6

\* The number of a slot: the m-th of the i-th block.
Place(i, m) == (i - 1) * EntriesPerBlock + m + 1

\* Each slot of n blocks has a number, and each number is that of one slot.
LEMMA Places ==
    ASSUME NEW n \in Nat
    PROVE  /\ n * EntriesPerBlock \in Nat
           /\ \A i \in 1 .. n, m \in 0 .. EntriesPerBlock - 1 :
                 /\ Place(i, m) \in 1 .. n * EntriesPerBlock
                 /\ (Place(i, m) - 1) \div EntriesPerBlock + 1 = i
                 /\ (Place(i, m) - 1) % EntriesPerBlock = m
           /\ \A x \in 1 .. n * EntriesPerBlock :
                 \E i \in 1 .. n, m \in 0 .. EntriesPerBlock - 1 : x = Place(i, m)
<1>0. PICK E \in Nat \ {0} : E = EntriesPerBlock
  BY MountAssumption
<1>1. n * E \in Nat
  OBVIOUS
<1>2. ASSUME NEW i \in 1 .. n, NEW m \in 0 .. E - 1
      PROVE  /\ (i - 1) * E + m + 1 \in 1 .. n * E
             /\ (i - 1) * E + m \in Nat
             /\ ((i - 1) * E + m) \div E + 1 = i
             /\ ((i - 1) * E + m) % E = m
  <2>1. PICK q \in Nat : q = i - 1 /\ q < n
    OBVIOUS
  <2>2. q * E + E <= n * E
    BY <2>1, ProductOrder
  <2>3. q * E \in Nat /\ m \in Nat /\ m < E
    BY <2>1
  <2>4. PICK a : a = q * E + m
    OBVIOUS
  <2>5. a \in Nat /\ a \div E = q /\ a % E = m
    BY <2>1, <2>3, <2>4, Splits
  <2>6. a + 1 \in 1 .. n * E
    BY <1>1, <2>2, <2>3, <2>4
  <2> QED
    BY <2>1, <2>4, <2>5, <2>6
<1>3. ASSUME NEW i \in 1 .. n, NEW m \in 0 .. E - 1
      PROVE  /\ Place(i, m) \in 1 .. n * E
             /\ (Place(i, m) - 1) \div E + 1 = i
             /\ (Place(i, m) - 1) % E = m
  <2>1. PICK a \in Nat : a = (i - 1) * E + m
    BY <1>2
  <2>2. Place(i, m) = a + 1 /\ Place(i, m) - 1 = a
    BY <1>0, <2>1 DEF Place
  <2> QED
    BY <1>2, <2>1, <2>2
<1>4. ASSUME NEW x \in 1 .. n * E
      PROVE  \E i \in 1 .. n, m \in 0 .. E - 1 : x = Place(i, m)
  <2>1. PICK a \in Nat : a = x - 1
    <3>1. x - 1 \in Nat
      BY <1>1
    <3> QED
      BY <3>1
  <2>2. PICK q \in Nat, r \in Nat : r < E /\ x - 1 = q * E + r
    <3>1. a \div E \in Nat /\ a % E \in Nat /\ a % E < E /\ a = (a \div E) * E + (a % E)
      BY Quotient
    <3> QED
      BY <2>1, <3>1
  <2>3. q < n
    <3>1. n < q \/ n = q => n * E <= q * E
      <4>1. n < q => n * E + E <= q * E
        BY ProductOrder
      <4>2. q * E \in Nat
        OBVIOUS
      <4> QED
        BY <1>1, <4>1, <4>2
    <3>2. q * E \in Nat
      OBVIOUS
    <3> QED
      BY <1>1, <2>2, <3>1, <3>2
  <2>4. q + 1 \in 1 .. n /\ r \in 0 .. E - 1
    BY <2>2, <2>3
  <2>5. x = Place(q + 1, r)
    <3>1. q * E \in Nat /\ (q + 1) - 1 = q
      OBVIOUS
    <3> QED
      BY <1>0, <2>2, <3>1 DEF Place
  <2> QED
    BY <2>4, <2>5
<1> QED
  BY <1>0, <1>1, <1>3, <1>4

\* The order of the slots is that of their numbers.
LEMMA PlaceOrder ==
    ASSUME NEW i \in Nat \ {0}, NEW j \in Nat \ {0},
           NEW m \in 0 .. EntriesPerBlock - 1, NEW n \in 0 .. EntriesPerBlock - 1
    PROVE  /\ Place(i, m) \in Nat
           /\ i < j \/ (i = j /\ m < n) <=> Place(i, m) < Place(j, n)
           /\ Place(i, m) = Place(j, n) => i = j /\ m = n
<1>0. PICK E \in Nat \ {0} : E = EntriesPerBlock
  BY MountAssumption
<1>1. PICK p \in Nat, q \in Nat : p = i - 1 /\ q = j - 1
  <2>1. i - 1 \in Nat /\ j - 1 \in Nat
    OBVIOUS
  <2> QED
    BY <2>1
<1>2. Place(i, m) = p * E + m + 1 /\ Place(j, n) = q * E + n + 1
  BY <1>0, <1>1 DEF Place
<1>3. p < q => p * E + E <= q * E
  BY <1>1, ProductOrder
<1>4. q < p => q * E + E <= p * E
  BY <1>1, ProductOrder
<1>5. p * E \in Nat /\ q * E \in Nat /\ m \in Nat /\ n \in Nat /\ m < E /\ n < E
  BY <1>0, <1>1
<1>6. (i < j <=> p < q) /\ (i = j <=> p = q)
  BY <1>1
<1>7. p = q => p * E = q * E
  OBVIOUS
<1>8. p < q \/ (p = q /\ m < n) <=> p * E + m + 1 < q * E + n + 1
  BY <1>1, <1>3, <1>4, <1>5, <1>7
<1>9. p * E + m + 1 = q * E + n + 1 => p = q /\ m = n
  BY <1>1, <1>3, <1>4, <1>5, <1>7
<1> QED
  BY <1>2, <1>5, <1>6, <1>8, <1>9

\* The slots of the directory come first in the search.
LEMMA SlotsInOrder ==
    ASSUME DirInv, mounted, NEW dir \in Dirs
    PROVE  /\ Len(Slots(dir)) \in Nat /\ DOMAIN Slots(dir) = 1 .. Len(Slots(dir))
           /\ Len(card.dirs[dir]) * EntriesPerBlock <= Len(Slots(dir))
           /\ dir # 0 => Len(Slots(dir)) = Len(card.dirs[dir]) * EntriesPerBlock
           /\ \A i \in 1 .. Len(card.dirs[dir]), m \in 0 .. EntriesPerBlock - 1 :
                 Slots(dir)[Place(i, m)] = [addr |-> card.dirs[dir][i], index |-> m]
<1>0. PICK E \in Nat \ {0} : E = EntriesPerBlock
  BY MountAssumption
<1>1. PICK D, V : D = card.dirs[dir] /\ V = Visited(dir)
  OBVIOUS
<1>2. /\ Len(D) \in Nat /\ Len(V) \in Nat /\ Len(D) <= Len(V)
      /\ dir # 0 => Len(V) = Len(D)
      /\ \A i \in 1 .. Len(D) : V[i] = D[i]
  BY <1>1, VisitedInOrder
<1>3. PICK k \in Nat, n \in Nat : k = Len(D) /\ n = Len(V) /\ k <= n
  BY <1>2
<1>4. k * E \in Nat /\ n * E \in Nat /\ k * E <= n * E
  <2>1. k < n => k * E + E <= n * E
    BY ProductOrder
  <2>2. k * E \in Nat /\ n * E \in Nat
    OBVIOUS
  <2> QED
    BY <1>3, <2>1, <2>2
<1>5. PICK s : s = Slots(dir)
  OBVIOUS
<1>6. s = [i \in 1 .. n * E |-> [addr |-> V[(i - 1) \div E + 1], index |-> (i - 1) % E]]
  BY <1>0, <1>1, <1>3, <1>5 DEF Slots
<1>7. Len(s) = n * E /\ DOMAIN s = 1 .. n * E
  BY <1>4, <1>6
<1>8. ASSUME NEW i \in 1 .. Len(D), NEW m \in 0 .. E - 1
      PROVE  s[Place(i, m)] = [addr |-> D[i], index |-> m]
  <2>1. /\ Place(i, m) \in 1 .. k * E
        /\ (Place(i, m) - 1) \div E + 1 = i /\ (Place(i, m) - 1) % E = m
    BY <1>0, <1>3, Places
  <2>2. Place(i, m) \in 1 .. n * E
    BY <1>4, <2>1
  <2>3. V[i] = D[i]
    BY <1>2
  <2> QED
    BY <1>6, <2>1, <2>2, <2>3, Zenon
<1>9. dir # 0 => n = k
  BY <1>2, <1>3
<1> QED
  BY <1>0, <1>1, <1>3, <1>4, <1>5, <1>7, <1>8, <1>9

-----------------------------------------------------------------------------
(***************************************************************************)
(* The search.                                                             *)
(***************************************************************************)
\* The name in slot m of the i-th block of a directory.
NameIn(dir, i, m) == NameOn(card, dir, i, m)

\* The name of an entry that is created is not that of a free entry.
LEMMA NamesInUse ==
    ASSUME NEW name \in Components
    PROVE  ~IsFree(to_fat_name(name))
<1>1. name # <<>> /\ name[1] # "e5"
  BY DirAssumption
<1>2. NameLen \in Nat /\ 1 \in 1 .. NameLen /\ BaseLen \in Nat /\ 1 <= BaseLen /\ ~(1 > BaseLen)
  BY NameAssumption DEF NameLen
<1> DEFINE base == PositionOf(name, 1, {Dot}) - 1
<1>3. PICK f : f = to_fat_name(name)
  OBVIOUS
<1>4. f = [k \in 1 .. NameLen |->
              CASE name[1] = Dot -> CharAt(name, 1, k)
                [] name[1] # Dot /\ k <= BaseLen -> IF k <= base THEN name[k] ELSE Blank
                [] name[1] # Dot /\ k > BaseLen -> CharAt(name, ExtensionAt(name), k - BaseLen)]
  BY <1>3 DEF to_fat_name
<1> HIDE DEF base
<1>5. f[1] \in {name[1], Blank}
  <2>1. CASE name[1] = Dot
    <3>1. f[1] = CharAt(name, 1, 1)
      BY <1>2, <1>4, <2>1
    <3>2. CharAt(name, 1, 1) \in {name[1 + 1 - 1], Blank}
      BY DEF CharAt
    <3>3. 1 + 1 - 1 = 1
      OBVIOUS
    <3> QED
      BY <3>1, <3>2, <3>3, Zenon
  <2>2. CASE name[1] # Dot
    <3>1. f[1] = IF 1 <= base THEN name[1] ELSE Blank
      BY <1>2, <1>4, <2>2
    <3> QED
      BY <3>1
  <2> QED
    BY <2>1, <2>2
<1>6. f # DeletedName
  <2>1. DeletedName[1] = "e5"
    BY <1>2 DEF DeletedName
  <2> QED
    <3>1. Blank # "e5"
      BY Zenon DEF Blank
    <3> QED
      BY <1>1, <1>5, <2>1, <3>1
<1>7. f # <<>>
  <2>1. DOMAIN f = 1 .. NameLen
    BY <1>4
  <2> QED
    BY <1>2, <2>1
<1> QED
  BY <1>3, <1>6, <1>7 DEF IsFree, End

\* Where the search in a directory with an end mark, or in the clusters of one
\* without, comes to its end: nowhere behind the directory.
LEMMA SearchEnds ==
    ASSUME DirInv, mounted, "full" \notin Usage, NEW dir \in Dirs, Searches(dir),
           NEW size, size = Len(card.dirs[dir]) * EntriesPerBlock,
           NEW end, end = EndOf(Slots(dir))
    PROVE  /\ end \in 1 .. Len(Slots(dir)) + 1 /\ end <= size + 1
           /\ dir = 0 => end <= Len(Slots(dir))
           /\ end <= Len(Slots(dir)) => end <= size /\ Name(Slots(dir)[end]) = End.name
           /\ \A x \in 1 .. end - 1 : Name(Slots(dir)[x]) # End.name
<1>0. PICK E \in Nat \ {0} : E = EntriesPerBlock
  BY MountAssumption
<1>1. PICK D, s : D = card.dirs[dir] /\ s = Slots(dir)
  OBVIOUS
<1>2. /\ Len(s) \in Nat /\ DOMAIN s = 1 .. Len(s)
      /\ Len(D) * E <= Len(s)
      /\ dir # 0 => Len(s) = Len(D) * E
      /\ \A i \in 1 .. Len(D), m \in 0 .. E - 1 :
            s[Place(i, m)] = [addr |-> D[i], index |-> m]
  BY <1>0, <1>1, SlotsInOrder
<1>3. Len(D) \in Nat /\ DOMAIN D = 1 .. Len(D)
  BY <1>1, VisitedInOrder
<1>4. size \in Nat /\ size = Len(D) * E
  <2>1. PICK k \in Nat : k = Len(D)
    BY <1>3
  <2>2. k * E \in Nat
    OBVIOUS
  <2> QED
    BY <1>0, <1>1, <2>1, <2>2
<1>5. PICK last \in Nat : last = Len(s) /\ DOMAIN s = 1 .. last
  BY <1>2
<1>a. size <= last
  <2>1. Len(D) * E <= Len(s)
    BY <1>2
  <2> QED
    BY <1>4, <1>5, <2>1
<1> DEFINE marks == {i \in DOMAIN s : Name(s[i]) = End.name}
           S == marks \cup {last + 1}
<1>6. end = Min(S)
  BY <1>1, <1>5 DEF EndOf
<1>7. S \subseteq Nat /\ S # {} /\ S \subseteq 1 .. last + 1
  <2>1. marks \subseteq 1 .. last
    BY <1>5
  <2>2. 1 .. last \subseteq 1 .. last + 1 /\ last + 1 \in 1 .. last + 1 /\ 1 .. last + 1 \subseteq Nat
    BY <1>5
  <2> QED
    BY <2>1, <2>2, Zenon
<1>8. end \in S /\ \A y \in S : end <= y
  <2> HIDE DEF S
  <2> QED
    BY <1>6, <1>7, MinExists
<1>9. end \in 1 .. last + 1
  BY <1>7, <1>8
<1>10. end <= last => Name(s[end]) = End.name
  BY <1>5, <1>8, <1>9
<1>11. ASSUME NEW x \in 1 .. end - 1 PROVE Name(s[x]) # End.name
  <2>1. x \in DOMAIN s /\ ~(end <= x)
    BY <1>5, <1>9
  <2> QED
    BY <1>8, <2>1
<1>12. CASE dir = 0
  <2>1. HasEnd(dir)
    BY <1>12 DEF Searches
  <2>2. PICK x \in 1 .. last : s[x].addr \in Range(D) /\ Name(s[x]) = End.name
    BY <1>1, <1>5, <2>1 DEF HasEnd, Range
  <2>3. end <= x
    BY <1>5, <1>8, <2>2
  <2>4. PICK V : V = Visited(dir)
    OBVIOUS
  <2>5. s = [i \in 1 .. Len(V) * E |-> [addr |-> V[(i - 1) \div E + 1], index |-> (i - 1) % E]]
    BY <1>0, <1>1, <2>4 DEF Slots
  <2>6. x \in DOMAIN s
    BY <1>2, <1>5
  <2>7. s[x] = [addr |-> V[(x - 1) \div E + 1], index |-> (x - 1) % E]
    BY <2>5, <2>6
  <2>8. PICK i \in 1 .. Len(D) : s[x].addr = D[i]
    BY <1>3, <2>2 DEF Range
  <2>9. PICK m \in 0 .. E - 1 : s[x].index = m
    <3>1. PICK a \in Nat : a = x - 1
      <4>1. x - 1 \in Nat
        BY <2>2
      <4> QED
        BY <4>1
    <3>2. a % E \in 0 .. E - 1
      BY Quotient
    <3> QED
      BY <2>7, <3>1, <3>2
  <2>10. s[Place(i, m)] = s[x]
    <3>1. V[(x - 1) \div E + 1] = D[i] /\ (x - 1) % E = m
      BY <2>7, <2>8, <2>9
    <3>2. s[Place(i, m)] = [addr |-> D[i], index |-> m]
      BY <1>2
    <3> QED
      BY <2>7, <3>1, <3>2, Zenon
  <2>11. Place(i, m) \in 1 .. size
    BY <1>0, <1>3, <1>4, Places
  <2>12. Place(i, m) \in 1 .. last
    BY <1>4, <1>5, <1>a, <2>11
  <2>13. Place(i, m) \in marks
    BY <1>5, <2>2, <2>10, <2>12
  <2>14. end <= Place(i, m)
    BY <1>8, <2>13
  <2>15. end <= size
    BY <1>4, <1>9, <2>11, <2>14
  <2>16. end <= last
    BY <1>4, <1>5, <1>9, <1>a, <2>15
  <2> QED
    BY <1>1, <1>4, <1>5, <1>9, <1>10, <1>11, <2>15, <2>16
<1>13. CASE dir # 0
  <2>1. last = size
    BY <1>2, <1>4, <1>5, <1>13
  <2> QED
    BY <1>1, <1>5, <1>9, <1>10, <1>11, <1>13, <2>1
<1> QED
  BY <1>12, <1>13

\* Where the directory holds a name, and the entries before a slot.
Holds(dir, n, i, m) == i \in 1 .. Len(card.dirs[dir]) /\ m \in 0 .. EntriesPerBlock - 1
                          /\ NameIn(dir, i, m) = n
SlotAt(dir, i, m) == [addr |-> card.dirs[dir][i], index |-> m]

\* The result of a search is the entry of that name.
LeadsTo(result, dir, n) ==
    \E i, m : /\ Holds(dir, n, i, m) /\ result.at = SlotAt(dir, i, m)
              /\ result.entry = card.blocks[card.dirs[dir][i]][m]

\* The search against the directory: it ends at the entry of that name, and where
\* it creates one there is none, the slot is free and no end mark comes before it.
LEMMA SearchResult ==
    ASSUME DirInv, mounted, "full" \notin Usage, NEW dir \in Dirs, Searches(dir),
           NEW name, NEW n, n = to_fat_name(name), ~IsFree(n), NEW mode,
           NEW result, result = fat_private_find_file(dir, name, mode)
    PROVE  /\ result.ok \in BOOLEAN /\ result.new \in BOOLEAN
           /\ result.ok /\ ~result.new =>
                 mode # {"CREAT", "EXCL"} /\ LeadsTo(result, dir, n)
           /\ result.new =>
                 /\ result.ok /\ "CREAT" \in mode /\ result.entry = NewEntry(n)
                 /\ \A i, m : ~Holds(dir, n, i, m)
                 /\ \E i \in 1 .. Len(card.dirs[dir]), m \in 0 .. EntriesPerBlock - 1 :
                       /\ result.at = SlotAt(dir, i, m) /\ IsFree(NameIn(dir, i, m))
                       /\ \A j \in 1 .. Len(card.dirs[dir]), k \in 0 .. EntriesPerBlock - 1 :
                             j < i \/ (j = i /\ k < m) => NameIn(dir, j, k) # End.name
           /\ ~result.ok =>
                 /\ result.error = "FILE_EXISTS" <=> \E i, m : Holds(dir, n, i, m)
                 /\ result.error = "FILE_EXISTS" => mode = {"CREAT", "EXCL"}
<1>0. PICK E \in Nat \ {0} : E = EntriesPerBlock
  BY MountAssumption
<1>1. PICK D, s, end, size :
        /\ D = card.dirs[dir] /\ s = Slots(dir) /\ end = EndOf(s) /\ size = Len(D) * E
  OBVIOUS
<1>2. /\ Len(s) \in Nat /\ end \in 1 .. Len(s) + 1 /\ end <= size + 1
      /\ dir = 0 => end <= Len(s)
      /\ end <= Len(s) => end <= size /\ Name(s[end]) = End.name
      /\ \A x \in 1 .. end - 1 : Name(s[x]) # End.name
  <2>1. Len(s) \in Nat
    BY <1>1, SlotsInOrder
  <2> QED
    BY <1>0, <1>1, <2>1, SearchEnds
<1>3. \A i \in 1 .. Len(D), m \in 0 .. E - 1 : s[Place(i, m)] = [addr |-> D[i], index |-> m]
  BY <1>0, <1>1, SlotsInOrder
<1>4. Len(D) \in Nat /\ size \in Nat
  <2>1. Len(D) \in Nat
    BY <1>1, VisitedInOrder
  <2>2. PICK k \in Nat : k = Len(D)
    BY <2>1
  <2>3. k * E \in Nat
    OBVIOUS
  <2> QED
    BY <1>1, <2>2, <2>3
<1>5. /\ \A i \in 1 .. Len(D), m \in 0 .. E - 1 : Place(i, m) \in 1 .. size
      /\ \A x \in 1 .. size : \E i \in 1 .. Len(D), m \in 0 .. E - 1 : x = Place(i, m)
  <2>1. PICK k \in Nat : k = Len(D)
    BY <1>4
  <2>2. /\ \A i \in 1 .. k, m \in 0 .. E - 1 : Place(i, m) \in 1 .. k * E
        /\ \A x \in 1 .. k * E : \E i \in 1 .. k, m \in 0 .. E - 1 : x = Place(i, m)
    BY <1>0, Places
  <2>3. size = k * E
    BY <1>1, <2>1
  <2> QED
    BY <2>1, <2>2, <2>3, Zenon
<1>6. \A i \in 1 .. Len(D), m \in 0 .. E - 1 :
        /\ Name(s[Place(i, m)]) = NameIn(dir, i, m)
        /\ EntryAt(s[Place(i, m)]) = card.blocks[D[i]][m]
  <2> SUFFICES ASSUME NEW i \in 1 .. Len(D), NEW m \in 0 .. E - 1
               PROVE  /\ Name(s[Place(i, m)]) = NameIn(dir, i, m)
                      /\ EntryAt(s[Place(i, m)]) = card.blocks[D[i]][m]
    OBVIOUS
  <2>1. PICK t : t = s[Place(i, m)]
    OBVIOUS
  <2>2. t = [addr |-> D[i], index |-> m]
    BY <1>3, <2>1
  <2>3. t.addr = D[i] /\ t.index = m
    BY <2>2
  <2>4. EntryAt(t) = card.blocks[D[i]][m]
    BY <2>3 DEF EntryAt
  <2> QED
    BY <1>1, <2>1, <2>4 DEF Name, NameIn, NameOn
<1> DEFINE hits == {i \in 1 .. end - 1 : Name(s[i]) = n}
           deleted == {i \in 1 .. end - 1 : Name(s[i]) = DeletedName}
           place == IF deleted # {} THEN Min(deleted) ELSE end
<1>7. result =
        IF hits # {}
        THEN IF mode = {"CREAT", "EXCL"} THEN Failed("FILE_EXISTS")
             ELSE Found(s[Min(hits)], EntryAt(s[Min(hits)]), FALSE)
        ELSE CASE end <= Len(s) /\ "CREAT" \in mode -> Found(s[place], NewEntry(n), TRUE)
               [] end > Len(s) /\ dir = 0 -> Failed("FS_BROKEN")
               [] end > Len(s) /\ dir # 0 /\ "CREAT" \in mode -> Failed("DIR_FULL")
               [] (end <= Len(s) \/ dir # 0) /\ "CREAT" \notin mode -> Failed("NOT_FOUND")
  BY <1>1 DEF fat_private_find_file
<1>8. n # End.name /\ n # DeletedName
  BY DEF IsFree
\* No entry of that name, nor any but free ones, is at the end mark or behind it.
<1>9. ASSUME NEW i, NEW m, Holds(dir, n, i, m)
      PROVE  Place(i, m) \in hits
  <2>1. i \in 1 .. Len(D) /\ m \in 0 .. E - 1 /\ NameIn(dir, i, m) = n
    BY <1>0, <1>1, <1>9 DEF Holds
  <2>2. Place(i, m) \in 1 .. size /\ Name(s[Place(i, m)]) = n
    BY <1>5, <1>6, <2>1
  <2>3. CASE Place(i, m) < end
    BY <1>2, <1>4, <2>2, <2>3
  <2>4. CASE Place(i, m) >= end
    <3>1. end \in 1 .. size
      BY <1>2, <1>4, <2>2, <2>4
    <3>2. Name(s[end]) = End.name
      <4>1. CASE end <= Len(s)
        BY <1>2, <4>1
      <4>2. CASE end > Len(s)
        <5>1. size <= Len(s)
          BY <1>0, <1>1, SlotsInOrder
        <5> QED
          BY <1>2, <1>4, <3>1, <4>2, <5>1
      <4> QED
        BY <1>2, <4>1, <4>2
    <3>3. PICK j \in 1 .. Len(D), k \in 0 .. E - 1 : end = Place(j, k)
      BY <1>5, <3>1
    <3>4. NameIn(dir, j, k) = End.name
      BY <1>6, <3>2, <3>3
    <3>5. Place(j, k) # Place(i, m)
      BY <1>8, <2>2, <3>2, <3>3
    <3>6. Place(j, k) < Place(i, m)
      BY <1>2, <1>4, <2>2, <2>4, <3>3, <3>5
    <3>7. j < i \/ (j = i /\ k < m)
      <4>1. j \in Nat \ {0} /\ i \in Nat \ {0}
        BY <2>1, <1>4
      <4> QED
        BY <1>0, <2>1, <3>6, <4>1, PlaceOrder
    <3>8. NameIn(dir, i, m) = End.name
      BY <1>0, <1>1, <2>1, <3>4, <3>7 DEF DirInv, Formatted, EntriesSound, Dirs, NameIn
    <3> QED
      BY <1>8, <2>1, <3>8
  <2> QED
    BY <1>2, <1>4, <2>2, <2>3, <2>4
<1>10. ASSUME NEW x \in hits
       PROVE  \E i, m : Holds(dir, n, i, m) /\ x = Place(i, m)
  <2>1. x \in 1 .. size /\ Name(s[x]) = n
    BY <1>2, <1>4
  <2>2. PICK i \in 1 .. Len(D), m \in 0 .. E - 1 : x = Place(i, m)
    BY <1>5, <2>1
  <2>3. NameIn(dir, i, m) = n
    BY <1>6, <2>1, <2>2
  <2> QED
    BY <1>0, <1>1, <2>2, <2>3 DEF Holds
<1>11. hits \subseteq Nat /\ deleted \subseteq Nat
  OBVIOUS
<1> HIDE DEF hits
<1>12. CASE hits # {}
  <2>1. Min(hits) \in hits
    BY <1>11, <1>12, MinExists
  <2>2. PICK i, m : Holds(dir, n, i, m) /\ Min(hits) = Place(i, m)
    BY <1>10, <2>1
  <2>3. i \in 1 .. Len(D) /\ m \in 0 .. E - 1
    BY <1>0, <1>1, <2>2 DEF Holds
  <2>4. CASE mode = {"CREAT", "EXCL"}
    <3>1. result = Failed("FILE_EXISTS")
      BY <1>7, <1>12, <2>4
    <3>2. ~result.ok /\ ~result.new /\ result.ok \in BOOLEAN /\ result.new \in BOOLEAN
          /\ result.error = "FILE_EXISTS"
      BY <3>1 DEF Failed
    <3> QED
      BY <2>2, <2>4, <3>2
  <2>5. CASE mode # {"CREAT", "EXCL"}
    <3>1. result = Found(s[Min(hits)], EntryAt(s[Min(hits)]), FALSE)
      BY <1>7, <1>12, <2>5
    <3>2. /\ result.ok /\ ~result.new /\ result.ok \in BOOLEAN /\ result.new \in BOOLEAN
          /\ result.at = s[Min(hits)] /\ result.entry = EntryAt(s[Min(hits)])
      BY <3>1 DEF Found
    <3>3. result.at = SlotAt(dir, i, m) /\ result.entry = card.blocks[card.dirs[dir][i]][m]
      BY <1>1, <1>3, <1>6, <2>2, <2>3, <3>2 DEF SlotAt
    <3> QED
      BY <2>2, <2>5, <3>2, <3>3 DEF LeadsTo
  <2> QED
    BY <2>4, <2>5
<1>13. CASE hits = {}
  <2>1. \A i, m : ~Holds(dir, n, i, m)
    BY <1>9, <1>13
  <2> DEFINE fails(e) == result = Failed(e) /\ e # "FILE_EXISTS"
  <2>2. ASSUME NEW e, fails(e)
        PROVE  /\ result.ok \in BOOLEAN /\ result.new \in BOOLEAN
               /\ ~result.ok /\ ~result.new /\ result.error # "FILE_EXISTS"
    BY <2>2 DEF Failed
  <2>3. CASE end <= Len(s) /\ "CREAT" \in mode
    <3>1. result = Found(s[place], NewEntry(n), TRUE)
      <4>1. ~(end > Len(s))
        BY <1>2, <2>3
      <4> HIDE DEF place
      <4> QED
        BY <1>7, <1>13, <2>3, <4>1, Zenon
    <3>2. /\ result.ok /\ result.new /\ result.ok \in BOOLEAN /\ result.new \in BOOLEAN
          /\ result.at = s[place] /\ result.entry = NewEntry(n)
      <4> HIDE DEF place
      <4> QED
        BY <3>1 DEF Found
    <3>3. place \in 1 .. end /\ Name(s[place]) \in {End.name, DeletedName}
      <4>1. CASE deleted # {}
        <5>1. Min(deleted) \in deleted
          <6> HIDE DEF deleted
          <6> QED
            BY <1>11, <4>1, MinExists
        <5> QED
          BY <1>2, <4>1, <5>1
      <4>2. CASE deleted = {}
        BY <1>2, <2>3, <4>2
      <4> QED
        BY <4>1, <4>2
    <3> HIDE DEF place, deleted
    <3>4. place \in 1 .. size
      BY <1>2, <1>4, <2>3, <3>3
    <3>5. PICK i \in 1 .. Len(D), m \in 0 .. E - 1 : place = Place(i, m)
      BY <1>5, <3>4
    <3>6. result.at = SlotAt(dir, i, m) /\ IsFree(NameIn(dir, i, m))
      BY <1>1, <1>3, <1>6, <3>2, <3>3, <3>5 DEF SlotAt, IsFree
    <3>7. ASSUME NEW j \in 1 .. Len(D), NEW k \in 0 .. E - 1, j < i \/ (j = i /\ k < m)
          PROVE  NameIn(dir, j, k) # End.name
      <4>1. j \in Nat \ {0} /\ i \in Nat \ {0}
        BY <1>4
      <4>2. Place(j, k) < Place(i, m)
        BY <1>0, <3>7, <4>1, PlaceOrder
      <4>3. Place(j, k) \in 1 .. size
        BY <1>5
      <4>4. Place(j, k) \in 1 .. end - 1
        BY <1>2, <1>4, <3>3, <3>5, <4>2, <4>3
      <4> QED
        BY <1>2, <1>6, <4>4
    <3> QED
      BY <1>0, <1>1, <2>1, <2>3, <3>2, <3>6, <3>7
  <2>4. CASE end > Len(s) /\ "CREAT" \in mode
    <3>1. dir # 0 /\ ~(end <= Len(s))
      BY <1>2, <2>4
    <3>2. result = Failed("DIR_FULL")
      <4> HIDE DEF place
      <4> QED
        BY <1>7, <1>13, <2>4, <3>1
    <3> QED
      BY <2>1, <2>2, <3>2
  <2>5. CASE "CREAT" \notin mode
    <3>1. end <= Len(s) \/ dir # 0
      BY <1>2
    <3>2. ~(end > Len(s) /\ dir = 0)
      BY <1>2
    <3>3. result = Failed("NOT_FOUND")
      <4> HIDE DEF place
      <4> QED
        BY <1>7, <1>13, <2>5, <3>1, <3>2
    <3> QED
      BY <2>1, <2>2, <3>3
  <2>6. end <= Len(s) \/ end > Len(s)
    BY <1>2
  <2> QED
    BY <2>3, <2>4, <2>5, <2>6
<1> QED
  BY <1>12, <1>13

-----------------------------------------------------------------------------
(***************************************************************************)
(* What a creation leaves on the card.                                     *)
(***************************************************************************)
\* Writing entry into slot m of the i-th block of dir.
LEMMA WriteKeepsFormat ==
    ASSUME NEW c, Formatted(c), NEW dir \in DOMAIN c.dirs,
           NEW i \in 1 .. Len(c.dirs[dir]), NEW m \in 0 .. EntriesPerBlock - 1,
           NEW n, ~IsFree(n),
           \A j \in 1 .. Len(c.dirs[dir]), k \in 0 .. EntriesPerBlock - 1 :
              /\ NameOn(c, dir, j, k) # n
              /\ j < i \/ (j = i /\ k < m) => NameOn(c, dir, j, k) # End.name,
           NEW d, d = [c EXCEPT !.blocks[c.dirs[dir][i]][m] = NewEntry(n)]
    PROVE  Formatted(d) /\ Volume(d) = Volume(c) /\ DOMAIN d.dirs = DOMAIN c.dirs
<1>0. PICK E \in Nat \ {0} : E = EntriesPerBlock
  BY MountAssumption
<1>1. PICK b, a, entry, rel :
        b = c.blocks /\ a = c.dirs[dir][i] /\ entry = NewEntry(n) /\ rel = c.blocks[0].rel_sector
  OBVIOUS
<1>2. /\ {"blocks", "dirs", "chains", "layout"} \subseteq DOMAIN c
      /\ {0, rel} \subseteq DOMAIN b
      /\ Volume(c).n_fats \in Nat /\ Volume(c).n_fats = c.layout.fats
      /\ DirsApart(c) /\ DirsNamed(c) /\ EntriesSound(c)
  BY <1>1 DEF Formatted
<1>3. PICK w : w = [b EXCEPT ![a] = [b[a] EXCEPT ![m] = entry]]
  OBVIOUS
<1>4. d = [c EXCEPT !.blocks = w]
  BY <1>1, <1>3
<1>5. /\ d.blocks = w /\ d.dirs = c.dirs /\ d.chains = c.chains /\ d.layout = c.layout
      /\ DOMAIN d = DOMAIN c
  BY <1>2, <1>4
<1>6. ASSUME NEW e \in DOMAIN c.dirs
      PROVE  /\ c.dirs[e] \in Seq(DOMAIN b \ Described(c))
             /\ Len(c.dirs[e]) \in Nat /\ DOMAIN c.dirs[e] = 1 .. Len(c.dirs[e])
             /\ \A j \in 1 .. Len(c.dirs[e]) :
                   /\ c.dirs[e][j] \in DOMAIN b \ Described(c)
                   /\ DOMAIN b[c.dirs[e][j]] = 0 .. E - 1
             /\ \A f \in DOMAIN c.dirs : \A j \in 1 .. Len(c.dirs[e]), k \in DOMAIN c.dirs[f] :
                   c.dirs[e][j] = c.dirs[f][k] => e = f /\ j = k
  <2>1. c.dirs[e] \in Seq(DOMAIN b \ Described(c))
    BY <1>1, <1>2 DEF DirsApart
  <2>2. Len(c.dirs[e]) \in Nat /\ DOMAIN c.dirs[e] = 1 .. Len(c.dirs[e])
    BY <2>1
  <2>3. \A j \in 1 .. Len(c.dirs[e]) : c.dirs[e][j] \in DOMAIN b \ Described(c)
    BY <2>1
  <2>4. \A j \in 1 .. Len(c.dirs[e]) : DOMAIN b[c.dirs[e][j]] = 0 .. E - 1
    BY <1>0, <1>1, <1>2, <2>2 DEF DirsApart
  <2>5. \A f \in DOMAIN c.dirs : \A j \in 1 .. Len(c.dirs[e]), k \in DOMAIN c.dirs[f] :
                   c.dirs[e][j] = c.dirs[f][k] => e = f /\ j = k
    BY <1>2, <2>2 DEF DirsApart
  <2> QED
    BY <2>1, <2>2, <2>3, <2>4, <2>5
<1>7. /\ a \in DOMAIN b /\ a \notin Described(c) /\ a # 0 /\ a # rel
      /\ DOMAIN b[a] = 0 .. E - 1
  <2>1. a \in DOMAIN b \ Described(c) /\ DOMAIN b[a] = 0 .. E - 1
    BY <1>1, <1>6
  <2> QED
    BY <1>1, <2>1 DEF Described
<1>8. /\ DOMAIN w = DOMAIN b
      /\ \A x \in DOMAIN b : x # a => w[x] = b[x]
      /\ DOMAIN w[a] = 0 .. E - 1
      /\ \A k \in 0 .. E - 1 : w[a][k] = IF k = m THEN entry ELSE b[a][k]
  BY <1>3, <1>7
<1>9. Volume(d) = Volume(c) /\ d.blocks[0].rel_sector = rel /\ {0, rel} \subseteq DOMAIN d.blocks
  BY <1>1, <1>2, <1>5, <1>7, <1>8 DEF Volume
\* The slots of the directories, before and after.
<1>10. ASSUME NEW e \in DOMAIN c.dirs, NEW j \in 1 .. Len(c.dirs[e]), NEW k \in 0 .. E - 1
       PROVE  w[c.dirs[e][j]][k] = IF e = dir /\ j = i /\ k = m THEN entry
                                   ELSE b[c.dirs[e][j]][k]
  <2>1. c.dirs[e][j] \in DOMAIN b /\ i \in DOMAIN c.dirs[dir]
    BY <1>6
  <2>2. CASE c.dirs[e][j] = a
    <3>1. e = dir /\ j = i
      BY <1>1, <1>6, <2>1, <2>2
    <3> QED
      BY <1>8, <2>2, <3>1
  <2>3. CASE c.dirs[e][j] # a
    <3>1. ~(e = dir /\ j = i)
      BY <1>1, <2>3
    <3> QED
      BY <1>8, <2>1, <2>3, <3>1
  <2> QED
    BY <2>2, <2>3
<1>11. entry.name = n /\ entry.attrs = {}
  BY <1>1 DEF NewEntry
<1>12. DirsApart(d)
  <2>0. Described(d) = Described(c)
    BY <1>1, <1>5, <1>9 DEF Described
  <2>1. 0 \in DOMAIN d.dirs
    BY <1>2, <1>5 DEF DirsApart
  <2>2. ASSUME NEW e \in DOMAIN c.dirs
        PROVE  /\ d.dirs[e] \in Seq(DOMAIN d.blocks \ Described(d))
               /\ \A j \in DOMAIN d.dirs[e] : DOMAIN d.blocks[d.dirs[e][j]] = 0 .. E - 1
    <3>1. d.dirs[e] \in Seq(DOMAIN d.blocks \ Described(d))
      BY <1>5, <1>6, <1>8, <2>0
    <3>2. ASSUME NEW j \in 1 .. Len(c.dirs[e]) PROVE DOMAIN w[c.dirs[e][j]] = 0 .. E - 1
      <4>1. PICK x : x = c.dirs[e][j]
        OBVIOUS
      <4>2. x \in DOMAIN b /\ DOMAIN b[x] = 0 .. E - 1
        BY <1>6, <4>1
      <4>3. x = a \/ w[x] = b[x]
        BY <1>8, <4>2
      <4> QED
        BY <1>8, <4>1, <4>2, <4>3
    <3>3. DOMAIN d.dirs[e] = 1 .. Len(c.dirs[e])
      BY <1>5, <1>6
    <3> QED
      BY <1>5, <3>1, <3>2, <3>3
  <2>3. \A e, f \in DOMAIN c.dirs : \A j \in DOMAIN c.dirs[e], k \in DOMAIN c.dirs[f] :
            c.dirs[e][j] = c.dirs[f][k] => e = f /\ j = k
    BY <1>2 DEF DirsApart
  <2> QED
    <3>1. ASSUME NEW e \in DOMAIN d.dirs
          PROVE  /\ d.dirs[e] \in Seq(DOMAIN d.blocks \ Described(d))
                 /\ \A j \in DOMAIN d.dirs[e] :
                        DOMAIN d.blocks[d.dirs[e][j]] = 0 .. EntriesPerBlock - 1
      BY <1>0, <1>5, <2>2
    <3>2. \A e, f \in DOMAIN d.dirs : \A j \in DOMAIN d.dirs[e], k \in DOMAIN d.dirs[f] :
              d.dirs[e][j] = d.dirs[f][k] => e = f /\ j = k
      BY <1>5, <2>3
    <3> QED
      BY <2>1, <3>1, <3>2, ZenonT(40) DEF DirsApart
<1>13. ASSUME NEW e \in DOMAIN c.dirs, NEW s \in UsedOn(d, e)
       PROVE  \E j \in 1 .. Len(c.dirs[e]), k \in 0 .. E - 1 :
                 /\ s = [addr |-> c.dirs[e][j], index |-> k]
                 /\ (e = dir /\ j = i /\ k = m) \/ s \in UsedOn(c, e)
                 /\ d.blocks[s.addr][s.index] =
                      IF e = dir /\ j = i /\ k = m THEN entry ELSE b[c.dirs[e][j]][k]
  <2>1. s \in [addr : Range(c.dirs[e]), index : 0 .. E - 1]
    BY <1>0, <1>5 DEF UsedOn
  <2>2. PICK j \in 1 .. Len(c.dirs[e]), k \in 0 .. E - 1 : s.addr = c.dirs[e][j] /\ s.index = k
    <3>1. s.addr \in Range(c.dirs[e]) /\ s.index \in 0 .. E - 1
      BY <2>1
    <3>2. DOMAIN c.dirs[e] = 1 .. Len(c.dirs[e])
      BY <1>6
    <3>3. PICK j \in 1 .. Len(c.dirs[e]) : s.addr = c.dirs[e][j]
      BY <3>1, <3>2 DEF Range
    <3> QED
      BY <3>1, <3>3
  <2>3. s = [addr |-> c.dirs[e][j], index |-> k]
    BY <2>1, <2>2
  <2>4. d.blocks[s.addr][s.index] =
          IF e = dir /\ j = i /\ k = m THEN entry ELSE b[c.dirs[e][j]][k]
    <3>1. d.blocks[s.addr][s.index] = w[c.dirs[e][j]][k]
      BY <1>5, <2>2
    <3> QED
      BY <1>10, <3>1
  <2>5. ~IsFree(d.blocks[s.addr][s.index].name)
    BY DEF UsedOn
  <2>6. ~(e = dir /\ j = i /\ k = m) => s \in UsedOn(c, e)
    BY <1>0, <1>1, <2>1, <2>2, <2>4, <2>5 DEF UsedOn
  <2> QED
    BY <2>2, <2>3, <2>4, <2>6
<1>14. DirsNamed(d)
  <2> SUFFICES ASSUME NEW e \in DOMAIN c.dirs, NEW s \in UsedOn(d, e),
                      "DIRECTORY" \in d.blocks[s.addr][s.index].attrs
               PROVE  d.blocks[s.addr][s.index].cluster \in DOMAIN c.dirs
    BY <1>5 DEF DirsNamed
  <2>1. PICK j \in 1 .. Len(c.dirs[e]), k \in 0 .. E - 1 :
                 /\ s = [addr |-> c.dirs[e][j], index |-> k]
                 /\ (e = dir /\ j = i /\ k = m) \/ s \in UsedOn(c, e)
                 /\ d.blocks[s.addr][s.index] =
                      IF e = dir /\ j = i /\ k = m THEN entry ELSE b[c.dirs[e][j]][k]
    BY <1>13
  <2>2. ~(e = dir /\ j = i /\ k = m)
    BY <1>11, <2>1
  <2>3. s.addr = c.dirs[e][j] /\ s.index = k
    BY <2>1
  <2>4. d.blocks[s.addr][s.index] = c.blocks[s.addr][s.index] /\ s \in UsedOn(c, e)
    BY <1>1, <2>1, <2>2, <2>3
  <2> QED
    BY <1>2, <2>4 DEF DirsNamed
<1>15. EntriesSound(d)
  <2>1. ASSUME NEW e \in DOMAIN c.dirs, NEW s \in UsedOn(d, e), NEW t \in UsedOn(d, e),
               d.blocks[s.addr][s.index].name = d.blocks[t.addr][t.index].name
        PROVE  s = t
    <3>1. PICK j \in 1 .. Len(c.dirs[e]), k \in 0 .. E - 1 :
                 /\ s = [addr |-> c.dirs[e][j], index |-> k]
                 /\ (e = dir /\ j = i /\ k = m) \/ s \in UsedOn(c, e)
                 /\ d.blocks[s.addr][s.index] =
                      IF e = dir /\ j = i /\ k = m THEN entry ELSE b[c.dirs[e][j]][k]
      BY <1>13
    <3>2. PICK jj \in 1 .. Len(c.dirs[e]), kk \in 0 .. E - 1 :
                 /\ t = [addr |-> c.dirs[e][jj], index |-> kk]
                 /\ (e = dir /\ jj = i /\ kk = m) \/ t \in UsedOn(c, e)
                 /\ d.blocks[t.addr][t.index] =
                      IF e = dir /\ jj = i /\ kk = m THEN entry ELSE b[c.dirs[e][jj]][kk]
      BY <1>13
    <3>3. PICK p, q : p = d.blocks[s.addr][s.index].name /\ q = d.blocks[t.addr][t.index].name
      OBVIOUS
    <3>4. s.addr = c.dirs[e][j] /\ s.index = k /\ t.addr = c.dirs[e][jj] /\ t.index = kk
      BY <3>1, <3>2
    <3>5. CASE e = dir /\ j = i /\ k = m
      <4>1. p = n
        BY <1>11, <3>1, <3>3, <3>5
      <4>2. CASE e = dir /\ jj = i /\ kk = m
        BY <3>1, <3>2, <3>5, <4>2
      <4>3. CASE ~(e = dir /\ jj = i /\ kk = m)
        <5>1. q = b[c.dirs[dir][jj]][kk].name
          BY <3>2, <3>3, <3>5, <4>3
        <5>2. q # n
          BY <1>0, <1>1, <3>5, <5>1 DEF NameOn
        <5> QED
          BY <2>1, <3>3, <4>1, <5>2
      <4> QED
        BY <4>2, <4>3
    <3>6. CASE ~(e = dir /\ j = i /\ k = m) /\ e = dir /\ jj = i /\ kk = m
      <4>1. q = n
        BY <1>11, <3>2, <3>3, <3>6
      <4>2. p = b[c.dirs[dir][j]][k].name
        BY <3>1, <3>3, <3>6
      <4>3. p # n
        BY <1>0, <1>1, <3>6, <4>2 DEF NameOn
      <4> QED
        BY <2>1, <3>3, <4>1, <4>3
    <3>7. CASE ~(e = dir /\ j = i /\ k = m) /\ ~(e = dir /\ jj = i /\ kk = m)
      <4>1. s \in UsedOn(c, e) /\ t \in UsedOn(c, e)
        BY <3>1, <3>2, <3>7
      <4>2. p = c.blocks[s.addr][s.index].name /\ q = c.blocks[t.addr][t.index].name
        BY <1>1, <3>1, <3>2, <3>3, <3>4, <3>7
      <4> QED
        BY <1>2, <2>1, <3>3, <4>1, <4>2 DEF EntriesSound
    <3> QED
      BY <3>5, <3>6, <3>7
  <2>2. ASSUME NEW e \in DOMAIN c.dirs, NEW j \in 1 .. Len(c.dirs[e]), NEW k \in 0 .. E - 1
        PROVE  NameOn(d, e, j, k) = IF e = dir /\ j = i /\ k = m THEN n ELSE NameOn(c, e, j, k)
    <3>1. NameOn(d, e, j, k) = w[c.dirs[e][j]][k].name
      BY <1>5 DEF NameOn
    <3> QED
      BY <1>1, <1>10, <1>11, <3>1 DEF NameOn
  <2>3. ASSUME NEW e \in DOMAIN c.dirs, NEW j \in 1 .. Len(c.dirs[e]), NEW jj \in 1 .. Len(c.dirs[e]),
               NEW k \in 0 .. E - 1, NEW kk \in 0 .. E - 1
        PROVE  (j < jj \/ (j = jj /\ k < kk)) /\ NameOn(d, e, j, k) = End.name
                  => NameOn(d, e, jj, kk) = End.name
    <3> SUFFICES ASSUME j < jj \/ (j = jj /\ k < kk), NameOn(d, e, j, k) = End.name
                 PROVE  NameOn(d, e, jj, kk) = End.name
      OBVIOUS
    <3>1. ~(e = dir /\ j = i /\ k = m)
      <4>1. n # End.name
        BY DEF IsFree
      <4> QED
        BY <2>2, <4>1
    <3>2. NameOn(c, e, j, k) = End.name
      BY <2>2, <3>1
    <3>3. ~(e = dir /\ jj = i /\ kk = m)
      BY <1>0, <3>2
    <3>4. NameOn(c, e, jj, kk) = End.name
      BY <1>0, <1>2, <3>2 DEF EntriesSound
    <3> QED
      BY <2>2, <3>3, <3>4
  <2>4. \A e \in DOMAIN d.dirs : \A s, t \in UsedOn(d, e) :
            d.blocks[s.addr][s.index].name = d.blocks[t.addr][t.index].name => s = t
    BY <1>5, <2>1
  <2>5. ASSUME NEW e \in DOMAIN d.dirs, NEW j \in 1 .. Len(d.dirs[e]),
               NEW jj \in 1 .. Len(d.dirs[e]), NEW k \in 0 .. EntriesPerBlock - 1,
               NEW kk \in 0 .. EntriesPerBlock - 1,
               (j < jj \/ (j = jj /\ k < kk)) /\ NameOn(d, e, j, k) = End.name
        PROVE  NameOn(d, e, jj, kk) = End.name
    <3>1. /\ e \in DOMAIN c.dirs /\ j \in 1 .. Len(c.dirs[e]) /\ jj \in 1 .. Len(c.dirs[e])
          /\ k \in 0 .. E - 1 /\ kk \in 0 .. E - 1
      BY <1>0, <1>5
    <3> QED
      BY <2>3, <2>5, <3>1, ZenonT(40)
  <2> QED
    BY <2>4, <2>5, Zenon DEF EntriesSound
<1>16. ASSUME LaidOut(c) PROVE LaidOut(d)
  <2>1. DOMAIN d.blocks = DOMAIN c.blocks
    BY <1>1, <1>5, <1>8
  <2>2. PICK v, l, D : v = Volume(c) /\ l = c.layout /\ D = DOMAIN c.blocks
    OBVIOUS
  <2>3. Volume(d) = v /\ d.layout = l /\ DOMAIN d.blocks = D
    BY <1>5, <1>9, <2>1, <2>2
  <2> QED
    BY <1>16, <2>2, <2>3, ZenonT(120) DEF LaidOut
<1>17. ASSUME Mounted(Volume(d), NoInfo).error = "OK"
       PROVE  ChainsLinked(d) /\ DirsPlaced(d)
  <2>1. LaidOut(c) /\ ChainsLinked(c) /\ DirsPlaced(c)
    BY <1>9, <1>17, AcceptedLaidOut DEF Formatted
  <2>2. PICK fat0 \in Nat, sectors \in Nat, root \in Nat, data \in Nat, last \in Nat :
          /\ fat0 = c.layout.fat0 /\ sectors = c.layout.sectors /\ root = c.layout.root
          /\ data = c.layout.data /\ last = c.layout.last
          /\ fat0 + sectors <= root /\ root <= data
    BY <1>2, <2>1, AreasLaidOut DEF LaidOut
  <2>3. data <= last + 1 /\ DOMAIN b = 0 .. last
    <3>1. PICK h, x : h = Volume(c).n_hidden_sectors /\ x = Sectors(Volume(c))
      OBVIOUS
    <3>2. h \in Nat /\ x \in Nat
      BY <2>1, <3>1 DEF LaidOut
    <3>3. h + x <= last + 1 /\ data <= h + x /\ DOMAIN b = 0 .. last
      BY <1>1, <2>1, <2>2, <3>1 DEF LaidOut
    <3> QED
      BY <3>2, <3>3
  <2>4. ASSUME NEW s \in 0 .. sectors - 1 PROVE w[fat0 + s] = b[fat0 + s]
    <3>1. fat0 + s \in fat0 .. root - 1 /\ fat0 + s \in 0 .. last
      <4>1. fat0 + sectors <= root /\ root <= data /\ data <= last + 1
        BY <2>2, <2>3
      <4> QED
        BY <4>1
    <3>2. fat0 + s # a /\ fat0 + s \in DOMAIN b
      BY <1>7, <2>2, <2>3, <3>1 DEF Described
    <3> QED
      BY <1>8, <3>2
  <2>5. FatOf(d) = FatOf(c)
    <3>1. FatAt(w, fat0, sectors) = FatAt(b, fat0, sectors)
      BY <2>4, SameFat
    <3> QED
      BY <1>1, <1>5, <2>2, <3>1 DEF FatOf
  <2>6. ChainsLinked(d)
    BY <1>5, <2>1, <2>5 DEF ChainsLinked
  <2>7. DirsPlaced(d)
    BY <1>5, <1>9, <2>1 DEF DirsPlaced
  <2> QED
    BY <2>6, <2>7
<1>18. /\ Volume(d).n_fats \in Nat /\ Volume(d).n_fats = d.layout.fats
       /\ Volume(d).bytes_per_sector = BlockSize /\ d.layout.fats <= 2 => LaidOut(d)
  BY <1>2, <1>5, <1>9, <1>16 DEF Formatted
<1> QED
  BY <1>1, <1>2, <1>5, <1>9, <1>12, <1>14, <1>15, <1>17, <1>18 DEF Formatted

\* To leave the card as it was, or with one more entry.
Creates(c, to) ==
    /\ Formatted(to) /\ Volume(to) = Volume(c)
    /\ to # c =>
          \E d \in DOMAIN c.dirs : \E addr \in Range(c.dirs[d]), i \in 0 .. EntriesPerBlock - 1 :
              /\ IsFree(c.blocks[addr][i].name)
              /\ to = [c EXCEPT !.blocks[addr][i] = to.blocks[addr][i]]
              /\ \E name \in Components : to.blocks[addr][i] = NewEntry(to_fat_name(name))

\* A search in a directory leaves the card as it was, or with the new entry.
LEMMA SearchKeepsFormat ==
    ASSUME DirInv, mounted, "full" \notin Usage, NEW dir \in Dirs, Searches(dir),
           NEW name \in Components, NEW mode,
           NEW result, result = fat_private_find_file(dir, name, mode),
           NEW to, to = Written(result)
    PROVE  Creates(card, to)
<1>1. PICK n : n = to_fat_name(name)
  OBVIOUS
<1>2. ~IsFree(n)
  BY <1>1, NamesInUse
<1>3. Formatted(card)
  BY DEF DirInv
<1>4. CASE ~result.new
  <2>1. to = card
    BY <1>4 DEF Written
  <2> QED
    BY <1>3, <2>1 DEF Creates
<1>5. CASE result.new
  <2>1. /\ result.entry = NewEntry(n)
        /\ \A i, m : ~Holds(dir, n, i, m)
    BY <1>1, <1>2, <1>5, SearchResult
  <2>2. PICK i \in 1 .. Len(card.dirs[dir]), m \in 0 .. EntriesPerBlock - 1 :
          /\ result.at = SlotAt(dir, i, m) /\ IsFree(NameIn(dir, i, m))
          /\ \A j \in 1 .. Len(card.dirs[dir]), k \in 0 .. EntriesPerBlock - 1 :
                j < i \/ (j = i /\ k < m) => NameIn(dir, j, k) # End.name
    BY <1>1, <1>2, <1>5, SearchResult
  <2>3. PICK a : a = card.dirs[dir][i]
    OBVIOUS
  <2>4. result.at.addr = a /\ result.at.index = m
    BY <2>2, <2>3 DEF SlotAt
  <2>5. to = [card EXCEPT !.blocks[a][m] = NewEntry(n)]
    BY <1>5, <2>1, <2>4 DEF Written
  <2>6. ASSUME NEW j \in 1 .. Len(card.dirs[dir]), NEW k \in 0 .. EntriesPerBlock - 1
        PROVE  /\ NameOn(card, dir, j, k) # n
               /\ j < i \/ (j = i /\ k < m) => NameOn(card, dir, j, k) # End.name
    BY <2>1, <2>2 DEF Holds, NameIn
  <2>7. Formatted(to) /\ Volume(to) = Volume(card)
    BY <1>2, <1>3, <2>3, <2>5, <2>6, WriteKeepsFormat DEF Dirs
  <2>8. a \in Range(card.dirs[dir])
    <3>1. DOMAIN card.dirs[dir] = 1 .. Len(card.dirs[dir])
      BY VisitedInOrder
    <3> QED
      BY <2>3, <3>1 DEF Range
  <2>9. IsFree(card.blocks[a][m].name)
    BY <2>2, <2>3 DEF NameIn, NameOn
  <2>10. to = [card EXCEPT !.blocks[a][m] = to.blocks[a][m]] /\ to.blocks[a][m] = NewEntry(n)
    <3>1. "blocks" \in DOMAIN card
      BY <1>3 DEF Formatted
    <3>2. i \in DOMAIN card.dirs[dir]
      BY VisitedInOrder
    <3>3. a \in DOMAIN card.blocks /\ m \in DOMAIN card.blocks[a]
      <4>1. card.dirs[dir] \in Seq(DOMAIN card.blocks \ Described(card))
        BY <1>3 DEF Formatted, DirsApart, Dirs
      <4>2. DOMAIN card.blocks[card.dirs[dir][i]] = 0 .. EntriesPerBlock - 1
        BY <1>3, <3>2 DEF Formatted, DirsApart, Dirs
      <4>3. card.dirs[dir][i] \in DOMAIN card.blocks
        BY <3>2, <4>1
      <4> QED
        BY <2>3, <4>2, <4>3
    <3>4. to.blocks[a][m] = NewEntry(n)
      BY <2>5, <3>1, <3>3
    <3> QED
      BY <2>5, <3>4
  <2> QED
    BY <1>1, <2>7, <2>8, <2>9, <2>10 DEF Creates, Dirs
<1> QED
  BY <1>4, <1>5

-----------------------------------------------------------------------------
(***************************************************************************)
(* Paths.                                                                  *)
(***************************************************************************)
\* The numbers up to n, one after another.
LEMMA Upwards ==
    ASSUME NEW n \in Nat, NEW T, 0 \in T, \A k \in 0 .. n - 1 : k \in T => k + 1 \in T
    PROVE  0 .. n \subseteq T
<1> DEFINE W == {k \in 0 .. n : k \notin T}
<1> SUFFICES ASSUME W # {} PROVE FALSE
  OBVIOUS
<1>1. W \subseteq Nat
  OBVIOUS
<1>2. PICK m \in W : \A y \in W : m <= y
  <2> HIDE DEF W
  <2> QED
    BY <1>1, MinExists
<1>3. m # 0 /\ m \in 0 .. n
  BY <1>2
<1>4. m - 1 \in 0 .. n - 1 /\ m - 1 \notin W /\ m - 1 + 1 = m
  BY <1>2, <1>3
<1>5. m - 1 \in T
  BY <1>4
<1> QED
  BY <1>2, <1>4, <1>5

\* The mode in which part i of a path is searched, and the search for it.
PartMode(path, mode, i) == IF i = Len(path.parts) /\ ~path.slash THEN mode ELSE {}
PartFound(r, path, mode, i) ==
    IF ~r.ok THEN r ELSE fat_private_find_file(r.entry.cluster, path.parts[i], PartMode(path, mode, i))

\* g is the result after each number of parts, up to n.
Walks(g, path, mode, n) ==
    g[0] = Found(NoSlot, Root, FALSE) /\ \A i \in 1 .. n : g[i] = PartFound(g[i - 1], path, mode, i)

\* A path is searched part by part.
LEMMA PathSteps ==
    ASSUME NEW path, Len(path.parts) \in Nat, NEW mode
    PROVE  \E g : /\ Walks(g, path, mode, Len(path.parts))
                  /\ fat_find_path(path, mode) = IF ~path.absolute THEN Failed("RELATIVE_PATH")
                                                 ELSE g[Len(path.parts)]
<1> DEFINE n == Len(path.parts)
           Body(h) == [i \in 0 .. n |->
                         IF i = 0 THEN Found(NoSlot, Root, FALSE)
                         ELSE IF ~h[i - 1].ok THEN h[i - 1]
                         ELSE fat_private_find_file(h[i - 1].entry.cluster, path.parts[i],
                                                    IF i = n /\ ~path.slash THEN mode ELSE {})]
           after == CHOOSE h : h = Body(h)
           T == {m \in 0 .. n : \E g : Walks(g, path, mode, m)}
<1>1. fat_find_path(path, mode) = IF ~path.absolute THEN Failed("RELATIVE_PATH") ELSE after[n]
  BY DEF fat_find_path
<1>2. ASSUME NEW h, NEW i \in 0 .. n
      PROVE  Body(h)[i] = IF i = 0 THEN Found(NoSlot, Root, FALSE)
                          ELSE PartFound(h[i - 1], path, mode, i)
  BY DEF PartFound, PartMode
<1>3. \A h : DOMAIN Body(h) = 0 .. n /\ Body(h) = [i \in 0 .. n |-> Body(h)[i]]
  OBVIOUS
<1> HIDE DEF Body
<1>4. 0 \in T
  <2>1. Walks([i \in {0} |-> Found(NoSlot, Root, FALSE)], path, mode, 0)
    BY DEF Walks
  <2>2. \E g : Walks(g, path, mode, 0)
    BY <2>1
  <2> QED
    BY <2>2
<1>5. ASSUME NEW m \in 0 .. n - 1, m \in T PROVE m + 1 \in T
  <2>1. PICK g : Walks(g, path, mode, m)
    BY <1>5
  <2> DEFINE h == [i \in 0 .. m + 1 |-> IF i = m + 1 THEN PartFound(g[m], path, mode, m + 1) ELSE g[i]]
  <2>2. h[0] = g[0]
    OBVIOUS
  <2>3. ASSUME NEW i \in 1 .. m + 1 PROVE h[i] = PartFound(h[i - 1], path, mode, i)
    <3>1. CASE i = m + 1
      <4>1. h[i] = PartFound(g[m], path, mode, m + 1) /\ i - 1 = m /\ h[m] = g[m]
        BY <3>1
      <4> HIDE DEF h
      <4> QED
        BY <3>1, <4>1
    <3>2. CASE i # m + 1
      <4>1. h[i] = g[i] /\ h[i - 1] = g[i - 1] /\ i \in 1 .. m
        BY <3>2
      <4> HIDE DEF h
      <4> QED
        BY <2>1, <4>1 DEF Walks
    <3> QED
      BY <3>1, <3>2
  <2> HIDE DEF h
  <2>4. Walks(h, path, mode, m + 1)
    BY <2>1, <2>2, <2>3 DEF Walks
  <2>5. m + 1 \in 0 .. n
    OBVIOUS
  <2> QED
    BY <2>4, <2>5
<1>6. n \in T
  <2> HIDE DEF T
  <2>1. 0 .. n \subseteq T
    BY <1>4, <1>5, Upwards
  <2> QED
    BY <2>1
<1>7. PICK g : Walks(g, path, mode, n)
  BY <1>6
<1> DEFINE f == [i \in 0 .. n |-> g[i]]
<1>8. f = Body(f)
  <2>1. ASSUME NEW i \in 0 .. n PROVE f[i] = Body(f)[i]
    <3>1. CASE i = 0
      BY <1>2, <1>7, <3>1 DEF Walks
    <3>2. CASE i # 0
      <4>1. i \in 1 .. n /\ f[i] = g[i] /\ f[i - 1] = g[i - 1]
        BY <3>2
      <4>2. g[i] = PartFound(g[i - 1], path, mode, i)
        BY <1>7, <4>1 DEF Walks
      <4> HIDE DEF f
      <4> QED
        BY <1>2, <3>2, <4>1, <4>2
    <3> QED
      BY <3>1, <3>2
  <2>2. DOMAIN f = 0 .. n /\ f = [i \in 0 .. n |-> f[i]]
    OBVIOUS
  <2> HIDE DEF f
  <2>3. [i \in 0 .. n |-> f[i]] = [i \in 0 .. n |-> Body(f)[i]]
    BY <2>1
  <2> QED
    BY <1>3, <2>2, <2>3
<1>9. after = Body(after)
  <2>1. \E h : h = Body(h)
    BY <1>8
  <2> QED
    BY <2>1
<1> HIDE DEF after
<1>10. Walks(after, path, mode, n)
  <2>1. ASSUME NEW i \in 0 .. n
        PROVE  after[i] = IF i = 0 THEN Found(NoSlot, Root, FALSE)
                          ELSE PartFound(after[i - 1], path, mode, i)
    <3>1. after[i] = Body(after)[i]
      BY <1>9
    <3>2. Body(after)[i] = IF i = 0 THEN Found(NoSlot, Root, FALSE)
                           ELSE PartFound(after[i - 1], path, mode, i)
      BY <1>2
    <3> QED
      BY <3>1, <3>2
  <2>2. after[0] = Found(NoSlot, Root, FALSE)
    <3>1. 0 \in 0 .. n
      OBVIOUS
    <3> QED
      BY <2>1, <3>1, Zenon
  <2>3. ASSUME NEW i \in 1 .. n PROVE after[i] = PartFound(after[i - 1], path, mode, i)
    <3>1. i \in 0 .. n /\ i # 0
      OBVIOUS
    <3> QED
      BY <2>1, <3>1
  <2> QED
    BY <2>2, <2>3 DEF Walks
<1> QED
  BY <1>1, <1>10

\* The parts before the last one are searched as those of the path up to there.
LEMMA SamePrefix ==
    ASSUME NEW path, NEW D, path.parts \in Seq(D), {"absolute", "parts", "slash"} \subseteq DOMAIN path,
           NEW mode, NEW g, Walks(g, path, mode, Len(path.parts)),
           NEW k \in 0 .. Len(path.parts) - 1, path.absolute
    PROVE  fat_find_path([path EXCEPT !.parts = SubSeq(@, 1, k), !.slash = TRUE], {}) = g[k]
<1>1. PICK q : q = [path EXCEPT !.parts = SubSeq(@, 1, k), !.slash = TRUE]
  OBVIOUS
<1>2. PICK p, n : p = path.parts /\ n = Len(p)
  OBVIOUS
<1>3. p \in Seq(D) /\ n \in Nat /\ k \in 0 .. n - 1
  BY <1>2
<1>4. Len(SubSeq(p, 1, k)) = k /\ \A i \in 1 .. k : SubSeq(p, 1, k)[i] = p[i]
  BY <1>2, <1>3
<1>5. q.parts = SubSeq(p, 1, k) /\ q.slash = TRUE /\ q.absolute = path.absolute
  BY <1>1, <1>2
<1>6. Len(q.parts) = k /\ \A i \in 1 .. k : q.parts[i] = p[i]
  BY <1>4, <1>5
<1>7. PICK h : Walks(h, q, {}, k) /\ fat_find_path(q, {}) = h[k]
  <2>1. \E h : /\ Walks(h, q, {}, Len(q.parts))
               /\ fat_find_path(q, {}) = IF ~q.absolute THEN Failed("RELATIVE_PATH")
                                         ELSE h[Len(q.parts)]
    BY <1>3, <1>6, PathSteps
  <2> QED
    BY <1>5, <1>6, <2>1
<1>8. Walks(g, path, mode, n)
  BY <1>2
<1> DEFINE T == {i \in 0 .. k : h[i] = g[i]}
<1>9. 0 \in T
  <2>1. 0 \in 0 .. k
    BY <1>3
  <2>2. h[0] = g[0]
    BY <1>7, <1>8 DEF Walks
  <2> QED
    BY <2>1, <2>2
<1>10. ASSUME NEW i \in 0 .. k - 1, i \in T PROVE i + 1 \in T
  <2>1. i + 1 \in 1 .. k /\ i + 1 \in 1 .. n /\ i + 1 # n /\ (i + 1) - 1 = i
    BY <1>3
  <2>2. h[i + 1] = PartFound(h[i], q, {}, i + 1) /\ g[i + 1] = PartFound(g[i], path, mode, i + 1)
    BY <1>7, <1>8, <2>1 DEF Walks
  <2>3. PartMode(q, {}, i + 1) = {} /\ PartMode(path, mode, i + 1) = {}
    BY <1>2, <2>1 DEF PartMode
  <2>4. q.parts[i + 1] = path.parts[i + 1]
    BY <1>2, <1>6, <2>1
  <2>5. h[i] = g[i]
    BY <1>10
  <2>6. h[i + 1] = g[i + 1]
    BY <2>2, <2>3, <2>4, <2>5 DEF PartFound
  <2> QED
    BY <1>3, <2>1, <2>6
<1>11. k \in T
  <2>1. k \in Nat
    BY <1>3
  <2> HIDE DEF T
  <2>2. 0 .. k \subseteq T
    BY <1>9, <1>10, <2>1, Upwards
  <2> QED
    BY <2>1, <2>2
<1> QED
  BY <1>1, <1>7, <1>11

\* A passable path leads through directories, up to its last part.
LEMMA PathThrough ==
    ASSUME DirInv, mounted, "full" \notin Usage, NEW path \in Paths, path.absolute, Passable(path),
           NEW mode, NEW g, Walks(g, path, mode, Len(path.parts))
    PROVE  /\ Len(path.parts) \in Nat /\ path.parts \in Seq(Components)
           /\ \A k \in 0 .. Len(path.parts) - 1 :
                 /\ g[k].new = FALSE /\ g[k].ok \in BOOLEAN
                 /\ g[k].ok => /\ "DIRECTORY" \in g[k].entry.attrs
                               /\ g[k].entry.cluster \in Dirs /\ Searches(g[k].entry.cluster)
<1>1. path.parts \in Seq(Components) /\ {"absolute", "parts", "slash"} \subseteq DOMAIN path
  BY DirAssumption
<1>2. PICK n \in Nat : n = Len(path.parts)
  BY <1>1
<1>3. ASSUME NEW k \in 0 .. n - 1, g[k].ok
      PROVE  "DIRECTORY" \in g[k].entry.attrs /\ Searches(g[k].entry.cluster)
  <2>1. fat_find_path([path EXCEPT !.parts = SubSeq(@, 1, k), !.slash = TRUE], {}) = g[k]
    BY <1>1, <1>2, SamePrefix
  <2>2. g[k] \in Through(path)
    BY <1>2, <2>1 DEF Through
  <2> QED
    BY <1>3, <2>2 DEF Passable
<1> DEFINE T == {k \in 0 .. n : k # n => /\ g[k].new = FALSE /\ g[k].ok \in BOOLEAN
                                         /\ g[k].ok => g[k].entry.cluster \in Dirs}
<1>4. 0 \in T
  <2>1. g[0] = Found(NoSlot, Root, FALSE)
    BY DEF Walks
  <2>2. g[0].new = FALSE /\ g[0].ok = TRUE /\ g[0].entry.cluster = 0
    BY <2>1 DEF Found, Root
  <2>3. 0 \in Dirs
    BY DEF Dirs, DirInv, Formatted, DirsApart
  <2>4. 0 \in 0 .. n
    OBVIOUS
  <2>5. g[0].new = FALSE /\ g[0].ok \in BOOLEAN /\ (g[0].ok => g[0].entry.cluster \in Dirs)
    BY <2>2, <2>3
  <2> QED
    BY <2>4, <2>5, Zenon
<1>5. ASSUME NEW k \in 0 .. n - 1, k \in T PROVE k + 1 \in T
  <2>1. g[k].new = FALSE /\ g[k].ok \in BOOLEAN /\ (g[k].ok => g[k].entry.cluster \in Dirs)
    BY <1>5
  <2>2. k + 1 \in 1 .. n /\ (k + 1) - 1 = k /\ k + 1 \in 0 .. n
    OBVIOUS
  <2>3. g[k + 1] = PartFound(g[k], path, mode, k + 1)
    BY <1>2, <2>2 DEF Walks
  <2> SUFFICES ASSUME k + 1 # n
               PROVE  /\ g[k + 1].new = FALSE /\ g[k + 1].ok \in BOOLEAN
                      /\ g[k + 1].ok => g[k + 1].entry.cluster \in Dirs
    BY <2>2
  <2>4. CASE ~g[k].ok
    <3>1. g[k + 1] = g[k]
      BY <2>3, <2>4 DEF PartFound
    <3> QED
      BY <2>1, <2>4, <3>1
  <2>5. CASE g[k].ok
    <3>1. PICK dir, name, r : /\ dir = g[k].entry.cluster /\ name = path.parts[k + 1] /\ r = g[k + 1]
      OBVIOUS
    <3>2. dir \in Dirs /\ Searches(dir)
      BY <1>3, <2>1, <2>5, <3>1
    <3>3. PartMode(path, mode, k + 1) = {}
      BY <1>2 DEF PartMode
    <3>4. r = fat_private_find_file(dir, name, {})
      BY <2>3, <2>5, <3>1, <3>3 DEF PartFound
    <3>5. name \in Components
      BY <1>1, <1>2, <2>2, <3>1
    <3>6. PICK nm : nm = to_fat_name(name) /\ ~IsFree(nm)
      BY <3>5, NamesInUse
    <3>7. /\ r.ok \in BOOLEAN /\ r.new \in BOOLEAN /\ (r.new => "CREAT" \in {})
          /\ r.ok /\ ~r.new => LeadsTo(r, dir, nm)
      <4> HIDE DEF T
      <4>1. PICK md : md = {}
        OBVIOUS
      <4>2. r = fat_private_find_file(dir, name, md)
        BY <3>4, <4>1
      <4>3. r.ok \in BOOLEAN /\ r.new \in BOOLEAN
        BY <3>2, <3>6, <4>2, SearchResult
      <4>4. r.new => "CREAT" \in md
        BY <3>2, <3>6, <4>2, SearchResult
      <4>5. r.ok /\ ~r.new => LeadsTo(r, dir, nm)
        BY <3>2, <3>6, <4>2, SearchResult
      <4> QED
        BY <4>1, <4>3, <4>4, <4>5, Zenon
    <3>8. r.new = FALSE
      BY <3>7
    <3>9. ASSUME r.ok PROVE r.entry.cluster \in Dirs
      <4>1. PICK i, m : Holds(dir, nm, i, m) /\ r.entry = card.blocks[card.dirs[dir][i]][m]
        BY <3>7, <3>8, <3>9 DEF LeadsTo
      <4>2. i \in 1 .. Len(card.dirs[dir]) /\ m \in 0 .. EntriesPerBlock - 1 /\ NameIn(dir, i, m) = nm
        BY <4>1 DEF Holds
      <4>3. PICK s : s = [addr |-> card.dirs[dir][i], index |-> m]
        OBVIOUS
      <4>4. s.addr = card.dirs[dir][i] /\ s.index = m
        BY <4>3
      <4>5. DOMAIN card.dirs[dir] = 1 .. Len(card.dirs[dir])
        BY <3>2, VisitedInOrder
      <4>6. s \in UsedOn(card, dir)
        <5>1. s \in [addr : Range(card.dirs[dir]), index : 0 .. EntriesPerBlock - 1]
          BY <4>2, <4>3, <4>5 DEF Range
        <5>2. card.blocks[s.addr][s.index].name = nm
          BY <4>2, <4>4 DEF NameIn, NameOn
        <5> QED
          BY <3>6, <5>1, <5>2 DEF UsedOn
      <4>7. "DIRECTORY" \in r.entry.attrs
        BY <1>2, <1>3, <2>2, <3>1, <3>9
      <4>8. r.entry = card.blocks[s.addr][s.index]
        BY <4>1, <4>4
      <4> QED
        BY <3>2, <4>6, <4>7, <4>8 DEF DirInv, Formatted, DirsNamed, Dirs
    <3> QED
      BY <3>1, <3>7, <3>8, <3>9
  <2> QED
    BY <2>1, <2>4, <2>5
<1>6. 0 .. n \subseteq T
  <2> HIDE DEF T
  <2> QED
    BY <1>4, <1>5, Upwards
<1>7. ASSUME NEW k \in 0 .. n - 1
      PROVE  /\ g[k].new = FALSE /\ g[k].ok \in BOOLEAN
             /\ g[k].ok => g[k].entry.cluster \in Dirs
  <2>1. k \in 0 .. n /\ k # n
    OBVIOUS
  <2>2. k \in T
    BY <1>6, <2>1
  <2> QED
    BY <2>1, <2>2
<1> HIDE DEF T
<1> QED
  BY <1>1, <1>2, <1>3, <1>7

\* A search along a path leaves the card as a search in a directory does.
LEMMA PathKeepsFormat ==
    ASSUME DirInv, mounted, "full" \notin Usage, NEW path \in Paths, Passable(path), NEW mode,
           NEW result, result = fat_find_path(path, mode),
           NEW to, to = Written(result)
    PROVE  Creates(card, to)
<1>1. path.parts \in Seq(Components) /\ Len(path.parts) \in Nat
  BY DirAssumption
<1>2. PICK n \in Nat : n = Len(path.parts)
  BY <1>1
<1>3. ASSUME result.new = FALSE
      PROVE  Creates(card, to)
  <2>1. to = card
    BY <1>3 DEF Written
  <2> QED
    BY <2>1 DEF DirInv, Creates
<1>4. CASE ~path.absolute
  <2>1. result = Failed("RELATIVE_PATH")
    BY <1>4 DEF fat_find_path
  <2>2. result.new = FALSE
    BY <2>1 DEF Failed
  <2> QED
    BY <1>3, <2>2
<1>5. CASE path.absolute
  <2>1. PICK g : Walks(g, path, mode, n) /\ result = g[n]
    BY <1>1, <1>2, <1>5, PathSteps
  <2>2. CASE n = 0
    <3>1. result = Found(NoSlot, Root, FALSE)
      BY <2>1, <2>2 DEF Walks
    <3>2. result.new = FALSE
      BY <3>1 DEF Found
    <3> QED
      BY <1>3, <3>2
  <2>3. CASE n # 0
    <3>1. n - 1 \in 0 .. n - 1 /\ n \in 1 .. n
      BY <2>3
    <3>2. PICK r : r = g[n - 1]
      OBVIOUS
    <3>3. /\ r.new = FALSE /\ r.ok \in BOOLEAN
          /\ r.ok => r.entry.cluster \in Dirs /\ Searches(r.entry.cluster)
      BY <1>2, <1>5, <2>1, <3>1, <3>2, PathThrough
    <3>4. result = PartFound(r, path, mode, n)
      BY <2>1, <3>1, <3>2 DEF Walks
    <3>5. CASE ~r.ok
      <4>1. result = r
        BY <3>4, <3>5 DEF PartFound
      <4> QED
        BY <1>3, <3>3, <4>1
    <3>6. CASE r.ok
      <4>1. PICK dir, name, md : /\ dir = r.entry.cluster /\ name = path.parts[n]
                                 /\ md = PartMode(path, mode, n)
        OBVIOUS
      <4>2. dir \in Dirs /\ Searches(dir) /\ name \in Components
        BY <1>1, <1>2, <3>1, <3>3, <3>6, <4>1
      <4>3. result = fat_private_find_file(dir, name, md)
        BY <3>4, <3>6, <4>1 DEF PartFound
      <4> QED
        BY <4>2, <4>3, SearchKeepsFormat
    <3> QED
      BY <3>3, <3>5, <3>6
  <2> QED
    BY <2>2, <2>3
<1> QED
  BY <1>4, <1>5

-----------------------------------------------------------------------------
(***************************************************************************)
(* The steps.                                                              *)
(***************************************************************************)
\* A call that searches leaves what it leaves, also when the card fails.
LEMMA OpensKeeps ==
    ASSUME DirInv, NEW reads, NEW result, NEW d, Opens(reads, result, d),
           Creates(card, Written(result))
    PROVE  Creates(card, card') /\ (ready' => ready)
<1>1. card' = card \/ card' = Written(result)
  BY DEF Opens, CardError
<1>2. Creates(card, card)
  BY DEF Creates, DirInv
<1>3. ready' => ready
  BY DEF Opens, CardError
<1> QED
  BY <1>1, <1>2, <1>3

\* Every step but a mount leaves fat_info, changes no more than one entry and
\* does not make the card ready.
LEMMA StepsKeep ==
    ASSUME "full" \notin Usage, DirInv, [Next]_vars
    PROVE  \/ \E c \in Socket : fat_mount(c)
           \/ Creates(card, card') /\ UNCHANGED <<mounted, fat_info>> /\ (ready' => ready)
<1>0. Creates(card, card)
  BY DEF Creates, DirInv
<1>1. CASE \E c \in Socket : fat_mount(c)
  BY <1>1
<1>2. ASSUME NEW dir \in Dirs, NEW name \in Names, NEW mode \in Modes, fat_open_file(dir, name, mode)
      PROVE  Creates(card, card') /\ UNCHANGED <<mounted, fat_info>> /\ (ready' => ready)
  <2>1. PICK result, d : /\ result = fat_private_find_file(dir, name, mode)
                         /\ Opens(TRUE, result, d)
    BY <1>2 DEF fat_open_file
  <2>2. mounted /\ Searches(dir) /\ UNCHANGED <<mounted, fat_info>>
    BY <1>2 DEF fat_open_file, Usable
  <2>3. name \in Components
    BY DEF Components
  <2>4. PICK to : to = Written(result)
    OBVIOUS
  <2>5. Creates(card, to)
    BY <2>1, <2>2, <2>3, <2>4, SearchKeepsFormat
  <2> QED
    BY <2>1, <2>2, <2>4, <2>5, OpensKeeps
<1>3. ASSUME NEW path \in Paths, NEW mode \in Modes, fat_open_path(path, mode)
      PROVE  Creates(card, card') /\ UNCHANGED <<mounted, fat_info>> /\ (ready' => ready)
  <2>1. PICK result, reads, d : result = fat_find_path(path, mode) /\ Opens(reads, result, d)
    BY <1>3 DEF fat_open_path
  <2>2. mounted /\ Passable(path) /\ UNCHANGED <<mounted, fat_info>>
    BY <1>3 DEF fat_open_path
  <2>3. PICK to : to = Written(result)
    OBVIOUS
  <2>4. Creates(card, to)
    BY <2>1, <2>2, <2>3, PathKeepsFormat
  <2> QED
    BY <2>1, <2>2, <2>3, <2>4, OpensKeeps
<1>4. ASSUME NEW dir \in Dirs, fat_open_dir(dir)
      PROVE  Creates(card, card') /\ UNCHANGED <<mounted, fat_info>> /\ (ready' => ready)
  <2>1. PICK result, reads, d : result = Found(NoSlot, Root, FALSE) /\ Opens(reads, result, d)
    BY <1>4 DEF fat_open_dir
  <2>2. UNCHANGED <<mounted, fat_info>>
    BY <1>4 DEF fat_open_dir
  <2>3. Written(result) = card
    BY <2>1 DEF Written, Found
  <2> QED
    BY <1>0, <2>1, <2>2, <2>3, OpensKeeps
<1>5. ASSUME NEW dir \in Dirs, NEW name \in Names, fat_change_dir(dir, name)
      PROVE  Creates(card, card') /\ UNCHANGED <<mounted, fat_info>> /\ (ready' => ready)
  <2>1. card' = card /\ UNCHANGED <<mounted, fat_info>> /\ (ready' => ready)
    BY <1>5 DEF fat_change_dir, CardError, Usable
  <2> QED
    BY <1>0, <2>1
<1>6. ASSUME NEW fd \in Fds, NEW mask \in Masks, fat_get_next_dir_entry(fd, mask)
      PROVE  Creates(card, card') /\ UNCHANGED <<mounted, fat_info>> /\ (ready' => ready)
  <2>1. card' = card /\ UNCHANGED <<mounted, fat_info>> /\ (ready' => ready)
    BY <1>6 DEF fat_get_next_dir_entry, CardError
  <2> QED
    BY <1>0, <2>1
<1>7. ASSUME NEW fd \in Fds, fat_close(fd)
      PROVE  Creates(card, card') /\ UNCHANGED <<mounted, fat_info>> /\ (ready' => ready)
  <2>1. card' = card /\ UNCHANGED <<mounted, fat_info>> /\ (ready' => ready)
    BY <1>7 DEF fat_close
  <2> QED
    BY <1>0, <2>1
<1>8. CASE UNCHANGED vars
  BY <1>0, <1>8 DEF vars
<1> QED
  <2>1. CASE \E dir \in Dirs, name \in Names, mode \in Modes : fat_open_file(dir, name, mode)
    BY <1>2, <2>1
  <2>2. CASE \E path \in Paths, mode \in Modes : fat_open_path(path, mode)
    BY <1>3, <2>2
  <2>3. CASE \E dir \in Dirs : fat_open_dir(dir)
    BY <1>4, <2>3
  <2>4. CASE \E dir \in Dirs, name \in Names : fat_change_dir(dir, name)
    BY <1>5, <2>4
  <2>5. CASE \E fd \in Fds, mask \in Masks : fat_get_next_dir_entry(fd, mask)
    BY <1>6, <2>5
  <2>6. CASE \E fd \in Fds : fat_close(fd)
    BY <1>7, <2>6
  <2> QED
    BY <1>1, <1>8, <2>1, <2>2, <2>3, <2>4, <2>5, <2>6 DEF Next

\* fat_mount keeps the invariant, whichever card it finds.
LEMMA MountKeeps ==
    ASSUME DirInv, NEW c \in Socket, fat_mount(c)
    PROVE  DirInv'
<1>1. card' = c /\ Formatted(c)
  BY ImagesAssumption DEF fat_mount, Socket, DirInv
<1>2. PICK v : v = Volume(c)
  OBVIOUS
<1>3. v.n_fats \in Nat /\ IsInfo(fat_info)
  BY <1>1, <1>2 DEF DirInv, Formatted
<1>4. PICK info, r : info = fat_info /\ r = Mounted(v, info)
  OBVIOUS
<1>5. /\ IsInfo(r.info) /\ r.error = Mounted(v, NoInfo).error
      /\ r.error = "OK" => Describes(r.info, v)
  BY <1>3, <1>4, MountDescribes
<1>6. \/ fat_info' = r.info /\ ready' = TRUE /\ mounted' = (r.error = "OK")
      \/ fat_info' = fat_info /\ ready' = FALSE /\ mounted' = FALSE
  BY <1>2, <1>4 DEF fat_mount
<1>7. Volume(card') = v
  BY <1>1, <1>2
<1> QED
  BY <1>1, <1>3, <1>5, <1>6, <1>7 DEF DirInv

\* At the beginning.
LEMMA InitDirInv == Init => DirInv
<1> SUFFICES ASSUME Init PROVE DirInv
  OBVIOUS
<1>1. Formatted(card) /\ ready = FALSE /\ mounted = FALSE /\ fat_info = NoInfo
  BY ImagesAssumption DEF Init
<1>2. IsInfo(NoInfo)
  BY DEF IsInfo, NoInfo
<1> QED
  BY <1>1, <1>2 DEF DirInv

\* Every step keeps the invariant.
LEMMA NextDirInv ==
    ASSUME "full" \notin Usage, DirInv, [Next]_vars
    PROVE  DirInv'
<1>1. CASE Creates(card, card') /\ UNCHANGED <<mounted, fat_info>> /\ (ready' => ready)
  <2>1. Formatted(card') /\ Volume(card') = Volume(card)
    BY <1>1 DEF Creates
  <2> QED
    BY <1>1, <2>1 DEF DirInv
<1>2. CASE \E c \in Socket : fat_mount(c)
  BY <1>2, MountKeeps
<1> QED
  BY <1>1, <1>2, StepsKeep

-----------------------------------------------------------------------------
(***************************************************************************)
(* The results, for programs that search only what has an end: without     *)
(* "full" in Usage.                                                        *)
(***************************************************************************)
\* The card stays formatted, and what fat_mount computed describes it.
THEOREM CardStaysFormatted ==
    ASSUME "full" \notin Usage
    PROVE  Spec => []DirInv
<1>1. Init => DirInv
  BY InitDirInv
<1>2. DirInv /\ [Next]_vars => DirInv'
  BY NextDirInv
<1> QED
  BY <1>1, <1>2, PTL DEF Spec

\* After a successful mount the areas are taken for where they are, and every
\* cluster counted lies on the volume and in its FAT, for every number of FAT
\* sectors and whichever card was mounted before; what fat_mount accepts are the
\* FAT16 volumes, but for those that their hidden sectors make look smaller.
THEOREM GeometryAlwaysSound ==
    ASSUME "full" \notin Usage
    PROVE  Spec => []GeometrySound
<1>1. DirInv => GeometrySound
  BY GeometryHolds
<1> QED
  BY <1>1, CardStaysFormatted, PTL

\* Whatever is created, no directory gets two entries of one name or one behind
\* its end mark.
THEOREM DirectoriesAlwaysSound ==
    ASSUME "full" \notin Usage
    PROVE  Spec => []DirectoriesSound
<1>1. DirInv => DirectoriesSound
  BY DEF DirInv, Formatted, DirectoriesSound
<1> QED
  BY <1>1, CardStaysFormatted, PTL

\* A call changes nothing on the card but one free entry of a directory; only a
\* mount may find another card.
THEOREM CreatesOnlyOneEntry ==
    ASSUME "full" \notin Usage
    PROVE  Spec => CreatesOneEntry
<1>1. DirInv /\ [Next]_vars =>
        [card' # card =>
          \/ \E c \in Images : fat_mount(c)
          \/ \E dir \in Dirs :
                \E addr \in Range(card.dirs[dir]), i \in 0 .. EntriesPerBlock - 1 :
                    /\ IsFree(card.blocks[addr][i].name)
                    /\ card' = [card EXCEPT !.blocks[addr][i] = card'.blocks[addr][i]]]_vars
  <2> SUFFICES ASSUME DirInv, [Next]_vars, card' # card
               PROVE  \/ \E c \in Images : fat_mount(c)
                      \/ \E dir \in Dirs :
                            \E addr \in Range(card.dirs[dir]), i \in 0 .. EntriesPerBlock - 1 :
                                /\ IsFree(card.blocks[addr][i].name)
                                /\ card' = [card EXCEPT !.blocks[addr][i] = card'.blocks[addr][i]]
    OBVIOUS
  <2>1. CASE \E c \in Socket : fat_mount(c)
    <3>1. PICK c \in Socket : fat_mount(c)
      BY <2>1
    <3>2. c # card
      BY <3>1 DEF fat_mount
    <3> QED
      BY <3>1, <3>2 DEF Socket
  <2>2. CASE Creates(card, card')
    BY <2>2 DEF Creates, Dirs
  <2> QED
    BY <2>1, <2>2, StepsKeep
<1> QED
  BY <1>1, CardStaysFormatted, PTL DEF Spec, CreatesOneEntry

-----------------------------------------------------------------------------
(***************************************************************************)
(* Names: to_fat_name and from_fat_name.                                   *)
(***************************************************************************)
\* The first of chars in a string, or the end.
LEMMA FirstPosition ==
    ASSUME NEW D, NEW s \in Seq(D), NEW chars, NEW q, q = PositionOf(s, 1, chars)
    PROVE  /\ Len(s) \in Nat /\ q \in 1 .. Len(s) + 1
           /\ q <= Len(s) => s[q] \in chars
           /\ \A i \in 1 .. q - 1 : s[i] \notin chars
<1> DEFINE S == {i \in 1 .. Len(s) : s[i] \in chars} \cup {Len(s) + 1}
<1>1. q = Min(S)
  BY DEF PositionOf
<1>2. PICK n \in Nat : n = Len(s)
  OBVIOUS
<1>3. S \subseteq Nat /\ S # {} /\ S \subseteq 1 .. n + 1
  BY <1>2
<1>4. q \in S /\ \A y \in S : q <= y
  <2> HIDE DEF S
  <2> QED
    BY <1>1, <1>3, MinExists
<1>5. q \in 1 .. n + 1
  BY <1>3, <1>4
<1>6. q <= n => s[q] \in chars
  BY <1>2, <1>4, <1>5
<1>7. ASSUME NEW i \in 1 .. q - 1 PROVE s[i] \notin chars
  <2>1. i \in 1 .. n /\ ~(q <= i)
    BY <1>2, <1>5
  <2> QED
    BY <1>2, <1>4, <2>1
<1> QED
  BY <1>2, <1>5, <1>6, <1>7

\* Of D, t is the part of s behind the first k, of length l.
IsPart(D, t, s, k, l) == t \in Seq(D) /\ Len(t) = l /\ \A i \in 1 .. l : t[i] = s[k + i]

\* A part of a string.
LEMMA Part ==
    ASSUME NEW D, NEW s \in Seq(D), NEW k \in Nat, NEW l \in Nat, k + l <= Len(s),
           NEW t, t = SubSeq(s, k + 1, k + l)
    PROVE  IsPart(D, t, s, k, l)
<1>1. PICK m \in Int, n \in Int : m = k + 1 /\ n = k + l
  OBVIOUS
<1>2. \A i \in m .. n : s[i] \in D
  BY <1>1
<1>3. /\ SubSeq(s, m, n) \in Seq(D)
      /\ Len(SubSeq(s, m, n)) = IF m <= n THEN n - m + 1 ELSE 0
      /\ \A i \in 1 .. n - m + 1 : SubSeq(s, m, n)[i] = s[m + i - 1]
  BY <1>2, SubSeqProperties
<1>4. t = SubSeq(s, m, n)
  BY <1>1
<1>5. Len(t) = l
  BY <1>1, <1>3, <1>4
<1>6. ASSUME NEW i \in 1 .. l PROVE t[i] = s[k + i]
  <2>1. i \in 1 .. n - m + 1 /\ m + i - 1 = k + i
    BY <1>1
  <2>2. t[i] = s[m + i - 1]
    BY <1>3, <1>4, <2>1
  <2> QED
    BY <2>1, <2>2
<1> QED
  BY <1>3, <1>4, <1>5, <1>6 DEF IsPart

\* The characters of a string that is filled up with blanks.
Filled(s) ==
    \A i, j \in 1 .. Len(s) : s[i] = Blank /\ i < j => s[j] = Blank

\* Of D, t is what is left of the first n of s without its last blanks, p long.
IsCut(D, t, s, p, n) ==
    /\ p \in 0 .. n /\ \A i \in 1 .. p : s[i] # Blank
    /\ \A i \in p + 1 .. n : s[i] = Blank
    /\ t \in Seq(D) /\ Len(t) = p /\ \A i \in 1 .. p : t[i] = s[i]

\* Cutting the blanks off.
LEMMA BlanksCut ==
    ASSUME NEW D, NEW s \in Seq(D), Filled(s), NEW n \in Nat, n = Len(s),
           NEW q, q = PositionOf(s, 1, {Blank}), NEW p, p = q - 1, NEW t, t = SubSeq(s, 1, p)
    PROVE  IsCut(D, t, s, p, n)
<1>1. q = PositionOf(s, 1, {Blank})
  OBVIOUS
<1>2. n = Len(s)
  OBVIOUS
<1>3. /\ q \in 1 .. n + 1 /\ (q <= n => s[q] = Blank)
      /\ \A i \in 1 .. q - 1 : s[i] # Blank
  BY <1>1, <1>2, FirstPosition
<1>4. p = q - 1 /\ p \in 0 .. n /\ p <= n /\ p \in Nat
  BY <1>1, <1>3
<1>5. ASSUME NEW i \in p + 1 .. n PROVE s[i] = Blank
  <2>1. q <= n /\ q <= i /\ q \in 1 .. n /\ i \in 1 .. n
    BY <1>3, <1>4
  <2>2. s[q] = Blank
    BY <1>3, <2>1
  <2>3. q < i => s[i] = Blank
    BY <1>2, <2>1, <2>2 DEF Filled
  <2> QED
    BY <1>3, <2>1, <2>2, <2>3
<1>6. \A i \in 1 .. p : s[i] # Blank
  BY <1>3, <1>4
<1>7. t \in Seq(D) /\ Len(t) = p /\ \A i \in 1 .. p : t[i] = s[i]
  <2>1. t = SubSeq(s, 1, p)
    OBVIOUS
  <2>2. PICK k \in Nat, l \in Nat : k = 0 /\ l = p
    BY <1>4
  <2>3. t = SubSeq(s, k + 1, k + l) /\ k + l <= Len(s)
    <3>1. k + 1 = 1 /\ k + l = p /\ p <= Len(s)
      BY <1>2, <1>4, <2>2
    <3> QED
      BY <2>1, <3>1
  <2>4. IsPart(D, t, s, k, l)
    BY <2>3, Part
  <2>5. \A i \in 1 .. p : k + i = i
    BY <1>4, <2>2
  <2> QED
    BY <2>1, <2>2, <2>4, <2>5 DEF IsPart
<1> QED
  BY <1>2, <1>4, <1>5, <1>6, <1>7 DEF IsCut

\* What an entry's name is turned into: its base without blanks and, behind a
\* dot, its extension, if there is one.
LEMMA NameParts ==
    ASSUME NEW x, Stored(x)
    PROVE  \E D : \E b \in Seq(D), e \in Seq(D) :
              /\ from_fat_name(x) = b \o (IF Len(e) = 0 THEN <<>> ELSE <<Dot>> \o e)
              /\ Dot \in D
              /\ Len(b) \in 1 .. BaseLen /\ Len(e) \in 0 .. ExtLen
              /\ \A k \in 1 .. Len(e) : e[k] # Blank
              /\ \A k \in 1 .. BaseLen : x[k] = IF k <= Len(b) THEN b[k] ELSE Blank
              /\ \A k \in 1 .. ExtLen : x[BaseLen + k] = IF k <= Len(e) THEN e[k] ELSE Blank
<1>1. PICK B \in Nat \ {0}, X \in Nat \ {0} : B = BaseLen /\ X = ExtLen
  BY NameAssumption
<1>2. PICK D : D = {x[i] : i \in 1 .. B + X} \cup {Dot}
  OBVIOUS
<1>3. NameLen = B + X
  BY <1>1 DEF NameLen
<1>4. x = [k \in 1 .. B + X |-> x[k]] /\ x[1] # Blank
  BY <1>3 DEF Stored
<1>5. x \in Seq(D) /\ Len(x) = B + X
  <2>1. x \in [1 .. B + X -> D]
    BY <1>2, <1>4
  <2> QED
    BY <2>1
<1>6. \A i, j \in 1 .. B + X :
        x[i] = Blank /\ i < j /\ (i <= B <=> j <= B) => x[j] = Blank
  BY <1>1, <1>3 DEF Stored
<1>7. PICK base, ext : base = SubSeq(x, 1, B) /\ ext = SubSeq(x, B + 1, B + X)
  OBVIOUS
<1>8. /\ base \in Seq(D) /\ Len(base) = B /\ \A k \in 1 .. B : base[k] = x[k]
      /\ ext \in Seq(D) /\ Len(ext) = X /\ \A k \in 1 .. X : ext[k] = x[B + k]
  <2>1. PICK o \in Nat : o = 0
    OBVIOUS
  <2>2. B \in Nat /\ X \in Nat /\ o + B <= Len(x) /\ B + X <= Len(x)
    BY <1>5, <2>1
  <2>3. base = SubSeq(x, o + 1, o + B)
    <3>1. o + 1 = 1 /\ o + B = B
      BY <2>1
    <3> QED
      BY <1>7, <3>1
  <2>4. IsPart(D, base, x, o, B)
    BY <1>5, <2>2, <2>3, Part
  <2>5. ext = SubSeq(x, B + 1, B + X)
    BY <1>7
  <2>6. IsPart(D, ext, x, B, X)
    BY <1>5, <2>2, <2>5, Part
  <2>7. \A k \in 1 .. B : o + k = k
    BY <2>1
  <2> QED
    BY <2>4, <2>6, <2>7 DEF IsPart
<1>9. Filled(base)
  <2> SUFFICES ASSUME NEW i \in 1 .. B, NEW j \in 1 .. B, base[i] = Blank, i < j
               PROVE  base[j] = Blank
    BY <1>8 DEF Filled
  <2>1. i \in 1 .. B + X /\ j \in 1 .. B + X /\ i <= B /\ j <= B
    OBVIOUS
  <2> QED
    BY <1>6, <1>8, <2>1
<1>10. Filled(ext)
  <2> SUFFICES ASSUME NEW i \in 1 .. X, NEW j \in 1 .. X, ext[i] = Blank, i < j
               PROVE  ext[j] = Blank
    BY <1>8 DEF Filled
  <2>1. B + i \in 1 .. B + X /\ B + j \in 1 .. B + X /\ B + i < B + j /\ ~(B + i <= B) /\ ~(B + j <= B)
    OBVIOUS
  <2> QED
    BY <1>6, <1>8, <2>1
<1>11. PICK P, Q : P = PositionOf(base, 1, {Blank}) /\ Q = PositionOf(ext, 1, {Blank})
  OBVIOUS
<1>21. PICK p, q : p = P - 1 /\ q = Q - 1
  OBVIOUS
<1>12. PICK b, e : b = SubSeq(base, 1, p) /\ e = SubSeq(ext, 1, q)
  OBVIOUS
<1>13. /\ p \in 0 .. B /\ (\A i \in 1 .. p : base[i] # Blank) /\ (\A i \in p + 1 .. B : base[i] = Blank)
       /\ b \in Seq(D) /\ Len(b) = p /\ (\A i \in 1 .. p : b[i] = base[i])
  <2>1. PICK s, u, v, t : s = base /\ u = P /\ v = p /\ t = b
    OBVIOUS
  <2>2. s \in Seq(D) /\ Filled(s) /\ B = Len(s) /\ B \in Nat
    BY <1>8, <1>9, <2>1
  <2>3. u = PositionOf(s, 1, {Blank}) /\ v = u - 1 /\ t = SubSeq(s, 1, v)
    BY <1>11, <1>21, <1>12, <2>1
  <2>4. IsCut(D, t, s, v, B)
    BY <2>2, <2>3, BlanksCut, Zenon
  <2> QED
    BY <2>1, <2>4 DEF IsCut
<1>14. /\ q \in 0 .. X /\ (\A i \in 1 .. q : ext[i] # Blank) /\ (\A i \in q + 1 .. X : ext[i] = Blank)
       /\ e \in Seq(D) /\ Len(e) = q /\ (\A i \in 1 .. q : e[i] = ext[i])
  <2>1. PICK s, u, v, t : s = ext /\ u = Q /\ v = q /\ t = e
    OBVIOUS
  <2>2. s \in Seq(D) /\ Filled(s) /\ X = Len(s) /\ X \in Nat
    BY <1>8, <1>10, <2>1
  <2>3. u = PositionOf(s, 1, {Blank}) /\ v = u - 1 /\ t = SubSeq(s, 1, v)
    BY <1>11, <1>21, <1>12, <2>1
  <2>4. IsCut(D, t, s, v, X)
    BY <2>2, <2>3, BlanksCut, Zenon
  <2> QED
    BY <2>1, <2>4 DEF IsCut
<1>15. p # 0
  <2>1. 1 \in 1 .. B /\ x[1] # Blank
    BY <1>4
  <2>2. base[1] # Blank
    BY <1>8, <2>1
  <2> QED
    BY <1>13, <2>1, <2>2
<1>16. ext[1] = Blank <=> q = 0
  <2>1. 1 \in 1 .. X
    OBVIOUS
  <2>2. q = 0 => ext[1] = Blank
    BY <1>14, <2>1
  <2>3. q # 0 => 1 \in 1 .. q
    BY <1>14
  <2>4. q # 0 => ext[1] # Blank
    BY <1>14, <2>3
  <2> QED
    BY <2>2, <2>4
<1>17. from_fat_name(x) = b \o (IF Len(e) = 0 THEN <<>> ELSE <<Dot>> \o e)
  <2>1. from_fat_name(x) = SubSeq(base, 1, P - 1)
           \o (IF ext[1] = Blank THEN <<>> ELSE <<Dot>> \o SubSeq(ext, 1, Q - 1))
    <3>1. base = SubSeq(x, 1, BaseLen) /\ ext = SubSeq(x, BaseLen + 1, NameLen)
      BY <1>1, <1>3, <1>7
    <3> QED
      BY <1>11, <3>1, Zenon DEF from_fat_name
  <2>2. b = SubSeq(base, 1, P - 1) /\ e = SubSeq(ext, 1, Q - 1)
    BY <1>12, <1>21, Zenon
  <2>3. ext[1] = Blank <=> Len(e) = 0
    BY <1>14, <1>16
  <2> QED
    BY <2>1, <2>2, <2>3, Zenon
<1>18. \A k \in 1 .. B : x[k] = IF k <= p THEN b[k] ELSE Blank
  BY <1>8, <1>13
<1>19. \A k \in 1 .. X : x[B + k] = IF k <= q THEN e[k] ELSE Blank
  <2> TAKE k \in 1 .. X
  <2>1. x[B + k] = ext[k]
    BY <1>8
  <2>2. CASE k <= q
    <3>1. k \in 1 .. q
      BY <1>14, <2>2
    <3> QED
      BY <1>14, <2>1, <2>2, <3>1
  <2>3. CASE ~(k <= q)
    <3>1. k \in q + 1 .. X
      BY <1>14, <2>3
    <3> QED
      BY <1>14, <2>1, <2>3, <3>1
  <2> QED
    BY <2>2, <2>3
<1>20. Dot \in D /\ p \in 1 .. B
  BY <1>2, <1>13, <1>15
<1>22. b \in Seq(D) /\ e \in Seq(D) /\ Len(b) = p /\ Len(e) = q /\ q \in 0 .. X
  BY <1>13, <1>14
<1>24. \A k \in 1 .. q : e[k] # Blank
  BY <1>14
<1>23. /\ Dot \in D /\ Len(b) \in 1 .. BaseLen /\ Len(e) \in 0 .. ExtLen
       /\ \A k \in 1 .. Len(e) : e[k] # Blank
       /\ \A k \in 1 .. BaseLen : x[k] = IF k <= Len(b) THEN b[k] ELSE Blank
       /\ \A k \in 1 .. ExtLen : x[BaseLen + k] = IF k <= Len(e) THEN e[k] ELSE Blank
  BY <1>1, <1>18, <1>19, <1>20, <1>22, <1>24
<1> QED
  BY <1>17, <1>22, <1>23, Zenon

\* A string of base, dot and extension.
LEMMA JoinedName ==
    ASSUME NEW D, NEW b \in Seq(D), NEW e \in Seq(D), Dot \in D,
           NEW p \in Nat, p = Len(b), NEW q \in Nat, q = Len(e),
           NEW src, src = b \o (IF q = 0 THEN <<>> ELSE <<Dot>> \o e)
    PROVE  /\ src \in Seq(D) /\ Len(src) = IF q = 0 THEN p ELSE p + 1 + q
           /\ \A k \in 1 .. p : src[k] = b[k]
           /\ q # 0 => src[p + 1] = Dot /\ \A k \in 1 .. q : src[p + 1 + k] = e[k]
<1>1. CASE q = 0
  <2>1. src = b
    BY <1>1
  <2> QED
    BY <1>1, <2>1
<1>2. CASE q # 0
  <2>0. PICK d : d = <<Dot>>
    OBVIOUS
  <2>1. d = <<Dot>> /\ d \in Seq(D) /\ Len(d) = 1 /\ d[1] = Dot
    <3>1. Len(d) = 1 /\ d[1] = Dot
      BY <2>0
    <3>2. d \in Seq(D)
      BY <2>0
    <3> QED
      BY <2>0, <3>1, <3>2
  <2>2. PICK r : r = d \o e
    OBVIOUS
  <2>3. /\ r \in Seq(D) /\ Len(r) = 1 + q /\ r[1] = Dot
        /\ \A k \in 1 .. q : r[1 + k] = e[k]
    BY <2>1, <2>2
  <2>4. src = b \o r
    BY <1>2, <2>1, <2>2
  <2>5. src \in Seq(D) /\ Len(src) = p + (1 + q)
    BY <2>3, <2>4
  <2>6. \A k \in 1 .. p : src[k] = b[k]
    BY <2>3, <2>4
  <2>7. \A k \in 1 .. 1 + q : src[p + k] = r[k]
    BY <2>3, <2>4
  <2>8. src[p + 1] = Dot
    <3>1. 1 \in 1 .. 1 + q
      OBVIOUS
    <3> QED
      BY <2>3, <2>7, <3>1
  <2>9. \A k \in 1 .. q : src[p + 1 + k] = e[k]
    <3> TAKE k \in 1 .. q
    <3>1. 1 + k \in 1 .. 1 + q /\ p + (1 + k) = p + 1 + k
      OBVIOUS
    <3> QED
      BY <2>3, <2>7, <3>1
  <2> QED
    BY <1>2, <2>5, <2>6, <2>8, <2>9
<1> QED
  BY <1>1, <1>2

\* The first of chars in a string, given where it is.
LEMMA PositionIs ==
    ASSUME NEW D, NEW s \in Seq(D), NEW chars, NEW n \in Nat, n = Len(s), NEW i \in 1 .. n + 1,
           i <= n => s[i] \in chars, \A k \in 1 .. i - 1 : s[k] \notin chars
    PROVE  PositionOf(s, 1, chars) = i
<1>1. PICK q : q = PositionOf(s, 1, chars)
  OBVIOUS
<1>2. q \in 1 .. n + 1 /\ (q <= n => s[q] \in chars) /\ \A k \in 1 .. q - 1 : s[k] \notin chars
  BY <1>1, FirstPosition
<1>3. ~(q < i)
  <2> SUFFICES ASSUME q < i PROVE FALSE
    OBVIOUS
  <2>1. q \in 1 .. i - 1 /\ q <= n
    BY <1>2
  <2> QED
    BY <1>2, <2>1
<1>4. ~(i < q)
  <2> SUFFICES ASSUME i < q PROVE FALSE
    OBVIOUS
  <2>1. i \in 1 .. q - 1 /\ i <= n
    BY <1>2
  <2> QED
    BY <1>2, <2>1
<1> QED
  BY <1>1, <1>2, <1>3, <1>4

\* The characters of a name on the card.
LEMMA FatNameOf ==
    ASSUME NEW src, NEW f, f = to_fat_name(src)
    PROVE  /\ f = [k \in 1 .. NameLen |-> f[k]]
           /\ \A k \in 1 .. NameLen :
                 /\ src[1] = Dot => f[k] = CharAt(src, 1, k)
                 /\ src[1] # Dot /\ k <= BaseLen =>
                       f[k] = IF k <= PositionOf(src, 1, {Dot}) - 1 THEN src[k] ELSE Blank
                 /\ src[1] # Dot /\ k > BaseLen =>
                       f[k] = CharAt(src, ExtensionAt(src), k - BaseLen)
<1> DEFINE base == PositionOf(src, 1, {Dot}) - 1
           G(k) == CASE src[1] = Dot -> CharAt(src, 1, k)
                     [] src[1] # Dot /\ k <= BaseLen -> IF k <= base THEN src[k] ELSE Blank
                     [] src[1] # Dot /\ k > BaseLen -> CharAt(src, ExtensionAt(src), k - BaseLen)
<1>1. f = [k \in 1 .. NameLen |-> G(k)]
  BY DEF to_fat_name
<1>2. ASSUME NEW k \in 1 .. NameLen
      PROVE  /\ src[1] = Dot => G(k) = CharAt(src, 1, k)
             /\ src[1] # Dot /\ k <= BaseLen => G(k) = IF k <= base THEN src[k] ELSE Blank
             /\ src[1] # Dot /\ k > BaseLen => G(k) = CharAt(src, ExtensionAt(src), k - BaseLen)
  <2> HIDE DEF base
  <2>1. ~(k <= BaseLen /\ k > BaseLen)
    BY NameAssumption DEF NameLen
  <2> QED
    BY <2>1
<1> HIDE DEF G
<1>3. f = [k \in 1 .. NameLen |-> f[k]] /\ \A k \in 1 .. NameLen : f[k] = G(k)
  BY <1>1
<1> QED
  BY <1>2, <1>3

\* name.c:45 and name.c:5: the name made of an entry is turned into that of the
\* entry again.
LEMMA NameKept ==
    ASSUME NEW x, Stored(x)
    PROVE  to_fat_name(from_fat_name(x)) = x
<1>1. PICK B \in Nat \ {0}, X \in Nat \ {0} : B = BaseLen /\ X = ExtLen
  BY NameAssumption
<1>2. NameLen = B + X
  BY <1>1 DEF NameLen
<1>3. PICK D : \E b \in Seq(D), e \in Seq(D) :
              /\ from_fat_name(x) = b \o (IF Len(e) = 0 THEN <<>> ELSE <<Dot>> \o e)
              /\ Dot \in D
              /\ Len(b) \in 1 .. BaseLen /\ Len(e) \in 0 .. ExtLen
              /\ \A k \in 1 .. Len(e) : e[k] # Blank
              /\ \A k \in 1 .. BaseLen : x[k] = IF k <= Len(b) THEN b[k] ELSE Blank
              /\ \A k \in 1 .. ExtLen : x[BaseLen + k] = IF k <= Len(e) THEN e[k] ELSE Blank
  BY NameParts
<1>4. PICK b \in Seq(D), e \in Seq(D) :
              /\ from_fat_name(x) = b \o (IF Len(e) = 0 THEN <<>> ELSE <<Dot>> \o e)
              /\ Dot \in D
              /\ Len(b) \in 1 .. BaseLen /\ Len(e) \in 0 .. ExtLen
              /\ \A k \in 1 .. Len(e) : e[k] # Blank
              /\ \A k \in 1 .. BaseLen : x[k] = IF k <= Len(b) THEN b[k] ELSE Blank
              /\ \A k \in 1 .. ExtLen : x[BaseLen + k] = IF k <= Len(e) THEN e[k] ELSE Blank
  BY <1>3
<1>5. PICK p \in 1 .. B, q \in 0 .. X : p = Len(b) /\ q = Len(e)
  BY <1>1, <1>4
<1>6. PICK src : src = from_fat_name(x)
  OBVIOUS
<1>7. /\ src \in Seq(D) /\ Len(src) = IF q = 0 THEN p ELSE p + 1 + q
      /\ \A k \in 1 .. p : src[k] = b[k]
      /\ q # 0 => src[p + 1] = Dot /\ \A k \in 1 .. q : src[p + 1 + k] = e[k]
  <2>1. src = b \o (IF q = 0 THEN <<>> ELSE <<Dot>> \o e)
    BY <1>4, <1>5, <1>6
  <2>2. p \in Nat /\ q \in Nat
    OBVIOUS
  <2> QED
    BY <1>4, <1>5, <2>1, <2>2, JoinedName
<1>8. /\ \A k \in 1 .. B : x[k] = IF k <= p THEN b[k] ELSE Blank
      /\ \A k \in 1 .. X : x[B + k] = IF k <= q THEN e[k] ELSE Blank
  BY <1>1, <1>4, <1>5
<1>9. x = [k \in 1 .. B + X |-> x[k]]
  BY <1>2 DEF Stored
<1>10. src[1] = x[1]
  BY <1>7, <1>8
<1>11. PICK to : to = to_fat_name(src)
  OBVIOUS
<1>12. to = [k \in 1 .. B + X |-> to[k]]
  BY <1>2, <1>11, FatNameOf
<1>13. ASSUME NEW k \in 1 .. B + X PROVE to[k] = x[k]
  <2>0. PICK n \in Nat : n = Len(src) /\ n = IF q = 0 THEN p ELSE p + 1 + q
    BY <1>7
  <2>1. CASE x[1] = Dot
    <3>1. x[B + 1] = Blank /\ 1 \in 1 .. X
      BY <1>1, <2>1 DEF Stored
    <3>2. q = 0
      <4>1. q # 0 => 1 \in 1 .. q /\ e[1] = Blank
        BY <1>8, <3>1
      <4> QED
        BY <1>4, <1>5, <4>1
    <3>3. to[k] = CharAt(src, 1, k)
      BY <1>2, <1>10, <1>11, <2>1, FatNameOf
    <3>4. to[k] = IF k <= p THEN src[k] ELSE Blank
      <4>1. 1 + k - 1 = k /\ n = p
        BY <2>0, <3>2
      <4>2. CharAt(src, 1, k) = IF 1 + k - 1 <= n THEN src[1 + k - 1] ELSE Blank
        BY <2>0 DEF CharAt
      <4> QED
        BY <3>3, <4>1, <4>2
    <3>5. CASE k <= B
      <4>1. k \in 1 .. B
        BY <3>5
      <4>2. k <= p => k \in 1 .. p
        BY <4>1
      <4> QED
        BY <1>7, <1>8, <3>4, <4>1, <4>2
    <3>6. CASE ~(k <= B)
      <4>1. k - B \in 1 .. X /\ B + (k - B) = k /\ ~(k <= p) /\ ~(k - B <= q)
        BY <3>2, <3>6
      <4> QED
        BY <1>8, <3>4, <4>1
    <3> QED
      BY <3>5, <3>6
  <2>2. CASE x[1] # Dot
    <3>1. \A i \in 1 .. B : x[i] # Dot
      BY <1>1, <2>2 DEF Stored
    <3>2. \A i \in 1 .. p : src[i] # Dot
      BY <1>7, <1>8, <3>1
    <3>3. PositionOf(src, 1, {Dot}) = p + 1
      <4>1. PICK i : i = p + 1
        OBVIOUS
      <4>2. i \in 1 .. n + 1 /\ (i <= n => q # 0)
        BY <2>0, <4>1
      <4>3. i <= n => src[i] \in {Dot}
        BY <1>7, <4>1, <4>2
      <4>4. \A j \in 1 .. i - 1 : src[j] \notin {Dot}
        BY <3>2, <4>1
      <4>5. PositionOf(src, 1, {Dot}) = i
        BY <1>7, <2>0, <4>2, <4>3, <4>4, PositionIs
      <4> QED
        BY <4>1, <4>5
    <3>4. ExtensionAt(src) = p + 2
      BY <1>1, <3>3 DEF ExtensionAt
    <3>5. CASE k <= B
      <4>1. k \in 1 .. B /\ k <= BaseLen /\ ~(k > BaseLen)
        BY <1>1, <3>5
      <4>2. to[k] = IF k <= PositionOf(src, 1, {Dot}) - 1 THEN src[k] ELSE Blank
        <5>1. k \in 1 .. NameLen /\ src[1] # Dot /\ k <= BaseLen
          BY <1>2, <1>10, <2>2, <4>1
        <5> QED
          BY <1>11, <5>1, FatNameOf
      <4>3. to[k] = IF k <= p THEN src[k] ELSE Blank
        BY <3>3, <4>2
      <4>4. k <= p => k \in 1 .. p
        BY <4>1
      <4> QED
        BY <1>7, <1>8, <4>1, <4>3, <4>4
    <3>6. CASE ~(k <= B)
      <4>1. k > BaseLen /\ ~(k <= BaseLen)
        BY <1>1, <3>6
      <4>2. to[k] = CharAt(src, ExtensionAt(src), k - BaseLen)
        BY <1>2, <1>10, <1>11, <2>2, <4>1, FatNameOf
      <4>3. PICK j \in 1 .. X : j = k - B /\ B + j = k
        BY <3>6
      <4>4. to[k] = IF p + 2 + j - 1 <= n THEN src[p + 2 + j - 1] ELSE Blank
        BY <1>1, <2>0, <3>4, <4>2, <4>3 DEF CharAt
      <4>5. p + 2 + j - 1 = p + 1 + j /\ (p + 1 + j <= n <=> j <= q)
        BY <2>0
      <4>6. j <= q => q # 0 /\ j \in 1 .. q
        OBVIOUS
      <4>7. to[k] = IF j <= q THEN e[j] ELSE Blank
        BY <1>7, <4>4, <4>5, <4>6
      <4> QED
        BY <1>8, <4>3, <4>7
    <3> QED
      BY <3>5, <3>6
  <2> QED
    BY <2>1, <2>2
<1>14. to = x
  BY <1>9, <1>12, <1>13
<1> QED
  BY <1>6, <1>11, <1>14

\* name.c:5: what a plain name is turned into is such a name of an entry.
LEMMA PlainStored ==
    ASSUME NEW src, Plain(src)
    PROVE  Stored(to_fat_name(src))
<1>1. PICK B \in Nat \ {0}, X \in Nat \ {0} : B = BaseLen /\ X = ExtLen
  BY NameAssumption
<1>2. NameLen = B + X
  BY <1>1 DEF NameLen
<1>3. PICK S : S = {src[i] : i \in DOMAIN src} \ {Blank}
  OBVIOUS
<1>4. src \in Seq(S) /\ src # <<>> /\ (src[1] = Dot => Len(src) <= B)
  BY <1>1, <1>3 DEF Plain
<1>5. PICK n \in Nat \ {0} : n = Len(src)
  BY <1>4
<1>6. \A i \in 1 .. n : src[i] # Blank
  <2>1. \A i \in 1 .. n : src[i] \in S
    BY <1>4, <1>5
  <2> QED
    BY <1>3, <2>1
<1>7. PICK dot : dot = PositionOf(src, 1, {Dot})
  OBVIOUS
<1>8. dot \in 1 .. n + 1 /\ (dot <= n => src[dot] = Dot) /\ \A k \in 1 .. dot - 1 : src[k] # Dot
  BY <1>4, <1>5, <1>7, FirstPosition
<1>9. PICK at : at = ExtensionAt(src)
  OBVIOUS
<1>10. at \in Nat \ {0}
  BY <1>1, <1>7, <1>8, <1>9 DEF ExtensionAt
<1>11. PICK x : x = to_fat_name(src)
  OBVIOUS
<1>12. x = [k \in 1 .. B + X |-> x[k]]
  BY <1>2, <1>11, FatNameOf
<1>13. CASE src[1] = Dot
  <2>1. \A k \in 1 .. B + X : x[k] = CharAt(src, 1, k)
    BY <1>2, <1>11, <1>13, FatNameOf
  <2>2. \A k \in 1 .. B + X : x[k] = IF k <= n THEN src[k] ELSE Blank
    BY <1>5, <2>1 DEF CharAt
  <2>3. \A k \in 1 .. B + X : x[k] = Blank <=> ~(k <= n)
    <3> TAKE k \in 1 .. B + X
    <3>1. k <= n => k \in 1 .. n
      OBVIOUS
    <3> QED
      BY <1>6, <2>2, <3>1
  <2>4. 1 \in 1 .. B + X /\ 1 <= n /\ B + 1 \in 1 .. B + X /\ ~(B + 1 <= n)
    BY <1>4, <1>5, <1>13
  <2>5. x[1] # Blank /\ x[1] = Dot /\ x[B + 1] = Blank
    BY <1>13, <2>2, <2>3, <2>4
  <2>6. ASSUME NEW i \in 1 .. B + X, NEW j \in 1 .. B + X, x[i] = Blank, i < j PROVE x[j] = Blank
    <3>1. ~(i <= n)
      BY <2>3, <2>6
    <3>2. ~(j <= n)
      BY <2>6, <3>1
    <3> QED
      BY <2>3, <3>2
  <2> QED
    BY <1>1, <1>2, <1>11, <1>12, <2>5, <2>6 DEF Stored
<1>14. CASE src[1] # Dot
  <2>1. dot # 1
    BY <1>8, <1>14
  <2>2. PICK base \in Nat \ {0} : base = dot - 1 /\ base <= n
    BY <1>8, <2>1
  <2>3. \A k \in 1 .. B : x[k] = IF k <= base THEN src[k] ELSE Blank
    <3> TAKE k \in 1 .. B
    <3>1. k \in 1 .. B + X /\ k <= BaseLen /\ ~(k > BaseLen)
      BY <1>1
    <3>2. x[k] = IF k <= PositionOf(src, 1, {Dot}) - 1 THEN src[k] ELSE Blank
      BY <1>2, <1>11, <1>14, <3>1, FatNameOf
    <3> QED
      BY <1>7, <2>2, <3>2
  <2>4. \A k \in 1 .. X : x[B + k] = IF at + k - 1 <= n THEN src[at + k - 1] ELSE Blank
    <3> TAKE k \in 1 .. X
    <3>1. PICK l : l = B + k
      OBVIOUS
    <3>2. l \in 1 .. NameLen /\ l > BaseLen /\ l - BaseLen = k
      BY <1>1, <1>2, <3>1
    <3>4. x[l] = CharAt(src, ExtensionAt(src), l - BaseLen)
      BY <1>11, <1>14, <3>2, FatNameOf
    <3>5. x[l] = CharAt(src, at, k)
      BY <1>9, <3>2, <3>4
    <3>3. x[B + k] = CharAt(src, at, k)
      BY <3>1, <3>5
    <3> QED
      BY <1>5, <3>3 DEF CharAt
  <2>5. \A k \in 1 .. B : x[k] = Blank <=> ~(k <= base)
    <3> TAKE k \in 1 .. B
    <3>1. k <= base => k \in 1 .. n
      BY <2>2
    <3> QED
      BY <1>6, <2>3, <3>1
  <2>6. \A k \in 1 .. X : x[B + k] = Blank <=> ~(at + k - 1 <= n)
    <3> TAKE k \in 1 .. X
    <3>1. at + k - 1 <= n => at + k - 1 \in 1 .. n
      BY <1>10
    <3> QED
      BY <1>6, <2>4, <3>1
  <2>7. ASSUME NEW i \in 1 .. B + X, NEW j \in 1 .. B + X, x[i] = Blank, i < j, i <= B <=> j <= B
        PROVE  x[j] = Blank
    <3>1. CASE i <= B
      <4>1. i \in 1 .. B /\ j \in 1 .. B
        BY <2>7, <3>1
      <4>2. ~(i <= base)
        BY <2>5, <2>7, <4>1
      <4>3. ~(j <= base)
        BY <2>7, <4>2
      <4> QED
        BY <2>5, <4>1, <4>3
    <3>2. CASE ~(i <= B)
      <4>1. PICK k \in 1 .. X, l \in 1 .. X : i = B + k /\ j = B + l /\ k < l
        <5>1. i - B \in 1 .. X /\ j - B \in 1 .. X /\ i = B + (i - B) /\ j = B + (j - B) /\ i - B < j - B
          BY <2>7, <3>2
        <5> QED
          BY <5>1, Zenon
      <4>2. ~(at + k - 1 <= n)
        BY <2>6, <2>7, <4>1
      <4>3. ~(at + l - 1 <= n)
        BY <1>10, <4>1, <4>2
      <4> QED
        BY <2>6, <4>1, <4>3
    <3> QED
      BY <3>1, <3>2
  <2>8. Blank # Dot
    BY Zenon DEF Blank, Dot
  <2>9. \A k \in 1 .. B : x[k] # Dot
    <3> TAKE k \in 1 .. B
    <3>1. k <= base => k \in 1 .. dot - 1
      BY <2>2
    <3> QED
      BY <1>8, <2>3, <2>8, <3>1
  <2>10. 1 \in 1 .. B /\ 1 <= base
    <3>1. 1 \in 1 .. B
      OBVIOUS
    <3>2. 1 <= base
      OBVIOUS
    <3> QED
      BY <3>1, <3>2
  <2>11. x[1] # Blank /\ x[1] # Dot
    BY <2>5, <2>9, <2>10
  <2> QED
    BY <1>1, <1>2, <1>11, <1>12, <2>7, <2>9, <2>11 DEF Stored
<1> QED
  BY <1>13, <1>14

-----------------------------------------------------------------------------
(***************************************************************************)
(* The names of the directories, and what they lead to.                    *)
(***************************************************************************)
\* The names of files and directories stay such as name.c keeps.
LEMMA CreateKeepsNames ==
    ASSUME NEW c, Formatted(c), NamesKept(c), NEW to, Creates(c, to)
    PROVE  NamesKept(to)
<1> SUFFICES ASSUME to # c PROVE NamesKept(to)
  OBVIOUS
<1>0. PICK E \in Nat \ {0} : E = EntriesPerBlock
  BY MountAssumption
<1>1. PICK d \in DOMAIN c.dirs : \E addr \in Range(c.dirs[d]), i \in 0 .. EntriesPerBlock - 1 :
              /\ IsFree(c.blocks[addr][i].name)
              /\ to = [c EXCEPT !.blocks[addr][i] = to.blocks[addr][i]]
              /\ \E name \in Components : to.blocks[addr][i] = NewEntry(to_fat_name(name))
  BY DEF Creates
<1>2. PICK a \in Range(c.dirs[d]), m \in 0 .. E - 1 :
              /\ to = [c EXCEPT !.blocks[a][m] = to.blocks[a][m]]
              /\ \E name \in Components : to.blocks[a][m] = NewEntry(to_fat_name(name))
  BY <1>0, <1>1
<1>3. PICK entry, w : entry = to.blocks[a][m] /\ w = [c.blocks EXCEPT ![a][m] = entry]
  OBVIOUS
<1>4. to = [c EXCEPT !.blocks = w]
  BY <1>2, <1>3
<1>5. to.blocks = w /\ to.dirs = c.dirs
  BY <1>4 DEF Formatted
<1>6. entry.attrs # LongFilename => Stored(entry.name)
  <2>1. PICK name \in Components : entry = NewEntry(to_fat_name(name))
    BY <1>2, <1>3
  <2>2. Plain(name)
    BY NamesAssumption
  <2>3. Stored(to_fat_name(name))
    BY <2>2, PlainStored
  <2>4. entry.name = to_fat_name(name)
    BY <2>1 DEF NewEntry
  <2> QED
    BY <2>3, <2>4
<1>7. \A x, k : w[x][k] = c.blocks[x][k] \/ (x = a /\ k = m /\ w[x][k] = entry)
  BY <1>3
<1> SUFFICES ASSUME NEW e \in DOMAIN c.dirs, NEW s \in UsedOn(to, e),
                    to.blocks[s.addr][s.index].attrs # LongFilename
             PROVE  Stored(to.blocks[s.addr][s.index].name)
  BY <1>5 DEF NamesKept
<1>8. CASE w[s.addr][s.index] = entry
  BY <1>5, <1>6, <1>8
<1>9. CASE w[s.addr][s.index] = c.blocks[s.addr][s.index]
  <2>1. s \in UsedOn(c, e)
    BY <1>5, <1>9 DEF UsedOn
  <2> QED
    BY <1>5, <1>9, <2>1 DEF NamesKept
<1> QED
  BY <1>7, <1>8, <1>9

\* The cards and the names of the program are such that it holds of all.
DirNamesInv == DirInv /\ NamesKept(card)

\* It holds of the cards as they were formatted.
LEMMA InitDirNames == Init => DirNamesInv
BY InitDirInv, NamesAssumption DEF Init, DirNamesInv

\* The names are kept by every step.
LEMMA NextDirNames ==
    ASSUME "full" \notin Usage, DirNamesInv, [Next]_vars
    PROVE  DirNamesInv'
<1>1. DirInv /\ NamesKept(card) /\ Formatted(card)
  BY DEF DirNamesInv, DirInv
<1>2. DirInv'
  BY <1>1, NextDirInv
<1>3. Creates(card, card') => NamesKept(card')
  BY <1>1, CreateKeepsNames
<1>4. NamesKept(card')
  <2>1. CASE Creates(card, card')
    BY <1>3, <2>1
  <2>2. CASE \E c \in Socket : fat_mount(c)
    <3>1. PICK c \in Socket : card' = c
      BY <2>2 DEF fat_mount
    <3> QED
      BY <1>1, <3>1, NamesAssumption DEF Socket
  <2> QED
    BY <1>1, <2>1, <2>2, StepsKeep
<1> QED
  BY <1>2, <1>4 DEF DirNamesInv, NamesKept, UsedOn, Range

\* The slots of a name are those that hold it.
LEMMA NamedSlots ==
    ASSUME DirInv, mounted, NEW dir \in Dirs, NEW name, NEW n, n = to_fat_name(name), ~IsFree(n)
    PROVE  /\ \A s \in Named(dir, name) : \E i, m : Holds(dir, n, i, m) /\ s = SlotAt(dir, i, m)
           /\ \A i, m : Holds(dir, n, i, m) => SlotAt(dir, i, m) \in Named(dir, name)
           /\ \A s \in Named(dir, name), t \in Named(dir, name) : s = t
<1>1. DOMAIN card.dirs[dir] = 1 .. Len(card.dirs[dir])
  BY VisitedInOrder
<1>2. ASSUME NEW s \in Named(dir, name)
      PROVE  \E i, m : Holds(dir, n, i, m) /\ s = SlotAt(dir, i, m)
  <2>1. s \in [addr : Range(card.dirs[dir]), index : 0 .. EntriesPerBlock - 1] /\ Name(s) = n
    BY DEF Named, Used, UsedOn
  <2>2. PICK i \in 1 .. Len(card.dirs[dir]) : s.addr = card.dirs[dir][i]
    BY <1>1, <2>1 DEF Range
  <2>3. PICK m \in 0 .. EntriesPerBlock - 1 : s.index = m
    BY <2>1
  <2>4. NameIn(dir, i, m) = n
    BY <2>1, <2>2, <2>3 DEF Name, EntryAt, NameIn, NameOn
  <2>5. s = SlotAt(dir, i, m)
    BY <2>1, <2>2, <2>3 DEF SlotAt
  <2> QED
    BY <2>4, <2>5 DEF Holds
<1>3. ASSUME NEW i, NEW m, Holds(dir, n, i, m)
      PROVE  SlotAt(dir, i, m) \in Named(dir, name)
  <2>1. i \in 1 .. Len(card.dirs[dir]) /\ m \in 0 .. EntriesPerBlock - 1 /\ NameIn(dir, i, m) = n
    BY <1>3 DEF Holds
  <2>2. PICK s : s = SlotAt(dir, i, m)
    OBVIOUS
  <2>3. s.addr = card.dirs[dir][i] /\ s.index = m
    BY <2>2 DEF SlotAt
  <2>4. s \in [addr : Range(card.dirs[dir]), index : 0 .. EntriesPerBlock - 1]
    BY <1>1, <2>1, <2>2 DEF SlotAt, Range
  <2>5. Name(s) = n /\ card.blocks[s.addr][s.index].name = n
    BY <2>1, <2>3 DEF Name, EntryAt, NameIn, NameOn
  <2> QED
    BY <2>2, <2>4, <2>5 DEF Named, Used, UsedOn
<1>4. ASSUME NEW s \in Named(dir, name), NEW t \in Named(dir, name) PROVE s = t
  <2>1. s \in UsedOn(card, dir) /\ t \in UsedOn(card, dir) /\ Name(s) = n /\ Name(t) = n
    BY DEF Named, Used
  <2>2. card.blocks[s.addr][s.index].name = card.blocks[t.addr][t.index].name
    BY <2>1 DEF Name, EntryAt
  <2> QED
    BY <2>1, <2>2 DEF DirInv, Formatted, EntriesSound, Dirs
<1> QED
  BY <1>2, <1>3, <1>4

\* The result of a search in mode comes to what is there.
ComesTo(r, there, mode) ==
    /\ Agrees(r, there, mode) /\ r.ok \in BOOLEAN /\ r.new \in BOOLEAN
    /\ ~r.ok /\ r.error = "FILE_EXISTS" => mode = {"CREAT", "EXCL"}

\* fat.c:209: a search in a directory comes to what the directory says.
LEMMA SearchAgrees ==
    ASSUME DirInv, mounted, "full" \notin Usage, NEW dir \in Dirs, Searches(dir),
           NEW name, ~IsFree(to_fat_name(name)), NEW mode,
           NEW result, result = fat_private_find_file(dir, name, mode)
    PROVE  ComesTo(result, Named(dir, name), mode)
<1>1. PICK n, there : n = to_fat_name(name) /\ there = Named(dir, name)
  OBVIOUS
<1>2. ~IsFree(n)
  BY <1>1
<1>3. /\ \A s \in there : \E i, m : Holds(dir, n, i, m) /\ s = SlotAt(dir, i, m)
      /\ \A i, m : Holds(dir, n, i, m) => SlotAt(dir, i, m) \in there
      /\ \A s \in there, t \in there : s = t
  BY <1>1, <1>2, NamedSlots
<1>4. (\E i, m : Holds(dir, n, i, m)) <=> there # {}
  BY <1>3
<1>5. /\ result.ok \in BOOLEAN /\ result.new \in BOOLEAN
      /\ ~result.ok /\ result.error = "FILE_EXISTS" => mode = {"CREAT", "EXCL"}
  <2>1. result.ok \in BOOLEAN /\ result.new \in BOOLEAN
    BY <1>1, <1>2, SearchResult
  <2>2. ~result.ok /\ result.error = "FILE_EXISTS" => mode = {"CREAT", "EXCL"}
    <3> SUFFICES ASSUME ~result.ok
                 PROVE  result.error = "FILE_EXISTS" => mode = {"CREAT", "EXCL"}
      OBVIOUS
    <3> QED
      BY <1>1, <1>2, SearchResult
  <2> QED
    BY <2>1, <2>2
<1>6. ASSUME result.ok, ~result.new
      PROVE  there = {result.at} /\ result.entry = EntryAt(result.at) /\ mode # {"CREAT", "EXCL"}
  <2>1. mode # {"CREAT", "EXCL"} /\ LeadsTo(result, dir, n)
    BY <1>1, <1>2, <1>6, SearchResult
  <2>2. PICK i, m : /\ Holds(dir, n, i, m) /\ result.at = SlotAt(dir, i, m)
                    /\ result.entry = card.blocks[card.dirs[dir][i]][m]
    BY <2>1 DEF LeadsTo
  <2>3. PICK s : s = SlotAt(dir, i, m)
    OBVIOUS
  <2>4. s \in there /\ result.at = s
    BY <1>3, <2>2, <2>3
  <2>5. there = {s}
    BY <1>3, <2>4
  <2>6. s.addr = card.dirs[dir][i] /\ s.index = m
    BY <2>3 DEF SlotAt
  <2>7. result.entry = EntryAt(s)
    BY <2>2, <2>6 DEF EntryAt
  <2> QED
    BY <2>1, <2>4, <2>5, <2>7
<1>7. ASSUME result.new PROVE there = {} /\ "CREAT" \in mode
  <2>1. "CREAT" \in mode /\ \A i, m : ~Holds(dir, n, i, m)
    BY <1>1, <1>2, <1>7, SearchResult
  <2> QED
    BY <1>4, <2>1
<1>8. ASSUME ~result.ok PROVE (result.error = "FILE_EXISTS") = (there # {})
  <2>1. (result.error = "FILE_EXISTS") <=> (\E i, m : Holds(dir, n, i, m))
    BY <1>1, <1>2, <1>8, SearchResult
  <2> QED
    BY <1>4, <2>1
<1> QED
  BY <1>1, <1>5, <1>6, <1>7, <1>8 DEF Agrees, ComesTo

\* The slots that a part named name leads to from those in there.
Onward(there, name) ==
    UNION {Named(EntryAt(s).cluster, name) : s \in {t \in there : "DIRECTORY" \in EntryAt(t).attrs}}

\* h is what each number of parts leads to, up to n.
Leads(h, dir, parts, n) ==
    \A i \in 1 .. n : h[i] = IF i = 1 THEN Named(dir, parts[1]) ELSE Onward(h[i - 1], parts[i])

\* What parts denote comes from what the parts before denote.
LEMMA DenotesSteps ==
    ASSUME NEW dir, NEW parts, Len(parts) \in Nat \ {0}
    PROVE  \E h : Leads(h, dir, parts, Len(parts)) /\ Denotes(dir, parts) = h[Len(parts)]
<1> DEFINE n == Len(parts)
           Body(h) ==
             [i \in 1 .. n |->
                IF i = 1 THEN Named(dir, parts[1])
                ELSE UNION {Named(EntryAt(s).cluster, parts[i]) :
                              s \in {t \in h[i - 1] : "DIRECTORY" \in EntryAt(t).attrs}}]
           at == CHOOSE h : h = Body(h)
           T == {m \in 0 .. n : \E g : Leads(g, dir, parts, m)}
<1>1. Denotes(dir, parts) = at[n]
  BY DEF Denotes
<1>2. ASSUME NEW h, NEW i \in 1 .. n
      PROVE  Body(h)[i] = IF i = 1 THEN Named(dir, parts[1]) ELSE Onward(h[i - 1], parts[i])
  BY DEF Onward
<1>3. \A h : DOMAIN Body(h) = 1 .. n /\ Body(h) = [i \in 1 .. n |-> Body(h)[i]]
  OBVIOUS
<1> HIDE DEF Body
<1>4. 0 \in T
  <2>1. \E g : Leads(g, dir, parts, 0)
    <3>1. 1 .. 0 = {}
      OBVIOUS
    <3>2. \A g : Leads(g, dir, parts, 0)
      BY <3>1 DEF Leads
    <3> QED
      BY <3>2
  <2>2. 0 \in 0 .. n
    OBVIOUS
  <2> QED
    BY <2>1, <2>2
<1>5. ASSUME NEW m \in 0 .. n - 1, m \in T PROVE m + 1 \in T
  <2>1. PICK g : Leads(g, dir, parts, m)
    BY <1>5
  <2> DEFINE next == IF m + 1 = 1 THEN Named(dir, parts[1]) ELSE Onward(g[m], parts[m + 1])
             h == [i \in 1 .. m + 1 |-> IF i = m + 1 THEN next ELSE g[i]]
  <2>2. ASSUME NEW i \in 1 .. m + 1
        PROVE  h[i] = IF i = 1 THEN Named(dir, parts[1]) ELSE Onward(h[i - 1], parts[i])
    <3>1. CASE i = m + 1
      <4>1. h[i] = next /\ i - 1 = m
        <5> HIDE DEF next
        <5> QED
          BY <3>1
      <4>2. i # 1 => h[i - 1] = g[i - 1]
        <5> HIDE DEF next
        <5> QED
          BY <3>1
      <4> HIDE DEF h
      <4> QED
        BY <3>1, <4>1, <4>2
    <3>2. CASE i # m + 1
      <4>1. h[i] = g[i] /\ (i # 1 => h[i - 1] = g[i - 1]) /\ i \in 1 .. m
        <5> HIDE DEF next
        <5> QED
          BY <3>2
      <4> HIDE DEF h
      <4> QED
        BY <2>1, <4>1 DEF Leads
    <3> QED
      BY <3>1, <3>2
  <2> HIDE DEF h
  <2>3. Leads(h, dir, parts, m + 1)
    BY <2>2 DEF Leads
  <2>4. m + 1 \in 0 .. n
    OBVIOUS
  <2> QED
    BY <2>3, <2>4
<1>6. PICK g : Leads(g, dir, parts, n)
  <2> HIDE DEF T
  <2>1. 0 .. n \subseteq T
    BY <1>4, <1>5, Upwards
  <2>2. n \in T
    BY <2>1
  <2> QED
    BY <2>2 DEF T
<1> DEFINE f == [i \in 1 .. n |-> g[i]]
<1>7. f = Body(f)
  <2>1. ASSUME NEW i \in 1 .. n PROVE f[i] = Body(f)[i]
    <3>1. f[i] = g[i] /\ (i # 1 => f[i - 1] = g[i - 1])
      OBVIOUS
    <3> HIDE DEF f
    <3>2. g[i] = IF i = 1 THEN Named(dir, parts[1]) ELSE Onward(g[i - 1], parts[i])
      BY <1>6 DEF Leads
    <3> QED
      BY <1>2, <3>1, <3>2
  <2>2. DOMAIN f = 1 .. n /\ f = [i \in 1 .. n |-> f[i]]
    OBVIOUS
  <2> HIDE DEF f
  <2>3. [i \in 1 .. n |-> f[i]] = [i \in 1 .. n |-> Body(f)[i]]
    BY <2>1
  <2> QED
    BY <1>3, <2>2, <2>3
<1>8. at = Body(at)
  <2>1. \E h : h = Body(h)
    BY <1>7
  <2> QED
    BY <2>1
<1> HIDE DEF at
<1>9. Leads(at, dir, parts, n)
  <2>1. ASSUME NEW i \in 1 .. n
        PROVE  at[i] = IF i = 1 THEN Named(dir, parts[1]) ELSE Onward(at[i - 1], parts[i])
    <3>1. at[i] = Body(at)[i]
      BY <1>8
    <3>2. Body(at)[i] = IF i = 1 THEN Named(dir, parts[1]) ELSE Onward(at[i - 1], parts[i])
      BY <1>2
    <3> QED
      BY <3>1, <3>2
  <2> QED
    BY <2>1 DEF Leads
<1> QED
  BY <1>1, <1>9

\* A name alone denotes its slots.
LEMMA DenotesName ==
    ASSUME NEW dir, NEW name
    PROVE  Denotes(dir, <<name>>) = Named(dir, name)
<1>1. PICK parts : parts = <<name>>
  OBVIOUS
<1>2. Len(parts) = 1 /\ parts[1] = name
  BY <1>1
<1>3. PICK h : Leads(h, dir, parts, Len(parts)) /\ Denotes(dir, parts) = h[Len(parts)]
  <2>1. Len(parts) \in Nat \ {0}
    BY <1>2
  <2> QED
    BY <2>1, DenotesSteps, Zenon
<1>4. Leads(h, dir, parts, 1) /\ Denotes(dir, parts) = h[1] /\ 1 \in 1 .. 1
  BY <1>2, <1>3
<1>5. h[1] = Named(dir, name)
  BY <1>2, <1>4 DEF Leads
<1> QED
  BY <1>1, <1>4, <1>5

\* What the search came to before the last part, against what is there.
Told(r, there) ==
    /\ r.ok => there = {r.at} /\ r.entry = EntryAt(r.at)
    /\ ~r.ok => there = {} /\ r.error # "FILE_EXISTS"

\* path.c:19: the search for a part comes to what the part leads to.
LEMMA PartAgrees ==
    ASSUME DirInv, mounted, "full" \notin Usage, NEW path \in Paths, path.absolute, Passable(path),
           NEW mode, NEW n, n = Len(path.parts), NEW g, Walks(g, path, mode, n),
           NEW h, Leads(h, 0, path.parts, n),
           NEW i \in 1 .. n, i # 1 => Told(g[i - 1], h[i - 1]),
           NEW md, md = PartMode(path, mode, i)
    PROVE  ComesTo(g[i], h[i], md)
<1>1. n \in Nat /\ path.parts \in Seq(Components)
  BY PathThrough
<1>2. PICK k \in 0 .. n - 1 : k = i - 1 /\ (k = 0 <=> i = 1)
  BY <1>1
<1>3. /\ g[k].new = FALSE /\ g[k].ok \in BOOLEAN
      /\ g[k].ok => /\ "DIRECTORY" \in g[k].entry.attrs
                    /\ g[k].entry.cluster \in Dirs /\ Searches(g[k].entry.cluster)
  BY PathThrough
<1>4. g[i] = PartFound(g[k], path, mode, i)
  BY <1>2 DEF Walks
<1>5. h[i] = IF i = 1 THEN Named(0, path.parts[1]) ELSE Onward(h[k], path.parts[i])
  BY <1>2 DEF Leads
<1>6. g[0] = Found(NoSlot, Root, FALSE)
  BY DEF Walks
<1>7. g[0].ok = TRUE /\ g[0].entry.cluster = 0
  BY <1>6 DEF Found, Root
<1>8. CASE ~g[k].ok
  <2>1. i # 1
    BY <1>2, <1>7, <1>8
  <2>2. h[k] = {} /\ g[k].error # "FILE_EXISTS"
    BY <1>2, <1>8, <2>1 DEF Told
  <2>3. h[i] = {}
    BY <1>5, <2>1, <2>2 DEF Onward
  <2>4. g[i] = g[k]
    BY <1>4, <1>8 DEF PartFound
  <2> QED
    BY <1>3, <1>8, <2>2, <2>3, <2>4 DEF Agrees, ComesTo
<1>9. CASE g[k].ok
  <2>1. PICK dir, name, r : dir = g[k].entry.cluster /\ name = path.parts[i] /\ r = g[i]
    OBVIOUS
  <2>2. dir \in Dirs /\ Searches(dir) /\ name \in Components
    BY <1>1, <1>3, <1>9, <2>1
  <2>3. r = fat_private_find_file(dir, name, md)
    BY <1>4, <1>9, <2>1 DEF PartFound
  <2>4. ~IsFree(to_fat_name(name))
    BY <2>2, NamesInUse
  <2>5. ComesTo(r, Named(dir, name), md)
    BY <2>2, <2>3, <2>4, SearchAgrees
  <2>6. h[i] = Named(dir, name)
    <3>1. CASE i = 1
      BY <1>2, <1>5, <1>7, <2>1, <3>1
    <3>2. CASE i # 1
      <4>1. PICK s : s = g[k].at /\ h[k] = {s} /\ g[k].entry = EntryAt(s)
        BY <1>2, <1>9, <3>2 DEF Told
      <4>2. {t \in h[k] : "DIRECTORY" \in EntryAt(t).attrs} = {s}
        BY <1>3, <1>9, <4>1
      <4>3. Onward(h[k], name) = Named(EntryAt(s).cluster, name)
        BY <4>2 DEF Onward
      <4> QED
        BY <1>5, <2>1, <3>2, <4>1, <4>3
    <3> QED
      BY <3>1, <3>2
  <2> QED
    BY <2>1, <2>5, <2>6
<1> QED
  BY <1>3, <1>8, <1>9

\* path.c:19: a path leads to the entry the directories say.
LEMMA PathAgrees ==
    ASSUME DirInv, mounted, "full" \notin Usage, NEW path \in Paths, path.absolute, Passable(path),
           path.parts # <<>>, NEW mode
    PROVE  Agrees(fat_find_path(path, mode), Denotes(0, path.parts), IF path.slash THEN {} ELSE mode)
<1>1. PICK n \in Nat \ {0} : n = Len(path.parts)
  BY DirAssumption
<1>2. PICK g : Walks(g, path, mode, n) /\ fat_find_path(path, mode) = g[n]
  BY <1>1, PathSteps
<1>3. PICK h : Leads(h, 0, path.parts, n) /\ Denotes(0, path.parts) = h[n]
  BY <1>1, DenotesSteps
<1> DEFINE T == {k \in 0 .. n : k # 0 /\ k # n => Told(g[k], h[k])}
<1>4. 0 \in T
  OBVIOUS
<1>5. ASSUME NEW k \in 0 .. n - 1, k \in T PROVE k + 1 \in T
  <2>1. PICK i \in 1 .. n : i = k + 1 /\ i - 1 = k
    OBVIOUS
  <2>2. i # 1 => Told(g[i - 1], h[i - 1])
    BY <1>5, <2>1
  <2> SUFFICES ASSUME i # n PROVE Told(g[i], h[i])
    BY <2>1
  <2>3. PICK md : md = PartMode(path, mode, i)
    OBVIOUS
  <2>4. md = {}
    BY <1>1, <2>3 DEF PartMode
  <2>5. /\ Agrees(g[i], h[i], md) /\ g[i].ok \in BOOLEAN
        /\ ~g[i].ok /\ g[i].error = "FILE_EXISTS" => md = {"CREAT", "EXCL"}
    <3>1. ComesTo(g[i], h[i], md)
      BY <1>1, <1>2, <1>3, <2>2, <2>3, PartAgrees
    <3> QED
      BY <3>1 DEF ComesTo
  <2>6. g[i].new = FALSE
    <3>1. i \in 0 .. n - 1
      OBVIOUS
    <3> QED
      BY <1>1, <1>2, <3>1, PathThrough
  <2>7. ~g[i].ok => g[i].error # "FILE_EXISTS"
    BY <2>4, <2>5
  <2> QED
    BY <2>5, <2>6, <2>7 DEF Agrees, Told
<1>6. 0 .. n \subseteq T
  <2> HIDE DEF T
  <2> QED
    BY <1>4, <1>5, Upwards
<1>7. n # 1 => Told(g[n - 1], h[n - 1])
  <2> SUFFICES ASSUME n # 1 PROVE Told(g[n - 1], h[n - 1])
    OBVIOUS
  <2>1. n - 1 \in 0 .. n /\ n - 1 # 0 /\ n - 1 # n
    OBVIOUS
  <2>2. n - 1 \in T
    BY <1>6, <2>1
  <2> QED
    BY <2>1, <2>2
<1>8. PICK md : md = PartMode(path, mode, n)
  OBVIOUS
<1>9. md = IF path.slash THEN {} ELSE mode
  BY <1>1, <1>8 DEF PartMode
<1>10. ComesTo(g[n], h[n], md)
  <2>1. n \in 1 .. n
    OBVIOUS
  <2> HIDE DEF T
  <2> QED
    BY <1>1, <1>2, <1>3, <1>7, <1>8, <2>1, PartAgrees
<1> QED
  BY <1>2, <1>3, <1>9, <1>10 DEF ComesTo

\* name.c:45: the name made of an entry leads back to it.
LEMMA NameLeadsBack ==
    ASSUME DirNamesInv, mounted, "full" \notin Usage, NEW dir \in Dirs, Searches(dir),
           NEW s \in Used(dir), EntryAt(s).attrs # LongFilename
    PROVE  fat_private_find_file(dir, from_fat_name(Name(s)), {}).at = s
<1>1. PICK x, name, md, r :
        /\ x = Name(s) /\ name = from_fat_name(x) /\ md = {}
        /\ r = fat_private_find_file(dir, name, md)
  OBVIOUS
<1>2. Stored(x)
  BY <1>1 DEF DirNamesInv, NamesKept, Used, EntryAt, Name, Dirs
<1>3. to_fat_name(name) = x
  BY <1>1, <1>2, NameKept
<1>4. ~IsFree(x)
  BY <1>1 DEF Used, UsedOn, EntryAt, Name
<1>5. s \in Named(dir, name)
  BY <1>1, <1>3 DEF Named
<1>6. DirInv
  BY DEF DirNamesInv
<1>7. ~IsFree(to_fat_name(name))
  BY <1>3, <1>4
<1>12. ComesTo(r, Named(dir, name), md)
  BY <1>1, <1>6, <1>7, SearchAgrees
<1>8. Agrees(r, Named(dir, name), md) /\ r.ok \in BOOLEAN /\ r.new \in BOOLEAN
  BY <1>12 DEF ComesTo
<1>9. ASSUME ~r.ok, r.error = "FILE_EXISTS" PROVE FALSE
  <2>1. md = {"CREAT", "EXCL"}
    BY <1>9, <1>12 DEF ComesTo
  <2> QED
    BY <1>1, <2>1
<1>10. r.ok /\ ~r.new
  BY <1>1, <1>5, <1>8, <1>9 DEF Agrees
<1>11. r.at = s
  BY <1>5, <1>8, <1>10 DEF Agrees
<1> QED
  BY <1>1, <1>11

\* path.c:73: a directory is changed to exactly when the name is that of one.
LEMMA ChangeAgrees ==
    ASSUME DirInv, mounted, "full" \notin Usage, NEW dir \in Dirs, Searches(dir), NEW name \in Components
    PROVE  ChangedDir(dir, name).ok
              <=> \E s \in Denotes(dir, <<name>>) : "DIRECTORY" \in EntryAt(s).attrs
<1>1. PICK md, r, there :
        md = {} /\ r = fat_private_find_file(dir, name, md) /\ there = Denotes(dir, <<name>>)
  OBVIOUS
<1>2. there = Named(dir, name)
  BY <1>1, DenotesName
<1>3. ~IsFree(to_fat_name(name))
  BY NamesInUse
<1>11. ComesTo(r, there, md)
  BY <1>1, <1>2, <1>3, SearchAgrees
<1>4. Agrees(r, there, md) /\ r.ok \in BOOLEAN /\ r.new \in BOOLEAN
  BY <1>11 DEF ComesTo
<1>5. ASSUME ~r.ok, r.error = "FILE_EXISTS" PROVE FALSE
  <2>1. md = {"CREAT", "EXCL"}
    BY <1>5, <1>11 DEF ComesTo
  <2> QED
    BY <1>1, <2>1
<1>6. ~r.new
  BY <1>1, <1>4 DEF Agrees
<1>7. ChangedDir(dir, name) = IF r.ok /\ "DIRECTORY" \notin r.entry.attrs THEN Failed("NOT_A_DIR") ELSE r
  BY <1>1 DEF ChangedDir
<1>8. Failed("NOT_A_DIR").ok = FALSE
  BY DEF Failed
<1>9. CASE r.ok
  <2>1. there = {r.at} /\ r.entry = EntryAt(r.at)
    BY <1>4, <1>6, <1>9 DEF Agrees
  <2> QED
    BY <1>1, <1>7, <1>8, <1>9, <2>1
<1>10. CASE ~r.ok
  <2>1. there = {}
    BY <1>4, <1>5, <1>10 DEF Agrees
  <2> QED
    BY <1>1, <1>7, <1>10, <2>1
<1> QED
  BY <1>4, <1>9, <1>10

\* What is named is opened, in every state of the invariant.
LEMMA NamedIsOpened ==
    ASSUME DirNamesInv, "full" \notin Usage
    PROVE  OpensWhatIsNamed
<1> SUFFICES ASSUME mounted, NEW mode \in Modes
    PROVE  /\ \A dir \in Dirs, name \in Components : Searches(dir) =>
                Agrees(fat_private_find_file(dir, name, mode), Denotes(dir, <<name>>), mode)
           /\ \A dir \in Dirs, name \in Components : Searches(dir) =>
                (ChangedDir(dir, name).ok
                   <=> \E s \in Denotes(dir, <<name>>) : "DIRECTORY" \in EntryAt(s).attrs)
           /\ \A path \in Paths : path.absolute /\ path.parts # <<>> /\ Passable(path) =>
                Agrees(fat_find_path(path, mode), Denotes(0, path.parts),
                       IF path.slash THEN {} ELSE mode)
           /\ \A dir \in Dirs : Searches(dir) =>
                \A s \in {t \in Used(dir) : EntryAt(t).attrs # LongFilename} :
                    fat_private_find_file(dir, from_fat_name(Name(s)), {}).at = s
  BY DEF OpensWhatIsNamed, Usable
<1>1. DirInv
  BY DEF DirNamesInv
<1>2. ASSUME NEW dir \in Dirs, NEW name \in Components, Searches(dir)
      PROVE  Agrees(fat_private_find_file(dir, name, mode), Denotes(dir, <<name>>), mode)
  <2>1. ~IsFree(to_fat_name(name))
    BY NamesInUse
  <2>2. PICK r : r = fat_private_find_file(dir, name, mode)
    OBVIOUS
  <2>3. Agrees(r, Named(dir, name), mode)
    BY <1>1, <1>2, <2>1, <2>2, SearchAgrees DEF ComesTo
  <2> QED
    BY <2>2, <2>3, DenotesName
<1>3. ASSUME NEW dir \in Dirs, NEW name \in Components, Searches(dir)
      PROVE  ChangedDir(dir, name).ok
                <=> \E s \in Denotes(dir, <<name>>) : "DIRECTORY" \in EntryAt(s).attrs
  BY <1>1, <1>3, ChangeAgrees
<1>4. ASSUME NEW path \in Paths, path.absolute, path.parts # <<>>, Passable(path)
      PROVE  Agrees(fat_find_path(path, mode), Denotes(0, path.parts),
                    IF path.slash THEN {} ELSE mode)
  BY <1>1, <1>4, PathAgrees
<1>5. ASSUME NEW dir \in Dirs, Searches(dir), NEW s \in Used(dir), EntryAt(s).attrs # LongFilename
      PROVE  fat_private_find_file(dir, from_fat_name(Name(s)), {}).at = s
  BY <1>5, NameLeadsBack
<1> QED
  BY <1>2, <1>3, <1>4, <1>5

\* fat.c:209, path.c:19, name.c:45: on every formatted card, whatever was created
\* before, names and paths lead to the entries the directories say.
THEOREM WhatIsNamedIsOpened ==
    ASSUME "full" \notin Usage
    PROVE  Spec => []OpensWhatIsNamed
<1>1. Init => DirNamesInv
  BY InitDirNames
<1>2. DirNamesInv /\ [Next]_vars => DirNamesInv'
  BY NextDirNames
<1>3. DirNamesInv => OpensWhatIsNamed
  BY NamedIsOpened
<1> QED
  BY <1>1, <1>2, <1>3, PTL DEF Spec

-----------------------------------------------------------------------------
(***************************************************************************)
(* Listings.  The slots of a directory are counted from 1.                 *)
(***************************************************************************)
SlotsOn(c, dir) == Len(c.dirs[dir]) * EntriesPerBlock
EntryOn(c, dir, x) ==
    c.blocks[c.dirs[dir][(x - 1) \div EntriesPerBlock + 1]][(x - 1) % EntriesPerBlock]
InUse(c, dir, x) == x \in 1 .. SlotsOn(c, dir) /\ ~IsFree(EntryOn(c, dir, x).name)

\* The names in the slots before p.
NamesBefore(c, dir, p) == {EntryOn(c, dir, x).name : x \in {y \in 1 .. p - 1 : InUse(c, dir, y)}}

\* The descriptor stands at slot m of the b-th block of its directory, clusters
\* having size blocks; of the last cluster it need not know the link.
StandsAt(c, size, d, b, m) ==
    /\ d.index_in_block = m /\ d.block_addr = c.dirs[d.dir][b]
    /\ d.dir # 0 =>
          /\ d.block_in_cluster = (b - 1) % size
          /\ (b - 1) \div size + 1 < Len(c.chains[d.dir]) =>
                d.next_cluster = c.chains[d.dir][(b - 1) \div size + 2]

\* What was there when the listing began and has to be returned.
Due(d) == {e \in d.due : e.attrs \cap d.masked = {}}

\* The listing has returned what it had to of the slots before p.
ListedBefore(c, d, p) ==
    /\ \A x \in 1 .. p - 1 : EntryOn(c, d.dir, x).name # End.name
    /\ d.listed \in Seq(NamesBefore(c, d.dir, p))
    /\ \A e \in Due(d) :
          e.name \in Range(d.listed) \/ \E x \in p .. SlotsOn(c, d.dir) : EntryOn(c, d.dir, x) = e

\* It goes on at slot p, if there is one.
GoesOnAt(c, size, d, p) ==
    p <= SlotsOn(c, d.dir) =>
        StandsAt(c, size, d, (p - 1) \div EntriesPerBlock + 1, (p - 1) % EntriesPerBlock)

ListedAll(c, d) ==
    /\ d.listed \in Seq(NamesBefore(c, d.dir, SlotsOn(c, d.dir) + 1))
    /\ \A e \in Due(d) : e.name \in Range(d.listed)

ListsRight(c, size, d) ==
    /\ d.dir \in DOMAIN c.dirs /\ (d.is_root <=> d.dir = 0)
    /\ \A e \in d.due : ~IsFree(e.name) /\ e.attrs # LongFilename
    /\ \A i, j \in DOMAIN d.listed : d.listed[i] = d.listed[j] => i = j
    /\ IF d.done THEN ListedAll(c, d)
       ELSE \E p \in 1 .. SlotsOn(c, d.dir) + 1 : ListedBefore(c, d, p) /\ GoesOnAt(c, size, d, p)

\* The listings: other descriptors are never asked for an entry.
Listing(d) == ~d.is_free /\ ~d.is_stale /\ d.is_dir /\ (d.is_root \/ d.dir # 0)

IsDesc(d) ==
    d = [is_free |-> d.is_free, is_stale |-> d.is_stale, is_root |-> d.is_root, is_dir |-> d.is_dir,
         block_addr |-> d.block_addr, block_in_cluster |-> d.block_in_cluster,
         index_in_block |-> d.index_in_block, next_cluster |-> d.next_cluster,
         dir |-> d.dir, due |-> d.due, masked |-> d.masked, listed |-> d.listed, done |-> d.done]

DescRight(c, size, d) ==
    /\ IsDesc(d)
    /\ IF Listing(d) THEN ListsRight(c, size, d) ELSE d.listed = <<>> /\ d.done = FALSE

\* Every listing has passed a part of its directory, and returned what it had to.
ListInv ==
    /\ desc = [fd \in Fds |-> desc[fd]]
    /\ \A fd \in Fds : /\ Listing(desc[fd]) => mounted
                       /\ DescRight(card, fat_info.sectors_per_cluster, desc[fd])

\* Slot x is slot m of the i-th block.
IsSlot(c, dir, x, i, m) ==
    /\ x = Place(i, m) /\ EntryOn(c, dir, x) = c.blocks[c.dirs[dir][i]][m]
    /\ (x - 1) \div EntriesPerBlock + 1 = i /\ (x - 1) % EntriesPerBlock = m

\* Behind an end mark there are only end marks.
EndStays(c, dir) ==
    \A x, y \in 1 .. SlotsOn(c, dir) :
        x < y /\ EntryOn(c, dir, x).name = End.name => EntryOn(c, dir, y).name = End.name

\* Every slot is one in a block, and behind an end mark there are only end marks.
LEMMA SlotFacts ==
    ASSUME NEW c, Formatted(c), NEW dir \in DOMAIN c.dirs,
           NEW L, L = Len(c.dirs[dir]), NEW N, N = SlotsOn(c, dir)
    PROVE  /\ L \in Nat /\ N \in Nat /\ N = L * EntriesPerBlock /\ DOMAIN c.dirs[dir] = 1 .. L
           /\ \A x \in 1 .. N : \E i \in 1 .. L, m \in 0 .. EntriesPerBlock - 1 :
                 IsSlot(c, dir, x, i, m)
           /\ \A i \in 1 .. L, m \in 0 .. EntriesPerBlock - 1 :
                 /\ Place(i, m) \in 1 .. N
                 /\ EntryOn(c, dir, Place(i, m)) = c.blocks[c.dirs[dir][i]][m]
           /\ EndStays(c, dir)
<1>0. PICK E \in Nat \ {0} : E = EntriesPerBlock
  BY MountAssumption
<1>1. L \in Nat /\ DOMAIN c.dirs[dir] = 1 .. L
  BY DEF Formatted, DirsApart
<1>2. N = L * EntriesPerBlock /\ N \in Nat
  BY <1>0, <1>1 DEF SlotsOn
<1>3. ASSUME NEW i \in 1 .. L, NEW m \in 0 .. EntriesPerBlock - 1
      PROVE  /\ Place(i, m) \in 1 .. N
             /\ (Place(i, m) - 1) \div EntriesPerBlock + 1 = i
             /\ (Place(i, m) - 1) % EntriesPerBlock = m
             /\ EntryOn(c, dir, Place(i, m)) = c.blocks[c.dirs[dir][i]][m]
  <2>0. \A j \in 1 .. L, k \in 0 .. EntriesPerBlock - 1 :
           /\ Place(j, k) \in 1 .. L * EntriesPerBlock
           /\ (Place(j, k) - 1) \div EntriesPerBlock + 1 = j
           /\ (Place(j, k) - 1) % EntriesPerBlock = k
    BY <1>1, Places
  <2>1. /\ Place(i, m) \in 1 .. N
        /\ (Place(i, m) - 1) \div EntriesPerBlock + 1 = i
        /\ (Place(i, m) - 1) % EntriesPerBlock = m
    BY <1>2, <2>0
  <2> QED
    BY <2>1 DEF EntryOn
<1>4. ASSUME NEW x \in 1 .. N
      PROVE  \E i \in 1 .. L, m \in 0 .. EntriesPerBlock - 1 : IsSlot(c, dir, x, i, m)
  <2>0. \A y \in 1 .. L * EntriesPerBlock :
           \E i \in 1 .. L, m \in 0 .. EntriesPerBlock - 1 : y = Place(i, m)
    BY <1>1, Places
  <2>1. PICK i \in 1 .. L, m \in 0 .. EntriesPerBlock - 1 : x = Place(i, m)
    BY <1>2, <2>0
  <2> QED
    BY <1>3, <2>1 DEF IsSlot
<1>5. ASSUME NEW x \in 1 .. N, NEW y \in 1 .. N, x < y, EntryOn(c, dir, x).name = End.name
      PROVE  EntryOn(c, dir, y).name = End.name
  <2>1. PICK i \in 1 .. L, m \in 0 .. EntriesPerBlock - 1 :
           x = Place(i, m) /\ EntryOn(c, dir, x) = c.blocks[c.dirs[dir][i]][m]
    BY <1>4 DEF IsSlot
  <2>2. PICK j \in 1 .. L, n \in 0 .. EntriesPerBlock - 1 :
           y = Place(j, n) /\ EntryOn(c, dir, y) = c.blocks[c.dirs[dir][j]][n]
    BY <1>4 DEF IsSlot
  <2>3. i \in Nat \ {0} /\ j \in Nat \ {0}
    BY <1>1
  <2>4. i < j \/ (i = j /\ m < n)
    BY <1>5, <2>1, <2>2, <2>3, PlaceOrder
  <2>5. NameOn(c, dir, i, m) = End.name
    BY <1>5, <2>1 DEF NameOn
  <2>6. NameOn(c, dir, j, n) = End.name
    BY <1>1, <2>4, <2>5 DEF Formatted, EntriesSound
  <2> QED
    BY <2>2, <2>6 DEF NameOn
<1>6. EndStays(c, dir)
  BY <1>5 DEF EndStays
<1> QED
  BY <1>1, <1>2, <1>3, <1>4, <1>6

\* Slot x is the slot s of UsedOn.
SlotIs(c, dir, x, s) ==
    InUse(c, dir, x) /\ s \in UsedOn(c, dir) /\ EntryOn(c, dir, x) = c.blocks[s.addr][s.index]

\* The slots in use are those of UsedOn, and differ in their names.
LEMMA SlotsInUse ==
    ASSUME NEW c, Formatted(c), NEW dir \in DOMAIN c.dirs
    PROVE  /\ \A s \in UsedOn(c, dir) : \E x : SlotIs(c, dir, x, s)
           /\ \A x : InUse(c, dir, x) => \E s : SlotIs(c, dir, x, s)
           /\ \A x, y : InUse(c, dir, x) /\ InUse(c, dir, y) =>
                 (EntryOn(c, dir, x).name = EntryOn(c, dir, y).name => x = y)
<1>1. PICK L, N : L = Len(c.dirs[dir]) /\ N = SlotsOn(c, dir)
  OBVIOUS
<1>2. DOMAIN c.dirs[dir] = 1 .. L
  BY <1>1, SlotFacts
<1>3. ASSUME NEW s \in UsedOn(c, dir)
      PROVE  \E x : SlotIs(c, dir, x, s)
  <2>1. /\ s \in [addr : Range(c.dirs[dir]), index : 0 .. EntriesPerBlock - 1]
        /\ ~IsFree(c.blocks[s.addr][s.index].name)
    BY DEF UsedOn
  <2>2. PICK i \in 1 .. L : s.addr = c.dirs[dir][i]
    BY <1>2, <2>1 DEF Range
  <2>3. PICK m \in 0 .. EntriesPerBlock - 1 : s.index = m
    BY <2>1
  <2>4. Place(i, m) \in 1 .. N /\ EntryOn(c, dir, Place(i, m)) = c.blocks[c.dirs[dir][i]][m]
    <3>1. \A j \in 1 .. L, n \in 0 .. EntriesPerBlock - 1 :
             /\ Place(j, n) \in 1 .. N
             /\ EntryOn(c, dir, Place(j, n)) = c.blocks[c.dirs[dir][j]][n]
      BY <1>1, SlotFacts
    <3> QED
      BY <3>1, Zenon
  <2> QED
    BY <1>1, <2>1, <2>2, <2>3, <2>4 DEF InUse, SlotIs
<1>4. ASSUME NEW x, InUse(c, dir, x)
      PROVE  \E i \in 1 .. L, m \in 0 .. EntriesPerBlock - 1 : \E s \in UsedOn(c, dir) :
                /\ x = Place(i, m) /\ s = [addr |-> c.dirs[dir][i], index |-> m]
                /\ EntryOn(c, dir, x) = c.blocks[s.addr][s.index]
  <2>1. x \in 1 .. N /\ ~IsFree(EntryOn(c, dir, x).name)
    BY <1>1, <1>4 DEF InUse
  <2>2. PICK i \in 1 .. L, m \in 0 .. EntriesPerBlock - 1 :
           x = Place(i, m) /\ EntryOn(c, dir, x) = c.blocks[c.dirs[dir][i]][m]
    BY <1>1, <2>1, SlotFacts DEF IsSlot
  <2>3. PICK s : s = [addr |-> c.dirs[dir][i], index |-> m]
    OBVIOUS
  <2>4. s.addr = c.dirs[dir][i] /\ s.index = m
    BY <2>3
  <2>5. s \in [addr : Range(c.dirs[dir]), index : 0 .. EntriesPerBlock - 1]
    BY <1>2, <2>3 DEF Range
  <2>6. s \in UsedOn(c, dir) /\ EntryOn(c, dir, x) = c.blocks[s.addr][s.index]
    BY <2>1, <2>2, <2>4, <2>5 DEF UsedOn
  <2> QED
    BY <2>2, <2>3, <2>6
<1>5. ASSUME NEW x, NEW y, InUse(c, dir, x), InUse(c, dir, y),
             EntryOn(c, dir, x).name = EntryOn(c, dir, y).name
      PROVE  x = y
  <2>1. PICK i \in 1 .. L, m \in 0 .. EntriesPerBlock - 1, s \in UsedOn(c, dir) :
                /\ x = Place(i, m) /\ s = [addr |-> c.dirs[dir][i], index |-> m]
                /\ EntryOn(c, dir, x) = c.blocks[s.addr][s.index]
    BY <1>4, <1>5
  <2>2. PICK j \in 1 .. L, n \in 0 .. EntriesPerBlock - 1, t \in UsedOn(c, dir) :
                /\ y = Place(j, n) /\ t = [addr |-> c.dirs[dir][j], index |-> n]
                /\ EntryOn(c, dir, y) = c.blocks[t.addr][t.index]
    BY <1>4, <1>5
  <2>3. s = t
    BY <1>5, <2>1, <2>2 DEF Formatted, EntriesSound
  <2>4. c.dirs[dir][i] = c.dirs[dir][j] /\ m = n
    BY <2>1, <2>2, <2>3
  <2>5. i \in DOMAIN c.dirs[dir] /\ j \in DOMAIN c.dirs[dir]
    BY <1>2
  <2>6. i = j
    BY <2>4, <2>5 DEF Formatted, DirsApart
  <2> QED
    BY <2>1, <2>2, <2>4, <2>6
<1>6. ASSUME NEW x, InUse(c, dir, x) PROVE \E s : SlotIs(c, dir, x, s)
  BY <1>4, <1>6 DEF SlotIs
<1> QED
  BY <1>3, <1>5, <1>6

\* A creation leaves every slot as it is but one that was free and is then not.
LEMMA CreateKeepsSlots ==
    ASSUME NEW c, Formatted(c), NEW to, Creates(c, to)
    PROVE  /\ Formatted(to) /\ to.dirs = c.dirs /\ to.chains = c.chains
           /\ \A dir, x : EntryOn(to, dir, x) = EntryOn(c, dir, x)
                  \/ (IsFree(EntryOn(c, dir, x).name) /\ ~IsFree(EntryOn(to, dir, x).name))
<1> SUFFICES ASSUME to # c
             PROVE  /\ to.dirs = c.dirs /\ to.chains = c.chains
                    /\ \A dir, x : EntryOn(to, dir, x) = EntryOn(c, dir, x)
                          \/ (IsFree(EntryOn(c, dir, x).name) /\ ~IsFree(EntryOn(to, dir, x).name))
  BY DEF Creates
<1>0. PICK E \in Nat \ {0} : E = EntriesPerBlock
  BY MountAssumption
<1>1. PICK d \in DOMAIN c.dirs : \E addr \in Range(c.dirs[d]), i \in 0 .. EntriesPerBlock - 1 :
              /\ IsFree(c.blocks[addr][i].name)
              /\ to = [c EXCEPT !.blocks[addr][i] = to.blocks[addr][i]]
              /\ \E name \in Components : to.blocks[addr][i] = NewEntry(to_fat_name(name))
  BY DEF Creates
<1>2. PICK a \in Range(c.dirs[d]), m \in 0 .. E - 1 :
              /\ IsFree(c.blocks[a][m].name)
              /\ to = [c EXCEPT !.blocks[a][m] = to.blocks[a][m]]
              /\ \E name \in Components : to.blocks[a][m] = NewEntry(to_fat_name(name))
  BY <1>0, <1>1
<1>3. PICK entry, w : entry = to.blocks[a][m] /\ w = [c.blocks EXCEPT ![a][m] = entry]
  OBVIOUS
<1>4. to = [c EXCEPT !.blocks = w]
  BY <1>2, <1>3
<1>5. to.blocks = w /\ to.dirs = c.dirs /\ to.chains = c.chains
  BY <1>4 DEF Formatted
<1>6. ~IsFree(entry.name)
  <2>1. PICK name \in Components : entry = NewEntry(to_fat_name(name))
    BY <1>2, <1>3
  <2>2. entry.name = to_fat_name(name)
    BY <2>1 DEF NewEntry
  <2> QED
    BY <2>2, NamesInUse
<1>7. \A x, k : w[x][k] = c.blocks[x][k] \/ (x = a /\ k = m /\ w[x][k] = entry)
  BY <1>3
<1>8. ASSUME NEW dir, NEW x
      PROVE  EntryOn(to, dir, x) = EntryOn(c, dir, x)
                \/ (IsFree(EntryOn(c, dir, x).name) /\ ~IsFree(EntryOn(to, dir, x).name))
  <2>1. PICK b, k : /\ b = c.dirs[dir][(x - 1) \div EntriesPerBlock + 1]
                    /\ k = (x - 1) % EntriesPerBlock
    OBVIOUS
  <2>2. EntryOn(c, dir, x) = c.blocks[b][k] /\ EntryOn(to, dir, x) = w[b][k]
    BY <1>5, <2>1 DEF EntryOn
  <2>3. CASE w[b][k] = c.blocks[b][k]
    BY <2>2, <2>3
  <2>4. CASE b = a /\ k = m /\ w[b][k] = entry
    BY <1>2, <1>6, <2>2, <2>4
  <2> QED
    BY <1>7, <2>3, <2>4
<1> QED
  BY <1>5, <1>8

\* So what a listing has returned is still there, and it still has to return the
\* same entries.
LEMMA CreateKeepsListing ==
    ASSUME NEW c, Formatted(c), NEW to, Creates(c, to), NEW size, NEW d, DescRight(c, size, d)
    PROVE  DescRight(to, size, d)
<1> SUFFICES ASSUME Listing(d), ListsRight(c, size, d)
             PROVE  ListsRight(to, size, d)
  BY DEF DescRight
<1>1. /\ to.dirs = c.dirs /\ to.chains = c.chains
      /\ \A dir, x : EntryOn(to, dir, x) = EntryOn(c, dir, x)
            \/ (IsFree(EntryOn(c, dir, x).name) /\ ~IsFree(EntryOn(to, dir, x).name))
  BY CreateKeepsSlots
<1>2. PICK N : N = SlotsOn(c, d.dir) /\ N = SlotsOn(to, d.dir)
  BY <1>1 DEF SlotsOn
<1>3. ASSUME NEW p PROVE NamesBefore(c, d.dir, p) \subseteq NamesBefore(to, d.dir, p)
  <2> SUFFICES ASSUME NEW n \in NamesBefore(c, d.dir, p) PROVE n \in NamesBefore(to, d.dir, p)
    OBVIOUS
  <2>1. PICK x \in 1 .. p - 1 : InUse(c, d.dir, x) /\ n = EntryOn(c, d.dir, x).name
    BY DEF NamesBefore
  <2>2. InUse(to, d.dir, x) /\ n = EntryOn(to, d.dir, x).name
    BY <1>1, <1>2, <2>1 DEF InUse
  <2> QED
    BY <2>2 DEF NamesBefore
<1>4. ASSUME NEW p, d.listed \in Seq(NamesBefore(c, d.dir, p))
      PROVE  d.listed \in Seq(NamesBefore(to, d.dir, p))
  BY <1>3, <1>4
<1>5. CASE d.done
  <2>1. ListedAll(c, d)
    BY <1>5 DEF ListsRight
  <2>2. ListedAll(to, d)
    BY <1>2, <1>4, <2>1 DEF ListedAll
  <2> QED
    BY <1>1, <1>5, <2>2 DEF ListsRight
<1>6. CASE ~d.done
  <2>1. PICK p \in 1 .. N + 1 : ListedBefore(c, d, p) /\ GoesOnAt(c, size, d, p)
    BY <1>2, <1>6 DEF ListsRight
  <2>2. GoesOnAt(to, size, d, p)
    BY <1>1, <1>2, <2>1 DEF GoesOnAt, StandsAt
  <2>3. \A x \in 1 .. p - 1 : EntryOn(to, d.dir, x).name # End.name
    BY <1>1, <2>1 DEF ListedBefore, IsFree
  <2>4. ASSUME NEW e \in Due(d)
        PROVE  e.name \in Range(d.listed) \/ \E x \in p .. N : EntryOn(to, d.dir, x) = e
    <3>1. ~IsFree(e.name)
      BY DEF Due, ListsRight
    <3>2. e.name \in Range(d.listed) \/ \E x \in p .. N : EntryOn(c, d.dir, x) = e
      BY <1>2, <2>1 DEF ListedBefore
    <3> QED
      BY <1>1, <3>1, <3>2
  <2>5. ListedBefore(to, d, p)
    BY <1>2, <1>4, <2>1, <2>3, <2>4 DEF ListedBefore
  <2> QED
    BY <1>1, <1>2, <1>6, <2>2, <2>5 DEF ListsRight
<1> QED
  BY <1>5, <1>6

\* What a listing has done is not changed by moving on.
SameListing(f, d) ==
    /\ f.is_free = d.is_free /\ f.is_stale = d.is_stale /\ f.is_root = d.is_root
    /\ f.is_dir = d.is_dir /\ f.dir = d.dir /\ f.due = d.due /\ f.masked = d.masked
    /\ f.listed = d.listed /\ f.done = d.done

\* seek_advance inside a block, to the next block, and to the next cluster.
LEMMA AdvanceMoves ==
    ASSUME NEW d, IsDesc(d), NEW f, f = SeekAdvance(d), NEW S, S = fat_info.sectors_per_cluster
    PROVE  /\ IsDesc(f) /\ SameListing(f, d)
           /\ IF d.index_in_block + 1 < EntriesPerBlock
              THEN /\ f.index_in_block = d.index_in_block + 1 /\ f.block_addr = d.block_addr
                   /\ f.block_in_cluster = d.block_in_cluster /\ f.next_cluster = d.next_cluster
              ELSE /\ f.index_in_block = 0
                   /\ d.is_root \/ d.block_in_cluster + 1 # S =>
                         /\ f.block_addr = d.block_addr + 1
                         /\ f.block_in_cluster = d.block_in_cluster + 1
                         /\ f.next_cluster = d.next_cluster
                   /\ (~d.is_root /\ d.block_in_cluster + 1 = S /\ IsCluster(Fat, d.next_cluster))
                         => /\ f.block_addr = BlockOf(d.next_cluster)
                            /\ f.block_in_cluster = 0
                            /\ f.next_cluster = read_fat_entry(d.next_cluster)
<1>1. DOMAIN d = {"is_free", "is_stale", "is_root", "is_dir", "block_addr", "block_in_cluster",
                  "index_in_block", "next_cluster", "dir", "due", "masked", "listed", "done"}
  BY DEF IsDesc
<1>2. CASE d.index_in_block + 1 < EntriesPerBlock
  <2>1. f = [d EXCEPT !.index_in_block = d.index_in_block + 1]
    BY <1>2 DEF SeekAdvance
  <2> QED
    BY <1>1, <1>2, <2>1 DEF IsDesc, SameListing
<1>3. CASE ~(d.index_in_block + 1 < EntriesPerBlock)
  <2>1. PICK e : e = [d EXCEPT !.index_in_block = 0, !.block_in_cluster = d.block_in_cluster + 1]
    OBVIOUS
  <2>2. /\ IsDesc(e) /\ SameListing(e, d) /\ e.block_in_cluster = d.block_in_cluster + 1
        /\ e.index_in_block = 0 /\ e.block_addr = d.block_addr /\ e.next_cluster = d.next_cluster
    BY <1>1, <2>1 DEF IsDesc, SameListing
  <2>3. DOMAIN e = DOMAIN d
    BY <2>1
  <2>4. f = CASE e.block_in_cluster # S \/ d.is_root -> [e EXCEPT !.block_addr = e.block_addr + 1]
              [] e.block_in_cluster = S /\ ~d.is_root /\ IsCluster(Fat, d.next_cluster) ->
                   [e EXCEPT !.block_addr = BlockOf(d.next_cluster), !.block_in_cluster = 0,
                             !.next_cluster = read_fat_entry(d.next_cluster)]
              [] e.block_in_cluster = S /\ ~d.is_root /\ ~IsCluster(Fat, d.next_cluster) -> e
    BY <1>3, <2>1 DEF SeekAdvance
  <2>5. CASE e.block_in_cluster # S \/ d.is_root
    <3>1. f = [e EXCEPT !.block_addr = e.block_addr + 1]
      BY <2>4, <2>5
    <3> QED
      BY <1>1, <1>3, <2>2, <2>3, <2>5, <3>1 DEF IsDesc, SameListing
  <2>6. CASE e.block_in_cluster = S /\ ~d.is_root /\ IsCluster(Fat, d.next_cluster)
    <3>1. f = [e EXCEPT !.block_addr = BlockOf(d.next_cluster), !.block_in_cluster = 0,
                        !.next_cluster = read_fat_entry(d.next_cluster)]
      BY <2>4, <2>6
    <3> QED
      BY <1>1, <1>3, <2>2, <2>3, <2>6, <3>1 DEF IsDesc, SameListing
  <2>7. CASE e.block_in_cluster = S /\ ~d.is_root /\ ~IsCluster(Fat, d.next_cluster)
    <3>1. f = e
      BY <2>4, <2>7
    <3> QED
      BY <1>1, <1>3, <2>2, <2>3, <2>7, <3>1
  <2> QED
    BY <2>5, <2>6, <2>7
<1> QED
  BY <1>2, <1>3

\* Block b of directory dir but the root, which is block r of its q-th cluster,
\* counted from 0.
AtBlock(dir, S, chain, b, q, r) ==
    /\ (b - 1) \div S = q /\ (b - 1) % S = r
    /\ q + 1 \in 1 .. Len(chain) /\ chain[q + 1] \in Nat /\ IsCluster(Fat, chain[q + 1])
    /\ card.dirs[dir][b] = BlockOf(chain[q + 1]) + r /\ BlockOf(chain[q + 1]) \in Int

\* The blocks of a directory but the root are those of the clusters of its chain.
LEMMA BlockPlaced ==
    ASSUME DirInv, mounted, NEW dir \in Dirs, dir # 0,
           NEW S, S = fat_info.sectors_per_cluster, NEW chain, chain = card.chains[dir]
    PROVE  /\ S \in Nat \ {0} /\ Follows(Fat, chain) /\ chain[1] = dir
           /\ Len(chain) \in Nat \ {0} /\ Len(card.dirs[dir]) = Len(chain) * S
           /\ \A b \in 1 .. Len(card.dirs[dir]), q \in Nat, r \in 0 .. S - 1 :
                 b - 1 = q * S + r => AtBlock(dir, S, chain, b, q, r)
<1>1. /\ LaidOut(card) /\ ChainsLinked(card) /\ DirsPlaced(card)
      /\ card.layout.data \in Nat /\ card.layout.sectors \in Nat
      /\ fat_info.fat0_offset = card.layout.fat0
      /\ fat_info.sectors_per_fat = card.layout.sectors
      /\ fat_info.data_offset = card.layout.data
      /\ fat_info.sectors_per_cluster = Volume(card).sectors_per_cluster
      /\ Volume(card).sectors_per_cluster \in Nat \ {0}
      /\ 2 ^ fat_info.log_sectors_per_cluster = Volume(card).sectors_per_cluster
  BY MountedAreas
<1>2. S \in Nat \ {0} /\ S = Volume(card).sectors_per_cluster
  BY <1>1
<1>3. dir \in DOMAIN card.chains
  BY <1>1 DEF ChainsLinked, Dirs
<1>4. PICK fat : fat = FatOf(card) /\ fat = Fat
  BY <1>1 DEF Fat, FatOf
<1>5. /\ IsFiniteSet(DOMAIN fat) /\ DOMAIN fat \subseteq Nat
      /\ Follows(fat, chain) /\ chain[1] = dir
  <2>1. Follows(fat, chain) /\ chain[1] = dir
    BY <1>1, <1>3, <1>4 DEF ChainsLinked
  <2>2. PICK sectors \in Nat : sectors = card.layout.sectors
    BY <1>1
  <2>2a. PICK first, blocks : fat = FatAt(blocks, first, sectors)
    BY <1>1, <1>4, <2>2 DEF FatOf
  <2> QED
    BY <2>1, <2>2, <2>2a, FatClusters
<1>6. PICK L \in Nat \ {0} : L = Len(chain)
  BY <1>5, ChainInFat
<1>7. \A k \in 1 .. L : chain[k] \in DOMAIN fat /\ chain[k] \in Nat /\ chain[k] >= 2
  BY <1>5, <1>6 DEF Follows
<1>8. PICK data \in Nat : data = card.layout.data
  BY <1>1
<1>9. card.dirs[dir] = [i \in 1 .. L * S |-> data + (chain[(i - 1) \div S + 1] - 2) * S
                                               + ((i - 1) % S)]
  BY <1>1, <1>2, <1>6, <1>8 DEF DirsPlaced, BlocksAt, Dirs
<1>10. L * S \in Nat
  BY <1>2
<1>11. Len(card.dirs[dir]) = L * S
  BY <1>9, <1>10
<1>12. ASSUME NEW b \in 1 .. L * S, NEW q \in Nat, NEW r \in 0 .. S - 1, b - 1 = q * S + r
       PROVE  AtBlock(dir, S, chain, b, q, r)
  <2>1. r \in Nat /\ r < S
    BY <1>2
  <2>2. (b - 1) \div S = q /\ (b - 1) % S = r
    <3>1. PICK a : a = b - 1 /\ a = q * S + r
      BY <1>12
    <3>2. a = q * S + r /\ S \in Nat \ {0}
      BY <1>2, <3>1
    <3>3. a \in Nat /\ a \div S = q /\ a % S = r
      <4>1. \A n \in Nat \ {0} : r < n /\ a = q * n + r => a \in Nat /\ a \div n = q /\ a % n = r
        BY <2>1, Splits
      <4> QED
        BY <2>1, <3>2, <4>1, ZenonT(40)
    <3> QED
      BY <3>1, <3>3
  <2>3. q < L
    <3>1. L < q => L * S + S <= q * S
      BY <1>2, ProductOrder
    <3>2. q * S \in Nat /\ q * S < L * S
      BY <1>2, <1>10, <1>12, <2>1
    <3>3. L # q
      BY <3>2
    <3> QED
      BY <1>2, <1>10, <3>1, <3>2, <3>3
  <2>4. q + 1 \in 1 .. L
    BY <2>3
  <2>5. PICK k \in Nat : k = chain[q + 1] /\ k \in DOMAIN fat /\ k >= 2
    BY <1>7, <2>4
  <2>6. BlockOf(k) = data + (k - 2) * S /\ BlockOf(k) \in Int
    BY <1>1, <1>2, <1>8 DEF BlockOf
  <2>7. card.dirs[dir][b] = data + (k - 2) * S + r
    BY <1>9, <2>2, <2>5
  <2> QED
    BY <1>4, <1>6, <2>2, <2>4, <2>5, <2>6, <2>7 DEF AtBlock, IsCluster
<1> QED
  BY <1>2, <1>4, <1>5, <1>6, <1>11, <1>12

\* The cursor of a listing moves from each slot of the directory to the next.
LEMMA AdvanceStands ==
    ASSUME DirInv, mounted, NEW d, IsDesc(d), d.dir \in Dirs, d.is_root <=> d.dir = 0,
           NEW S, S = fat_info.sectors_per_cluster, NEW N, N = SlotsOn(card, d.dir),
           NEW x \in 1 .. N, GoesOnAt(card, S, d, x), NEW f, f = SeekAdvance(d)
    PROVE  GoesOnAt(card, S, f, x + 1)
<1>0. PICK E \in Nat \ {0} : E = EntriesPerBlock
  BY MountAssumption
<1>1. PICK dir, L : dir = d.dir /\ L = Len(card.dirs[dir])
  OBVIOUS
<1>2. Formatted(card) /\ dir \in DOMAIN card.dirs /\ dir \in Dirs
  BY <1>1 DEF DirInv, Dirs
<1>3. /\ L \in Nat /\ N \in Nat
      /\ \A y \in 1 .. N : \E i \in 1 .. L, m \in 0 .. E - 1 : IsSlot(card, dir, y, i, m)
  BY <1>0, <1>1, <1>2, SlotFacts
<1>4. f.dir = dir /\ f.is_root = d.is_root
  BY <1>1, AdvanceMoves DEF SameListing
<1> SUFFICES ASSUME x + 1 \in 1 .. N
             PROVE  StandsAt(card, S, f, (x + 1 - 1) \div E + 1, (x + 1 - 1) % E)
  BY <1>0, <1>1, <1>3, <1>4 DEF GoesOnAt
<1>5. PICK b \in 1 .. L, m \in 0 .. E - 1 :
          x = Place(b, m) /\ (x - 1) \div E + 1 = b /\ (x - 1) % E = m
  BY <1>0, <1>3 DEF IsSlot
<1>6. StandsAt(card, S, d, b, m)
  BY <1>0, <1>1, <1>3, <1>5 DEF GoesOnAt
<1>7. PICK i \in 1 .. L, k \in 0 .. E - 1 :
          x + 1 = Place(i, k) /\ (x + 1 - 1) \div E + 1 = i /\ (x + 1 - 1) % E = k
  BY <1>0, <1>3 DEF IsSlot
<1> SUFFICES StandsAt(card, S, f, i, k)
  BY <1>7
<1>8. d.index_in_block = m /\ d.block_addr = card.dirs[dir][b]
  BY <1>1, <1>6 DEF StandsAt
<1>9. b \in Nat \ {0} /\ i \in Nat \ {0} /\ b <= L /\ i <= L /\ m \in Nat /\ m <= E - 1
  BY <1>0, <1>3
<1>10. CASE m + 1 < E
  <2>1. Place(b, m + 1) = x + 1
    <3>1. (b - 1) * E \in Int
      BY <1>0, <1>9
    <3> QED
      BY <1>0, <1>5, <1>9, <3>1 DEF Place
  <2>2. m + 1 \in 0 .. E - 1
    BY <1>0, <1>9, <1>10
  <2>3. i = b /\ k = m + 1
    BY <1>0, <1>7, <1>9, <2>1, <2>2, PlaceOrder
  <2>4. /\ f.index_in_block = m + 1 /\ f.block_addr = d.block_addr
        /\ f.block_in_cluster = d.block_in_cluster /\ f.next_cluster = d.next_cluster
    BY <1>0, <1>8, <1>10, AdvanceMoves
  <2> QED
    BY <1>1, <1>4, <1>6, <1>8, <2>3, <2>4 DEF StandsAt
<1>11. CASE ~(m + 1 < E)
  <2>1. Place(b + 1, 0) = x + 1
    <3>1. (b - 1) * E \in Int /\ (b + 1 - 1) * E = (b - 1) * E + E
      BY <1>0, <1>9
    <3> QED
      BY <1>0, <1>5, <1>9, <1>11, <3>1 DEF Place
  <2>2. 0 \in 0 .. E - 1 /\ b + 1 \in Nat \ {0}
    BY <1>0, <1>9
  <2>3. i = b + 1 /\ k = 0
    BY <1>0, <1>7, <1>9, <2>1, <2>2, PlaceOrder
  <2>4. b + 1 \in 1 .. L
    BY <1>9, <2>3
  <2>5. f.index_in_block = 0
    BY <1>0, <1>8, <1>11, AdvanceMoves
  <2>6. CASE dir = 0
    <3>1. f.block_addr = d.block_addr + 1
      BY <1>0, <1>1, <1>8, <1>11, <2>6, AdvanceMoves
    <3>2. PICK root \in Nat, data \in Nat : root = card.layout.root /\ data = card.layout.data
      BY MountedAreas
    <3>3. DirsPlaced(card) /\ root <= data
      BY <3>2, MountedAreas
    <3>4. card.dirs[dir] = [j \in 1 .. data - root |-> root + j - 1]
      BY <1>2, <2>6, <3>2, <3>3 DEF DirsPlaced, BlocksAt
    <3>5. L = data - root
      BY <1>1, <3>2, <3>3, <3>4
    <3>6. card.dirs[dir][b + 1] = card.dirs[dir][b] + 1
      BY <1>9, <2>4, <3>2, <3>4, <3>5
    <3> QED
      BY <1>4, <1>8, <2>3, <2>5, <2>6, <3>1, <3>6 DEF StandsAt
  <2>7. CASE dir # 0
    <3>1. PICK chain : chain = card.chains[dir]
      OBVIOUS
    <3>2. /\ S \in Nat \ {0} /\ Follows(Fat, chain) /\ Len(chain) \in Nat \ {0}
          /\ \A j \in 1 .. L, q \in Nat, r \in 0 .. S - 1 :
                j - 1 = q * S + r => AtBlock(dir, S, chain, j, q, r)
      BY <1>1, <1>2, <2>7, <3>1, BlockPlaced
    <3>3. PICK q \in Nat, r \in 0 .. S - 1 : b - 1 = q * S + r
      <4>1. PICK a \in Nat : a = b - 1
        BY <1>9
      <4>2. S \in Nat \ {0}
        BY <3>2
      <4>3. a \div S \in Nat /\ a % S \in 0 .. S - 1 /\ a = (a \div S) * S + (a % S)
        BY <4>2, Quotient
      <4> QED
        BY <4>1, <4>3
    <3>4. AtBlock(dir, S, chain, b, q, r)
      BY <3>2, <3>3
    <3>5. /\ d.block_in_cluster = r
          /\ q + 1 < Len(chain) => d.next_cluster = chain[q + 2]
      BY <1>1, <1>6, <2>7, <3>1, <3>4 DEF StandsAt, AtBlock
    <3>6. ~d.is_root
      BY <1>1, <2>7
    <3>7. CASE r + 1 # S
      <4>1. r + 1 \in 0 .. S - 1 /\ b + 1 - 1 = q * S + (r + 1)
        <5>1. S \in Nat /\ q * S \in Nat
          BY <3>2
        <5>2. r + 1 \in 0 .. S - 1
          BY <3>7, <5>1
        <5> QED
          BY <1>9, <3>3, <5>1, <5>2
      <4>2. AtBlock(dir, S, chain, b + 1, q, r + 1)
        BY <2>4, <3>2, <4>1
      <4>3. card.dirs[dir][b + 1] = card.dirs[dir][b] + 1
        BY <3>2, <3>3, <3>4, <4>2 DEF AtBlock
      <4>4. /\ f.block_addr = d.block_addr + 1 /\ f.block_in_cluster = r + 1
            /\ f.next_cluster = d.next_cluster
        BY <1>0, <1>8, <1>11, <3>5, <3>7, AdvanceMoves
      <4>5. (i - 1) \div S = q /\ (i - 1) % S = r + 1 /\ q + 1 \in 1 .. Len(chain)
        BY <2>3, <4>2 DEF AtBlock
      <4>6. q + 1 < Len(chain) => f.next_cluster = chain[q + 2]
        BY <3>5, <4>4
      <4> QED
        BY <1>4, <1>8, <2>3, <2>5, <3>1, <4>3, <4>4, <4>5, <4>6 DEF StandsAt
    <3>8. CASE r + 1 = S
      <4>1. q + 1 \in Nat /\ 0 \in 0 .. S - 1 /\ b + 1 - 1 = (q + 1) * S + 0
        <5>1. S \in Nat /\ q * S \in Nat /\ (q + 1) * S = q * S + S /\ 0 \in 0 .. S - 1
          BY <3>2
        <5>2. b = q * S + r + 1 /\ r \in Nat
          BY <1>9, <3>3, <5>1
        <5> QED
          BY <3>8, <5>1, <5>2
      <4>2. AtBlock(dir, S, chain, b + 1, q + 1, 0)
        BY <2>4, <3>2, <4>1
      <4>3. PICK next : next = chain[q + 2]
        OBVIOUS
      <4>4. /\ next \in Nat /\ IsCluster(Fat, next) /\ q + 2 \in 1 .. Len(chain)
            /\ card.dirs[dir][b + 1] = BlockOf(next) /\ BlockOf(next) \in Int
        BY <4>2, <4>3 DEF AtBlock
      <4>5. d.next_cluster = next
        BY <3>2, <3>5, <4>3, <4>4
      <4>6. /\ f.block_addr = BlockOf(next) /\ f.block_in_cluster = 0
            /\ f.next_cluster = Fat[next]
        <5>1. ~d.is_root /\ d.block_in_cluster + 1 = S /\ IsCluster(Fat, d.next_cluster)
          BY <3>5, <3>6, <3>8, <4>4, <4>5
        <5>2. ~(d.index_in_block + 1 < EntriesPerBlock)
          BY <1>0, <1>8, <1>11
        <5>3. /\ f.block_addr = BlockOf(d.next_cluster) /\ f.block_in_cluster = 0
              /\ f.next_cluster = read_fat_entry(d.next_cluster)
          BY <5>1, <5>2, AdvanceMoves
        <5>4. read_fat_entry(next) = Fat[next]
          BY <4>4, MountedAreas, ReadsFat DEF IsCluster
        <5> QED
          BY <4>5, <5>3, <5>4
      <4>7. q + 2 < Len(chain) => Fat[next] = chain[q + 3]
        <5>1. DOMAIN chain = 1 .. Len(chain)
          BY <3>2 DEF Follows
        <5>2. \A j \in 1 .. Len(chain) : j < Len(chain) => Fat[chain[j]] = chain[j + 1]
          BY <3>2, <5>1 DEF Follows
        <5>3. q + 2 < Len(chain) => Fat[chain[q + 2]] = chain[q + 2 + 1]
          BY <4>4, <5>2
        <5> QED
          BY <4>3, <5>3
      <4>8. (b + 1 - 1) \div S = q + 1 /\ (b + 1 - 1) % S = 0
        BY <4>2 DEF AtBlock
      <4> QED
        BY <1>4, <2>3, <2>5, <3>1, <4>4, <4>6, <4>7, <4>8 DEF StandsAt
    <3> QED
      BY <3>2, <3>7, <3>8
  <2> QED
    BY <2>6, <2>7
<1> QED
  BY <1>10, <1>11

\* One turn of the loop of fat_get_next_dir_entry, and whether there is another.
Took(d) ==
    [d |-> SeekAdvance(d), entry |-> EntryAt([addr |-> d.block_addr, index |-> d.index_in_block])]
Turn(w, mask) == IF Skipped(w.entry, mask) /\ Readable(w.d.block_addr) THEN Took(w.d) ELSE w

\* g is the state of the loop after each number of further turns, up to n.
Turns(g, d, mask, n) == g[0] = Took(d) /\ \A i \in 1 .. n : g[i] = Turn(g[i - 1], mask)

\* A listing passes the entries one by one.
LEMMA PassSteps ==
    ASSUME NEW d, NEW mask, NEW n \in Nat, n = EntriesPerBlock * Cardinality(DOMAIN card.blocks)
    PROVE  \E g : Turns(g, d, mask, n) /\ Pass(d, mask) = g[n]
<1> DEFINE Here(e) == EntryAt([addr |-> e.block_addr, index |-> e.index_in_block])
           Body(h) == [i \in 0 .. n |->
                         IF i = 0 THEN [d |-> SeekAdvance(d), entry |-> Here(d)]
                         ELSE LET w == h[i - 1] IN
                              IF Skipped(w.entry, mask) /\ Readable(w.d.block_addr)
                              THEN [d |-> SeekAdvance(w.d), entry |-> Here(w.d)] ELSE w]
           walk == CHOOSE h : h = Body(h)
           T == {m \in 0 .. n : \E g : Turns(g, d, mask, m)}
<1>1. Pass(d, mask) = walk[n]
  BY DEF Pass
<1>2. ASSUME NEW h, NEW i \in 0 .. n
      PROVE  Body(h)[i] = IF i = 0 THEN Took(d) ELSE Turn(h[i - 1], mask)
  BY DEF Took, Turn
<1>3. \A h : DOMAIN Body(h) = 0 .. n /\ Body(h) = [i \in 0 .. n |-> Body(h)[i]]
  OBVIOUS
<1> HIDE DEF Body
<1>4. 0 \in T
  <2>1. Turns([i \in {0} |-> Took(d)], d, mask, 0)
    BY DEF Turns
  <2>2. \E g : Turns(g, d, mask, 0)
    BY <2>1
  <2> QED
    BY <2>2
<1>5. ASSUME NEW m \in 0 .. n - 1, m \in T PROVE m + 1 \in T
  <2>1. PICK g : Turns(g, d, mask, m)
    BY <1>5
  <2> DEFINE h == [i \in 0 .. m + 1 |-> IF i = m + 1 THEN Turn(g[m], mask) ELSE g[i]]
  <2>2. h[0] = g[0]
    OBVIOUS
  <2>3. ASSUME NEW i \in 1 .. m + 1 PROVE h[i] = Turn(h[i - 1], mask)
    <3>1. CASE i = m + 1
      <4>1. h[i] = Turn(g[m], mask) /\ i - 1 = m /\ h[m] = g[m]
        BY <3>1
      <4> HIDE DEF h
      <4> QED
        BY <3>1, <4>1
    <3>2. CASE i # m + 1
      <4>1. h[i] = g[i] /\ h[i - 1] = g[i - 1] /\ i \in 1 .. m
        BY <3>2
      <4> HIDE DEF h
      <4> QED
        BY <2>1, <4>1 DEF Turns
    <3> QED
      BY <3>1, <3>2
  <2> HIDE DEF h
  <2>4. Turns(h, d, mask, m + 1)
    BY <2>1, <2>2, <2>3 DEF Turns
  <2>5. m + 1 \in 0 .. n
    OBVIOUS
  <2> QED
    BY <2>4, <2>5
<1>6. n \in T
  <2> HIDE DEF T
  <2>1. 0 .. n \subseteq T
    BY <1>4, <1>5, Upwards
  <2> QED
    BY <2>1
<1>7. PICK g : Turns(g, d, mask, n)
  BY <1>6
<1> DEFINE f == [i \in 0 .. n |-> g[i]]
<1>8. f = Body(f)
  <2>1. ASSUME NEW i \in 0 .. n PROVE f[i] = Body(f)[i]
    <3>1. CASE i = 0
      BY <1>2, <1>7, <3>1 DEF Turns
    <3>2. CASE i # 0
      <4>1. i \in 1 .. n /\ f[i] = g[i] /\ f[i - 1] = g[i - 1]
        BY <3>2
      <4>2. g[i] = Turn(g[i - 1], mask)
        BY <1>7, <4>1 DEF Turns
      <4> HIDE DEF f
      <4> QED
        BY <1>2, <3>2, <4>1, <4>2
    <3> QED
      BY <3>1, <3>2
  <2>2. DOMAIN f = 0 .. n /\ f = [i \in 0 .. n |-> f[i]]
    OBVIOUS
  <2> HIDE DEF f
  <2>3. [i \in 0 .. n |-> f[i]] = [i \in 0 .. n |-> Body(f)[i]]
    BY <2>1
  <2> QED
    BY <1>3, <2>2, <2>3
<1>9. walk = Body(walk)
  <2>1. \E h : h = Body(h)
    BY <1>8
  <2> QED
    BY <2>1
<1> HIDE DEF walk
<1>10. Turns(walk, d, mask, n)
  <2>1. ASSUME NEW i \in 0 .. n
        PROVE  walk[i] = IF i = 0 THEN Took(d) ELSE Turn(walk[i - 1], mask)
    <3>1. walk[i] = Body(walk)[i]
      BY <1>9
    <3>2. Body(walk)[i] = IF i = 0 THEN Took(d) ELSE Turn(walk[i - 1], mask)
      BY <1>2
    <3> QED
      BY <3>1, <3>2
  <2>2. walk[0] = Took(d)
    <3>1. 0 \in 0 .. n
      OBVIOUS
    <3> QED
      BY <2>1, <3>1, Zenon
  <2>3. ASSUME NEW i \in 1 .. n PROVE walk[i] = Turn(walk[i - 1], mask)
    <3>1. i \in 0 .. n /\ i # 0
      OBVIOUS
    <3> QED
      BY <2>1, <3>1
  <2> QED
    BY <2>2, <2>3 DEF Turns
<1> QED
  BY <1>1, <1>10

\* A directory with an end mark has one among its own slots, and not more slots
\* than the loop has turns.
LEMMA EndOfListing ==
    ASSUME DirInv, mounted, "full" \notin Usage, NEW dir \in Dirs, Lists(dir),
           NEW N, N = SlotsOn(card, dir)
    PROVE  /\ \E x \in 1 .. N : EntryOn(card, dir, x).name = End.name
           /\ EntriesPerBlock * Cardinality(DOMAIN card.blocks) \in Nat
           /\ N <= EntriesPerBlock * Cardinality(DOMAIN card.blocks)
<1>0. PICK E \in Nat \ {0} : E = EntriesPerBlock
  BY MountAssumption
<1>1. PICK D, L : D = card.dirs[dir] /\ L = Len(card.dirs[dir])
  OBVIOUS
<1>2. Formatted(card) /\ dir \in DOMAIN card.dirs
  BY DEF DirInv, Dirs
<1>3. L \in Nat /\ N \in Nat /\ N = L * E /\ DOMAIN D = 1 .. L
  <2>1. L \in Nat /\ N \in Nat /\ N = L * EntriesPerBlock /\ DOMAIN card.dirs[dir] = 1 .. L
    BY <1>1, <1>2, SlotFacts
  <2> QED
    BY <1>0, <1>1, <2>1
<1>4. \E x \in 1 .. N : EntryOn(card, dir, x).name = End.name
  <2>1. PICK s, end : s = Slots(dir) /\ end = EndOf(s)
    OBVIOUS
  <2>2. HasEnd(dir) /\ Searches(dir)
    BY DEF Lists, Searches
  <2>3. /\ end \in 1 .. Len(s) + 1
        /\ end <= Len(s) => end <= N /\ Name(s[end]) = End.name
        /\ \A x \in 1 .. end - 1 : Name(s[x]) # End.name
    BY <2>1, <2>2, SearchEnds DEF SlotsOn
  <2>4. Len(s) \in Nat /\ DOMAIN s = 1 .. Len(s)
    BY <2>1, SlotsInOrder
  <2>5. PICK x \in 1 .. Len(s) : Name(s[x]) = End.name
    <3>1. PICK t \in Range(s) : Name(t) = End.name
      BY <2>1, <2>2 DEF HasEnd
    <3> QED
      BY <2>4, <3>1 DEF Range
  <2>6. end <= Len(s)
    BY <2>3, <2>4, <2>5
  <2>7. end \in 1 .. N /\ Name(s[end]) = End.name
    BY <1>3, <2>3, <2>6
  <2>8. PICK i \in 1 .. L, m \in 0 .. EntriesPerBlock - 1 : IsSlot(card, dir, end, i, m)
    BY <1>1, <1>2, <2>7, SlotFacts
  <2>9. s[end] = [addr |-> D[i], index |-> m]
    BY <1>1, <2>1, <2>8, SlotsInOrder DEF IsSlot
  <2>10. EntryOn(card, dir, end) = EntryAt(s[end])
    BY <1>1, <2>8, <2>9 DEF IsSlot, EntryAt
  <2> QED
    BY <2>7, <2>10 DEF Name
<1>5. PICK B : B = DOMAIN card.blocks
  OBVIOUS
<1>6. IsFiniteSet(B)
  <2>1. PICK last \in Nat : B = 0 .. last
    BY <1>5, MountedAreas DEF LaidOut
  <2> QED
    BY <2>1, FS_Interval
<1>7. L <= Cardinality(B) /\ Cardinality(B) \in Nat
  <2> DEFINE S == {D[k] : k \in 1 .. L}
  <2>1. D \in Seq(B)
    BY <1>1, <1>2, <1>5 DEF Formatted, DirsApart
  <2>2. D \in [1 .. L -> B]
    BY <1>1, <2>1
  <2>3. \A i, j \in 1 .. L : D[i] = D[j] => i = j
    BY <1>1, <1>2, <1>3 DEF Formatted, DirsApart
  <2>4. D \in Surjection(1 .. L, S) /\ D \in Injection(1 .. L, S)
    BY <2>2, <2>3 DEF Surjection, Injection, IsInjective
  <2>5. ExistsBijection(1 .. L, S)
    BY <2>4 DEF ExistsBijection, Bijection
  <2>6. Cardinality(S) = L
    BY <1>3, <2>5, FS_CountingElements
  <2>7. S \subseteq B
    BY <2>2
  <2> HIDE DEF S
  <2>8. Cardinality(S) <= Cardinality(B) /\ Cardinality(B) \in Nat
    BY <1>6, <2>7, FS_Subset, FS_CardinalityType
  <2> QED
    BY <2>6, <2>8
<1>8. PICK k \in Nat : k = Cardinality(B)
  BY <1>7
<1>9. E * k \in Nat /\ L * E <= E * k
  <2>1. L = k => L * E = E * k
    BY <1>0, <1>3
  <2>2. L < k => L * E + E <= k * E
    BY <1>0, <1>3, ProductOrder
  <2>3. k * E \in Nat /\ E * k = k * E /\ L * E \in Nat
    BY <1>0, <1>3
  <2> QED
    BY <1>0, <1>3, <1>7, <1>8, <2>1, <2>2, <2>3
<1> QED
  BY <1>0, <1>3, <1>4, <1>5, <1>8, <1>9

\* The loop takes the entry at the cursor and moves on.
LEMMA TakesSlot ==
    ASSUME DirInv, mounted, NEW d, IsDesc(d), d.dir \in Dirs, d.is_root <=> d.dir = 0,
           NEW S, S = fat_info.sectors_per_cluster, NEW N, N = SlotsOn(card, d.dir),
           NEW x \in 1 .. N, GoesOnAt(card, S, d, x), NEW w, w = Took(d)
    PROVE  /\ Readable(d.block_addr) /\ w.entry = EntryOn(card, d.dir, x)
           /\ IsDesc(w.d) /\ SameListing(w.d, d) /\ GoesOnAt(card, S, w.d, x + 1)
<1>1. PICK dir, L : dir = d.dir /\ L = Len(card.dirs[dir])
  OBVIOUS
<1>2. Formatted(card) /\ dir \in DOMAIN card.dirs
  BY <1>1 DEF DirInv, Dirs
<1>3. L \in Nat /\ N \in Nat /\ DOMAIN card.dirs[dir] = 1 .. L
  BY <1>1, <1>2, SlotFacts
<1>4. PICK i \in 1 .. L, m \in 0 .. EntriesPerBlock - 1 : IsSlot(card, dir, x, i, m)
  BY <1>1, <1>2, SlotFacts
<1>5. d.index_in_block = m /\ d.block_addr = card.dirs[dir][i]
  <2>1. x <= N
    BY <1>3
  <2> QED
    BY <1>1, <1>4, <2>1 DEF GoesOnAt, StandsAt, IsSlot
<1>6. Readable(d.block_addr)
  BY <1>2, <1>3, <1>5 DEF Formatted, DirsApart, Readable
<1>7. w.d = SeekAdvance(d) /\ w.entry = EntryOn(card, dir, x)
  BY <1>4, <1>5 DEF Took, EntryAt, IsSlot
<1>8. IsDesc(w.d) /\ SameListing(w.d, d)
  BY <1>7, AdvanceMoves
<1>9. GoesOnAt(card, S, w.d, x + 1)
  BY <1>7, AdvanceStands
<1> QED
  BY <1>1, <1>6, <1>7, <1>8, <1>9

\* The loop has passed the slots from p on and taken slot x.
PassedTo(d, mask, w, p, x) ==
    /\ x \in 1 .. SlotsOn(card, d.dir) /\ p <= x
    /\ w.entry = EntryOn(card, d.dir, x) /\ IsDesc(w.d) /\ SameListing(w.d, d)
    /\ \A y \in p .. x - 1 : Skipped(EntryOn(card, d.dir, y), mask)
    /\ GoesOnAt(card, fat_info.sectors_per_cluster, w.d, x + 1)

\* It stops at the first slot from p on that is not to be skipped.
LEMMA PassStops ==
    ASSUME DirInv, mounted, "full" \notin Usage, NEW d, IsDesc(d), d.dir \in Dirs,
           d.is_root <=> d.dir = 0, Lists(d.dir), NEW mask,
           NEW S, S = fat_info.sectors_per_cluster, NEW N, N = SlotsOn(card, d.dir),
           NEW p \in 1 .. N + 1, ListedBefore(card, d, p), GoesOnAt(card, S, d, p),
           NEW pass, pass = Pass(d, mask)
    PROVE  \E x : PassedTo(d, mask, pass, p, x) /\ ~Skipped(pass.entry, mask)
<1>1. PICK dir : dir = d.dir /\ dir \in Dirs
  OBVIOUS
<1>2. N \in Nat
  <2>1. Formatted(card) /\ d.dir \in DOMAIN card.dirs
    BY DEF DirInv, Dirs
  <2> QED
    BY <2>1, SlotFacts
<1>3. PICK e \in 1 .. N : EntryOn(card, dir, e).name = End.name
  BY <1>1, EndOfListing
<1>4. PICK n \in Nat : n = EntriesPerBlock * Cardinality(DOMAIN card.blocks) /\ N <= n
  BY <1>1, EndOfListing
<1>5. p \in 1 .. e
  <2>1. \A x \in 1 .. p - 1 : EntryOn(card, dir, x).name # End.name
    BY <1>1 DEF ListedBefore
  <2>2. e \notin 1 .. p - 1
    BY <1>3, <2>1
  <2> QED
    BY <1>2, <2>2
<1>6. PICK g : Turns(g, d, mask, n) /\ pass = g[n]
  BY <1>4, PassSteps
<1> DEFINE Reached(i, x) == /\ x \in p .. e /\ PassedTo(d, mask, g[i], p, x)
                            /\ x = p + i \/ ~Skipped(g[i].entry, mask)
           T == {i \in 0 .. n : \E x : Reached(i, x)}
<1>7. 0 \in T
  <2>1. p \in 1 .. N /\ p \in p .. e
    BY <1>2, <1>5
  <2>2. g[0] = Took(d)
    BY <1>6 DEF Turns
  <2>3. /\ g[0].entry = EntryOn(card, d.dir, p)
        /\ IsDesc(g[0].d) /\ SameListing(g[0].d, d) /\ GoesOnAt(card, S, g[0].d, p + 1)
    BY <2>1, <2>2, TakesSlot
  <2>4. p .. p - 1 = {} /\ p <= p
    BY <2>1
  <2>5. PassedTo(d, mask, g[0], p, p)
    BY <2>1, <2>3, <2>4 DEF PassedTo
  <2> QED
    BY <2>1, <2>5
<1>8. ASSUME NEW i \in 0 .. n - 1, i \in T PROVE i + 1 \in T
  <2>1. PICK x \in p .. e : PassedTo(d, mask, g[i], p, x) /\ (x = p + i \/ ~Skipped(g[i].entry, mask))
    BY <1>8
  <2>2. i \in Nat /\ i + 1 \in 1 .. n /\ i + 1 \in 0 .. n
    BY <1>4
  <2>3. g[i + 1] = Turn(g[i], mask)
    BY <1>6, <2>2 DEF Turns
  <2>4. CASE ~Skipped(g[i].entry, mask)
    <3>1. g[i + 1] = g[i]
      BY <2>3, <2>4 DEF Turn
    <3> QED
      BY <2>1, <2>2, <2>4, <3>1
  <2>5. CASE Skipped(g[i].entry, mask)
    <3>1. g[i].entry = EntryOn(card, dir, x)
      BY <1>1, <2>1 DEF PassedTo
    <3>2. x # e
      BY <1>3, <2>5, <3>1 DEF Skipped
    <3>3. x = p + i /\ x + 1 \in p .. e /\ x + 1 \in 1 .. N /\ x + 1 = p + (i + 1)
      <4>1. x = p + i
        BY <2>1, <2>5
      <4> QED
        BY <1>2, <1>5, <2>2, <3>2, <4>1
    <3>4. PICK u : u = g[i].d
      OBVIOUS
    <3>5. IsDesc(u) /\ SameListing(u, d) /\ GoesOnAt(card, S, u, x + 1)
      BY <2>1, <3>4 DEF PassedTo
    <3>6. u.dir = d.dir /\ u.is_root = d.is_root
      BY <3>5 DEF SameListing
    <3>7. PICK w : w = Took(u)
      OBVIOUS
    <3>8. /\ Readable(u.block_addr) /\ w.entry = EntryOn(card, u.dir, x + 1)
          /\ IsDesc(w.d) /\ SameListing(w.d, u) /\ GoesOnAt(card, S, w.d, x + 1 + 1)
      BY <3>3, <3>5, <3>6, <3>7, TakesSlot
    <3>9. g[i + 1] = w
      BY <2>3, <2>5, <3>4, <3>7, <3>8 DEF Turn
    <3>10. SameListing(w.d, d)
      BY <3>5, <3>8 DEF SameListing
    <3>11. ASSUME NEW y \in p .. x + 1 - 1 PROVE Skipped(EntryOn(card, d.dir, y), mask)
      <4>1. y \in p .. x - 1 \/ y = x
        BY <1>5
      <4> QED
        BY <1>1, <2>1, <2>5, <3>1, <4>1 DEF PassedTo
    <3>12. p <= x + 1
      BY <3>3
    <3>13. PassedTo(d, mask, g[i + 1], p, x + 1)
      BY <3>3, <3>6, <3>8, <3>9, <3>10, <3>11, <3>12 DEF PassedTo
    <3> QED
      BY <2>2, <3>3, <3>13
  <2> QED
    BY <2>4, <2>5
<1>9. n \in T
  <2> HIDE DEF T
  <2>1. 0 .. n \subseteq T
    BY <1>7, <1>8, Upwards
  <2> QED
    BY <2>1
<1>10. PICK x \in p .. e : PassedTo(d, mask, pass, p, x) /\ (x = p + n \/ ~Skipped(pass.entry, mask))
  BY <1>6, <1>9
<1>11. x # p + n
  BY <1>2, <1>4, <1>5
<1> QED
  BY <1>10, <1>11

\* fat_get_next_dir_entry returns an entry that it has not returned yet, and
\* nothing that is to be returned lies before the cursor.
LEMMA TakenRight ==
    ASSUME DirInv, mounted, "full" \notin Usage, NEW d, NEW S, S = fat_info.sectors_per_cluster,
           DescRight(card, S, d), Listing(d), ~d.done, Lists(d.dir),
           NEW mask, NEW pass, pass = Pass(d, mask),
           NEW more, more = (pass.entry.name # End.name),
           NEW f, f = [pass.d EXCEPT !.masked = pass.d.masked \cup mask, !.done = ~more,
                          !.listed = IF more THEN Append(pass.d.listed, pass.entry.name)
                                     ELSE pass.d.listed]
    PROVE  DescRight(card, S, f) /\ Listing(f)
<1>1. /\ IsDesc(d) /\ d.dir \in DOMAIN card.dirs /\ (d.is_root <=> d.dir = 0)
      /\ \A e \in d.due : ~IsFree(e.name) /\ e.attrs # LongFilename
      /\ \A i, j \in DOMAIN d.listed : d.listed[i] = d.listed[j] => i = j
      /\ \E p \in 1 .. SlotsOn(card, d.dir) + 1 : ListedBefore(card, d, p) /\ GoesOnAt(card, S, d, p)
  BY DEF DescRight, ListsRight
<1>2. PICK dir, N : dir = d.dir /\ N = SlotsOn(card, d.dir) /\ N = SlotsOn(card, dir)
  OBVIOUS
<1>3. dir \in Dirs /\ Formatted(card) /\ dir \in DOMAIN card.dirs
  BY <1>1, <1>2 DEF Dirs, DirInv
<1>4. /\ N \in Nat
      /\ \A x, y \in 1 .. N : x < y /\ EntryOn(card, dir, x).name = End.name
                                 => EntryOn(card, dir, y).name = End.name
  <2>1. PICK L : L = Len(card.dirs[dir]) /\ N = SlotsOn(card, dir)
    BY <1>2
  <2>2. N \in Nat
    BY <1>3, <2>1, SlotFacts
  <2>3. \A x, y \in 1 .. N : x < y /\ EntryOn(card, dir, x).name = End.name
                                => EntryOn(card, dir, y).name = End.name
    <3>1. EndStays(card, dir)
      BY <1>3, <2>1, SlotFacts
    <3> QED
      BY <1>2, <3>1 DEF EndStays
  <2> QED
    BY <2>2, <2>3
<1>5. PICK p \in 1 .. N + 1 : ListedBefore(card, d, p) /\ GoesOnAt(card, S, d, p)
  BY <1>1, <1>2
<1>6. PICK x : PassedTo(d, mask, pass, p, x) /\ ~Skipped(pass.entry, mask)
  BY <1>1, <1>2, <1>3, <1>5, PassStops
<1>7. PICK u, s : u = pass.d /\ s = d.listed
  OBVIOUS
<1>8. /\ x \in 1 .. N /\ p <= x /\ pass.entry = EntryOn(card, dir, x)
      /\ IsDesc(u) /\ SameListing(u, d)
      /\ \A y \in p .. x - 1 : Skipped(EntryOn(card, dir, y), mask)
      /\ GoesOnAt(card, S, u, x + 1)
  BY <1>2, <1>6, <1>7 DEF PassedTo
<1>9. PICK name, all : name = pass.entry.name /\ all = IF more THEN Append(s, name) ELSE s
  OBVIOUS
<1>10. /\ IsDesc(f) /\ f.is_free = d.is_free /\ f.is_stale = d.is_stale /\ f.is_root = d.is_root
       /\ f.is_dir = d.is_dir /\ f.dir = dir /\ f.due = d.due
       /\ f.masked = d.masked \cup mask /\ f.done = ~more /\ f.listed = all
       /\ f.index_in_block = u.index_in_block /\ f.block_addr = u.block_addr
       /\ f.block_in_cluster = u.block_in_cluster /\ f.next_cluster = u.next_cluster
  <2>1. DOMAIN u = {"is_free", "is_stale", "is_root", "is_dir", "block_addr", "block_in_cluster",
                    "index_in_block", "next_cluster", "dir", "due", "masked", "listed", "done"}
    BY <1>8 DEF IsDesc
  <2>2. /\ u.is_free = d.is_free /\ u.is_stale = d.is_stale /\ u.is_root = d.is_root
        /\ u.is_dir = d.is_dir /\ u.dir = dir /\ u.due = d.due /\ u.masked = d.masked
        /\ u.listed = s
    BY <1>2, <1>7, <1>8 DEF SameListing
  <2>3. f = [u EXCEPT !.masked = d.masked \cup mask, !.done = ~more, !.listed = all]
    BY <1>7, <1>9, <2>2
  <2> QED
    BY <2>1, <2>2, <2>3 DEF IsDesc
<1>11. Listing(f)
  BY <1>2, <1>10 DEF Listing
<1>12. GoesOnAt(card, S, f, x + 1)
  <2>1. u.dir = dir
    BY <1>2, <1>8 DEF SameListing
  <2> QED
    BY <1>8, <1>10, <2>1 DEF GoesOnAt, StandsAt
<1>13. ASSUME NEW q, NEW r \in q .. N + 1, q \in 1 .. N + 1
       PROVE  NamesBefore(card, dir, q) \subseteq NamesBefore(card, dir, r)
  <2>1. 1 .. q - 1 \subseteq 1 .. r - 1
    BY <1>4, <1>13
  <2> QED
    BY <2>1 DEF NamesBefore
<1>14. s \in Seq(NamesBefore(card, dir, p))
  BY <1>2, <1>5, <1>7 DEF ListedBefore
<1>15. ASSUME NEW e \in Due(f)
       PROVE  e.name \in Range(s) \/ (more /\ e.name = name) \/ \E y \in x + 1 .. N : EntryOn(card, dir, y) = e
  <2>1. /\ e \in d.due /\ e.attrs \cap (d.masked \cup mask) = {}
        /\ ~IsFree(e.name) /\ e.attrs # LongFilename
    BY <1>1, <1>10 DEF Due
  <2>2. e \in Due(d)
    BY <2>1 DEF Due
  <2>3. e.name \in Range(s) \/ \E y \in p .. N : EntryOn(card, dir, y) = e
    BY <1>2, <1>5, <1>7, <2>2 DEF ListedBefore
  <2> SUFFICES ASSUME NEW y \in p .. N, EntryOn(card, dir, y) = e, ~(y \in x + 1 .. N)
               PROVE  more /\ e.name = name
    BY <2>3
  <2>4. ~Skipped(e, mask)
    BY <2>1 DEF Skipped, IsFree
  <2>5. y \notin p .. x - 1
    BY <1>8, <2>4
  <2>6. y = x
    BY <1>4, <1>8, <2>5
  <2>7. e.name # End.name
    BY <2>1 DEF IsFree
  <2> QED
    BY <1>8, <1>9, <2>6, <2>7
<1>16. CASE ~more
  <2>1. name = End.name /\ f.done /\ f.listed = s
    BY <1>9, <1>10, <1>16
  <2>2. s \in Seq(NamesBefore(card, dir, N + 1))
    <3>1. N + 1 \in p .. N + 1
      BY <1>4
    <3>2. NamesBefore(card, dir, p) \subseteq NamesBefore(card, dir, N + 1)
      BY <1>13, <3>1
    <3> QED
      BY <1>14, <3>2
  <2>3. ASSUME NEW e \in Due(f) PROVE e.name \in Range(s)
    <3>1. ~IsFree(e.name)
      BY <1>1, <1>10 DEF Due
    <3>2. ASSUME NEW y \in x + 1 .. N PROVE EntryOn(card, dir, y) # e
      <4>1. EntryOn(card, dir, x).name = End.name /\ x < y /\ y \in 1 .. N
        BY <1>4, <1>8, <1>9, <2>1
      <4>2. EntryOn(card, dir, y).name = End.name
        BY <1>4, <1>8, <4>1
      <4> QED
        BY <3>1, <4>2 DEF IsFree
    <3> QED
      BY <1>15, <1>16, <3>2
  <2>4. ListedAll(card, f)
    BY <1>2, <1>10, <2>1, <2>2, <2>3 DEF ListedAll
  <2>5. \A i, j \in DOMAIN f.listed : f.listed[i] = f.listed[j] => i = j
    <3>1. f.listed = d.listed
      BY <1>7, <2>1, Zenon
    <3>2. \A i, j \in DOMAIN d.listed : d.listed[i] = d.listed[j] => i = j
      BY <1>1
    <3> QED
      BY <3>1, <3>2, Zenon
  <2>6. f.dir \in DOMAIN card.dirs /\ (f.is_root <=> f.dir = 0)
    BY <1>1, <1>2, <1>10
  <2>7. \A e \in f.due : ~IsFree(e.name) /\ e.attrs # LongFilename
    BY <1>1, <1>10
  <2>8. ListsRight(card, S, f)
    BY <2>1, <2>4, <2>5, <2>6, <2>7 DEF ListsRight
  <2> QED
    BY <1>10, <1>11, <2>8 DEF DescRight
<1>17. CASE more
  <2>1. InUse(card, dir, x)
    <3>1. name # End.name /\ name = EntryOn(card, dir, x).name
      BY <1>8, <1>9, <1>17
    <3>2. name # DeletedName
      BY <1>6, <1>9, <3>1 DEF Skipped
    <3> QED
      BY <1>2, <1>8, <3>1, <3>2 DEF InUse, IsFree
  <2>2. name = EntryOn(card, dir, x).name /\ name # End.name
    BY <1>8, <1>9, <1>17
  <2>3. name \in NamesBefore(card, dir, x + 1)
    <3>1. x \in 1 .. x + 1 - 1
      BY <1>8
    <3> QED
      BY <2>1, <2>2, <3>1 DEF NamesBefore
  <2>4. ASSUME NEW i \in DOMAIN s PROVE s[i] # name
    <3>1. s[i] \in NamesBefore(card, dir, p)
      BY <1>14
    <3>2. PICK y \in 1 .. p - 1 : InUse(card, dir, y) /\ s[i] = EntryOn(card, dir, y).name
      BY <3>1 DEF NamesBefore
    <3>3. y # x
      BY <1>8
    <3> QED
      BY <1>3, <2>1, <2>2, <3>2, <3>3, SlotsInUse
  <2>5. PICK n \in Nat : n = Len(s) /\ DOMAIN s = 1 .. n
    BY <1>14
  <2>6. all = Append(s, name) /\ f.listed = all /\ ~f.done
    BY <1>9, <1>10, <1>17
  <2>7. /\ DOMAIN all = 1 .. n + 1 /\ all[n + 1] = name
        /\ \A i \in 1 .. n : all[i] = s[i]
    BY <1>14, <2>5, <2>6
  <2>8. \A i, j \in DOMAIN all : all[i] = all[j] => i = j
    <3>1. \A i \in 1 .. n + 1 : i \in 1 .. n \/ i = n + 1
      BY <2>5
    <3>2. \A i, j \in 1 .. n : s[i] = s[j] => i = j
      BY <1>1, <1>7, <2>5
    <3>3. \A i \in 1 .. n : s[i] # name
      BY <2>4, <2>5
    <3> QED
      BY <2>7, <3>1, <3>2, <3>3
  <2>9. x + 1 \in p .. N + 1 /\ x + 1 \in 1 .. N + 1
    BY <1>4, <1>8
  <2>10. all \in Seq(NamesBefore(card, dir, x + 1))
    <3>1. NamesBefore(card, dir, p) \subseteq NamesBefore(card, dir, x + 1)
      BY <1>13, <2>9
    <3>2. s \in Seq(NamesBefore(card, dir, x + 1))
      BY <1>14, <3>1
    <3> QED
      BY <2>3, <2>6, <3>2
  <2>11. Range(s) \subseteq Range(all) /\ name \in Range(all)
    <3>1. \A i \in 1 .. n : i \in 1 .. n + 1
      BY <2>5
    <3>2. n + 1 \in 1 .. n + 1
      BY <2>5
    <3> QED
      BY <2>5, <2>7, <3>1, <3>2 DEF Range
  <2>12. \A y \in 1 .. x + 1 - 1 : EntryOn(card, dir, y).name # End.name
    <3>1. \A y \in 1 .. p - 1 : EntryOn(card, dir, y).name # End.name
      BY <1>2, <1>5 DEF ListedBefore
    <3>2. \A y \in p .. x - 1 : EntryOn(card, dir, y).name # End.name
      BY <1>8 DEF Skipped
    <3>3. \A y \in 1 .. x + 1 - 1 : y \in 1 .. p - 1 \/ y \in p .. x - 1 \/ y = x
      BY <1>8
    <3> QED
      BY <2>2, <3>1, <3>2, <3>3
  <2>13. ListedBefore(card, f, x + 1)
    <3>1. \A e \in Due(f) :
             e.name \in Range(all) \/ \E y \in x + 1 .. N : EntryOn(card, dir, y) = e
      BY <1>15, <2>11
    <3>2. f.dir = dir /\ SlotsOn(card, f.dir) = N
      BY <1>2, <1>10
    <3>3. \A y \in 1 .. x + 1 - 1 : EntryOn(card, f.dir, y).name # End.name
      BY <2>12, <3>2
    <3>4. f.listed \in Seq(NamesBefore(card, f.dir, x + 1))
      BY <2>6, <2>10, <3>2, Zenon
    <3>5. \A e \in Due(f) : \/ e.name \in Range(f.listed)
                            \/ \E y \in x + 1 .. SlotsOn(card, f.dir) : EntryOn(card, f.dir, y) = e
      BY <2>6, <3>1, <3>2
    <3>6. PICK q, M, lst : q = x + 1 /\ M = SlotsOn(card, f.dir) /\ lst = f.listed
      OBVIOUS
    <3>7. \A y \in 1 .. q - 1 : EntryOn(card, f.dir, y).name # End.name
      <4>1. x \in Nat
        BY <1>4, <1>8
      <4>2. 1 .. q - 1 = 1 .. x + 1 - 1
        BY <3>6, <4>1
      <4> QED
        BY <3>3, <4>2, Zenon
    <3>8. lst \in Seq(NamesBefore(card, f.dir, q))
      BY <3>4, <3>6
    <3>9. \A e \in Due(f) : \/ e.name \in Range(lst)
                            \/ \E y \in q .. M : EntryOn(card, f.dir, y) = e
      BY <3>5, <3>6
    <3>10. ListedBefore(card, f, q)
      BY <3>6, <3>7, <3>8, <3>9, Zenon DEF ListedBefore
    <3> QED
      BY <3>6, <3>10
  <2>14. f.dir \in DOMAIN card.dirs /\ (f.is_root <=> f.dir = 0)
    BY <1>1, <1>2, <1>10
  <2>15. \A e \in f.due : ~IsFree(e.name) /\ e.attrs # LongFilename
    BY <1>1, <1>10
  <2>16. x + 1 \in 1 .. SlotsOn(card, f.dir) + 1
    BY <1>2, <1>10, <2>9
  <2>17. ListsRight(card, S, f)
    <3>1. \E q \in 1 .. SlotsOn(card, f.dir) + 1 : ListedBefore(card, f, q) /\ GoesOnAt(card, S, f, q)
      BY <1>12, <2>13, <2>16, Zenon
    <3>2. \A i, j \in DOMAIN f.listed : f.listed[i] = f.listed[j] => i = j
      BY <2>6, <2>8, Zenon
    <3> QED
      BY <2>6, <2>14, <2>15, <3>1, <3>2, Zenon DEF ListsRight
  <2> QED
    BY <1>10, <1>11, <2>17 DEF DescRight
<1> QED
  BY <1>16, <1>17

-----------------------------------------------------------------------------
(***************************************************************************)
(* Descriptors that begin.                                                 *)
(***************************************************************************)
\* A descriptor on the first slot of its directory, with all that is there due.
LEMMA BeginsRight ==
    ASSUME DirInv, NEW d, NEW S, d.dir \in Dirs, d.is_root <=> d.dir = 0,
           d.due = Listable(d.dir), d.listed = <<>>, d.done = FALSE,
           SlotsOn(card, d.dir) >= 1 => StandsAt(card, S, d, 1, 0)
    PROVE  ListsRight(card, S, d)
<1>1. PICK dir, N, L : dir = d.dir /\ N = SlotsOn(card, dir) /\ L = Len(card.dirs[dir])
  OBVIOUS
<1>2. Formatted(card) /\ dir \in DOMAIN card.dirs
  BY <1>1 DEF DirInv, Dirs
<1>3. N \in Nat
  BY <1>1, <1>2, SlotFacts
<1>4. ASSUME NEW e \in d.due
      PROVE  ~IsFree(e.name) /\ e.attrs # LongFilename /\ \E x \in 1 .. N : EntryOn(card, dir, x) = e
  <2>1. e \in Listable(dir)
    BY <1>1, <1>4
  <2>2. PICK s \in UsedOn(card, dir) : e = card.blocks[s.addr][s.index] /\ e.attrs # LongFilename
    BY <2>1 DEF Listable, Used, EntryAt
  <2>3. PICK x : SlotIs(card, dir, x, s)
    <3>1. \E x : SlotIs(card, dir, x, s)
      <4>1. \A t \in UsedOn(card, dir) : \E x : SlotIs(card, dir, x, t)
        BY <1>2, SlotsInUse
      <4> QED
        BY <4>1
    <3> QED
      BY <3>1
  <2>4. \A y : SlotIs(card, dir, y, s) => InUse(card, dir, y)
    BY DEF SlotIs
  <2>5. EntryOn(card, dir, x) = card.blocks[s.addr][s.index] /\ InUse(card, dir, x)
    <3>1. SlotIs(card, dir, x, s) => EntryOn(card, dir, x) = card.blocks[s.addr][s.index]
      BY DEF SlotIs
    <3> QED
      BY <2>3, <2>4, <3>1
  <2> QED
    BY <1>1, <2>2, <2>5 DEF InUse
<1>5. d.listed \in Seq(NamesBefore(card, d.dir, 1))
  OBVIOUS
<1>6. ListedBefore(card, d, 1)
  <2>1. \A x \in 1 .. 1 - 1 : EntryOn(card, d.dir, x).name # End.name
    OBVIOUS
  <2>2. \A e \in Due(d) : e.name \in Range(d.listed) \/ \E x \in 1 .. SlotsOn(card, d.dir) : EntryOn(card, d.dir, x) = e
    BY <1>1, <1>4 DEF Due
  <2> QED
    BY <1>5, <2>1, <2>2 DEF ListedBefore
<1>7. GoesOnAt(card, S, d, 1)
  <2>1. (1 - 1) \div EntriesPerBlock + 1 = 1 /\ (1 - 1) % EntriesPerBlock = 0
    <3>1. PICK E \in Nat \ {0} : E = EntriesPerBlock
      BY MountAssumption
    <3>2. 0 \div E = 0 /\ 0 % E = 0
      <4>1. 0 \in Nat /\ 0 \div E = 0 /\ 0 % E = 0
        <5>1. 0 = 0 * E + 0 /\ 0 < E
          OBVIOUS
        <5> QED
          BY <5>1, Splits
      <4> QED
        BY <4>1
    <3> QED
      BY <3>1, <3>2
  <2> SUFFICES ASSUME 1 <= SlotsOn(card, d.dir)
               PROVE  StandsAt(card, S, d, (1 - 1) \div EntriesPerBlock + 1, (1 - 1) % EntriesPerBlock)
    BY DEF GoesOnAt
  <2>2. StandsAt(card, S, d, 1, 0)
    BY <1>1, <1>3
  <2> QED
    BY <2>1, <2>2
<1>8. 1 \in 1 .. SlotsOn(card, d.dir) + 1
  BY <1>1, <1>3
<1>9. \A i, j \in DOMAIN d.listed : d.listed[i] = d.listed[j] => i = j
  OBVIOUS
<1>10. \A e \in d.due : ~IsFree(e.name) /\ e.attrs # LongFilename
  BY <1>4
<1>11. \E p \in 1 .. SlotsOn(card, d.dir) + 1 : ListedBefore(card, d, p) /\ GoesOnAt(card, S, d, p)
  BY <1>6, <1>7, <1>8
<1> QED
  BY <1>1, <1>2, <1>9, <1>10, <1>11 DEF ListsRight

\* fat_private_init_root_dir begins a listing of the root directory.
LEMMA RootBegins ==
    ASSUME DirInv, mounted, NEW S, S = fat_info.sectors_per_cluster,
           NEW d, d = fat_private_init_root_dir
    PROVE  DescRight(card, S, d)
<1>1. /\ IsDesc(d) /\ Listing(d) /\ d.is_root /\ d.dir = 0 /\ d.due = Listable(0)
      /\ d.listed = <<>> /\ d.done = FALSE
      /\ d.index_in_block = 0 /\ d.block_addr = fat_info.root_dir_block
  BY DEF fat_private_init_root_dir, FreeDesc, IsDesc, Listing
<1>2. d.dir \in Dirs /\ Formatted(card) /\ 0 \in Dirs
  BY <1>1 DEF DirInv, Formatted, DirsApart, Dirs
<1>3. ASSUME SlotsOn(card, 0) >= 1 PROVE card.dirs[0][1] = fat_info.root_dir_block
  <2>1. PICK root \in Nat, data \in Nat : root = card.layout.root /\ data = card.layout.data
    BY MountedAreas
  <2>2. card.dirs[0] = [i \in 1 .. data - root |-> root + i - 1] /\ fat_info.root_dir_block = root
    BY <1>2, <2>1, MountedAreas DEF DirsPlaced, BlocksAt, Dirs
  <2>3. PICK L : L = Len(card.dirs[0])
    OBVIOUS
  <2>4. L \in Nat /\ DOMAIN card.dirs[0] = 1 .. L /\ SlotsOn(card, 0) = L * EntriesPerBlock
    <3>1. PICK N : N = SlotsOn(card, 0)
      OBVIOUS
    <3> QED
      BY <1>2, <2>3, <3>1, SlotFacts DEF Dirs
  <2>5. L # 0
    BY <1>3, <2>4, MountAssumption
  <2>6. 1 \in 1 .. L
    BY <2>4, <2>5
  <2>7. 1 \in 1 .. data - root
    BY <2>2, <2>4, <2>6
  <2>8. card.dirs[0][1] = root + 1 - 1
    BY <2>2, <2>7
  <2> QED
    BY <2>1, <2>2, <2>8
<1>4. SlotsOn(card, d.dir) >= 1 => StandsAt(card, S, d, 1, 0)
  BY <1>1, <1>3 DEF StandsAt
<1>5. ListsRight(card, S, d)
  BY <1>1, <1>2, <1>4, BeginsRight
<1> QED
  BY <1>1, <1>5 DEF DescRight

\* fat_private_init_fd begins a listing of a directory, and none of a file.
LEMMA EntryBegins ==
    ASSUME DirInv, mounted, NEW S, S = fat_info.sectors_per_cluster,
           NEW entry, "DIRECTORY" \in entry.attrs => entry.cluster \in Dirs,
           NEW d, d = fat_private_init_fd(entry)
    PROVE  DescRight(card, S, d)
<1>1. CASE "DIRECTORY" \notin entry.attrs
  <2>1. IsDesc(d) /\ ~Listing(d) /\ d.listed = <<>> /\ d.done = FALSE
    BY <1>1 DEF fat_private_init_fd, FreeDesc, IsDesc, Listing
  <2> QED
    BY <2>1 DEF DescRight
<1>2. CASE "DIRECTORY" \in entry.attrs
  <2>1. PICK dir : dir = entry.cluster
    OBVIOUS
  <2>2. PICK next : next = IF dir = 0 THEN EOC ELSE read_fat_entry(dir)
    OBVIOUS
  <2>3. d = [FreeDesc EXCEPT !.is_free = FALSE, !.is_dir = TRUE, !.block_addr = BlockOf(dir),
                             !.next_cluster = next, !.dir = dir, !.due = Listable(dir)]
    BY <1>2, <2>1, <2>2 DEF fat_private_init_fd
  <2>4. /\ IsDesc(d) /\ d.is_root = FALSE /\ d.dir = dir /\ d.due = Listable(dir)
        /\ d.listed = <<>> /\ d.done = FALSE /\ d.index_in_block = 0 /\ d.block_in_cluster = 0
        /\ d.block_addr = BlockOf(dir) /\ d.next_cluster = next
        /\ d.is_free = FALSE /\ d.is_stale = FALSE /\ d.is_dir = TRUE
    BY <2>3 DEF FreeDesc, IsDesc
  <2>5. Listing(d) <=> dir # 0
    BY <2>4 DEF Listing
  <2>6. CASE dir = 0
    BY <2>4, <2>5, <2>6 DEF DescRight
  <2>7. CASE dir # 0
    <3>1. dir \in Dirs
      BY <1>2, <2>1
    <3>2. PICK chain, L : chain = card.chains[dir] /\ L = Len(card.dirs[dir])
      OBVIOUS
    <3>3. /\ S \in Nat \ {0} /\ Follows(Fat, chain) /\ chain[1] = dir /\ Len(chain) \in Nat \ {0}
          /\ \A b \in 1 .. L, q \in Nat, r \in 0 .. S - 1 :
                b - 1 = q * S + r => AtBlock(dir, S, chain, b, q, r)
      BY <2>7, <3>1, <3>2, BlockPlaced
    <3>4. ASSUME SlotsOn(card, dir) >= 1 PROVE StandsAt(card, S, d, 1, 0)
      <4>1. L \in Nat /\ SlotsOn(card, dir) = L * EntriesPerBlock
        <5>1. PICK N : N = SlotsOn(card, dir)
          OBVIOUS
        <5> QED
          BY <3>1, <3>2, <5>1, SlotFacts DEF Dirs, DirInv
      <4>2. L # 0
        BY <3>4, <4>1, MountAssumption
      <4>3. 1 \in 1 .. L /\ 0 \in 0 .. S - 1 /\ 1 - 1 = 0 * S + 0
        BY <3>3, <4>1, <4>2
      <4>4. AtBlock(dir, S, chain, 1, 0, 0)
        BY <3>3, <4>3
      <4>5. PICK addr : addr = BlockOf(dir)
        OBVIOUS
      <4>6. (1 - 1) \div S = 0 /\ (1 - 1) % S = 0 /\ card.dirs[dir][1] = addr
        <5>1. BlockOf(chain[0 + 1]) = addr
          BY <3>3, <4>5
        <5> QED
          BY <4>4, <5>1 DEF AtBlock
      <4>7. ASSUME 1 < Len(chain) PROVE next = chain[2]
        <5>1. next = Fat[dir]
          <6>1. chain \in Seq({k \in DOMAIN Fat : k >= 2}) /\ 1 \in 1 .. Len(chain)
            BY <3>3 DEF Follows
          <6>2. dir \in DOMAIN Fat
            BY <3>3, <6>1
          <6>3. read_fat_entry(dir) = Fat[dir]
            BY <6>2, MountedAreas, ReadsFat
          <6> QED
            BY <2>2, <2>7, <6>3
        <5>2. 1 \in DOMAIN chain
          BY <3>3, <4>7 DEF Follows
        <5>3. Fat[chain[1]] = chain[1 + 1]
          BY <3>3, <4>7, <5>2 DEF Follows
        <5> QED
          BY <3>3, <5>1, <5>3
      <4>8. (1 - 1) \div S + 1 = 1 /\ (1 - 1) \div S + 2 = 2
        BY <4>6
      <4> QED
        BY <2>4, <3>2, <4>5, <4>6, <4>7, <4>8 DEF StandsAt
    <3>5. ListsRight(card, S, d)
      BY <2>4, <2>7, <3>1, <3>4, BeginsRight
    <3> QED
      BY <2>4, <2>5, <2>7, <3>5 DEF DescRight
  <2> QED
    BY <2>6, <2>7
<1> QED
  BY <1>1, <1>2

\* The entry of a directory that a search leads to holds a directory's cluster.
LEMMA SearchOpensDir ==
    ASSUME DirInv, mounted, "full" \notin Usage, NEW dir \in Dirs, Searches(dir),
           NEW name \in Components, NEW mode,
           NEW r, r = fat_private_find_file(dir, name, mode), r.ok, "DIRECTORY" \in r.entry.attrs
    PROVE  r.entry.cluster \in Dirs
<1>1. PICK nm : nm = to_fat_name(name) /\ ~IsFree(nm)
  BY NamesInUse
<1>2. r.new \in BOOLEAN /\ (r.new => r.entry = NewEntry(nm))
  BY <1>1, SearchResult
<1>3. r.ok /\ ~r.new => LeadsTo(r, dir, nm)
  BY <1>1, SearchResult
<1>4. r.new = FALSE
  BY <1>2 DEF NewEntry
<1>5. PICK i, m : Holds(dir, nm, i, m) /\ r.entry = card.blocks[card.dirs[dir][i]][m]
  BY <1>3, <1>4 DEF LeadsTo
<1>6. i \in 1 .. Len(card.dirs[dir]) /\ m \in 0 .. EntriesPerBlock - 1 /\ NameIn(dir, i, m) = nm
  BY <1>5 DEF Holds
<1>7. PICK s : s = [addr |-> card.dirs[dir][i], index |-> m]
  OBVIOUS
<1>8. s.addr = card.dirs[dir][i] /\ s.index = m
  BY <1>7
<1>9. DOMAIN card.dirs[dir] = 1 .. Len(card.dirs[dir])
  BY VisitedInOrder
<1>10. s \in UsedOn(card, dir)
  <2>1. s \in [addr : Range(card.dirs[dir]), index : 0 .. EntriesPerBlock - 1]
    BY <1>6, <1>7, <1>9 DEF Range
  <2>2. card.blocks[s.addr][s.index].name = nm
    BY <1>6, <1>8 DEF NameIn, NameOn
  <2> QED
    BY <1>1, <2>1, <2>2 DEF UsedOn
<1>11. r.entry = card.blocks[s.addr][s.index]
  BY <1>5, <1>8
<1> QED
  BY <1>10, <1>11 DEF DirInv, Formatted, DirsNamed, Dirs

\* So does one that a path leads to.
LEMMA PathOpensDir ==
    ASSUME DirInv, mounted, "full" \notin Usage, NEW path \in Paths, Passable(path), NEW mode,
           NEW r, r = fat_find_path(path, mode), r.ok, "DIRECTORY" \in r.entry.attrs
    PROVE  r.entry.cluster \in Dirs
<1>1. path.parts \in Seq(Components) /\ Len(path.parts) \in Nat
  BY DirAssumption
<1>2. PICK n \in Nat : n = Len(path.parts)
  BY <1>1
<1>3. path.absolute
  <2> SUFFICES ASSUME ~path.absolute PROVE FALSE
    OBVIOUS
  <2>1. r = Failed("RELATIVE_PATH")
    BY DEF fat_find_path
  <2> QED
    BY <2>1 DEF Failed
<1>4. PICK g : Walks(g, path, mode, n) /\ r = g[n]
  BY <1>1, <1>2, <1>3, PathSteps
<1>5. CASE n = 0
  <2>1. r.entry.cluster = 0
    BY <1>4, <1>5 DEF Walks, Found, Root
  <2> QED
    BY <2>1 DEF Dirs, DirInv, Formatted, DirsApart
<1>6. CASE n # 0
  <2>1. n - 1 \in 0 .. n - 1 /\ n \in 1 .. n
    BY <1>6
  <2>2. PICK b : b = g[n - 1]
    OBVIOUS
  <2>3. b.ok => b.entry.cluster \in Dirs /\ Searches(b.entry.cluster)
    BY <1>2, <1>3, <1>4, <2>1, <2>2, PathThrough
  <2>4. r = PartFound(b, path, mode, n)
    BY <1>4, <2>1, <2>2 DEF Walks
  <2>5. b.ok
    BY <2>4 DEF PartFound
  <2>6. PICK dir, name, md : /\ dir = b.entry.cluster /\ name = path.parts[n]
                             /\ md = PartMode(path, mode, n)
    OBVIOUS
  <2>7. dir \in Dirs /\ Searches(dir) /\ name \in Components
    BY <1>1, <1>2, <2>1, <2>3, <2>5, <2>6
  <2>8. r = fat_private_find_file(dir, name, md)
    BY <2>4, <2>5, <2>6 DEF PartFound
  <2> QED
    BY <2>7, <2>8, SearchOpensDir
<1> QED
  BY <1>5, <1>6

-----------------------------------------------------------------------------
(***************************************************************************)
(* The invariant of the listings.                                          *)
(***************************************************************************)
\* Descriptors that are right before the card changes by a step are so after it.
LEMMA ListingsKept ==
    ASSUME DirInv, Creates(card, card'), UNCHANGED <<mounted, fat_info>>,
           NEW S, S = fat_info.sectors_per_cluster, desc' = [fd \in Fds |-> desc'[fd]],
           \A fd \in Fds : /\ Listing(desc'[fd]) => mounted
                           /\ DescRight(card, S, desc'[fd])
    PROVE  ListInv'
<1>1. PICK c, to, D : c = card /\ to = card' /\ D = desc'
  OBVIOUS
<1>2. Formatted(c) /\ Creates(c, to)
  BY <1>1 DEF DirInv
<1>3. ASSUME NEW fd \in Fds
      PROVE  (Listing(D[fd]) => mounted) /\ DescRight(to, S, D[fd])
  <2>1. PICK d : d = D[fd]
    OBVIOUS
  <2>2. (Listing(d) => mounted) /\ DescRight(c, S, d)
    BY <1>1, <2>1
  <2>3. DescRight(to, S, d)
    BY <1>2, <2>2, CreateKeepsListing
  <2> QED
    BY <2>1, <2>2, <2>3
<1>4. mounted' = mounted /\ fat_info'.sectors_per_cluster = S
  OBVIOUS
<1>5. D = [fd \in Fds |-> D[fd]]
  BY <1>1
<1> QED
  BY <1>1, <1>3, <1>4, <1>5 DEF ListInv

\* A step that gives at most one descriptor a right value.
LEMMA OneChanged ==
    ASSUME DirInv, ListInv, Creates(card, card'), UNCHANGED <<mounted, fat_info>>,
           NEW S, S = fat_info.sectors_per_cluster, NEW fd, NEW d,
           (Listing(d) => mounted) /\ DescRight(card, S, d),
           desc' = desc \/ desc' = [desc EXCEPT ![fd] = d]
    PROVE  ListInv'
<1>1. PICK D, E : D = desc /\ E = desc'
  OBVIOUS
<1>2. /\ D = [x \in Fds |-> D[x]]
      /\ \A x \in Fds : (Listing(D[x]) => mounted) /\ DescRight(card, S, D[x])
  BY <1>1 DEF ListInv
<1>3. E = D \/ E = [D EXCEPT ![fd] = d]
  BY <1>1
<1>4. E = [x \in Fds |-> E[x]] /\ \A x \in Fds : E[x] = D[x] \/ E[x] = d
  BY <1>2, <1>3
<1>5. ASSUME NEW x \in Fds PROVE (Listing(E[x]) => mounted) /\ DescRight(card, S, E[x])
  BY <1>2, <1>4
<1> QED
  BY <1>1, <1>4, <1>5, ListingsKept

\* A call that opens a descriptor.
LEMMA OpensRight ==
    ASSUME DirInv, ListInv, mounted, NEW reads, NEW result, NEW d, Opens(reads, result, d),
           Creates(card, card'), UNCHANGED <<mounted, fat_info>>,
           NEW S, S = fat_info.sectors_per_cluster, result.ok => DescRight(card, S, d)
    PROVE  ListInv'
<1>1. CASE desc' = desc
  <2>1. PICK e : e = FreeDesc
    OBVIOUS
  <2>2. IsDesc(e) /\ ~Listing(e) /\ e.listed = <<>> /\ e.done = FALSE
    BY <2>1 DEF FreeDesc, IsDesc, Listing
  <2>3. (Listing(e) => mounted) /\ DescRight(card, S, e)
    BY <2>2 DEF DescRight
  <2> QED
    BY <1>1, <2>3, OneChanged
<1>2. CASE result.ok /\ desc' = [desc EXCEPT ![Min(FreeFds)] = d]
  <2>1. (Listing(d) => mounted) /\ DescRight(card, S, d)
    BY <1>2
  <2> QED
    BY <1>2, <2>1, OneChanged
<1> QED
  BY <1>1, <1>2 DEF Opens

\* fat_mount ends every listing, whichever card it finds.
LEMMA MountEndsListings ==
    ASSUME NEW c, fat_mount(c)
    PROVE  ListInv'
<1>1. PICK D : D = desc'
  OBVIOUS
<1>2. D = [fd \in Fds |-> D[fd]] /\ \A fd \in Fds : D[fd] = FreeDesc \/ D[fd] = StaleDesc
  BY <1>1 DEF fat_mount
<1>3. ASSUME NEW d, d = FreeDesc \/ d = StaleDesc
      PROVE  IsDesc(d) /\ ~Listing(d) /\ d.listed = <<>> /\ d.done = FALSE
  <2>1. CASE d = FreeDesc
    BY <2>1 DEF FreeDesc, IsDesc, Listing
  <2>2. CASE d = StaleDesc
    <3>1. d = [is_free |-> FALSE, is_stale |-> TRUE, is_root |-> FALSE, is_dir |-> FALSE,
               block_addr |-> 0, block_in_cluster |-> 0, index_in_block |-> 0,
               next_cluster |-> EOC,
               dir |-> 0, due |-> {}, masked |-> {}, listed |-> <<>>, done |-> FALSE]
      BY <2>2 DEF StaleDesc, FreeDesc
    <3> QED
      BY <3>1 DEF IsDesc, Listing
  <2> QED
    BY <1>3, <2>1, <2>2
<1>4. ASSUME NEW fd \in Fds
      PROVE  (Listing(D[fd]) => mounted') /\ DescRight(card', fat_info'.sectors_per_cluster, D[fd])
  <2>1. PICK d : d = D[fd]
    OBVIOUS
  <2>2. IsDesc(d) /\ ~Listing(d) /\ d.listed = <<>> /\ d.done = FALSE
    BY <1>2, <1>3, <2>1
  <2> QED
    BY <2>1, <2>2 DEF DescRight
<1> QED
  BY <1>1, <1>2, <1>4 DEF ListInv

\* At the beginning.
LEMMA InitListInv == Init => ListInv
<1> SUFFICES ASSUME Init PROVE ListInv
  OBVIOUS
<1>1. PICK e : e = FreeDesc
  OBVIOUS
<1>2. IsDesc(e) /\ ~Listing(e) /\ e.listed = <<>> /\ e.done = FALSE
  BY <1>1 DEF FreeDesc, IsDesc, Listing
<1>3. desc = [fd \in Fds |-> e]
  BY <1>1 DEF Init
<1> QED
  BY <1>2, <1>3 DEF ListInv, DescRight

\* Every step keeps the invariant.
LEMMA NextListInv ==
    ASSUME "full" \notin Usage, DirInv, ListInv, [Next]_vars
    PROVE  ListInv'
<1>0. PICK S : S = fat_info.sectors_per_cluster
  OBVIOUS
<1> SUFFICES ASSUME ~ \E c \in Socket : fat_mount(c) PROVE ListInv'
  BY MountEndsListings
<1>1. Creates(card, card')
  BY StepsKeep
<1>2. ASSUME NEW dir \in Dirs, NEW name \in Names, NEW mode \in Modes, fat_open_file(dir, name, mode)
      PROVE  ListInv'
  <2>1. PICK result, d : /\ result = fat_private_find_file(dir, name, mode)
                         /\ d = fat_private_init_fd(result.entry) /\ Opens(TRUE, result, d)
    BY <1>2 DEF fat_open_file
  <2>2. mounted /\ Searches(dir) /\ UNCHANGED <<mounted, fat_info>> /\ name \in Components
    BY <1>2 DEF fat_open_file, Usable, Components
  <2>3. ASSUME result.ok PROVE DescRight(card, S, d)
    <3>1. PICK entry : entry = result.entry
      OBVIOUS
    <3>2. "DIRECTORY" \in entry.attrs => entry.cluster \in Dirs
      BY <2>1, <2>2, <2>3, <3>1, SearchOpensDir
    <3>3. d = fat_private_init_fd(entry)
      BY <2>1, <3>1
    <3> QED
      BY <1>0, <2>2, <3>2, <3>3, EntryBegins
  <2> QED
    BY <1>0, <1>1, <2>1, <2>2, <2>3, OpensRight
<1>3. ASSUME NEW path \in Paths, NEW mode \in Modes, fat_open_path(path, mode)
      PROVE  ListInv'
  <2>1. PICK result, reads, entry, root, d :
           /\ result = fat_find_path(path, mode) /\ entry = result.entry
           /\ d = IF root THEN fat_private_init_root_dir ELSE fat_private_init_fd(entry)
           /\ Opens(reads, result, d)
    BY <1>3 DEF fat_open_path
  <2>2. mounted /\ Passable(path) /\ UNCHANGED <<mounted, fat_info>>
    BY <1>3 DEF fat_open_path
  <2>3. ASSUME result.ok PROVE DescRight(card, S, d)
    <3>1. "DIRECTORY" \in entry.attrs => entry.cluster \in Dirs
      BY <2>1, <2>2, <2>3, PathOpensDir
    <3>2. CASE root
      <4>1. d = fat_private_init_root_dir
        BY <2>1, <3>2
      <4> QED
        BY <1>0, <2>2, <4>1, RootBegins
    <3>3. CASE ~root
      <4>1. d = fat_private_init_fd(entry)
        BY <2>1, <3>3
      <4> QED
        BY <1>0, <2>2, <3>1, <4>1, EntryBegins
    <3> QED
      BY <3>2, <3>3
  <2> QED
    BY <1>0, <1>1, <2>1, <2>2, <2>3, OpensRight
<1>4. ASSUME NEW dir \in Dirs, fat_open_dir(dir)
      PROVE  ListInv'
  <2>1. PICK result, reads, d :
           /\ Opens(reads, result, d)
           /\ d = IF dir = 0 THEN fat_private_init_root_dir
                  ELSE fat_private_init_fd([Root EXCEPT !.cluster = dir])
    BY <1>4 DEF fat_open_dir
  <2>2. mounted /\ UNCHANGED <<mounted, fat_info>>
    BY <1>4 DEF fat_open_dir
  <2>3. CASE dir = 0
    <3>1. d = fat_private_init_root_dir
      BY <2>1, <2>3
    <3>2. DescRight(card, S, d)
      BY <1>0, <2>2, <3>1, RootBegins
    <3> QED
      BY <1>0, <1>1, <2>1, <2>2, <3>2, OpensRight
  <2>4. CASE dir # 0
    <3>1. PICK entry : entry = [Root EXCEPT !.cluster = dir]
      OBVIOUS
    <3>2. entry.cluster \in Dirs
      BY <3>1 DEF Root
    <3>3. d = fat_private_init_fd(entry)
      BY <2>1, <2>4, <3>1
    <3>4. DescRight(card, S, d)
      BY <1>0, <2>2, <3>2, <3>3, EntryBegins
    <3> QED
      BY <1>0, <1>1, <2>1, <2>2, <3>4, OpensRight
  <2> QED
    BY <2>3, <2>4
<1>5. ASSUME NEW e, e = FreeDesc
      PROVE  (Listing(e) => mounted) /\ DescRight(card, S, e)
  <2>1. IsDesc(e) /\ ~Listing(e) /\ e.listed = <<>> /\ e.done = FALSE
    BY <1>5 DEF FreeDesc, IsDesc, Listing
  <2> QED
    BY <2>1 DEF DescRight
<1>6. ASSUME UNCHANGED <<mounted, fat_info, desc>>
      PROVE  ListInv'
  <2>1. PICK e : e = FreeDesc
    OBVIOUS
  <2>2. (Listing(e) => mounted) /\ DescRight(card, S, e)
    BY <1>5, <2>1
  <2> QED
    BY <1>0, <1>1, <1>6, <2>2, OneChanged
<1>7. ASSUME NEW fd \in Fds, NEW mask \in Masks, fat_get_next_dir_entry(fd, mask)
      PROVE  ListInv'
  <2>1. PICK d : d = desc[fd]
    OBVIOUS
  <2>2. PICK pass, more, f :
           /\ pass = Pass(d, mask) /\ more = (pass.entry.name # End.name)
           /\ f = [pass.d EXCEPT !.masked = pass.d.masked \cup mask, !.done = ~more,
                      !.listed = IF more THEN Append(pass.d.listed, pass.entry.name)
                                 ELSE pass.d.listed]
    OBVIOUS
  <2>3. /\ mounted /\ Listing(d) /\ ~d.done /\ Lists(d.dir) /\ UNCHANGED <<mounted, fat_info>>
    BY <1>7, <2>1 DEF fat_get_next_dir_entry, Usable, Listing
  <2>4. desc' = [desc EXCEPT ![fd] = f] \/ desc' = desc
    BY <1>7, <2>1, <2>2 DEF fat_get_next_dir_entry
  <2>5. DescRight(card, S, d)
    BY <1>0, <2>1 DEF ListInv
  <2>6. DescRight(card, S, f) /\ Listing(f)
    BY <1>0, <2>2, <2>3, <2>5, TakenRight
  <2> QED
    BY <1>0, <1>1, <2>3, <2>4, <2>6, OneChanged
<1>8. ASSUME NEW fd \in Fds, fat_close(fd)
      PROVE  ListInv'
  <2>1. PICK e : e = FreeDesc
    OBVIOUS
  <2>2. desc' = [desc EXCEPT ![fd] = e] /\ UNCHANGED <<mounted, fat_info>>
    BY <1>8, <2>1 DEF fat_close
  <2>3. (Listing(e) => mounted) /\ DescRight(card, S, e)
    BY <1>5, <2>1
  <2> QED
    BY <1>0, <1>1, <2>2, <2>3, OneChanged
<1> QED
  <2>2. CASE \E dir \in Dirs, name \in Names, mode \in Modes : fat_open_file(dir, name, mode)
    BY <1>2, <2>2
  <2>3. CASE \E path \in Paths, mode \in Modes : fat_open_path(path, mode)
    BY <1>3, <2>3
  <2>4. CASE \E dir \in Dirs : fat_open_dir(dir)
    BY <1>4, <2>4
  <2>5. CASE \E dir \in Dirs, name \in Names : fat_change_dir(dir, name)
    BY <1>6, <2>5 DEF fat_change_dir
  <2>6. CASE \E fd \in Fds, mask \in Masks : fat_get_next_dir_entry(fd, mask)
    BY <1>7, <2>6
  <2>7. CASE \E fd \in Fds : fat_close(fd)
    BY <1>8, <2>7
  <2>8. CASE UNCHANGED vars
    BY <1>6, <2>8 DEF vars
  <2> QED
    BY <2>2, <2>3, <2>4, <2>5, <2>6, <2>7, <2>8 DEF Next

\* The invariant says of every listing what the property asks.
LEMMA ListsOnce ==
    ASSUME DirInv, ListInv
    PROVE  ListsEachOnce
<1> SUFFICES ASSUME NEW fd \in Fds, NEW d, d = desc[fd], d.listed # <<>> \/ d.done
             PROVE  /\ \A i, j \in DOMAIN d.listed : d.listed[i] = d.listed[j] => i = j
                    /\ Range(d.listed) \subseteq {Name(s) : s \in Used(d.dir)}
                    /\ d.done => {e.name : e \in {f \in d.due : f.attrs \cap d.masked = {}}}
                                     \subseteq Range(d.listed)
  BY DEF ListsEachOnce
<1>1. PICK S : S = fat_info.sectors_per_cluster
  OBVIOUS
<1>2. DescRight(card, S, d)
  BY <1>1 DEF ListInv
<1>3. ListsRight(card, S, d)
  BY <1>2 DEF DescRight
<1>4. /\ d.dir \in DOMAIN card.dirs
      /\ \A i, j \in DOMAIN d.listed : d.listed[i] = d.listed[j] => i = j
      /\ d.done => ListedAll(card, d)
      /\ ~d.done => \E p : ListedBefore(card, d, p)
  BY <1>3 DEF ListsRight
<1>5. PICK p : d.listed \in Seq(NamesBefore(card, d.dir, p))
  BY <1>4 DEF ListedAll, ListedBefore
<1>6. Range(d.listed) \subseteq {Name(s) : s \in Used(d.dir)}
  <2> SUFFICES ASSUME NEW i \in DOMAIN d.listed
               PROVE  \E s \in Used(d.dir) : d.listed[i] = Name(s)
    BY DEF Range
  <2>1. d.listed[i] \in NamesBefore(card, d.dir, p)
    BY <1>5
  <2>2. PICK x : InUse(card, d.dir, x) /\ d.listed[i] = EntryOn(card, d.dir, x).name
    BY <2>1 DEF NamesBefore
  <2>3. PICK s : SlotIs(card, d.dir, x, s)
    <3>1. \A y : InUse(card, d.dir, y) => \E s : SlotIs(card, d.dir, y, s)
      BY <1>4, SlotsInUse DEF DirInv
    <3> QED
      BY <2>2, <3>1
  <2>4. s \in Used(d.dir) /\ EntryOn(card, d.dir, x) = EntryAt(s)
    BY <2>3 DEF SlotIs, Used, EntryAt
  <2> QED
    BY <2>2, <2>4 DEF Name
<1>7. d.done => {e.name : e \in {f \in d.due : f.attrs \cap d.masked = {}}} \subseteq Range(d.listed)
  BY <1>4 DEF ListedAll, Due
<1> QED
  BY <1>4, <1>6, <1>7

\* fat_get_next_dir_entry returns each entry once, and says that none are left
\* only when all that were there when the directory was opened, and are not to
\* be skipped, were returned, whatever is created meanwhile, also by calls that
\* fail: for all cards, any number of descriptors and of listings of a directory.
THEOREM EntriesListedOnce ==
    ASSUME "full" \notin Usage
    PROVE  Spec => []ListsEachOnce
<1>1. Init => DirInv /\ ListInv
  BY InitDirInv, InitListInv
<1>2. DirInv /\ ListInv /\ [Next]_vars => (DirInv /\ ListInv)'
  <2> SUFFICES ASSUME DirInv, ListInv, [Next]_vars PROVE DirInv' /\ ListInv'
    OBVIOUS
  <2> QED
    BY NextDirInv, NextListInv
<1>3. DirInv /\ ListInv => ListsEachOnce
  BY ListsOnce
<1> QED
  BY <1>1, <1>2, <1>3, PTL DEF Spec
=============================================================================
