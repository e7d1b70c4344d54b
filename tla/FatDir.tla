------------------------------- MODULE FatDir -------------------------------
(***************************************************************************)
(* Directories and paths: the directory half of lib/fat/fat.c and          *)
(* lib/fat/path.c, on the geometry of FatMount and the names of FatName.   *)
(*                                                                         *)
(* A call is one step: it writes at most one block, and the buffer agrees  *)
(* with the card (BlockCache).  A block of a directory, or of a file that  *)
(* is taken for one, is a function from entry numbers to entries, and a    *)
(* sector of a FAT one from numbers to clusters.  The chains are sound.    *)
(* index_in_block counts entries.  last_error is in the results of the     *)
(* operators: a call that only stores an error is no step.                 *)
(***************************************************************************)
EXTENDS FatName, FatMount, SequencesExt

CONSTANTS Images,   \* the cards: [blocks, dirs, chains, layout], see Formatted
          Fds,      \* descriptors: 0 .. MAX_FILE_DESC - 1
          Names,    \* names the program uses
          Paths,    \* [absolute, parts, slash]: paths the program uses
          Masks,    \* attributes that fat_get_next_dir_entry is told to skip
          Usage,    \* "full": the program uses directories without an end mark
          EntriesPerSector, \* of a FAT: CARD_BLOCK_SIZE >> 1, 256 in the source
          EOC       \* FAT_MIN_LAST_CLUSTER: the end of chain marks begin here

\* Entries.  The first byte of the name tells the free ones.
End == [name |-> <<>>, attrs |-> {}, cluster |-> 0, size |-> 0]
DeletedName == [k \in 1 .. NameLen |-> "e5"]
LongFilename == {"READ_ONLY", "HIDDEN", "SYSTEM", "VOLUME_ID"}
NewEntry(name) == [name |-> name, attrs |-> {}, cluster |-> 0, size |-> 0]
Root == [name |-> <<>>, attrs |-> {"DIRECTORY"}, cluster |-> 0, size |-> 0]

Components == Names \cup UNION {Range(p.parts) : p \in Paths}

-----------------------------------------------------------------------------
(***************************************************************************)
(* Cards as they were formatted: `blocks' is the content, `layout' says    *)
(* where the areas of the volume are and how many clusters it has,         *)
(* `chains' gives the clusters of each directory but the root, which is    *)
(* directory 0, and `dirs' the blocks of each directory, in order.         *)
(***************************************************************************)
IsFree(name) == name \in {End.name, DeletedName}

\* The slots in use of a directory, as whoever formatted card c knows it.
UsedOn(c, dir) ==
    {s \in [addr : Range(c.dirs[dir]), index : 0 .. EntriesPerBlock - 1] :
        ~IsFree(c.blocks[s.addr][s.index].name)}

NameOn(c, dir, i, m) == c.blocks[c.dirs[dir][i]][m].name

\* No directory has two entries of one name, nor one behind its end mark.
EntriesSound(c) ==
    \A dir \in DOMAIN c.dirs :
        /\ \A s, t \in UsedOn(c, dir) :
              c.blocks[s.addr][s.index].name = c.blocks[t.addr][t.index].name => s = t
        /\ \A i, j \in 1 .. Len(c.dirs[dir]), m, n \in 0 .. EntriesPerBlock - 1 :
              (i < j \/ (i = j /\ m < n)) /\ NameOn(c, dir, i, m) = End.name
                  => NameOn(c, dir, j, n) = End.name

Volume(c) == c.blocks[c.blocks[0].rel_sector]

\* The entry of cluster k in the FAT that begins at block first, and the whole
\* FAT, of a number of sectors.
FatEntry(blocks, first, k) == blocks[first + k \div EntriesPerSector][k % EntriesPerSector]
FatAt(blocks, first, sectors) ==
    [k \in {n \in 0 .. sectors * EntriesPerSector - 1 : n < EOC} |-> FatEntry(blocks, first, k)]

FatOf(c) == FatAt(c.blocks, c.layout.fat0, c.layout.sectors)

\* The directories lie apart from each other and from what describes the volume.
Described(c) == {0, c.blocks[0].rel_sector} \cup c.layout.fat0 .. c.layout.root - 1
DirsApart(c) ==
    /\ 0 \in DOMAIN c.dirs
    /\ \A d \in DOMAIN c.dirs :
          /\ c.dirs[d] \in Seq(DOMAIN c.blocks \ Described(c))
          /\ \A i \in DOMAIN c.dirs[d] : DOMAIN c.blocks[c.dirs[d][i]] = 0 .. EntriesPerBlock - 1
          /\ \A e \in DOMAIN c.dirs : \A i \in DOMAIN c.dirs[d], j \in DOMAIN c.dirs[e] :
                c.dirs[d][i] = c.dirs[e][j] => d = e /\ i = j

\* A directory's entry holds its first cluster.
DirsNamed(c) ==
    \A d \in DOMAIN c.dirs : \A s \in UsedOn(c, d) :
        "DIRECTORY" \in c.blocks[s.addr][s.index].attrs =>
            c.blocks[s.addr][s.index].cluster \in DOMAIN c.dirs

\* The sectors of a volume, counted from its start.
Sectors(v) == IF v.total_sectors = 0 THEN v.large_sectors ELSE v.total_sectors

\* The areas follow each other as a FAT12 or FAT16 volume has them, and the FAT
\* has an entry for every cluster.
LaidOut(c) ==
    LET v == Volume(c)
        l == c.layout
    IN  /\ {v.n_hidden_sectors, v.n_reserved_sectors, v.n_dir_entries, Sectors(v)} \subseteq Nat
        /\ l.last \in Nat /\ DOMAIN c.blocks = 0 .. l.last
        /\ v.n_hidden_sectors + Sectors(v) <= l.last + 1
        /\ l.fats \in {1, 2} /\ l.sectors \in Nat \ {0} /\ v.sectors_per_fat = l.sectors
        /\ v.sectors_per_cluster \in Nat \ {0}
        /\ v.sectors_per_cluster = 2 ^ Log2(v.sectors_per_cluster)
        /\ l.fat0 = v.n_hidden_sectors + v.n_reserved_sectors
        /\ l.root = l.fat0 + l.fats * l.sectors
        /\ l.data = l.root + (v.n_dir_entries + EntriesPerBlock - 1) \div EntriesPerBlock
        /\ l.data <= v.n_hidden_sectors + Sectors(v)
        /\ l.clusters =
              (v.n_hidden_sectors + Sectors(v) - l.data) \div v.sectors_per_cluster
        /\ l.clusters + 2 <= l.sectors * EntriesPerSector
        \* the card is smaller than 2 TB by the largest FAT16 volume
        /\ l.last + 1 + MinFat32 * v.sectors_per_cluster <= U32

IsCluster(fat, c) == c \in DOMAIN fat /\ c >= 2

\* The FAT links the clusters of chain, each to the next and the last to none.
Follows(fat, chain) ==
    /\ chain \in Seq({k \in DOMAIN fat : k >= 2}) /\ chain # <<>>
    /\ \A i, j \in DOMAIN chain : chain[i] = chain[j] => i = j
    /\ \A i \in DOMAIN chain :
          IF i < Len(chain) THEN fat[chain[i]] = chain[i + 1]
          ELSE ~IsCluster(fat, fat[chain[i]])

ChainsLinked(c) ==
    /\ DOMAIN c.chains = DOMAIN c.dirs \ {0}
    /\ \A d \in DOMAIN c.chains : Follows(FatOf(c), c.chains[d]) /\ c.chains[d][1] = d

\* The blocks of the root directory, and those of the clusters of another one.
BlocksAt(l, size, d, chains) ==
    IF d = 0 THEN [i \in 1 .. l.data - l.root |-> l.root + i - 1]
    ELSE [i \in 1 .. Len(chains[d]) * size |->
            l.data + (chains[d][(i - 1) \div size + 1] - 2) * size + ((i - 1) % size)]

DirsPlaced(c) ==
    \A d \in DOMAIN c.dirs :
        c.dirs[d] = BlocksAt(c.layout, Volume(c).sectors_per_cluster, d, c.chains)

\* What is asked of a card; of its layout only with sectors of the right size and
\* two FATs at most, and of its chains only when fat_mount accepts it.
Formatted(c) ==
    /\ {"blocks", "dirs", "chains", "layout"} \subseteq DOMAIN c
    /\ {0, c.blocks[0].rel_sector} \subseteq DOMAIN c.blocks
    /\ Volume(c).n_fats \in Nat /\ Volume(c).n_fats = c.layout.fats
    /\ DirsApart(c) /\ DirsNamed(c) /\ EntriesSound(c)
    /\ Volume(c).bytes_per_sector = BlockSize /\ c.layout.fats <= 2 => LaidOut(c)
    /\ Mounted(Volume(c), NoInfo).error = "OK" => ChainsLinked(c) /\ DirsPlaced(c)

\* A name the program uses is not that of a deleted entry.
ASSUME DirAssumption ==
    /\ Fds # {} /\ Fds \subseteq Nat /\ EntriesPerSector \in Nat \ {0} /\ EOC \in Nat
    /\ \A name \in Components : name # <<>> /\ name[1] # "e5"
    /\ \A p \in Paths : /\ {"absolute", "parts", "slash"} \subseteq DOMAIN p
                       /\ p.parts \in Seq(Components)

\* The cards are formatted.
ASSUME ImagesAssumption == \A c \in Images : Formatted(c)

\* The names of files and directories are such as name.c keeps.
NamesKept(c) ==
    \A d \in DOMAIN c.dirs : \A s \in UsedOn(c, d) :
        c.blocks[s.addr][s.index].attrs # LongFilename => Stored(c.blocks[s.addr][s.index].name)
ASSUME NamesAssumption ==
    (\A name \in Components : Plain(name)) /\ (\A c \in Images : NamesKept(c))

VARIABLES card,     \* the card: a member of Images with blocks as they are now
          ready,    \* it is initialized
          mounted,  \* the last fat_mount returned true (history)
          fat_info,
          desc      \* fat_private_file_desc

vars == <<card, ready, mounted, fat_info, desc>>

Modes == {{}, {"CREAT"}, {"CREAT", "EXCL"}}

NoSlot == [addr |-> 0, index |-> 0]
FreeDesc ==
    [is_free |-> TRUE, is_stale |-> FALSE, is_root |-> FALSE, is_dir |-> FALSE,
     block_addr |-> 0, block_in_cluster |-> 0, index_in_block |-> 0,
     next_cluster |-> EOC,
     \* history of a listing: the directory, what it held when it was opened,
     \* the attributes that were skipped, the names returned, the end was reported
     dir |-> 0, due |-> {}, masked |-> {}, listed |-> <<>>, done |-> FALSE]

-----------------------------------------------------------------------------
(***************************************************************************)
(* The search.  A directory is given by its first cluster, 0 for the root. *)
(***************************************************************************)
Readable(addr) == addr \in DOMAIN card.blocks

read_fat_entry(c) == FatEntry(card.blocks, fat_info.fat0_offset, c)

Fat == FatAt(card.blocks, fat_info.fat0_offset, fat_info.sectors_per_fat)

\* The entries of a FAT from c on, each of them the link in the one before.
LinksFrom(fat, c) ==
    LET nth[n \in 0 .. Cardinality(DOMAIN fat)] ==
            IF n = 0 THEN c ELSE IF IsCluster(fat, nth[n - 1]) THEN fat[nth[n - 1]] ELSE EOC
    IN  nth

\* The clusters of the chain of c, in order.
ChainOf(fat, c) ==
    LET bound == Cardinality(DOMAIN fat)
        links == LinksFrom(fat, c)
        length == Min({n \in 0 .. bound : n = bound \/ ~IsCluster(fat, links[n])})
    IN  [n \in 1 .. length |-> links[n - 1]]

BlockOf(c) == fat_info.data_offset + (c - 2) * 2 ^ fat_info.log_sectors_per_cluster

\* The blocks fat_private_find_file visits: those of the chain, or every block
\* from the root directory on, to the end of the card.
Visited(dir) ==
    IF dir = 0
    THEN [i \in 1 .. Cardinality({a \in DOMAIN card.blocks : a >= fat_info.root_dir_block})
            |-> fat_info.root_dir_block + i - 1]
    ELSE LET chain == ChainOf(Fat, dir)
             size == fat_info.sectors_per_cluster
         IN  [i \in 1 .. Len(chain) * size |->
                BlockOf(chain[(i - 1) \div size + 1]) + ((i - 1) % size)]

Slots(dir) ==
    LET blocks == Visited(dir) IN
    [i \in 1 .. Len(blocks) * EntriesPerBlock |->
        [addr |-> blocks[(i - 1) \div EntriesPerBlock + 1],
         index |-> (i - 1) % EntriesPerBlock]]

EntryAt(slot) == card.blocks[slot.addr][slot.index]
Name(slot) == EntryAt(slot).name

\* Where the search in slots s ends: the first that was never used, or behind all.
EndOf(s) == Min({i \in DOMAIN s : Name(s[i]) = End.name} \cup {Len(s) + 1})

Failed(error) == [ok |-> FALSE, at |-> NoSlot, entry |-> End, new |-> FALSE, error |-> error]
Found(slot, entry, new) ==
    [ok |-> TRUE, at |-> slot, entry |-> entry, new |-> new, error |-> "OK"]

\* Mutant of fat_private_find_file: a deleted entry is taken at once.
FindTakesDeleted(dir, name, mode) ==
    LET s == Slots(dir)
        n == to_fat_name(name)
        hits == {i \in 1 .. EndOf(s) - 1 : Name(s[i]) \in {n, DeletedName}}
    IN  IF hits # {} /\ Name(s[Min(hits)]) = n
        THEN Found(s[Min(hits)], EntryAt(s[Min(hits)]), FALSE)
        ELSE IF "CREAT" \notin mode THEN Failed("NOT_FOUND")
        ELSE Found(s[Min(hits \cup {EndOf(s)})], NewEntry(n), TRUE)

\* Mutant of fat_private_find_file: a new entry goes to the place of the deleted
\* one, but into the block that is in the buffer.
FindForgetsBlock(dir, name, mode) ==
    LET s == Slots(dir)
        n == to_fat_name(name)
        hits == {i \in 1 .. EndOf(s) - 1 : Name(s[i]) = n}
        deleted == {i \in 1 .. EndOf(s) - 1 : Name(s[i]) = DeletedName}
    IN  IF hits # {} THEN Found(s[Min(hits)], EntryAt(s[Min(hits)]), FALSE)
        ELSE IF "CREAT" \notin mode \/ EndOf(s) > Len(s) THEN Failed("NOT_FOUND")
        ELSE Found([s[EndOf(s)] EXCEPT !.index = s[Min(deleted \cup {EndOf(s)})].index],
                   NewEntry(n), TRUE)

fat_private_find_file(dir, name, mode) ==
    LET s == Slots(dir)
        n == to_fat_name(name)
        end == EndOf(s)
        hits == {i \in 1 .. end - 1 : Name(s[i]) = n}
        deleted == {i \in 1 .. end - 1 : Name(s[i]) = DeletedName}
        place == IF deleted # {} THEN Min(deleted) ELSE end
    IN  IF hits # {}
        THEN IF mode = {"CREAT", "EXCL"} THEN Failed("FILE_EXISTS")
             ELSE Found(s[Min(hits)], EntryAt(s[Min(hits)]), FALSE)
        ELSE CASE end <= Len(s) /\ "CREAT" \in mode -> Found(s[place], NewEntry(n), TRUE)
               [] end > Len(s) /\ dir = 0 -> Failed("FS_BROKEN")
               [] end > Len(s) /\ dir # 0 /\ "CREAT" \in mode -> Failed("DIR_FULL")
               [] (end <= Len(s) \/ dir # 0) /\ "CREAT" \notin mode -> Failed("NOT_FOUND")

\* What it leaves on the card.
Written(result) ==
    IF result.new
    THEN [card EXCEPT !.blocks[result.at.addr][result.at.index] = result.entry]
    ELSE card

-----------------------------------------------------------------------------
(***************************************************************************)
(* Paths.  Only the last part is created, and not when a slash follows it; *)
(* the parts before it are not asked whether they are directories.         *)
(***************************************************************************)
\* Mutant of fat_find_path: every part is created.
FindPathCreatesAll(path, mode) ==
    LET n == Len(path.parts)
        after[i \in 0 .. n] ==
            IF i = 0 THEN Found(NoSlot, Root, FALSE)
            ELSE IF ~after[i - 1].ok THEN after[i - 1]
            ELSE fat_private_find_file(after[i - 1].entry.cluster, path.parts[i], mode)
    IN  after[n]

\* `after' is the result when a number of parts was searched.
fat_find_path(path, mode) ==
    LET n == Len(path.parts)
        after[i \in 0 .. n] ==
            IF i = 0 THEN Found(NoSlot, Root, FALSE)
            ELSE IF ~after[i - 1].ok THEN after[i - 1]
            ELSE fat_private_find_file(after[i - 1].entry.cluster, path.parts[i],
                                       IF i = n /\ ~path.slash THEN mode ELSE {})
    IN  IF ~path.absolute THEN Failed("RELATIVE_PATH") ELSE after[n]

-----------------------------------------------------------------------------
(***************************************************************************)
(* Descriptors.                                                            *)
(***************************************************************************)
FreeFds == {fd \in Fds : desc[fd].is_free}

Used(dir) == UsedOn(card, dir)

\* What a listing of it has to return.
Listable(dir) ==
    {e \in {EntryAt(s) : s \in Used(dir)} : e.attrs # LongFilename}

fat_private_init_root_dir ==
    [FreeDesc EXCEPT !.is_free = FALSE, !.is_root = TRUE, !.is_dir = TRUE,
                     !.block_addr = fat_info.root_dir_block,
                     !.due = Listable(0)]

\* Of the descriptor of a plain file only is_free counts here (FatFile has it).
fat_private_init_fd(entry) ==
    IF "DIRECTORY" \notin entry.attrs THEN [FreeDesc EXCEPT !.is_free = FALSE]
    ELSE [FreeDesc EXCEPT !.is_free = FALSE, !.is_dir = TRUE,
                          !.block_addr = BlockOf(entry.cluster),
                          !.next_cluster = IF entry.cluster = 0 THEN EOC
                                           ELSE read_fat_entry(entry.cluster),
                          !.dir = entry.cluster, !.due = Listable(entry.cluster)]

\* Mutant of SeekAdvance: the next cluster is the next one on the card.
SeekAdvanceContiguous(d) ==
    IF d.index_in_block + 1 < EntriesPerBlock THEN [d EXCEPT !.index_in_block = @ + 1]
    ELSE [d EXCEPT !.index_in_block = 0, !.block_addr = @ + 1]

\* seek_advance by one entry.
SeekAdvance(d) ==
    IF d.index_in_block + 1 < EntriesPerBlock
    THEN [d EXCEPT !.index_in_block = @ + 1]
    ELSE LET e == [d EXCEPT !.index_in_block = 0, !.block_in_cluster = @ + 1] IN
         CASE e.block_in_cluster # fat_info.sectors_per_cluster \/ d.is_root ->
                [e EXCEPT !.block_addr = @ + 1]
           [] e.block_in_cluster = fat_info.sectors_per_cluster /\ ~d.is_root
              /\ IsCluster(Fat, d.next_cluster) ->
                [e EXCEPT !.block_addr = BlockOf(d.next_cluster), !.block_in_cluster = 0,
                          !.next_cluster = read_fat_entry(d.next_cluster)]
           [] e.block_in_cluster = fat_info.sectors_per_cluster /\ ~d.is_root
              /\ ~IsCluster(Fat, d.next_cluster) -> e

-----------------------------------------------------------------------------
Init ==
    /\ card \in Images /\ ready = FALSE /\ mounted = FALSE /\ fat_info = NoInfo
    /\ desc = [fd \in Fds |-> FreeDesc]

\* A call fails for a reason of the card; it was about to write `to`, and may have.
CardError(to) ==
    card' \in {card, to} /\ ready' = FALSE

StaleDesc == [FreeDesc EXCEPT !.is_free = FALSE, !.is_stale = TRUE]

\* fat_mount, of card c: descriptors in use become stale, which ends the use of
\* their fields.
fat_mount(c) ==
    LET result == Mounted(Volume(c), fat_info) IN
    /\ card' = c
    /\ desc' = [fd \in Fds |-> IF desc[fd].is_free THEN FreeDesc ELSE StaleDesc]
    /\ \/ fat_info' = result.info /\ ready' = TRUE /\ mounted' = (result.error = "OK")
       \/ ready' = FALSE /\ mounted' = FALSE /\ UNCHANGED fat_info

\* The program goes on only after a successful mount, and calls that read a card
\* that has failed since are refused.
Usable == mounted /\ ready

\* Unless Usage says so, the program searches no root directory and lists no
\* directory without an end mark.
HasEnd(dir) == \E s \in Range(Slots(dir)) : s.addr \in Range(card.dirs[dir]) /\ Name(s) = End.name
Searches(dir) == dir # 0 \/ HasEnd(dir) \/ "full" \in Usage
Lists(dir) == HasEnd(dir) \/ "full" \in Usage

\* A program passes a directory as its entry, of which only the cluster is read.
Dirs == DOMAIN card.dirs

\* A call that gets a descriptor, searches and initializes it: `reads` says that
\* it reads the card, result is that of the search, d the descriptor it is given.
Opens(reads, result, d) ==
    /\ FreeFds # {}
    /\ \/ /\ result.ok /\ card' = Written(result)
          /\ desc' = [desc EXCEPT ![Min(FreeFds)] = d]
          /\ UNCHANGED ready
       \/ reads /\ CardError(Written(result)) /\ UNCHANGED desc

fat_open_file(dir, name, mode) ==
    LET result == fat_private_find_file(dir, name, mode) IN
    /\ Usable /\ Searches(dir)
    /\ Opens(TRUE, result, fat_private_init_fd(result.entry))
    /\ UNCHANGED <<mounted, fat_info>>

\* The directories a path leads through; the program names no file among them.
Through(path) ==
    {fat_find_path([path EXCEPT !.parts = SubSeq(@, 1, i), !.slash = TRUE], {}) :
        i \in 0 .. Len(path.parts) - 1}
Passable(path) ==
    \A t \in Through(path) :
        t.ok => "DIRECTORY" \in t.entry.attrs /\ Searches(t.entry.cluster)

fat_open_path(path, mode) ==
    LET result == fat_find_path(path, mode)
        isRoot == "DIRECTORY" \in result.entry.attrs /\ result.entry.cluster = 0
        reads == path.absolute /\ path.parts # <<>>
    IN  /\ mounted /\ (reads => ready) /\ Passable(path)
        /\ Opens(reads, result,
                 IF isRoot THEN fat_private_init_root_dir
                 ELSE fat_private_init_fd(result.entry))
        /\ UNCHANGED <<mounted, fat_info>>

fat_open_dir(dir) ==
    /\ mounted /\ (ready \/ dir = 0)
    /\ Opens(dir # 0, Found(NoSlot, Root, FALSE),
             IF dir = 0 THEN fat_private_init_root_dir
             ELSE fat_private_init_fd([Root EXCEPT !.cluster = dir]))
    /\ UNCHANGED <<mounted, fat_info>>

\* fat_change_dir to a name: the entry goes to the caller, so that only a card
\* that fails makes it a step.
ChangedDir(dir, name) ==
    LET result == fat_private_find_file(dir, name, {}) IN
    IF result.ok /\ "DIRECTORY" \notin result.entry.attrs THEN Failed("NOT_A_DIR")
    ELSE result

fat_change_dir(dir, name) ==
    /\ Usable /\ Searches(dir)
    /\ CardError(card) /\ UNCHANGED <<mounted, fat_info, desc>>

\* One turn of the loop of fat_get_next_dir_entry after another: what the cursor
\* of d passes until an entry is returned or the end mark is read.
Skipped(e, mask) ==
    /\ e.name # End.name
    /\ e.name = DeletedName \/ e.attrs = LongFilename \/ e.attrs \cap mask # {}

Pass(d, mask) ==
    LET bound == EntriesPerBlock * Cardinality(DOMAIN card.blocks)
        here(e) == EntryAt([addr |-> e.block_addr, index |-> e.index_in_block])
        walk[n \in 0 .. bound] ==
            IF n = 0 THEN [d |-> SeekAdvance(d), entry |-> here(d)]
            ELSE LET w == walk[n - 1] IN
                 IF Skipped(w.entry, mask) /\ Readable(w.d.block_addr)
                 THEN [d |-> SeekAdvance(w.d), entry |-> here(w.d)] ELSE w
    IN  walk[bound]

\* The program does not list a root directory that it opened with fat_open_file
\* as "..", and stops when it was told that no entries are left.
fat_get_next_dir_entry(fd, mask) ==
    LET pass == Pass(desc[fd], mask)
        more == pass.entry.name # End.name
    IN  /\ Usable /\ ~desc[fd].is_free /\ ~desc[fd].is_stale
        /\ desc[fd].is_dir /\ ~desc[fd].done /\ (desc[fd].is_root \/ desc[fd].dir # 0)
        /\ Lists(desc[fd].dir)
        /\ \/ /\ desc' = [desc EXCEPT ![fd] =
                    [pass.d EXCEPT !.masked = @ \cup mask, !.done = ~more,
                                   !.listed = IF more THEN Append(@, pass.entry.name) ELSE @]]
              /\ UNCHANGED <<card, ready>>
           \/ CardError(card) /\ UNCHANGED desc
        /\ UNCHANGED <<mounted, fat_info>>

fat_close(fd) ==
    /\ ~desc[fd].is_free
    /\ desc' = [desc EXCEPT ![fd] = FreeDesc]
    /\ UNCHANGED <<card, ready, mounted, fat_info>>

\* When a call has failed, the card may be another one at the next mount, which
\* is the next step that counts.
Socket == {card} \cup {c \in Images : ~ready}

Next ==
    \/ \E c \in Socket : fat_mount(c)
    \/ \E dir \in Dirs, name \in Names, mode \in Modes : fat_open_file(dir, name, mode)
    \/ \E path \in Paths, mode \in Modes : fat_open_path(path, mode)
    \/ \E dir \in Dirs : fat_open_dir(dir)
    \/ \E dir \in Dirs, name \in Names : fat_change_dir(dir, name)
    \/ \E fd \in Fds, mask \in Masks : fat_get_next_dir_entry(fd, mask)
    \/ \E fd \in Fds : fat_close(fd)

Spec == Init /\ [][Next]_vars

-----------------------------------------------------------------------------
(***************************************************************************)
(* Properties.  card.dirs gives the blocks of each directory, card.layout  *)
(* the geometry, both as the card was formatted.                           *)
(***************************************************************************)
IsFat16Count(n) == n \in MinFat16 .. MinFat32 - 1

\* The card holds a volume that the library supports.
Supported(c) ==
    /\ Volume(c).bytes_per_sector = BlockSize /\ c.layout.fats <= 2
    /\ IsFat16Count(c.layout.clusters)

\* The hidden sectors, which fat_mount takes off the volume's sectors, do not
\* make its clusters so few that it counts as one of another type.
TypeKept(c) ==
    LET left == Sectors(Volume(c)) - c.layout.data IN
    IsFat16Count(c.layout.clusters)
        <=> left >= 0 /\ IsFat16Count(left \div Volume(c).sectors_per_cluster)

\* fat.c:34 fat_mount: whatever was mounted or refused before, of this card or
\* of another one, after a successful mount the FATs, the root directory and the
\* data are taken for where they were formatted to be, and every cluster counted
\* lies on the volume and has an entry in the FAT.  The volumes it accepts are
\* the FAT16 volumes, where the hidden sectors do not hide that.
GeometrySound ==
    /\ mounted =>
        /\ fat_info.fat0_offset = card.layout.fat0
        /\ fat_info.sectors_per_fat = card.layout.sectors
        /\ card.layout.fats = 2 =>
              fat_info.fat1_offset = card.layout.fat0 + card.layout.sectors
        /\ fat_info.root_dir_block = card.layout.root
        /\ fat_info.data_offset = card.layout.data
        /\ fat_info.n_clusters <= card.layout.clusters
        /\ fat_info.data_offset + fat_info.n_clusters * fat_info.sectors_per_cluster
              <= card.layout.last + 1
        /\ fat_info.n_clusters + 2 <= fat_info.sectors_per_fat * EntriesPerSector
    /\ ready /\ TypeKept(card) => (mounted <=> Supported(card))

\* fat.c:209 fat_private_find_file creates entries: whatever is created, also by
\* calls that fail, no directory gets two entries of one name, and no entry
\* comes behind the end mark, where neither the search nor a listing sees it.
DirectoriesSound == EntriesSound(card)

\* fat.c:251 the creation: a call changes nothing on the card but one free or
\* deleted entry of a directory, even where the deleted entry is in another
\* block than the end mark (a mount may find another card).
CreatesOneEntry ==
    [][card' # card =>
          \/ \E c \in Images : fat_mount(c)
          \/ \E dir \in Dirs :
                \E addr \in Range(card.dirs[dir]), i \in 0 .. EntriesPerBlock - 1 :
                    /\ IsFree(card.blocks[addr][i].name)
                    /\ card' = [card EXCEPT !.blocks[addr][i] = card'.blocks[addr][i]]]_vars

\* The slots that parts lead to from directory dir, by the directories' contents.
Named(dir, name) == {s \in Used(dir) : Name(s) = to_fat_name(name)}
Denotes(dir, parts) ==
    LET at[i \in 1 .. Len(parts)] ==
            IF i = 1 THEN Named(dir, parts[1])
            ELSE UNION {Named(EntryAt(s).cluster, parts[i]) :
                          s \in {t \in at[i - 1] : "DIRECTORY" \in EntryAt(t).attrs}}
    IN  at[Len(parts)]

\* The result of a search against the slots that are really there.
Agrees(result, there, mode) ==
    /\ result.ok /\ ~result.new =>
          there = {result.at} /\ result.entry = EntryAt(result.at) /\ mode # {"CREAT", "EXCL"}
    /\ result.new => there = {} /\ "CREAT" \in mode
    /\ ~result.ok => (result.error = "FILE_EXISTS") = (there # {})

\* fat.c:209, path.c:19: whatever was created before, a name in a directory and
\* a path lead to the entry the directories say; what is not found or created
\* is not there, and O_EXCL refuses exactly what is there.  The name that
\* from_fat_name makes of an entry (name.c:45) leads back to that entry.  (Asked
\* while no file is open: every content of the card occurs then.)
OpensWhatIsNamed ==
    Usable /\ FreeFds = Fds =>
        \A mode \in Modes :
            /\ \A dir \in Dirs, name \in Components : Searches(dir) =>
                  Agrees(fat_private_find_file(dir, name, mode), Denotes(dir, <<name>>), mode)
            /\ \A dir \in Dirs, name \in Components : Searches(dir) =>
                  (ChangedDir(dir, name).ok
                     <=> \E s \in Denotes(dir, <<name>>) : "DIRECTORY" \in EntryAt(s).attrs)
            /\ \A path \in Paths : path.absolute /\ path.parts # <<>> /\ Passable(path) =>
                  Agrees(fat_find_path(path, mode), Denotes(0, path.parts),
                         IF path.slash THEN {} ELSE mode)
            /\ \A dir \in Dirs : Searches(dir) =>
                  \A s \in {t \in Used(dir) : EntryAt(t).attrs # LongFilename} :
                      fat_private_find_file(dir, from_fat_name(Name(s)), {}).at = s

\* fat.h:88 fat_get_next_dir_entry returns each entry once, and "false ... when
\* no entries are left" once all that were there when the directory was opened
\* and are not to be skipped were returned, whatever is created meanwhile.
ListsEachOnce ==
    \A fd \in Fds : LET d == desc[fd] IN d.listed # <<>> \/ d.done =>
        /\ \A i, j \in DOMAIN d.listed : d.listed[i] = d.listed[j] => i = j
        /\ Range(d.listed) \subseteq {Name(s) : s \in Used(d.dir)}
        /\ d.done => {e.name : e \in {f \in d.due : f.attrs \cap d.masked = {}}}
                         \subseteq Range(d.listed)
=============================================================================
