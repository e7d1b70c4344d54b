------------------------------ MODULE FatFile -------------------------------
(***************************************************************************)
(* The file layer of lib/fat/fat.c: descriptors, reading, writing, seeking *)
(* and truncating a file, the allocation and the freeing of clusters.      *)
(*                                                                         *)
(* The library is not reentrant, so at most one call is in progress; it is *)
(* cut into steps with at most one block read and one block write each, so *)
(* that a card error or a reset can strike between any two of them.        *)
(***************************************************************************)
EXTENDS BlockLayer, FatVolume, FiniteSetsExt

CONSTANTS Card,       \* the card in the socket
          Fds,        \* 0 .. MAX_FILE_DESC - 1
          NoFile,
          Lens,       \* lengths the program reads and writes
          Offsets,    \* positions the program seeks to
          Capacity,   \* bound: no file grows past this size
          Usage       \* what else the program does: see UsageKinds

(***************************************************************************)
(* "seek_boundary": it seeks to a cluster boundary inside a file;          *)
(* "use_emptied": it goes on using a descriptor after it has truncated the *)
(* file to nothing, instead of closing it;                                 *)
(* "remount": it mounts a card that works once more;                       *)
(* "reset": the computer is reset, also in the middle of a call.           *)
(***************************************************************************)
UsageKinds == {"seek_boundary", "use_emptied", "remount", "reset"}

ASSUME FileAssumption ==
    /\ Card # NoCard
    /\ INVALID_BLOCK_ADDR \notin VolumeBlocks
    /\ Fds \subseteq Nat /\ 0 \in Fds
    /\ NoFile \notin Files
    /\ Lens \subseteq Nat /\ Offsets \subseteq Nat /\ Capacity \in Nat
    /\ Usage \subseteq UsageKinds
    /\ "OUT_OF_RANGE" \notin ReadErrors

VARIABLES desc,        \* fat_private_file_desc
          call,        \* the library call in progress
          last_error,  \* what this call has stored in last_error; OK: nothing
          torn         \* files whose update a fault has cut short (history)

fileVars == <<desc, call, last_error, torn>>
vars == <<disk, slot, ready, cache_block_addr, cache_block,
          desc, call, last_error, torn>>

Volume == disk[Card]

-----------------------------------------------------------------------------
(***************************************************************************)
(* Descriptors.  `file' stands for dir_entry_block_addr and                *)
(* dir_entry_index_in_block, block_addr counts from fat_info.data_offset.  *)
(* Nothing reads the fields of a free descriptor, so they are forgotten.   *)
(***************************************************************************)
FileDescriptor ==
    [is_free : BOOLEAN, is_stale : BOOLEAN, file : Files \cup {NoFile},
     last_cluster_len : Nat, block_addr : Int, block_in_cluster : Nat,
     index_in_block : Nat, next_cluster : 0 .. EOC, cur_cluster : 0 .. EOC,
     cluster_lo : 0 .. EOC, size : Nat, dir_entry_modified : BOOLEAN,
     abs_offset : Nat]

FreeDesc ==
    [is_free |-> TRUE, is_stale |-> FALSE, file |-> NoFile,
     last_cluster_len |-> 0, block_addr |-> 0, block_in_cluster |-> 0,
     index_in_block |-> 0, next_cluster |-> 0, cur_cluster |-> 0,
     cluster_lo |-> 0, size |-> 0, dir_entry_modified |-> FALSE,
     abs_offset |-> 0]

Fresh(fd) == ~desc[fd].is_free /\ ~desc[fd].is_stale

\* The bytes of the last cluster a file of this size uses, as a uint16_t.
TailLength(size) ==
    IF size % BytesPerCluster = 0 THEN BytesPerCluster % U16
    ELSE size % BytesPerCluster

\* fat_private_init_fd up to its FAT read, with the first half of seek_begin.
InitFd(f, e) ==
    [is_free |-> FALSE, is_stale |-> FALSE, file |-> f,
     last_cluster_len |-> IF e.size = 0 THEN 0 ELSE TailLength(e.size),
     block_addr |-> FirstBlock(e.cluster_lo), block_in_cluster |-> 0,
     index_in_block |-> 0, next_cluster |-> EOC, cur_cluster |-> e.cluster_lo,
     cluster_lo |-> e.cluster_lo, size |-> e.size, dir_entry_modified |-> FALSE,
     abs_offset |-> 0]

-----------------------------------------------------------------------------
(***************************************************************************)
(* Calls.  pc is the place in the call where the next step begins, and     *)
(* "return" is the moment the program sees the result: `ret' for the       *)
(* functions that return a bool or a descriptor, `result' for fat_read and *)
(* fat_write.  off0 remembers the offset at its start (history).           *)
(***************************************************************************)
Ops == {"open", "read", "write", "close", "truncate", "seek", "mount", "none"}

Places == {"idle", "return", "open", "loop", "advance", "alloc", "alloc_fat1",
           "parent_fat1", "parent_fat0", "find_parent", "cut_fat0", "cut_fat1",
           "free_fat0", "free_fat1", "seek_begin", "seek", "seek_end"}

IdleCall ==
    [pc |-> "idle", op |-> "none", fd |-> 0, len |-> 0, chunk |-> 0,
     result |-> 0, sector |-> 0, head |-> 0, link |-> 0, offset |-> 0,
     off0 |-> 0, ret |-> TRUE]

CallOf(op, fd, pc) == [IdleCall EXCEPT !.pc = pc, !.op = op, !.fd = fd]

Idle == call.pc = "idle"

Goto(pc) == call' = [call EXCEPT !.pc = pc]

Return(ret) == call' = [call EXCEPT !.pc = "return", !.ret = ret]

D == desc[call.fd]

SetDesc(d) == desc' = [desc EXCEPT ![call.fd] = d]

\* The file layer's variables when the program makes a call that only starts.
Starts(c) == call' = c /\ UNCHANGED <<last_error, torn>>

(***************************************************************************)
(* cache() and flush_cache() with the errors they store.  An update that   *)
(* is cut short leaves its file torn.                                      *)
(***************************************************************************)
Cached(a) == a \in VolumeBlocks /\ CacheOk(a)

CacheFailed(a) ==
    \/ \E r \in CardReadErrors :
        CacheFails(a, r) /\ last_error' = FatError(r)
    \/ a \notin VolumeBlocks /\ CacheBeyondEnd /\ last_error' = "FS_BROKEN"

Updated(a, d) == a \in VolumeBlocks /\ UpdateOk(a, d)

FlushFailed(a, d) ==
    \E r \in CardWriteErrors :
        FlushFails(a, d, r) /\ last_error' = FatError(r)

UpdateFailed(a, d) ==
    CacheFailed(a) \/ ((Hit(a) \/ ready) /\ a \in VolumeBlocks /\ FlushFailed(a, d))

Fat0(c) == FatBlock("fat0", SectorOf(c))
Fat1(c) == FatBlock("fat1", SectorOf(c))

\* read_fat_entry(c) once its block is in the buffer.
Entry(c) == Load(Fat0(c))[c]

\* The content write_fat_entry(c, v) gives to block a.
WithEntry(a, c, v) == [Load(a) EXCEPT ![c] = v]

\* pfd->next_cluster = read_fat_entry(c), where 0 is an error: `ok' and `failed'
\* are the descriptors but for next_cluster, `then' is the call that goes on.
LinkRead(c, ok, failed, then) ==
    \/ /\ Cached(Fat0(c)) /\ Entry(c) # 0
       /\ SetDesc([ok EXCEPT !.next_cluster = Entry(c)])
       /\ call' = then
       /\ UNCHANGED last_error
    \/ /\ \/ Cached(Fat0(c)) /\ Entry(c) = 0 /\ UNCHANGED last_error
          \/ CacheFailed(Fat0(c))
       /\ SetDesc([failed EXCEPT !.next_cluster = 0])
       /\ Return(FALSE)

Tears == torn' = torn \cup {D.file}

-----------------------------------------------------------------------------
(* fat_open_file of an existing file, and fat_close.                       *)

OpenFiles == {desc[fd].file : fd \in {x \in Fds : Fresh(x)}}

FreeFds == {fd \in Fds : desc[fd].is_free}

\* The program has one descriptor for a file at a time, and does not touch a
\* file that a fault has left half written.
FatOpenFile(f) ==
    /\ Idle /\ f \notin torn \cup OpenFiles
    /\ FreeFds # {}
    /\ LET fd == Min(FreeFds)
           d == InitFd(f, Load(DirBlock)[f])
       IN  /\ Cached(DirBlock)
           /\ desc' = [desc EXCEPT ![fd] = d]
           /\ Starts(CallOf("open", fd,
                            IF d.cluster_lo = 0 THEN "return" ELSE "open"))

FatOpenFileFails(f) ==
    /\ Idle /\ f \notin torn \cup OpenFiles
    /\ call' = [CallOf("open", 0, "return") EXCEPT !.ret = FALSE]
    /\ IF FreeFds = {}
       THEN last_error' = "TOO_MANY_OPEN_FILES" /\ UNCHANGED blockVars
       ELSE CacheFailed(DirBlock)
    /\ UNCHANGED <<desc, torn>>

OpenReadsFat ==
    /\ call.pc = "open"
    /\ LinkRead(D.cluster_lo, D, FreeDesc, [call EXCEPT !.pc = "return"])
    /\ UNCHANGED torn

\* fat_close writes the directory entry out and reports success even when the
\* card did not take it.
FatClose(fd) ==
    /\ Idle /\ ~desc[fd].is_free
    /\ desc' = [desc EXCEPT ![fd] = FreeDesc]
    /\ LET d == desc[fd]
           dir == [Load(DirBlock) EXCEPT
                     ![d.file] = [cluster_lo |-> d.cluster_lo, size |-> d.size]]
       IN  \/ /\ ~d.dir_entry_modified
              /\ call' = CallOf("close", fd, "return")
              /\ UNCHANGED <<blockVars, last_error, torn>>
           \/ /\ d.dir_entry_modified /\ d.is_stale
              /\ last_error' = "STALE_DESCRIPTOR"
              /\ call' = [CallOf("close", fd, "return") EXCEPT !.ret = FALSE]
              /\ UNCHANGED <<blockVars, torn>>
           \/ /\ d.dir_entry_modified /\ ~d.is_stale
              /\ call' = CallOf("close", fd, "return")
              /\ \/ Updated(DirBlock, dir) /\ UNCHANGED <<last_error, torn>>
                 \/ UpdateFailed(DirBlock, dir) /\ torn' = torn \cup {d.file}

\* get_desc refuses a free or a stale descriptor, whatever the call is.
FatRefuses(fd) ==
    /\ Idle /\ ~Fresh(fd)
    /\ last_error' = IF desc[fd].is_free THEN "BAD_DESCRIPTOR"
                     ELSE "STALE_DESCRIPTOR"
    /\ call' = [CallOf("none", fd, "return") EXCEPT !.ret = FALSE]
    /\ UNCHANGED <<blockVars, desc, torn>>

-----------------------------------------------------------------------------
(* fat_read and fat_write: fat_action with seek_advance and alloc_cluster. *)

Emptied(d) == d.cluster_lo = 0 /\ d.dir_entry_modified

Usable(fd) ==
    Fresh(fd) /\ (Emptied(desc[fd]) => "use_emptied" \in Usage)

FatAction(fd, op, len) ==
    /\ Idle /\ Usable(fd)
    /\ op = "write" => desc[fd].abs_offset + len <= Capacity
    /\ Starts([CallOf(op, fd, "loop") EXCEPT
                 !.len = len, !.off0 = desc[fd].abs_offset])
    /\ UNCHANGED <<blockVars, desc>>

IsWrite == call.op = "write"

\* A virgin file, or a last cluster that is full.
NeedsCluster(d) ==
    \/ d.cur_cluster = 0
    \/ d.next_cluster = EOC /\ d.block_in_cluster = SectorsPerCluster

Remainder(d) ==
    (d.last_cluster_len - d.block_in_cluster * BlockSize) % U16

InLastBlock(d) == d.next_cluster = EOC /\ Remainder(d) <= BlockSize

RoomInBlock(d) == (BlockSize - d.index_in_block) % U16

\* The bytes of the file from the cursor to the end of its block.
Available(d) ==
    IF InLastBlock(d) THEN (Remainder(d) - d.index_in_block) % U16
    ELSE RoomInBlock(d)

Expands(d, op, len) == op = "write" /\ InLastBlock(d) /\ len > Available(d)

ChunkLen(d, op, len) ==
    Min({len, IF Expands(d, op, len) THEN RoomInBlock(d) ELSE Available(d)})

\* Mutant: a file that grew is not marked for fat_close.
GrownUnmarked(d, delta) ==
    [d EXCEPT !.last_cluster_len = (@ + delta) % U16, !.size = @ + delta]

Grown(d, delta) ==
    [d EXCEPT !.last_cluster_len = (@ + delta) % U16,
              !.size = @ + delta,
              !.dir_entry_modified = TRUE]

\* The descriptor after the size was adjusted for the chunk.
Expanded(d, op, len) ==
    IF ~Expands(d, op, len) THEN d
    ELSE Grown(d, (d.index_in_block + ChunkLen(d, op, len) - Remainder(d)) % U16)

\* seek_advance up to its FAT read.
FillsBlock(d, n) == d.index_in_block + n = BlockSize

CrossesCluster(d, n) ==
    /\ FillsBlock(d, n)
    /\ d.block_in_cluster + 1 = SectorsPerCluster
    /\ d.next_cluster # EOC

\* Mutant: block_addr is not moved to the next block of the cluster.
NextBlockIsSame(d, n) ==
    IF CrossesCluster(d, n) THEN FirstBlock(d.next_cluster) ELSE d.block_addr

NextBlock(d, n) ==
    IF CrossesCluster(d, n) THEN FirstBlock(d.next_cluster)
    ELSE IF d.block_in_cluster + 1 = SectorsPerCluster THEN d.block_addr
    ELSE d.block_addr + 1

SeekAdvance(d, n) ==
    LET moved == [d EXCEPT !.index_in_block = @ + n, !.abs_offset = @ + n]
    IN  IF ~FillsBlock(d, n) THEN moved
        ELSE [moved EXCEPT
                !.index_in_block = 0,
                !.block_in_cluster = @ + 1,
                !.block_addr = NextBlock(d, n),
                !.cur_cluster = IF CrossesCluster(d, n) THEN d.next_cluster ELSE @]

ActionDone ==
    /\ call.pc = "loop" /\ call.len = 0
    /\ Return(TRUE)
    /\ UNCHANGED <<blockVars, desc, last_error, torn>>

ActionAllocates ==
    /\ call.pc = "loop" /\ call.len # 0
    /\ IsWrite /\ NeedsCluster(D)
    /\ call' = [call EXCEPT !.pc = "alloc", !.sector = 0, !.link = D.cur_cluster]
    /\ UNCHANGED <<blockVars, desc, last_error, torn>>

InBlock == call.pc = "loop" /\ call.len # 0 /\ ~(IsWrite /\ NeedsCluster(D))

ActionAtEnd ==
    /\ InBlock
    /\ ChunkLen(D, call.op, call.len) = 0
    /\ last_error' = IF D.abs_offset = D.size THEN "EOF" ELSE last_error
    /\ Return(TRUE)
    /\ UNCHANGED <<blockVars, desc, torn>>

\* cache(block_addr), the copy, flush_cache() of a write, seek_advance.
ActionMoves ==
    /\ InBlock
    /\ LET n == ChunkLen(D, call.op, call.len)
           a == DataBlock(D.block_addr)
           d == Expanded(D, call.op, call.len)
       IN  /\ n # 0
           /\ IF IsWrite THEN Updated(a, Load(a)) ELSE Cached(a)
           /\ SetDesc(SeekAdvance(d, n))
           /\ call' = IF CrossesCluster(d, n)
                      THEN [call EXCEPT !.pc = "advance", !.chunk = n]
                      ELSE [call EXCEPT !.len = @ - n, !.result = @ + n]
           /\ UNCHANGED <<last_error, torn>>

ActionFails ==
    /\ InBlock
    /\ ChunkLen(D, call.op, call.len) # 0
    /\ LET a == DataBlock(D.block_addr)
       IN  IF IsWrite THEN UpdateFailed(a, Load(a)) ELSE CacheFailed(a)
    /\ SetDesc(Expanded(D, call.op, call.len))
    /\ Return(TRUE)
    /\ UNCHANGED torn

\* Mutant: the chunk that ended the cluster is not counted.
AdvanceUncounted ==
    /\ call.pc = "advance"
    /\ LinkRead(D.cur_cluster, [D EXCEPT !.block_in_cluster = 0], D,
                [call EXCEPT !.pc = "loop", !.len = @ - call.chunk, !.chunk = 0])
    /\ UNCHANGED torn

\* The FAT read in seek_advance.  When it fails the chunk that was just moved
\* is not counted.
AdvanceReadsFat ==
    /\ call.pc = "advance"
    /\ LinkRead(D.cur_cluster, [D EXCEPT !.block_in_cluster = 0], D,
                [call EXCEPT !.pc = "loop", !.len = @ - call.chunk,
                             !.result = @ + call.chunk, !.chunk = 0])
    /\ UNCHANGED torn

-----------------------------------------------------------------------------
(***************************************************************************)
(* alloc_cluster(last), one flush per step: the new cluster is marked in   *)
(* FAT 0 and the sector copied to FAT 1; then the parent is linked in FAT  *)
(* 1 and that sector copied to FAT 0.                                      *)
(***************************************************************************)
FreeIn(s) == {c \in SectorEntries(s) : Load(FatBlock("fat0", s))[c] = 0}

\* Mutant: last_cluster_len still counts the cluster before.
NewTailOldLength(d) == [d EXCEPT !.block_in_cluster = 0]

NewTail(d) == [d EXCEPT !.last_cluster_len = 0, !.block_in_cluster = 0]

\* The descriptor of the file that has got its first or its next cluster c.
WithCluster(d, c) ==
    LET e == [d EXCEPT !.cur_cluster = c, !.next_cluster = EOC,
                       !.block_addr = FirstBlock(c)]
    IN  IF d.cur_cluster = 0
        THEN [e EXCEPT !.dir_entry_modified = TRUE, !.cluster_lo = c]
        ELSE NewTail(e)

AllocMarks ==
    /\ call.pc = "alloc" /\ call.sector < SectorsPerFat
    /\ UNCHANGED <<desc, torn>>
    /\ LET a == FatBlock("fat0", call.sector)
           c == Min(FreeIn(call.sector))
       IN  \/ /\ FreeIn(call.sector) # {}
              /\ Updated(a, WithEntry(a, c, EOC))
              /\ call' = [call EXCEPT !.pc = "alloc_fat1", !.head = c]
              /\ UNCHANGED last_error
           \/ /\ FreeIn(call.sector) = {}
              /\ Cached(a)
              /\ call' = [call EXCEPT !.sector = @ + 1]
              /\ UNCHANGED last_error
           \/ /\ IF FreeIn(call.sector) = {} THEN CacheFailed(a)
                 ELSE UpdateFailed(a, WithEntry(a, c, EOC))
              /\ Return(TRUE)

AllocFindsNothing ==
    /\ call.pc = "alloc" /\ call.sector = SectorsPerFat
    /\ Return(TRUE)
    /\ UNCHANGED <<blockVars, desc, last_error, torn>>

\* Mutant: the buffer is retargeted to FAT 1 and not flushed.
AllocRetargetsOnly ==
    /\ call.pc = "alloc_fat1"
    /\ cache_block_addr' = FatBlock("fat1", call.sector)
    /\ IF call.link = 0
       THEN SetDesc(WithCluster(D, call.head)) /\ Goto("loop")
       ELSE UNCHANGED desc /\ Goto("parent_fat1")
    /\ UNCHANGED <<disk, slot, ready, cache_block, last_error, torn>>

AllocMirrors ==
    /\ call.pc = "alloc_fat1"
    /\ UNCHANGED torn
    /\ LET a == FatBlock("fat1", call.sector)
       IN  \/ /\ FlushOk(a, cache_block)
              /\ IF call.link = 0
                 THEN SetDesc(WithCluster(D, call.head)) /\ Goto("loop")
                 ELSE UNCHANGED desc /\ Goto("parent_fat1")
              /\ UNCHANGED last_error
           \/ /\ FlushFailed(a, cache_block)
              /\ Return(TRUE)
              /\ UNCHANGED desc

ParentLinks ==
    /\ call.pc = "parent_fat1"
    /\ UNCHANGED desc
    /\ LET a == Fat1(call.link)
           d == WithEntry(a, call.link, call.head)
       IN  \/ Updated(a, d) /\ Goto("parent_fat0") /\ UNCHANGED <<last_error, torn>>
           \/ UpdateFailed(a, d) /\ Return(TRUE) /\ Tears

\* Mutant: the parent's sector is copied over the sector of the new cluster.
ParentMirrorsAtChild ==
    /\ call.pc = "parent_fat0"
    /\ FlushOk(Fat0(call.head), cache_block)
    /\ SetDesc(WithCluster(D, call.head))
    /\ Goto("loop")
    /\ UNCHANGED <<last_error, torn>>

ParentMirrors ==
    /\ call.pc = "parent_fat0"
    /\ LET a == Fat0(call.link)
       IN  \/ /\ FlushOk(a, cache_block)
              /\ SetDesc(WithCluster(D, call.head))
              /\ Goto("loop")
              /\ UNCHANGED <<last_error, torn>>
           \/ FlushFailed(a, cache_block) /\ Return(TRUE) /\ Tears /\ UNCHANGED desc

-----------------------------------------------------------------------------
(* fat_truncate with find_parent_cluster and free_cluster_chain.           *)

\* Truncating at the very start of the file frees the whole chain; cluster_lo
\* is already 0 then, which tells this case from the others below.
FatTruncate(fd) ==
    /\ Idle /\ Usable(fd)
    /\ UNCHANGED blockVars
    /\ LET d == desc[fd]
           e == [d EXCEPT !.size = d.abs_offset, !.dir_entry_modified = TRUE]
           atStart == d.block_in_cluster = 0 /\ d.index_in_block = 0
           asked(pc) == CallOf("truncate", fd, pc)
       IN  \/ /\ d.abs_offset = d.size
              /\ Starts(asked("return"))
              /\ UNCHANGED desc
           \/ /\ d.abs_offset # d.size /\ atStart /\ d.cur_cluster = d.cluster_lo
              /\ desc' = [desc EXCEPT ![fd] = [e EXCEPT !.cluster_lo = 0]]
              /\ Starts([asked("free_fat0") EXCEPT !.head = d.cur_cluster])
           \/ /\ d.abs_offset # d.size /\ atStart /\ d.cur_cluster # d.cluster_lo
              /\ desc' = [desc EXCEPT ![fd] = e]
              /\ Starts([asked("find_parent") EXCEPT !.head = d.cluster_lo])
           \/ /\ d.abs_offset # d.size /\ ~atStart
              /\ desc' = [desc EXCEPT ![fd] = e]
              /\ Starts(asked("cut_fat0"))

\* Mutant: the search does not move along the chain.
FindParentStays ==
    /\ call.pc = "find_parent"
    /\ UNCHANGED torn
    /\ \/ /\ Cached(Fat0(call.head))
          /\ IF Entry(call.head) = D.cur_cluster
             THEN /\ SetDesc([D EXCEPT !.next_cluster = D.cur_cluster,
                                       !.cur_cluster = call.head,
                                       !.block_in_cluster = SectorsPerCluster])
                  /\ Goto("cut_fat0")
             ELSE UNCHANGED <<desc, call>>
          /\ UNCHANGED last_error
       \/ CacheFailed(Fat0(call.head)) /\ Return(FALSE) /\ UNCHANGED desc

\* One turn of the loop.  A chain that ends before cur_cluster was found is broken.
FindParent ==
    /\ call.pc = "find_parent"
    /\ UNCHANGED torn
    /\ LET next == Entry(call.head)
       IN  \/ /\ call.head # EOC
              /\ Cached(Fat0(call.head))
              /\ UNCHANGED last_error
              /\ \/ next = 0 /\ Return(FALSE) /\ UNCHANGED desc
                 \/ /\ next # 0 /\ next = D.cur_cluster
                    /\ SetDesc([D EXCEPT !.next_cluster = D.cur_cluster,
                                         !.cur_cluster = call.head,
                                         !.block_in_cluster = SectorsPerCluster])
                    /\ Goto("cut_fat0")
                 \/ /\ next # 0 /\ next # D.cur_cluster
                    /\ call' = [call EXCEPT !.head = next]
                    /\ UNCHANGED desc
           \/ /\ \/ call.head # EOC /\ CacheFailed(Fat0(call.head))
                 \/ /\ call.head = EOC
                    /\ last_error' = "FS_BROKEN"
                    /\ UNCHANGED blockVars
              /\ Return(FALSE)
              /\ UNCHANGED desc

\* The descriptor when fat_truncate returns true and the file is not empty.
Truncated(d) ==
    [d EXCEPT
       !.next_cluster = EOC,
       !.last_cluster_len = IF d.abs_offset % BytesPerCluster = 0
                               /\ d.block_in_cluster = 0 THEN 0
                            ELSE TailLength(d.abs_offset)]

CutNothing ==
    /\ call.pc = "cut_fat0" /\ D.next_cluster = EOC
    /\ SetDesc(Truncated(D))
    /\ Return(TRUE)
    /\ UNCHANGED <<blockVars, last_error, torn>>

\* Mutant: the rest of the chain is freed and its parent still links to it.
CutOmitted ==
    /\ call.pc = "cut_fat0" /\ D.next_cluster # EOC
    /\ call' = [call EXCEPT !.pc = "free_fat0", !.head = D.next_cluster]
    /\ UNCHANGED <<blockVars, desc, last_error, torn>>

\* write_fat_entry(cur_cluster, 0xffff), one copy of the FAT after the other.
CutFat0 ==
    /\ call.pc = "cut_fat0" /\ D.next_cluster # EOC
    /\ UNCHANGED <<desc, torn>>
    /\ LET a == Fat0(D.cur_cluster)
           d == WithEntry(a, D.cur_cluster, EOC)
       IN  \/ Updated(a, d) /\ Goto("cut_fat1") /\ UNCHANGED last_error
           \/ UpdateFailed(a, d) /\ Return(FALSE)

\* Mutant: free_cluster_chain is given the end-of-chain mark.
CutFat1FreesNothing ==
    /\ call.pc = "cut_fat1"
    /\ LET a == Fat1(D.cur_cluster)
       IN  Updated(a, WithEntry(a, D.cur_cluster, EOC))
    /\ call' = [call EXCEPT !.pc = "free_fat0", !.head = EOC]
    /\ UNCHANGED <<desc, last_error, torn>>

CutFat1 ==
    /\ call.pc = "cut_fat1"
    /\ UNCHANGED <<desc, torn>>
    /\ LET a == Fat1(D.cur_cluster)
           d == WithEntry(a, D.cur_cluster, EOC)
       IN  \/ /\ Updated(a, d)
              /\ call' = [call EXCEPT !.pc = "free_fat0", !.head = D.next_cluster]
              /\ UNCHANGED last_error
           \/ UpdateFailed(a, d) /\ Return(FALSE)

\* What fat_truncate does to the descriptor when free_cluster_chain returns.
Freed(d, ok) ==
    IF d.cluster_lo = 0 THEN [d EXCEPT !.cur_cluster = 0, !.next_cluster = EOC]
    ELSE IF ok THEN Truncated(d) ELSE d

FreeFat0 ==
    /\ call.pc = "free_fat0" /\ call.head # EOC
    /\ UNCHANGED torn
    /\ LET a == Fat0(call.head)
           next == Entry(call.head)
           d == WithEntry(a, call.head, 0)
       IN  \/ /\ next # 0
              /\ Updated(a, d)
              /\ call' = [call EXCEPT !.pc = "free_fat1", !.link = next]
              /\ UNCHANGED <<desc, last_error>>
           \/ /\ \/ next = 0 /\ Cached(a) /\ UNCHANGED last_error
                 \/ next = 0 /\ CacheFailed(a)
                 \/ next # 0 /\ UpdateFailed(a, d)
              /\ SetDesc(Freed(D, FALSE))
              /\ Return(FALSE)

\* Mutant: write_fat_entry writes only the first copy of the FAT.
FreeFat1Skipped ==
    /\ call.pc = "free_fat1"
    /\ call' = [call EXCEPT !.pc = "free_fat0", !.head = call.link]
    /\ UNCHANGED <<blockVars, desc, last_error, torn>>

FreeFat1 ==
    /\ call.pc = "free_fat1"
    /\ UNCHANGED torn
    /\ LET a == Fat1(call.head)
           d == WithEntry(a, call.head, 0)
       IN  \/ /\ Updated(a, d)
              /\ call' = [call EXCEPT !.pc = "free_fat0", !.head = call.link]
              /\ UNCHANGED <<desc, last_error>>
           \/ /\ UpdateFailed(a, d)
              /\ SetDesc(Freed(D, FALSE))
              /\ Return(FALSE)

FreeDone ==
    /\ call.pc = "free_fat0" /\ call.head = EOC
    /\ SetDesc(Freed(D, TRUE))
    /\ Return(TRUE)
    /\ UNCHANGED <<blockVars, last_error, torn>>

-----------------------------------------------------------------------------
(* fat_seek and fat_seek_end.                                              *)

FatSeekEnd(fd) ==
    /\ Idle /\ Usable(fd)
    /\ Starts([CallOf("seek", fd, "seek_end") EXCEPT !.off0 = desc[fd].size])
    /\ UNCHANGED <<blockVars, desc>>

\* A cluster boundary that is neither the start nor the end of the file.
InnerBoundary(d, offset) ==
    offset % BytesPerCluster = 0 /\ 0 < offset /\ offset < d.size

FatSeek(fd, offset) ==
    \/ desc[fd].size < offset /\ FatSeekEnd(fd)
    \/ /\ Idle /\ Usable(fd)
       /\ offset <= desc[fd].size
       /\ InnerBoundary(desc[fd], offset) => "seek_boundary" \in Usage
       /\ UNCHANGED blockVars
       /\ LET head == desc[fd].cluster_lo
              d == [desc[fd] EXCEPT !.block_addr = FirstBlock(head),
                                    !.block_in_cluster = 0, !.index_in_block = 0,
                                    !.cur_cluster = head]
              asked(pc) == [CallOf("seek", fd, pc) EXCEPT !.offset = offset,
                                                          !.off0 = offset]
          IN  IF head = 0
              THEN /\ desc' = [desc EXCEPT ![fd] = [d EXCEPT !.next_cluster = EOC,
                                                             !.abs_offset = offset]]
                   /\ Starts(asked("seek"))
              ELSE /\ desc' = [desc EXCEPT ![fd] = d]
                   /\ Starts(asked("seek_begin"))

SeekBeginReadsFat ==
    /\ call.pc = "seek_begin"
    /\ LinkRead(D.cluster_lo, [D EXCEPT !.abs_offset = call.offset],
                [D EXCEPT !.abs_offset = 0], [call EXCEPT !.pc = "seek"])
    /\ UNCHANGED torn

\* Mutant: block_addr is the first block of the cluster.
PlacedAtFirstBlock(d, offset) ==
    [d EXCEPT !.block_in_cluster = offset \div BlockSize,
              !.index_in_block = offset % BlockSize,
              !.block_addr = FirstBlock(d.cur_cluster)]

\* The descriptor placed `offset' bytes into its current cluster.
PlacedAt(d, offset) ==
    LET block == offset \div BlockSize
    IN  [d EXCEPT !.block_in_cluster = block,
                  !.index_in_block = offset % BlockSize,
                  !.block_addr = FirstBlock(d.cur_cluster) + block]

SeekFollows ==
    /\ call.pc = "seek" /\ call.offset > BytesPerCluster % U16
    /\ LET d == [D EXCEPT !.cur_cluster = D.next_cluster]
       IN  LinkRead(D.next_cluster, d, d,
                    [call EXCEPT !.offset = @ - (BytesPerCluster % U16)])
    /\ UNCHANGED torn

SeekDone ==
    /\ call.pc = "seek" /\ call.offset <= BytesPerCluster % U16
    /\ SetDesc(PlacedAt(D, call.offset))
    /\ Return(TRUE)
    /\ UNCHANGED <<blockVars, last_error, torn>>

SeekEndFollows ==
    /\ call.pc = "seek_end" /\ D.next_cluster # EOC
    /\ LET d == [D EXCEPT !.cur_cluster = D.next_cluster]
       IN  LinkRead(D.next_cluster, d, d, call)
    /\ UNCHANGED torn

SeekEndDone ==
    /\ call.pc = "seek_end" /\ D.next_cluster = EOC
    /\ SetDesc(PlacedAt([D EXCEPT !.abs_offset = D.size], D.last_cluster_len))
    /\ Return(TRUE)
    /\ UNCHANGED <<blockVars, last_error, torn>>

-----------------------------------------------------------------------------
(* fat_mount, resets, and the end of a call.                               *)

\* Files with an update that only their descriptor or a running call knows of.
Unsaved ==
    {desc[fd].file : fd \in {x \in Fds : Fresh(x) /\ desc[x].dir_entry_modified}}

\* The file whose chain the running fat_write has begun to lengthen.
Lengthening ==
    IF call.op = "write" /\ call.link # 0 /\ call.pc # "return" THEN {D.file} ELSE {}

\* fat_mount on a volume it accepts.  Every open descriptor becomes stale.
FatMount ==
    /\ Idle /\ (ready => "remount" \in Usage)
    /\ desc' = [fd \in Fds |->
                  IF desc[fd].is_free THEN desc[fd]
                  ELSE [desc[fd] EXCEPT !.is_stale = TRUE]]
    /\ torn' = torn \cup Unsaved
    /\ \/ /\ MountReads(BootBlock)
          /\ call' = CallOf("mount", 0, "return")
          /\ UNCHANGED last_error
       \/ \E r \in CardReadErrors :
          /\ MountStops(r)
          /\ call' = [CallOf("mount", 0, "return") EXCEPT !.ret = FALSE]
          /\ last_error' = FatError(r)

\* The computer is reset at any moment and runs fat_init.
FatInit ==
    /\ "reset" \in Usage
    /\ PowerUp
    /\ desc' = [fd \in Fds |-> FreeDesc]
    /\ call' = IdleCall
    /\ last_error' = "OK"
    /\ torn' = torn \cup Unsaved \cup Lengthening

\* The program looks at the result of the call.
Returned ==
    /\ call.pc = "return"
    /\ call' = IdleCall
    /\ last_error' = "OK"
    /\ UNCHANGED <<blockVars, desc, torn>>

-----------------------------------------------------------------------------
Init ==
    /\ disk = [c \in {Card} |-> FormattedVolume]
    /\ slot = Card
    /\ ready = FALSE
    /\ cache_block_addr = INVALID_BLOCK_ADDR
    /\ cache_block = Unread
    /\ desc = [fd \in Fds |-> FreeDesc]
    /\ call = IdleCall
    /\ last_error = "OK"
    /\ torn = {}

ProgramCalls ==
    \/ \E f \in Files : FatOpenFile(f) \/ FatOpenFileFails(f)
    \/ \E fd \in Fds :
        \/ FatClose(fd)
        \/ FatRefuses(fd)
        \/ \E op \in {"read", "write"}, len \in Lens : FatAction(fd, op, len)
        \/ FatTruncate(fd)
        \/ FatSeekEnd(fd)
        \/ \E offset \in Offsets : FatSeek(fd, offset)
    \/ FatMount

CallStep ==
    \/ OpenReadsFat
    \/ ActionDone \/ ActionAllocates \/ ActionAtEnd \/ ActionMoves \/ ActionFails
    \/ AdvanceReadsFat
    \/ AllocMarks \/ AllocFindsNothing \/ AllocMirrors
    \/ ParentLinks \/ ParentMirrors
    \/ FindParent
    \/ CutNothing \/ CutFat0 \/ CutFat1
    \/ FreeFat0 \/ FreeFat1 \/ FreeDone
    \/ SeekBeginReadsFat \/ SeekFollows \/ SeekDone
    \/ SeekEndFollows \/ SeekEndDone
    \/ Returned

Next == ProgramCalls \/ CallStep \/ FatInit

Spec == Init /\ [][Next]_vars

\* A call that has begun runs on: nothing in the library waits for the program.
FairSpec == Spec /\ WF_vars(CallStep)

-----------------------------------------------------------------------------
Errors == {"OK", "NO_CARD", "CARD_REINSERTED", "CARD", "FS_BROKEN",
           "TOO_MANY_OPEN_FILES", "BAD_DESCRIPTOR", "STALE_DESCRIPTOR", "EOF"}

\* The state is well typed; every block holds what its area holds, in the buffer
\* too.
TypeOK ==
    /\ disk \in [{Card} -> [VolumeBlocks -> BlockData]]
    /\ \A a \in VolumeBlocks : Volume[a] \in ContentOf(a)
    /\ slot = Card
    /\ ready \in BOOLEAN
    /\ cache_block_addr \in VolumeBlocks \cup {INVALID_BLOCK_ADDR}
    /\ cache_block_addr \in VolumeBlocks => cache_block \in ContentOf(cache_block_addr)
    /\ desc \in [Fds -> FileDescriptor]
    /\ call \in [pc : Places, op : Ops, fd : Fds, len : Nat, chunk : Nat,
                 result : Nat, sector : 0 .. SectorsPerFat, head : 0 .. EOC,
                 link : 0 .. EOC, offset : Nat, off0 : Nat,
                 ret : BOOLEAN]
    /\ last_error \in Errors
    /\ torn \subseteq Files

-----------------------------------------------------------------------------
(***************************************************************************)
(* The file layer uses the buffer only in the ways BlockCache allows, so   *)
(* the promises of BlockCache hold for it.                                 *)
(***************************************************************************)
BC == INSTANCE BlockCache WITH
        Cards <- {Card}, Blocks <- VolumeBlocks, Data <- BlockData,
        origin <- IF cache_block_addr = INVALID_BLOCK_ADDR THEN NoCard ELSE Card

\* Every step of every call is a step of the buffer's specification.
UsesBlockCache == BC!Spec
=============================================================================
