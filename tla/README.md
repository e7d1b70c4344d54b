# A verification project for ccpu-libsys

`ccpu-libsys` is the system library of a home-built 8-bit computer: a FAT16
file system on an SD card, the card's driver in assembler, a loader for
programs, a PS/2 keyboard, an Ethernet transmitter and a few helpers. This
directory holds TLA+ models of it, the TLC runs that check them on small
instances and TLAPS proofs of what holds for every size.

## 1. Inventory

| Component | Source | State it keeps | Operations | What makes it correct |
|---|---|---|---|---|
| block cache | `lib/fat/fat.c` 8-10, 168-206 | `cache_block`, `cache_block_addr` | `cache`, `flush_cache`, `set_fat_error` | a hit never returns bytes the card in the socket does not hold; no block goes to another card |
| SD card driver | `lib/card.asm` | none between calls except the power switch; the card's own mode | `card_init`, `card_read_block`, `card_write_block` | success means the block is on the card; an exchanged card is noticed; no answer is taken for that of another command; calls end |
| file layer | `lib/fat/fat.c` 26-32, 335-789 | `fat_private_file_desc[]`, `last_error`; the FAT and the directory entry on the card | open, read, write, seek, seek_end, truncate, close | the redundant position fields agree; transfers stay in the file's own blocks; no cluster is leaked, shared or linked while free, at any instant |
| mounting | `fat.c` 34-112 | `fat_info` | `fat_mount` | the computed geometry is that of the volume; descriptors of the card before are refused |
| directories | `fat.c` 130-166, 209-332 | directory blocks, directory descriptors | find, create, list | finds what is there, creates no duplicate, stops at the end |
| paths and names | `lib/fat/path.c`, `name.c` | none | `fat_find_path`, `fat_open_path`, `to_fat_name`, `from_fat_name` | the path of a file leads to it; names survive a round trip |
| program loader | `lib/fat/exec.c`, `progressbar.c`, `loload.asm`, `lorun.asm` | progress bar counters | `fat_exec`, `fat_exec_fd` | runs only what was loaded completely; ends |
| PS/2 port | `lib/ps2.c` | hardware registers | `ps2_read`, `send_byte` | a byte sent is acknowledged; a scancode is not lost |
| keyboard decoder | `lib/ps2keyboard.c` | `extended`, `release`, modifier mask | one scancode at a time | every press is matched by its release |
| Ethernet transmitter | `lib/eth.c`, `bitmix.asm` | `last_frame_len`, the transmit buffer | `eth_init`, `eth_transmit` | the frame is the data, zeroes and a correct checksum |
| CRC | `lib/crc.asm` | none | `crc_update`, `crc_update_zeroes` | equals the bitwise definition |
| system calls, VGA, error texts, MAC | `syscall.asm`, `vga.c`, `last_error.c`, `mac.asm` | none | - | nothing a model could tell apart |

How they interact: a program calls the FAT functions (through `syscall` when it
is not linked with the library); these call `cache` and `flush_cache`, which
call the card driver. All of it shares one 512-byte buffer and one
`last_error`. The loader calls the file layer. The decoder calls the PS/2 port,
the transmitter the CRC; neither shares state with the file system.

Nothing is reentrant and there are no interrupts, so the concurrency is that
between the program and the hardware: the card answers late, refuses or
disappears between any two block operations, and the computer is reset; the
keyboard sends when it likes, also into an exchange that expects an answer; the
Ethernet adapter reads its buffer while the program goes on. That is where the
hard behaviours are; `PROJECT.json` lists them one by one under "hazards", with
the lines where they bite.

## 2. Modules

**BlockLayer** has the variables of the buffer (`cache_block`,
`cache_block_addr`), of the cards (`disk`), the socket (`slot`) and whether the
card in it is powered and initialized (`ready`). It has one operator per outcome
of `cache` (`CacheOk`, `CacheFails`, `CacheBeyondEnd`) and `flush_cache`
(`FlushOk`, `FlushFails`), and no next-state relation: two specifications use it.
A failed write of the data phase may or may not have reached the card.

**BlockCache** is the abstract specification of the buffer under an arbitrary
file system: any loads, updates, retargeted flushes (what `alloc_cluster` does)
and mounts of any blocks, with exchanged cards and resets. `origin` is a history
variable, the card a valid buffer came from. **BlockCacheProofs** has the proofs.

**Card** is `card.asm` line by line in steps of one bus exchange: `pc` is the
place in the code, `pending` what the card still has to say. The card itself is
external and as unpleasant as the driver has to expect: any response or none,
error tokens, rejected data, pulled and inserted at any step. What it is asked
for is not the block index but what is left of it in the command (`Asked`): the
driver makes a byte address of the index by a shift that drops the bits above
the 23 lowest, so that an index past the end may come back as a block of the card.
The calls come from `fat.c`, which switches the card off after errors (`Returns`).
**CardProofs** has the proofs. The results `Card` shows to be possible for a card
that is not ready are those `BlockLayer` starts from (`NotReadyErrors`).
BlockLayer's addresses are smaller than 2^23, where every address past the end
is reported.

**FatVolume** is the layout of a volume (two FATs, a directory block, data
blocks) and what its chains *mean*, defined on the volume and not on the walk of
the driver: `ChainFrom`, `EntryConsistent`. The sizes are constants. A FAT
sector is a function from the clusters it describes to their entries; all
end-of-chain marks are one value; data bytes are not represented.

**FatFile** is the file layer. `desc` is `fat_private_file_desc` with the
source's field names (`file` stands for the position of the directory entry,
`block_addr` counts from the data area), `call` the call in progress with its
local variables, `last_error` what this call has stored, `torn` the files a
fault has caught half updated (history). Each step of a call has at most one
read and one write of a block, so faults and resets fall between any two block
writes. `U16` is the range of the code's 16-bit arithmetic.

| Code | Actions |
|---|---|
| `fat_open_file` (existing file) | `FatOpenFile`, `FatOpenFileFails`, `OpenReadsFat` |
| `fat_action` | `FatAction`, `ActionDone`, `ActionAllocates`, `ActionAtEnd`, `ActionMoves`, `ActionFails` |
| `seek_advance` | `SeekAdvance`, `AdvanceReadsFat` |
| `alloc_cluster` | `AllocMarks`, `AllocFindsNothing`, `AllocMirrors`, `ParentLinks`, `ParentMirrors` |
| `fat_truncate`, `find_parent_cluster`, `write_fat_entry`, `free_cluster_chain` | `FatTruncate`, `FindParent`, `CutNothing`, `CutFat0`, `CutFat1`, `FreeFat0`, `FreeFat1`, `FreeDone` |
| `fat_seek`, `fat_seek_end`, `seek_begin` | `FatSeek`, `SeekBeginReadsFat`, `SeekFollows`, `SeekDone`, `FatSeekEnd`, `SeekEndFollows`, `SeekEndDone` |
| `fat_close`, `get_desc`, `fat_mount`, `fat_init` | `FatClose`, `FatRefuses`, `FatMount`, `FatInit` |

`Usage` says what the program does beyond the ordinary, since some calls run
into the defects below: `"seek_boundary"`, `"use_emptied"`, `"remount"`,
`"reset"`. The other restrictions on the program: it has one descriptor per file,
closes each descriptor once, and leaves alone a file that a fault has torn.
The program opens files that exist; creating them is FatDir's part.

**FatFileProperties** has the properties, **MCFatFile** the symmetry for TLC.
`UsesBlockCache` states that FatFile implements BlockCache, with `origin`
mapped to the card whenever the buffer is valid; what is proved of BlockCache
therefore holds for the file layer. **FatFileProofs** proves the refinement and
the types and has the facts about chains of clusters, **FatSoundProofs** proves
what follows from them.

**FatMount** is the arithmetic of `fat_mount`: which fields of `fat_info` are
assigned from the boot sector, in which order, and at which point each refusal
leaves them (`Mounted`). `fat1_offset` keeps its old value when there is one FAT.

**FatName** is `to_fat_name` and `from_fat_name` on sequences of characters, with
the lengths 8 and 3 as constants. `Plain` and `Stored` say which names the two
keep.

**FatDir** composes the two with the directory half of `fat.c` and with
`path.c`. A card (`card`) is a set of blocks; those of directories are functions
from entry numbers to entries. `desc` has the fields a listing uses under their
source names, and the history of the listing. A call is one step, since it
writes at most one block; the state between two of its block reads is
BlockCache's and Card's business. A call that fails on the card may have written
the block or not, and the next mount may then find another card (`Socket`), with
what the one before left in `fat_info`. What the code takes for granted of a card is `Formatted`, which
every card of `Images` has to satisfy: the areas follow each other as in a FAT12
or FAT16 volume, of any size and with any number of FAT sectors, the FAT has an
entry for each cluster and links those of each directory, directories have no two entries of one name and
none behind the end mark. A card that `fat_mount` is to refuse need only be
readable.

| Code | Definitions |
|---|---|
| `fat_mount` | `fat_mount`, with `Mounted` |
| `fat_private_find_file` | `Visited` (the blocks in order), `Slots`, `EndOf`, `fat_private_find_file` (hit, deleted slot, end mark, full directory), `Written` |
| `fat_find_path`, `fat_open_path` | operator and action of that name |
| `fat_open_file`, `fat_open_dir`, `fat_change_dir`, `fat_close` | actions of that name; `fat_change_dir` gives its result to the caller (`ChangedDir`), so that only its failure on the card is a step |
| `seek_advance`, `fat_get_next_dir_entry` | `SeekAdvance`, `Pass` (the loop), `fat_get_next_dir_entry` |

`last_error` is part of the operators' results. Restrictions on the program:
it uses a volume only after a successful mount; does not use a file as a
directory (nothing in the code prevents it, `path.c:44`); uses no name that
begins with the mark of a deleted entry (0xE5) and only names that `name.c` keeps
(`NamesAssumption`); does not list the root
through a descriptor that `fat_open_file` made of `..`; does not ask again
once it was told that no entries are left; and, unless `Usage` has `"full"`,
neither searches the root directory nor lists any directory without an end
mark. Paths are already split at slashes. **MCFatDir** has the cards, formatted
by one operator (`Format`): a volume with two FATs of two sectors and one-block
clusters in three states of its directories, with a directory whose clusters have
their entries in different FAT sectors; one with one FAT, two-block clusters and
the large count of sectors; and five that are to be refused, by their clusters,
their sector size or their number of FATs. **FatDirProofs** has the proofs.

**FatExec** is `exec.c` with the progress bar, `loload.asm` and `lorun.asm`: `pc`
is the place in `fat_exec_fd`, `lo` and `hi` what the two parts of memory were
loaded with (the offset in the file and the number of bytes). `fat_read` is used
by the outcomes `fat.c` gives it (`Reads`): complete, short at the end of the
chain, or cut short by an error. The progress bar moves one cell or
page a step, with the counters of `progressbar.c`. **FatExecProofs** has the
proofs.

**Ps2Keyboard** has the four tables of `ps2keyboard.c` and the decoder as a
function from its state and a scancode to its state (`Decoded`) and the event it
returns (`Event`, `Ascii`). **Ps2** composes it with `ps2.c`: `send_byte` is
split where the port is polled (`Check`, `Start`, `TakesAnswer`, `AsksAgain`),
`ps2_read` is one step. The port's registers, the keyboard with its buffer and
answers, and the user at it are external. Histories: `typed`, what the user
meant and the program has not been told; `lost`, a scancode was lost, dropped or
taken for an answer; `paired`, modifiers whose two keys were down together.
**Ps2Proofs** has the proofs about the commands and about what is typed.

**Crc** has bytes and the register as sets of bits, the four tables with the
numbers `crc.asm` has, and its routines; `TablesAssumption` compares each of the
256 entries with eight steps of the polynomial. `ReferenceCrc` is the definition
of IEEE 802.3, bit by bit. **Eth** is `eth.c`: `buf` the transmit buffer,
`last_frame_len`, and the adapter (external), which sends one byte a step. The
permutation of the data lines is modelled by what it does (`bitmix`). The
program calls `eth_init` first and looks at `ETH_SR_TX_BUSY` before it sends;
`eth_transmit` does neither. **EthProofs** has the proofs of both modules.

## 3. Runs

Definitions named "Mutant" before an operation are the same operation with a
plausible slip; each property fails under at least one of them.

| Run | Instance | Shows |
|---|---|---|
| `BlockCache` | 2 cards, 2 blocks, 2 contents, every error | the buffer agrees with the card (`Coherent`), was filled from it (`SameCard`), and no block crosses to another card (`OwnCardWrites`) |
| `Card` | 2 blocks; indices past the end, also ones that the shift makes 2 or 3 of; 2 polls | `SuccessMeansStored`, `CommandsInStep`, `NotReadyRefused`; calls end unless the card is pulled (`ReturnsOrPulled`) |
| `FatFile_one` | one file, 4 clusters of 2 blocks of 2 bytes in 2 FAT sectors, failing reads | cursor, lengths, transfers and counts for every mixture of calls; every call returns (`EventuallyReturns`) |
| `FatFile_two` | two open files, 4 clusters of one byte, no faults | allocation exact, FAT copies equal |
| `FatFile_faults` | two files, 3 clusters in one FAT sector, errors, resets, mounts, a full card | the FAT stays a set of chains, settled files stay intact, the file layer implements BlockCache |
| `FatDir` | 9 cards, exchanged for each other, FATs of 2 sectors, 2 descriptors, 2 names, 7 paths | `fat_info` is the layout of the volume, whichever was mounted before (`GeometrySound`); directories keep unique names without holes (`DirectoriesSound`); creation touches one free entry (`CreatesOneEntry`); names and paths lead to what they denote, names made of entries back to them (`OpensWhatIsNamed`); a listing has each entry once, whatever is created meanwhile (`ListsEachOnce`) |
| `FatExec` | 3 pages of Lo RAM, 11 sizes, every shorter chain | only complete programs run, descriptors come back, the bar of whole pages stays on the screen and no other leaves the character memory (`BarOnScreen`), the loader ends |
| `Ps2` | 4 keys, 3 strokes, one garbled transfer or pulled plug | what was typed arrives with its modifiers, the mask follows the keys, LEDs are set, every character has a key, `send_byte` and `ps2_wait_key_pressed` end |
| `Eth` | 12-byte buffer, frames up to one byte too long | every entry of the tables is right (`TablesAssumption`), no byte of an earlier frame is sent, the check sequence is the CRC-32 and ends in zero, the receiver accepts it with one byte more and rejects every single flipped bit |
| `FatFile_seek_boundary`, `FatExec_small`, `FatDir_full` | small | the first three disagreements below |

Bounds. FatFile: with two blocks of two bytes in a cluster there are positions
inside, on a block and on a cluster boundary; with three of four clusters in
use a chain has a first, an inner and a last one, and a parent in another FAT
sector than its child. Two files are the smallest number with something to
share; they outgrow the card in `FatFile_faults` (three clusters, two for
each). One FAT sector is enough there because `FatFile_one` and `FatFile_two`
have the cross-sector case. Card: the driver's limits of 4 and 20 polls are 2; what matters is a poll
that succeeds, one that does not, and the last one. Errors of the card other
than out of range behave alike above `BlockLayer`, so one for reads and one for
writes suffice in FatFile. FatDir: two entries a block and two blocks a
directory let a deleted slot lie in the end mark's block or in the one before
it, and directories fill up by creation; two FAT sectors of four entries hold the
six entries of a volume of four clusters, one in use in each sector, and a
count of three to five clusters is a FAT16 volume's; names of two characters and one have
short and too long bases. FatExec: sizes lie below, on and above a page,
the end of Lo RAM and the largest program; two bytes a page make the last page
partial or full. Five columns, a row of eight and room for ten cells are to each
other as 80, 128 and 384 where it matters: twice the width passes the row and
stays in the room. Ps2: a press with a modifier needs two strokes, a release or
the second key of a pair a third; the buffer of 5 overflows. One fault is enough
for every transfer, command or scancode, to be the damaged one. Eth: with a
limit of 4, frames that are shorter than the one before by one and by more,
equal, and longer than the limit follow each other.

`Ps2` runs under the constraint `NothingLost`: after a scancode was lost
nothing is promised about what is read, so states behind that one are not
visited. The state where it is lost is, and satisfies the liveness
properties by saying so.

Fairness. In `FatFile_one` and `FatExec`, weak fairness of the running call's
next step; the library never waits for the program. In `Card` the same for the
driver's steps; a card that is present answers commands, finishes writes, and
leaves its idle state eventually if asked again and again (strong fairness of
`BecomesReady`). The last is the SD standard's promise and not something the
code enforces: `card_init` repeats ACMD41 without a limit. In `Ps2` the polling
loops run on, and a keyboard that is plugged in sends what it has and takes
what it is sent; no key need be struck, and a pulled keyboard need not come
back.

### Disagreements found

With a run that shows the violation:

1. `fat_seek` to a cluster boundary inside a file (`fat.c:738`, `>` where the
   walk needs `>=` unless the chain ends there) leaves the cursor behind the last
   block of the cluster before. The next transfer uses whatever cluster follows
   on the card.
2. The progress bar of a program shorter than 256 bytes never ends
   (`progressbar.c:24` with `max_value` 0).
3. A listing of a subdirectory without a free entry reads its last block again
   and runs on behind it (`fat.c:476`).

Met while modelling, without a run of their own; the passing runs leave them out
by `Usage`, by the restrictions on the program, or state the property in the form
that holds:

* `fat_truncate` to nothing keeps `last_cluster_len` (`fat.c:664`).
* `fat_mount` takes the hidden sectors off the sectors of the volume although
  these are not counted among them (`fat.c:96`): a FAT16 volume close to the
  lower limit of 4085 clusters is refused as FAT12, one past the upper limit
  accepted. `GeometrySound` says what holds (`TypeKept`): every cluster counted is
  one of the volume, and the type is told where the hidden sectors do not hide
  it.
* On a volume with one FAT, which `fat_mount` accepts, `fat1_offset` keeps what
  it had, zero at the start (`fat.c:69`), and every update of the FAT is also
  written there (`fat.c:388`, `fat.c:361`), at first over the partition table.
  FatFile has volumes with two FATs.
* In clusters of 65536 bytes, which `fat_mount` accepts, `last_cluster_len` wraps
  to 0 for a full one (`fat.c:445`) and `bytes_per_cluster` is 0
  (`fat.c:737`). The runs and theorems have smaller ones.
* `card.asm` does not refuse a block index of 2^23 or more but reads or writes the
  block its lower 23 bits name (`card.asm:331`, `:537`), and reports success; nor
  does `fat.c` look at what it passes on, the partition's `rel_sector`
  (`fat.c:51`) included. `SuccessMeansStored` says which block is meant.
* `fat_write` on a full card reports a short count without an error (`fat.c:414`);
  a chunk moved just before a failing FAT read is not counted (`fat.c:592`);
  `fat_close` reports success when the directory entry was not written
  (`fat.c:611`). `CountMatchesOffsetOnReady` states what holds.
* The search of the root directory is not bounded by `n_dir_entries`
  (`fat.c:228`): a full root is searched on into the data area. A full
  subdirectory with a deleted slot reports `FAT_DIR_FULL`.
* The bar of a program between one page and two leaves its row (160 cells of 128,
  `progressbar.c:26`): its step is one page, but it has two. It ends before the
  buffer of the Ethernet adapter. Other programs whose last page is not full run
  into the part of the row that is not shown.
* A path may lead through a file (`path.c:44`), `fat_find_path("/")` leaves the
  position of the entry unset (`path.c:29`), a part longer than 12 characters
  overflows its buffer, a base that is too long puts its dot into the extension
  (`name.c:33`), and a volume label is found like a file (`fat.c:268`).
* `fat_exec_fd` takes a stale `FAT_EOF` for the end of the file; with a chain
  shorter than the size, page after page then adds nothing, and it is only the
  check of the second part or the remaining size that stops it. A failed
  load has already overwritten Lo RAM.
* `\` and `|` have no scancode in the tables. Both keys of a modifier share
  a bit, so releasing one clears it while the other is down. A scancode that
  comes while `send_byte` waits is taken for the answer: the argument is sent
  twice, and then for ever. A request to resend may be overwritten. Neither an
  overrun nor a restarted keyboard clears the mask. The LED and rate commands
  send their argument even if the command byte was refused.
* Comments at `card.asm:190` and `:228`, "wait until bit 7 is set", say the
  opposite of the loops under them, which wait for it to be clear as the card's
  protocol needs.

## 4. Proofs

Every theorem holds for all values of the constants the named assumption of its
module admits; no proof is left open. The component modules are proved about as
they are: the proof modules extend them and only add definitions of invariants.

**Block cache** (`BlockCacheProofs`, from `CacheAssumption` and
`ErrorsAssumption`: the empty socket is no card, 0xffffffff no block address, the
errors are those of `card.asm`): `TypeCorrect`, `CacheCoherence` (`Coherent`), `BufferOfThisCard`
(`SameCard`), `NoForeignWrites` (`OwnCardWrites`). The inductive invariant is
`TypeOK /\ Coherent /\ SameCard`. `Coherent` needs the others: a failed flush
leaves in the buffer what the card may not hold, and it is only because every
write error makes `set_fat_error` switch the card off (lemma
`WriteErrorsPowerOff`) that nothing is served from it; and a retargeted flush
goes to the card the bytes came from because of `SameCard`. The one error that
does not switch the card off, out of range, occurs only on reads, which
invalidate the buffer.

**SD card driver** (`CardProofs`, from `CardAssumption`: the card's blocks are
among the addresses and are ones the command can carry, the limits on polls are
positive): `TypeCorrect`, `AnswersInStep` (`CommandsInStep`),
`SuccessIsStored` (`SuccessMeansStored`: of an index that fits into the command,
success means this block, of a larger one that which its lower bits name),
`UninitializedRefused`
(`NotReadyRefused`). The invariant adds what the card may still have to say at
each place of the driver (`InStep`), which function each place belongs to
(`InFunction`: only `card_init` sends CMD41), that a block function on a card
that was not up never reaches its data phase (`Refused`), and that driver and
card go through the data phase together unless the card is pulled (`Together`).
`InStep` is where the power-off after a timeout is needed: without it a late
response would be pending when the next command is sent.

**File layer** (from `VolumeAssumption` and `FileAssumption`), in two modules:

* `FatFileProofs`: `TypeCorrect`, and `BufferUsedAsSpecified`, the refinement
  `UsesBlockCache`: the initial states map to initial states of BlockCache and
  every step of every call to a step of it or a stutter. With
  `BlockCacheProofs`, what is proved of the buffer holds for the file layer. The
  types alone are not inductive: what a place of a call assumes about the
  descriptor it works on (it is in use and names a file) and about the block that
  is in the buffer (a mirroring step finds there the FAT sector it has just
  written) has to be known at every later place (`Running`, `Mirroring`,
  `Counting`, `Resting`). Its last part is about what the operations do to chains
  of clusters, as facts about the two copies of a FAT and an assignment of a
  sequence of clusters to each file: marking a free cluster, linking it to a
  parent, mirroring a sector, cutting a chain and freeing the rest keep `Sound`.
* `FatSoundProofs`: `ChainsAlways`. In every state *some* assignment of chains to
  files explains the FAT, the directory, the descriptors and the running call
  (`ChainInv`). The assignment is an existential witness and each step says how
  it changes (an allocation appends to one chain, a truncation shortens it, all
  else leaves it), so that no proof has to follow a recursive walk of the FAT.
  `ChainInv` says that both copies link the chains, the second not yet at the
  one cluster the running call is about to mirror; that nothing links to the
  head of a chain; that the directory entry of every file that is not torn fits
  its chain; and, while the card answers, at which place of its chain every
  descriptor stands, with a weaker form for the descriptor of the running call
  at each of its places. From it follow, each with a theorem: `FatLinksSound`,
  `SettledFilesIntact`, `CursorMatchesOffset`, `LengthsMatchChain`,
  `TransferInOwnFile` and, with the invariant `Owning` (the descriptor of a
  running read or write is its own), `CountMatchesOffsetOnReady`.

  These theorems assume `Disciplined`: the program neither seeks to a cluster
  boundary inside a file nor goes on with a file it emptied, and a cluster has
  less than 65536 bytes. Without any of the three `fat.c` does not have the
  properties (the disagreements above).
  All three runs of the file layer that pass satisfy it. Everything else is as in
  the runs: any number of files and descriptors, any geometry, every card
  error, remounts and resets between any two block writes.

  That nothing leaks holds only of behaviours without faults (`Undisturbed`: the
  card answers always, no remount and no reset), and there `ExactAlways` adds a
  second witness, the part of a chain that the running truncation is still to
  free: every cluster that is not free is in a chain, in that part, or just
  marked by the running allocation, and the copies of the FAT differ at most at
  the entry the running call is about to mirror. Between calls that is
  `AllocationExact` and `FatCopiesAgree` (`AllocationAlwaysExact`,
  `CopiesAlwaysAgree`).

**Directories and paths** (`FatDirProofs`, from `MountAssumption`, `NameAssumption`,
`DirAssumption`, `ImagesAssumption` and, for the names, `NamesAssumption`; a
program that searches and lists no full directory, `"full" \notin Usage`). For any
cards as `Formatted` has them, with any number of directories of any length,
names, paths and descriptors: `CardStaysFormatted`, `GeometryAlwaysSound`
(`GeometrySound`), `DirectoriesAlwaysSound` (`DirectoriesSound`),
`CreatesOnlyOneEntry` (`CreatesOneEntry`), `WhatIsNamedIsOpened`
(`OpensWhatIsNamed`) and `EntriesListedOnce` (`ListsEachOnce`). The volumes have one FAT or two of any number of sectors, any
power of two as cluster size and any hidden sectors; `Supported` is the FAT16
volumes, and `GeometrySound` has the exact condition (`TypeKept`) under which
they are what a mount accepts. What remains assumed of the geometry is that a
sector count in the boot sector does not pass the end of the card and that the card
is smaller than 2 TB by the largest FAT16 volume, so that the sums of `fat_mount`
do not wrap. Volumes of FAT32, whose `sectors_per_fat` is 0, are not among the
cards. `DirInv` survives a mount of another card because every field of
`fat_info` it speaks of is assigned by the mount that succeeds (`MountedAreas`);
with one FAT this is not so of `fat1_offset`, of which nothing is claimed then.

The invariant (`DirInv`) is that the card stays formatted and that `fat_info`
describes its volume once a mount has succeeded. A creation writes one entry;
that it keeps the directories sound needs the search to be right: the slots it
visits begin with those of the directory in their order, because following the
FAT gives the clusters of its chain (`ChainOf`, by a least counterexample) and
the blocks of these clusters are where the directory was put (`DirsPlaced`);
for the root, because its blocks follow each other. Without a hit before the end
mark the name is then nowhere in the directory, and the slot taken is the end
mark's or that of a deleted entry before it. `OpensWhatIsNamed` follows a path
part by part: what `Denotes` has after a part is the slot the search returned, or
nothing. Its last clause is the round trip of names (`NameLeadsBack`), which
needs the invariant that all names on the card are ones that `from_fat_name`
keeps; creation preserves it since `to_fat_name` makes such a name of every
`Plain` one.

`EntriesListedOnce` needs the invariant `ListInv`. Every open listing stands at a
slot `p` of its directory (`StandsAt`, for another directory than the root with
the block in its cluster and the link to the next one): what it has returned are
names in use before `p`, none of these slots is an end mark, and each entry that is
due (there when the directory was opened, and not skipped since) is among them or
still in a slot from `p` on. `fat_get_next_dir_entry` moves `p` over the slots it
skips to the next one (`AdvanceStands`, where the cursor crosses a cluster, and
`PassStops`, by induction over the turns of its loop, which end because the
directory has an end mark). A creation only fills a free slot (`CreateKeepsSlots`),
so that entries due stay where they are; that the names differ is the soundness of
the directories again.

**Program loader** (`FatExecProofs`, from `ExecAssumption`): `TypeCorrect`,
`DescriptorGivenBack` (`NoDescriptorLeak`), `RunsOnlyWholePrograms`
(`LoadedWhole`), `BarStaysOnScreen` (`BarOnScreen`). The invariant is a closed
form of the loop in `exec.c`: after k pages the descriptor is at `Reached(k)`,
the pages in memory are the pieces between `Reached(0)`, `Reached(1)`, ..., and
the size that is left is the file's size less the bytes read. Since a short read
at the end of a chain adds nothing, the size reaches zero only if nothing was
short. For the bar: `y` is `max` times the cells drawn and stays below `x + max`;
`BarOnScreen` is about sound files of a page or more, shorter ones being the
second disagreement, and has three cases: whole pages (the width), two pages or
more (the row, `Row` of `ExecAssumption` being one and a half times the width) and
the rest (`Room`).

**CRC and Ethernet** (`EthProofs`, from `EthAssumption`). For messages of every
length: `TableComputesCrc`, the table-driven loop computes the bit-by-bit
CRC-32; `ChangedByteDetected`, a changed byte changes the CRC, whatever else is
in the message; `OwnCheckSequenceAccepted`. The core is that a step of the
definition is a linear shift of a set of bits, so that eight of them split into
the table's entry of the low byte and the rest moved by eight. That the tables have
these entries is `TablesAssumption`, about literal numbers, which TLC evaluates
for all 256. Of the
transmitter, for every buffer size and sequence of frames: `TypeCorrect`,
`NothingOfEarlierFrames` (`WireFrameIntact`), `CheckSequenceCorrect`
(`FcsCorrect`) and `OwnFramesAccepted`, the first half of `ReceiverAccepts`. The
invariant (`EthInv`) is what one call of `eth_transmit` leaves for the next: the
preamble stands and the buffer is zero between the last frame's data and the
trailer.

**PS/2 port** (`Ps2Proofs`, from `Ps2Assumption`: no key's scancode is 0xFA or
0xFE, which the keyboard's own answers need, a prefix, or one of the bytes 0x00,
0xAA and 0xFF that the decoder takes for no key). `LedsAlwaysAsAsked`
(`LedsAsAsked`) for any number of strokes, faults and exchanged keyboards, any masks and any
buffer. The invariant is the conversation: while nothing was lost, the driver
knows at each of its places whether the keyboard has obeyed the byte at hand
(`Before`, `After`), and after the keyboard has received it exactly one answer is
under way, in the keyboard, in the port, or to be sent again because it was
garbled (`Pending`). A scancode in the port at that moment, which a resend
request must fetch again before the answer, is the case that makes the three
forms of `Pending` necessary.

`MaskAlwaysFollows` (`MaskFollowsKeys`) and `TypedAlwaysArrives`
(`TypedTextArrives`), for any keys and any behaviour: both are about the codes
under way (`Outstanding`: in the port, to be asked for again, in the keyboard's
queue, in this order) and what the decoder will make of them (`Reading`). The
invariant (`ReadInv`) says that reading them all ends between two keys
(`Follows`), with the modifiers of the keys that are down and the text that was
typed, and that a byte is asked for again only while none waits in the port
(`Heard`), so that no code is under way twice. It needs the conversation above:
only because no answer is under way at an idle driver is a damaged byte that
`ps2_read` asks for again a scancode. What a step does to the reading rests on
three facts about the decoder: a key's codes at the end of what is under way are
read as that key (`KeysRead`), the first code is taken from the front without
changing what the others are read as (`ReadFirst`), and prefixes, the overrun
byte and a restarted keyboard leave it between two keys. The text needs one
hypothesis, `CapsPrinted`: what is printed on the caps is what the tables of
`ps2keyboard.c` have for the key; the run checks `TypedTextArrives` for caps
written down independently of the tables.

Induction over data: the library's induction theorems, which take an operator as
a parameter, cannot be used. Where it was needed (the CRC over a message, the
existence of a least element, the sum of pages, the reading of scancodes) the proofs take a least
counterexample in a set of natural numbers instead (`WFMin` of
`WellFoundedInduction`), which needs no such parameter.

### Only model-checked

* All liveness (`ReturnsOrPulled`, `EventuallyReturns`, `ExecReturns`,
  `SendReturns`, `WaitReturns`): fairness is out of the prover's reach.
* The second half of `ReceiverAccepts` (a flipped bit is rejected).
  `crc_check_relaxed` also accepts a frame whose residue is right before the last
  byte. By `ChangedByteDetected` a flipped bit does not get past the comparison
  it was meant for; whether it gets past the other depends on its distance from
  the end, and for frames of any length (the polynomial is primitive) there is a
  distance at which it does. So the claim is one about short frames, and the run
  checks it for those.
* `EveryCharacterHasAKey`, a statement about finite tables that TLC evaluates
  completely.

## 5. Not modelled

Data bytes, times and attributes of files; the arguments passed to a program;
error texts; system calls and VGA, which have no state worth a model; the
receive registers of the Ethernet adapter, which the library only names.
`fat_get_size`, `fat_tell` and `fat_get_dir_entry` only read a descriptor. A card
pulled during a transfer makes `card_read_block` return 0xff bytes as data; `Card`
has this case (`ReadBlock`, excluded by `~pulled` in `SuccessMeansStored`),
BlockLayer treats a block read as one step. Two descriptors on one file and a
descriptor closed twice write old copies of the directory entry; the code does
not guard against either, and the program of FatFile does neither.
`alloc_cluster` searches all entries of the FAT's sectors; a FAT with entries
behind the last cluster is not among the volumes of FatFile, nor is a volume with
one FAT. Creation followed by writing
in one behaviour would need FatFile and FatDir composed: each assumes of the
other what it checks (a sound volume, entries that are found).

## 6. Plan

Done: all modules of section 2 and the proofs of section 4.

Left: FatFile and FatDir composed, so that files are created, written and
removed in one behaviour; and a keyboard proof that survives a lost code, for the
part of the text after it (the decoder is between two keys again after the next
complete one, but its mask may keep a modifier whose release was lost).
