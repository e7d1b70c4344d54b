------------------------------ MODULE FatExec -------------------------------
(***************************************************************************)
(* The program loader: lib/fat/exec.c with the progress bar of             *)
(* progressbar.c, loload.asm and lorun.asm.  A program is read page by     *)
(* page into a buffer and copied to Lo RAM, what does not fit there is     *)
(* read in one piece to the RAM above it, and then it is run.              *)
(*                                                                         *)
(* fat_read is used through what fat.c makes of it (Reads).  A page in     *)
(* memory is represented by the offset in the file that its bytes came     *)
(* from and by their number.                                               *)
(***************************************************************************)
EXTENDS Integers, Sequences, FiniteSetsExt

CONSTANTS Page,     \* sizeof(loload_buf): 256 in the source
          LoPages,  \* pages of Lo RAM: 0x80 in the source
          MaxSize,  \* &__seg_ramtext_begin, where the library's own RAM begins
          Sizes,    \* sizes of the files on the card
          Cols,     \* VGA_COLS: 80 in the source
          Row,      \* VGA_OFFSET_ROW: 128 in the source, a row with its unused rest
          Room,     \* from the bar's row to the end of the character memory: 3 * 128
                    \* in the source; the Ethernet adapter's buffer comes next
          Memory    \* 2 ^ 16 in the source: where `offset` wraps

ASSUME ExecAssumption ==
    /\ Page \in Nat \ {0} /\ LoPages \in Nat \ {0} /\ Cols \in Nat \ {0}
    /\ MaxSize \in Nat /\ MaxSize >= LoPages * Page
    /\ Sizes \subseteq Nat
    /\ Row \in Nat /\ 2 * Row >= 3 * Cols
    /\ Room \in Nat /\ Room >= 2 * Cols /\ Memory \in Nat /\ Memory > Room

VARIABLES pc,         \* where fat_exec_fd is
          file,       \* [size, chain, app]: the entry's size, what its chain holds
          start, pos, \* the descriptor's offset when the call began, and now
          open,       \* the descriptor is in use
          size,       \* what is left to load
          lo, hi,     \* what Lo RAM and the RAM above it were loaded with
          last_error,
          bar         \* the progress bar: [max, x, y, offset, todo]

vars == <<pc, file, start, pos, open, size, lo, hi, last_error, bar>>

NoFile == [size |-> 0, chain |-> 0, app |-> FALSE]
Nothing == [from |-> 0, n |-> 0]
Loading == {"lo", "bar_lo", "bar_hi"}

File == UNION {[size : {s}, chain : 0 .. s, app : BOOLEAN] : s \in Sizes}
Piece == [from : Nat, n : Nat]

TypeOK ==
    /\ pc \in Loading \cup {"idle", "running"}
    /\ file \in File \cup {NoFile}
    /\ start \in {0, Page} /\ pos \in 0 .. file.size + Page /\ open \in BOOLEAN
    /\ size \in 0 .. MaxSize
    /\ lo \in Seq(Piece) /\ Len(lo) <= LoPages /\ hi \in Piece
    /\ last_error \in {"OK", "EOF", "CARD", "STALE", "NOT_FOUND",
                       "WRONG_EXTENSION", "FILE_TOO_LARGE"}
    /\ bar \in [max : Nat, x : Nat, y : Nat, offset : 0 .. Memory - 1,
                todo : 0 .. MaxSize \div Page]

-----------------------------------------------------------------------------
(***************************************************************************)
(* progressbar.c.  The row starts empty; each page moves last_x by the     *)
(* width of the screen and last_y follows in cells of max_value.           *)
(***************************************************************************)
BarStart(max) == [max |-> max, x |-> 0, y |-> 0, offset |-> 0, todo |-> 0]

\* Mutants of progressbar_init: the place of the last bar is kept; the pages
\* are counted from zero.
progressbar_initKeepsPlace(max) == bar' = [BarStart(max) EXCEPT !.offset = bar.offset]
progressbar_initFromZero(max) == bar' = BarStart(max - 1)

progressbar_init(max) == bar' = BarStart(max)
progressbar_progress(n) == bar' = [bar EXCEPT !.todo = n]

\* A turn of the inner loop writes a cell, one of the outer loop counts a page.
BarCell ==
    /\ bar.y < bar.x
    /\ bar' = [bar EXCEPT !.offset = (@ + 1) % Memory, !.y = @ + bar.max]
BarPage ==
    /\ bar.y >= bar.x /\ bar.todo > 0
    /\ bar' = [bar EXCEPT !.todo = @ - 1, !.x = @ + Cols]
BarFull == bar.y >= bar.x /\ bar.todo = 0

\* progressbar_progress runs to its end, then the loader goes on.
Progress ==
    /\ pc \in {"bar_lo", "bar_hi"}
    /\ BarCell \/ BarPage
    /\ UNCHANGED <<pc, file, start, pos, open, size, lo, hi, last_error>>
ProgressMade ==
    /\ pc \in {"bar_lo", "bar_hi"} /\ BarFull
    /\ IF pc = "bar_lo" THEN pc' = "lo" /\ UNCHANGED open
       ELSE pc' = "running" /\ open' = FALSE
    /\ UNCHANGED <<file, start, pos, size, lo, hi, last_error, bar>>

-----------------------------------------------------------------------------
(***************************************************************************)
(* fat_read of n bytes, as fat_action of fat.c leaves it: r is the count   *)
(* it returns, moved what it stored.  It stops at the end of the chain,    *)
(* which it reports as FAT_EOF where the size agrees, or at an error of    *)
(* the card, which may come after a chunk was stored and before it is      *)
(* counted.                                                                *)
(***************************************************************************)
Reads(n) ==
    LET most == Min({n, Max({file.chain - pos, 0})}) IN
    {[r |-> most, moved |-> most,
      error |-> IF most < n /\ pos + most = file.size THEN "EOF" ELSE last_error]}
    \cup {read \in [r : 0 .. n - 1, moved : 0 .. most, error : {"CARD"}] :
              read.r <= read.moved}

-----------------------------------------------------------------------------
Init ==
    /\ pc = "idle" /\ file = NoFile /\ start = 0 /\ pos = 0 /\ open = FALSE
    /\ size = 0 /\ lo = <<>> /\ hi = Nothing /\ last_error = "OK" /\ bar = BarStart(1)

\* fat_close and return false; what belongs to the call is gone.
Stop ==
    /\ pc' = "idle" /\ file' = NoFile /\ start' = 0 /\ pos' = 0 /\ open' = FALSE
    /\ size' = 0 /\ lo' = <<>> /\ hi' = Nothing

\* fat_exec does not find the file; what the calls before left in last_error is lost.
ExecNotFound ==
    /\ pc = "idle" /\ last_error' \in {"NOT_FOUND", "CARD"}
    /\ UNCHANGED <<pc, file, start, pos, open, size, lo, hi, bar>>

\* fat_exec_fd on a descriptor that became stale.
ExecStale ==
    /\ pc = "idle" /\ last_error' = "STALE" /\ Stop /\ UNCHANGED bar

\* fat_exec, or fat_exec_fd on a descriptor the program has read from: the
\* extension and the size are checked.  The program's calls before this one
\* left any last_error behind.
fat_exec_fd(f, offset, error) ==
    /\ pc = "idle" /\ offset <= f.size
    /\ \/ ~f.app /\ Stop /\ last_error' = "WRONG_EXTENSION" /\ UNCHANGED bar
       \/ /\ f.app /\ f.size > MaxSize
          /\ Stop /\ last_error' = "FILE_TOO_LARGE" /\ UNCHANGED bar
       \/ /\ f.app /\ f.size <= MaxSize
          /\ file' = f /\ start' = offset /\ pos' = offset /\ open' = TRUE
          /\ pc' = "lo" /\ last_error' = error
          /\ size' = f.size /\ lo' = <<>> /\ hi' = Nothing
          /\ progressbar_init(f.size \div Page)

\* The pages of the lo RAM part: dst_hi is the number of pages already there.
dst_hi == Len(lo)

Placed(moved) == Append(lo, [from |-> pos, n |-> moved])

\* Mutant of LoadLoPage: the end of Lo RAM is one page too far.
LoadLoPageTooMany ==
    /\ pc = "lo" /\ size # 0 /\ dst_hi # LoPages + 1
    /\ lo' = Placed(Page) /\ size' = Max({size - Page, 0}) /\ pos' = pos + Page
    /\ progressbar_progress(1) /\ pc' = "bar_lo"
    /\ UNCHANGED <<file, start, open, hi, last_error>>

LoadLoPage ==
    /\ pc = "lo" /\ size # 0 /\ dst_hi # LoPages
    /\ \E read \in Reads(Page) :
         /\ last_error' = read.error
         /\ IF read.r # Page /\ read.error # "EOF" THEN Stop /\ UNCHANGED bar
            ELSE /\ lo' = Placed(read.moved) /\ size' = size - read.r
                 /\ progressbar_progress(1) /\ pc' = "bar_lo"
                 /\ pos' = pos + read.moved /\ UNCHANGED <<file, start, open, hi>>

\* Mutant of LoadHiPart: its count is not compared.
LoadHiPartUnchecked ==
    /\ pc = "lo" /\ size # 0 /\ dst_hi = LoPages
    /\ \E read \in Reads(size) :
         /\ last_error' = read.error
         /\ hi' = [from |-> pos, n |-> read.moved]
         /\ progressbar_progress(read.r \div Page) /\ pc' = "bar_hi"
         /\ pos' = pos + read.moved /\ UNCHANGED <<file, start, open, size, lo>>

\* The rest of the program, if any.
LoadHiPart ==
    /\ pc = "lo" /\ size # 0 /\ dst_hi = LoPages
    /\ \E read \in Reads(size) :
         /\ last_error' = read.error
         /\ IF read.r # size THEN Stop /\ UNCHANGED bar
            ELSE /\ hi' = [from |-> pos, n |-> read.moved]
                 /\ progressbar_progress(read.r \div Page) /\ pc' = "bar_hi"
                 /\ pos' = pos + read.moved /\ UNCHANGED <<file, start, open, size, lo>>

\* Mutant of LoRun: the descriptor stays in use.
LoRunOpen ==
    /\ pc = "lo" /\ size = 0 /\ pc' = "running"
    /\ UNCHANGED <<file, start, pos, open, size, lo, hi, last_error, bar>>

\* fat_close and lorun.
LoRun ==
    /\ pc = "lo" /\ size = 0
    /\ open' = FALSE /\ pc' = "running"
    /\ UNCHANGED <<file, start, pos, size, lo, hi, last_error, bar>>

\* The program ends: the computer is restarted (external).
Restart == pc = "running" /\ Stop /\ last_error' = "OK" /\ bar' = BarStart(1)

Step == LoadLoPage \/ LoadHiPart \/ LoRun \/ Progress \/ ProgressMade

Next ==
    \/ ExecNotFound
    \/ ExecStale
    \/ \E f \in File, offset \in {0, Page}, error \in {"OK", "EOF", "CARD"} :
          fat_exec_fd(f, offset, error)
    \/ LoadLoPage
    \/ LoadHiPart
    \/ LoRun
    \/ Progress
    \/ ProgressMade
    \/ Restart

Spec == Init /\ [][Next]_vars

\* The loader waits for nothing but the card, which answers or fails.
FairSpec == Spec /\ WF_vars(Step)

-----------------------------------------------------------------------------
\* exec.c:46 the loops: a program is run only with every byte of its file where
\* it belongs, whatever the card does while it is read, even where last_error
\* says FAT_EOF from an earlier call, the file's chain is shorter than its
\* size or the descriptor was not at its beginning.
LoadedWhole ==
    pc = "running" =>
        /\ \A p \in 0 .. LoPages - 1 : p * Page < file.size =>
              /\ dst_hi > p /\ lo[p + 1].from = p * Page
              /\ lo[p + 1].n = Min({Page, file.size - p * Page})
        /\ file.size > LoPages * Page =>
              hi = [from |-> LoPages * Page, n |-> file.size - LoPages * Page]

\* exec.c:28 fat_exec_fd: on every path, the ones of errors included, the
\* descriptor is given back before the call returns or the program runs.
NoDescriptorLeak == pc \in {"idle", "running"} => ~open

\* progressbar.c:24 the inner loop, for a sound file of a page or more that is
\* read from its beginning.  A file of whole pages fills the screen's width and
\* no more.  The page that size >> 8 leaves out of max_value carries the bar of
\* another file past the screen: one of two pages or more still ends on its
\* row, in the part that is not shown; one between one page and two leaves even
\* the row (160 cells of 128), and ends before the adapter's buffer.
BarOnScreen ==
    pc # "idle" /\ file.chain = file.size /\ file.size >= Page /\ start = 0 =>
        /\ file.size % Page = 0 => bar.offset <= Cols
        /\ file.size >= 2 * Page => bar.offset <= Row
        /\ bar.offset <= Room

\* exec.c:43 the loops and progressbar.c:24: fat_exec_fd comes to an end.
ExecReturns == pc \in Loading ~> pc \in {"idle", "running"}
=============================================================================
