--------------------------- MODULE FatExecProofs ----------------------------
(***************************************************************************)
(* Proofs about the program loader, for every page size, size of memory    *)
(* and set of files.  The argument is a closed form of the loop of         *)
(* exec.c:46: after k pages the descriptor is at Reached(k), the pages in  *)
(* Lo RAM are the pieces of the file between Reached(0), Reached(1), ...,  *)
(* and what the loader believes is left is the file's size less the bytes  *)
(* read.  So nothing is left only if the reads began at the file's         *)
(* beginning and its chain is as long as its entry says.                   *)
(***************************************************************************)
EXTENDS FatExec, TLAPS

\* Where a read from the call's offset cannot go on, and where k pages lead.
End == IF file.chain >= start THEN file.chain ELSE start
Reached(k) == IF start + k * Page <= End THEN start + k * Page ELSE End

\* The pages in Lo RAM are consecutive pieces of the file.
PagesInPlace ==
    \A p \in 1 .. Len(lo) :
        lo[p] = [from |-> Reached(p - 1), n |-> Reached(p) - Reached(p - 1)]

\* The loop of the lo RAM part: no byte is skipped and every byte is counted.
InLoPart ==
    /\ pos = Reached(Len(lo)) /\ size = start + file.size - pos

\* The rest was read after a full Lo RAM, and nothing of the file is missing.
HiPartRead ==
    /\ Len(lo) = LoPages /\ Reached(LoPages) <= start + file.size
    /\ hi = [from |-> Reached(LoPages), n |-> start + file.size - Reached(LoPages)]
    /\ pos = start + file.size /\ pos <= End

CallInv ==
    /\ pc \in Loading <=> open
    /\ pc # "idle" =>
         /\ file \in File /\ file.size <= MaxSize /\ start <= file.size
         /\ PagesInPlace
    /\ pc \in {"lo", "bar_lo"} => InLoPart
    /\ pc = "bar_hi" => HiPartRead
    /\ pc = "running" => HiPartRead \/ (InLoPart /\ size = 0)

\* The file is as long as its entry says, of a page at least, and is read from
\* its beginning: the premise of BarOnScreen.
Sound == file.chain = file.size /\ file.size >= Page /\ start = 0

\* The pages that a file is loaded in, the one that is not whole included.
PagesOf == IF file.size % Page = 0 THEN file.size \div Page ELSE file.size \div Page + 1

\* The bar of a sound file: a cell stands for max of the Cols steps that each
\* page is worth, and no more pages are counted than the file has.
BarInv ==
    pc # "idle" /\ Sound =>
        /\ bar.max = file.size \div Page
        /\ bar.y = bar.max * bar.offset /\ bar.y < bar.x + bar.max
        /\ pc = "lo" => bar.todo = 0
        /\ pc \in {"lo", "bar_lo"} => (Len(lo) - 1) * Page < file.size
        /\ \E k \in Nat :
             /\ bar.x = Cols * k
             /\ k + bar.todo <= PagesOf
             /\ pc \in {"lo", "bar_lo"} => k + bar.todo <= Len(lo)

IInv == TypeOK /\ CallInv /\ BarInv

-----------------------------------------------------------------------------
\* What Min and Max of the community modules are on two numbers (Reads).
LEMMA MinMaxOfTwo ==
    ASSUME NEW a \in Int, NEW b \in Int
    PROVE  /\ Max({a, b}) = IF a >= b THEN a ELSE b
           /\ Min({a, b}) = IF a <= b THEN a ELSE b
<1>1. Max({a, b}) = IF a >= b THEN a ELSE b
  <2>1. \E x \in {a, b} : \A y \in {a, b} : x >= y
    OBVIOUS
  <2>2. Max({a, b}) \in {a, b} /\ \A y \in {a, b} : Max({a, b}) >= y
    BY <2>1 DEF Max
  <2> QED
    BY <2>2
<1>2. Min({a, b}) = IF a <= b THEN a ELSE b
  <2>1. \E x \in {a, b} : \A y \in {a, b} : x <= y
    OBVIOUS
  <2>2. Min({a, b}) \in {a, b} /\ \A y \in {a, b} : Min({a, b}) <= y
    BY <2>1 DEF Min
  <2> QED
    BY <2>2
<1> QED
  BY <1>1, <1>2

\* Products of natural numbers grow with a factor (pages times their size).
LEMMA TimesGrows ==
    ASSUME NEW a \in Nat, NEW b \in Nat, NEW c \in Nat
    PROVE  /\ a * c \in Nat /\ (a + 1) * c = a * c + c
           /\ a <= b => a * c <= b * c
           /\ a < b => a * c + c <= b * c
<1>1. a * c \in Nat /\ (a + 1) * c = a * c + c
  OBVIOUS
<1>2. ASSUME NEW d \in Nat, b = a + d PROVE a * c <= b * c
  <2>1. b * c = a * c + d * c
    BY <1>2
  <2>2. d * c \in Nat
    OBVIOUS
  <2> QED
    BY <2>1, <2>2, <1>1
<1>3. a <= b => a * c <= b * c
  <2>1. a <= b => b - a \in Nat /\ b = a + (b - a)
    OBVIOUS
  <2> QED
    BY <2>1, <1>2
<1>4. ASSUME a < b PROVE a * c + c <= b * c
  <2>1. b - a - 1 \in Nat
    BY <1>4
  <2>2. (b - a - 1) * c \in Nat
    BY <2>1
  <2>3. b * c = a * c + c + (b - a - 1) * c
    OBVIOUS
  <2> QED
    BY <2>2, <2>3, <1>1
<1> QED
  BY <1>1, <1>3, <1>4

\* The quotient of size >> 8 and r >> 8.
LEMMA Quotient ==
    ASSUME NEW s \in Nat, NEW c \in Nat \ {0}
    PROVE  /\ s \div c \in Nat
           /\ (s \div c) * c <= s /\ s < (s \div c) * c + c
OBVIOUS

\* What the quotient leaves over.
LEMMA Remainder ==
    ASSUME NEW s \in Nat, NEW c \in Nat \ {0}
    PROVE  s = c * (s \div c) + (s % c)
OBVIOUS

\* The pages of a file: one that a read has to go on from is not the last.
LEMMA PagesCount ==
    ASSUME file.size \in Nat, Page \in Nat \ {0}
    PROVE  /\ PagesOf \in Nat /\ file.size \div Page <= PagesOf
           /\ PagesOf <= file.size \div Page + 1
           /\ file.size % Page = 0 => PagesOf = file.size \div Page
           /\ \A k \in Nat : k * Page < file.size => k + 1 <= PagesOf
<1> DEFINE q == file.size \div Page
<1>1. q \in Nat /\ q * Page <= file.size /\ file.size < q * Page + Page
  BY Quotient
<1>2. file.size = Page * q + (file.size % Page)
  BY Remainder
<1>3. file.size = q * Page + (file.size % Page) /\ file.size % Page \in Nat
  <2>1. Page * q = q * Page /\ file.size % Page \in Nat
    BY <1>1
  <2> QED
    BY <1>2, <2>1
<1>4. PagesOf = IF file.size % Page = 0 THEN q ELSE q + 1
  BY DEF PagesOf
<1> HIDE DEF q
<1>5. ASSUME NEW k \in Nat, k * Page < file.size PROVE k + 1 <= PagesOf
  <2>1. k * Page \in Nat /\ q * Page \in Nat
    BY <1>1, TimesGrows
  <2>2. k > q => q * Page + Page <= k * Page
    BY <1>1, TimesGrows
  <2>3. k = q => file.size % Page # 0
    BY <1>1, <1>5, <1>3, <2>1
  <2>4. k < q => k + 1 <= PagesOf
    BY <1>1, <1>4
  <2>5. k <= q
    BY <1>1, <1>5, <2>1, <2>2
  <2> QED
    BY <1>1, <1>4, <2>3, <2>4, <2>5
<1> QED
  BY <1>1, <1>4, <1>5 DEF q

\* Pages before the rest of the file are counted by its quotient (bar_hi).
LEMMA QuotientGrows ==
    ASSUME NEW s \in Nat, NEW t \in Nat, NEW k \in Nat, NEW c \in Nat \ {0},
           s + k * c <= t
    PROVE  (s \div c) + k <= t \div c
<1> DEFINE q == s \div c
           r == t \div c
<1>1. /\ q \in Nat /\ q * c <= s
      /\ r \in Nat /\ t < r * c + c
  BY Quotient
<1>2. k * c \in Nat /\ q * c \in Nat /\ r * c \in Nat
  BY <1>1, TimesGrows
<1>3. (q + k) * c = q * c + k * c
  BY <1>1
<1>4. (r + 1) * c = r * c + c
  BY <1>1
<1>5. SUFFICES ASSUME q + k > r PROVE FALSE
  BY <1>1
<1>6. r + 1 <= q + k /\ r + 1 \in Nat /\ q + k \in Nat
  BY <1>1, <1>5
<1>7. (r + 1) * c <= (q + k) * c
  BY <1>6, TimesGrows
<1> QED
  BY <1>1, <1>2, <1>3, <1>4, <1>7

-----------------------------------------------------------------------------
\* What the entries of the card's files promise.
LEMMA FileFacts ==
    ASSUME NEW f \in File
    PROVE  f.size \in Nat /\ f.chain \in 0 .. f.size /\ f.app \in BOOLEAN
BY ExecAssumption DEF File

\* A read either stores and counts all that is left of the n bytes, or fails
\* with a count that is not n (fat_action).
LEMMA ReadFacts ==
    ASSUME NEW n \in Nat, file.chain \in Nat, pos \in Nat, NEW read \in Reads(n)
    PROVE  LET left == IF file.chain >= pos THEN file.chain - pos ELSE 0
               most == IF n <= left THEN n ELSE left
           IN  \/ /\ read.r = most /\ read.moved = most
                  /\ read.error \in {"EOF", last_error}
               \/ read.r \in 0 .. n - 1 /\ read.error = "CARD"
<1> DEFINE left == IF file.chain >= pos THEN file.chain - pos ELSE 0
           most == IF n <= left THEN n ELSE left
<1>1. Max({file.chain - pos, 0}) = left
  BY MinMaxOfTwo
<1>2. left \in Nat
  OBVIOUS
<1>3. Min({n, left}) = most
  <2> HIDE DEF left
  <2> QED
    BY <1>2, MinMaxOfTwo, SMTT(40)
<1>4. \/ read = [r |-> most, moved |-> most,
                error |-> IF most < n /\ pos + most = file.size THEN "EOF" ELSE last_error]
      \/ read \in [r : 0 .. n - 1, moved : 0 .. most, error : {"CARD"}]
  BY <1>1, <1>3 DEF Reads
<1> QED
  BY <1>4

\* The closed form of the loop: one more page leads from Reached(k) to
\* Reached(k + 1), which is all that a read of a page can store.
LEMMA ReachedStep ==
    ASSUME file \in File, start \in {0, Page}, NEW k \in Nat
    PROVE  /\ Reached(k) \in Nat /\ start <= Reached(k) /\ Reached(k) <= End
           /\ End \in Nat /\ End <= start + file.size
           /\ Reached(k + 1) = IF Reached(k) + Page <= End THEN Reached(k) + Page
                                                            ELSE End
           /\ End - Reached(k) = IF file.chain >= Reached(k)
                                 THEN file.chain - Reached(k) ELSE 0
<1>1. file.chain \in Nat /\ file.size \in Nat /\ file.chain <= file.size
  BY FileFacts
<1>2. start \in Nat /\ Page \in Nat
  BY ExecAssumption
<1>3. k * Page \in Nat /\ (k + 1) * Page = k * Page + Page
  BY <1>2, TimesGrows
<1> QED
  BY <1>1, <1>2, <1>3 DEF Reached, End

\* The loader begins with nothing loaded.
LEMMA InitIInv == Init => IInv
<1> SUFFICES ASSUME Init PROVE IInv
  OBVIOUS
<1>1. MaxSize \div Page \in Nat
  BY ExecAssumption, Quotient
<1>2. lo \in Seq(Piece) /\ Len(lo) = 0 /\ hi \in Piece
  BY DEF Init, Nothing, Piece
<1>3. pos \in 0 .. file.size + Page /\ size \in 0 .. MaxSize
  BY ExecAssumption DEF Init, NoFile
<1>4. bar \in [max : Nat, x : Nat, y : Nat, offset : 0 .. Memory - 1,
               todo : 0 .. MaxSize \div Page]
  BY ExecAssumption, <1>1 DEF Init, BarStart
<1>5. TypeOK
  <2>1. file \in File \cup {NoFile} /\ open \in BOOLEAN
    BY DEF Init
  <2>2. pc \in Loading \cup {"idle", "running"} /\ last_error = "OK" /\ start = 0
    BY DEF Init
  <2>3. Len(lo) <= LoPages
    BY <1>2, ExecAssumption
  <2> QED
    BY <1>2, <1>3, <1>4, <2>1, <2>2, <2>3 DEF TypeOK
<1>6. CallInv /\ BarInv
  BY DEF Init, CallInv, BarInv, Loading
<1> QED
  BY <1>5, <1>6 DEF IInv

\* Giving up keeps the invariant: every error path of fat_exec_fd.
LEMMA StopIInv ==
    ASSUME TypeOK, Stop, UNCHANGED bar \/ bar' = BarStart(1),
           last_error' \in {"OK", "EOF", "CARD", "STALE", "NOT_FOUND",
                            "WRONG_EXTENSION", "FILE_TOO_LARGE"}
    PROVE  IInv'
<1>1. MaxSize \div Page \in Nat
  BY ExecAssumption, Quotient
<1>2. bar' \in [max : Nat, x : Nat, y : Nat, offset : 0 .. Memory - 1,
               todo : 0 .. MaxSize \div Page]
  BY ExecAssumption, <1>1 DEF TypeOK, BarStart
<1>3. lo' \in Seq(Piece) /\ Len(lo') = 0 /\ hi' \in Piece
  BY DEF Stop, Nothing, Piece
<1>4. pos' \in 0 .. file'.size + Page /\ size' \in 0 .. MaxSize
  BY ExecAssumption DEF Stop, NoFile
<1>5. TypeOK'
  <2>1. file' \in File \cup {NoFile} /\ open' \in BOOLEAN
    BY DEF Stop
  <2>2. pc' \in Loading \cup {"idle", "running"} /\ start' = 0
    BY DEF Stop
  <2>3. Len(lo') <= LoPages
    BY <1>3, ExecAssumption
  <2> QED
    BY <1>2, <1>3, <1>4, <2>1, <2>2, <2>3 DEF TypeOK
<1>6. CallInv' /\ BarInv'
  BY DEF Stop, CallInv, BarInv, Loading
<1> QED
  BY <1>5, <1>6 DEF IInv

\* A call that passes the checks of exec.c:28 begins with nothing loaded, at the
\* descriptor's offset, and with an empty bar.
LEMMA ExecIInv ==
    ASSUME IInv, NEW f \in File, NEW offset \in {0, Page},
           NEW error \in {"OK", "EOF", "CARD"}, fat_exec_fd(f, offset, error)
    PROVE  IInv'
<1>1. CASE Stop /\ UNCHANGED bar /\ last_error' \in {"WRONG_EXTENSION", "FILE_TOO_LARGE"}
  BY <1>1, StopIInv DEF IInv
<1>2. CASE /\ f.size <= MaxSize
           /\ file' = f /\ start' = offset /\ pos' = offset /\ open' = TRUE
           /\ pc' = "lo" /\ last_error' = error
           /\ size' = f.size /\ lo' = <<>> /\ hi' = Nothing
           /\ progressbar_init(f.size \div Page)
  <2>1. f.size \in Nat /\ f.chain \in 0 .. f.size /\ offset \in 0 .. f.size /\ f.size <= MaxSize
    BY <1>2, FileFacts, ExecAssumption DEF fat_exec_fd
  <2>2. /\ file' = f /\ start' = offset /\ pos' = offset /\ open' = TRUE
        /\ pc' = "lo" /\ last_error' = error
        /\ size' = f.size /\ lo' = <<>> /\ hi' = Nothing
        /\ bar' = BarStart(f.size \div Page)
    BY <1>2, <2>1 DEF fat_exec_fd, progressbar_init
  <2>3. f.size \div Page \in Nat /\ MaxSize \div Page \in Nat
    BY <2>1, Quotient, ExecAssumption
  <2>4. TypeOK'
    <3>1. bar' \in [max : Nat, x : Nat, y : Nat, offset : 0 .. Memory - 1,
                   todo : 0 .. MaxSize \div Page]
      BY <2>2, <2>3, ExecAssumption DEF BarStart
    <3>2. lo' \in Seq(Piece) /\ Len(lo') <= LoPages /\ hi' \in Piece
      BY <2>2, ExecAssumption DEF Nothing, Piece
    <3>3. pos' \in 0 .. file'.size + Page /\ size' \in 0 .. MaxSize
      BY <2>1, <2>2, ExecAssumption
    <3>4. file' \in File \cup {NoFile} /\ open' \in BOOLEAN /\ start' \in {0, Page}
      BY <2>2
    <3>5. pc' \in Loading \cup {"idle", "running"} /\ last_error' \in {"OK", "EOF", "CARD"}
      BY <2>2 DEF Loading
    <3> QED
      BY <3>1, <3>2, <3>3, <3>4, <3>5 DEF TypeOK
  <2>5. CallInv'
    <3>1. Len(lo') = 0
      BY <2>2
    <3>2. Reached(0)' = offset
      BY <2>1, <2>2, ExecAssumption DEF Reached, End
    <3>3. PagesInPlace' /\ InLoPart'
      BY <2>1, <2>2, <3>1, <3>2 DEF PagesInPlace, InLoPart
    <3> QED
      BY <2>1, <2>2, <3>3 DEF CallInv, Loading
  <2>6. BarInv'
    <3> SUFFICES ASSUME Sound' PROVE BarInv'
      BY DEF BarInv
    <3>1. f.size >= Page /\ f.size \in Nat
      BY <2>1, <2>2 DEF Sound
    <3>2. f.size \div Page > 0
      BY <3>1, QuotientGrows, Quotient, ExecAssumption
    <3>3. Len(lo') = 0
      BY <2>2
    <3>4. (Len(lo') - 1) * Page < file'.size
      BY <2>1, <2>2, <3>3, ExecAssumption
    <3>5. bar'.x = Cols * 0 /\ 0 + bar'.todo <= Len(lo') /\ 0 + bar'.todo <= PagesOf'
      <4>1. PagesOf' \in Nat
        BY <2>1, <2>2, <2>3 DEF PagesOf
      <4> QED
        BY <2>2, <2>3, <3>3, <4>1, ExecAssumption DEF BarStart
    <3> QED
      BY <2>2, <2>3, <3>2, <3>4, <3>5 DEF BarInv, BarStart
  <2> QED
    BY <2>4, <2>5, <2>6 DEF IInv
<1> QED
  BY <1>1, <1>2 DEF fat_exec_fd

\* A page is read to Lo RAM (exec.c:46), or the call gives up.
LEMMA LoadLoPageIInv ==
    ASSUME IInv, LoadLoPage
    PROVE  IInv'
<1> USE DEF IInv
<1>1. PICK read \in Reads(Page) :
         /\ last_error' = read.error
         /\ IF read.r # Page /\ read.error # "EOF" THEN Stop /\ UNCHANGED bar
            ELSE /\ lo' = Placed(read.moved) /\ size' = size - read.r
                 /\ progressbar_progress(1) /\ pc' = "bar_lo"
                 /\ pos' = pos + read.moved /\ UNCHANGED <<file, start, open, hi>>
  BY DEF LoadLoPage
<1>2. /\ pc = "lo" /\ size # 0 /\ Len(lo) # LoPages /\ Len(lo) \in Nat
      /\ file \in File /\ file.size <= MaxSize /\ start <= file.size
      /\ PagesInPlace /\ InLoPart /\ open
  BY DEF LoadLoPage, dst_hi, CallInv, Loading, TypeOK
<1>3. /\ file.size \in Nat /\ file.chain \in 0 .. file.size
      /\ start \in {0, Page} /\ start \in Nat /\ Page \in Nat /\ Page > 0
      /\ MaxSize \in Nat /\ LoPages \in Nat /\ pos \in Nat /\ size \in Nat
  BY <1>2, FileFacts, ExecAssumption DEF TypeOK
<1> DEFINE left == IF file.chain >= pos THEN file.chain - pos ELSE 0
           most == IF Page <= left THEN Page ELSE left
<1>4. \/ read.r = most /\ read.moved = most /\ read.error \in {"EOF", last_error}
      \/ read.r \in 0 .. Page - 1 /\ read.error = "CARD"
  BY <1>3, ReadFacts
<1>5. read.error \in {"OK", "EOF", "CARD", "STALE", "NOT_FOUND",
                      "WRONG_EXTENSION", "FILE_TOO_LARGE"}
  BY <1>4 DEF TypeOK
<1>6. CASE read.r # Page /\ read.error # "EOF"
  BY <1>1, <1>5, <1>6, StopIInv
<1>7. CASE ~(read.r # Page /\ read.error # "EOF")
  <2>1. read.r = most /\ read.moved = most
    BY <1>3, <1>4, <1>7
  <2>2. /\ last_error' = read.error /\ lo' = Append(lo, [from |-> pos, n |-> most])
        /\ size' = size - most /\ pos' = pos + most /\ pc' = "bar_lo"
        /\ bar' = [bar EXCEPT !.todo = 1]
        /\ file' = file /\ start' = start /\ open' = open /\ hi' = hi
    BY <1>1, <1>7, <2>1 DEF Placed, progressbar_progress
  <2> DEFINE k == Len(lo)
  <2>3. /\ pos = Reached(k) /\ start <= pos /\ pos <= End
        /\ End \in Nat /\ End <= start + file.size
        /\ Reached(k + 1) = IF pos + Page <= End THEN pos + Page ELSE End
        /\ End - pos = left
    <3>1. pos = Reached(k)
      BY <1>2 DEF InLoPart
    <3> QED
      BY <1>2, <1>3, <3>1, ReachedStep
  <2>4. pos' = Reached(k + 1) /\ most = Reached(k + 1) - Reached(k) /\ most \in Nat
    <3> HIDE DEF left
    <3> QED
      BY <1>3, <2>2, <2>3, SMTT(40)
  <2>5. pos' \in Nat /\ start <= pos' /\ pos' <= End
    <3>1. Reached(k + 1) \in Nat /\ start <= Reached(k + 1) /\ Reached(k + 1) <= End
      <4> HIDE DEF left
      <4> QED
        BY <1>3, <2>3, SMTT(40)
    <3> QED
      BY <2>4, <3>1
  <2> HIDE DEF most
  <2>6. lo' \in Seq(Piece) /\ Len(lo') = k + 1 /\ lo'[k + 1] = [from |-> pos, n |-> most]
        /\ \A p \in 1 .. k : lo'[p] = lo[p]
    <3>1. [from |-> pos, n |-> most] \in Piece
      BY <1>3, <2>4 DEF Piece
    <3> QED
      BY <2>2, <3>1 DEF TypeOK
  <2>7. size' = start + file.size - pos' /\ size' \in 0 .. MaxSize
    <3>1. size = start + file.size - pos
      BY <1>2 DEF InLoPart
    <3>2. size' = size - most /\ pos' = pos + most /\ most \in Nat
      BY <2>2, <2>4
    <3>3. pos' <= start + file.size
      BY <1>3, <2>3, <2>5, SMTT(40)
    <3>4. size' = start + file.size - pos'
      BY <1>3, <3>1, <3>2
    <3>5. file.size <= MaxSize /\ start <= pos' /\ pos' \in Nat
      BY <1>2, <2>5
    <3> QED
      BY <1>3, <3>3, <3>4, <3>5
  <2>8. TypeOK'
    <3>1. MaxSize \div Page >= 1
      <4>1. Page <= LoPages * Page
        BY TimesGrows, ExecAssumption
      <4>2. 0 \div Page + 1 <= MaxSize \div Page
        BY <4>1, QuotientGrows, ExecAssumption
      <4> QED
        BY <4>2, Quotient, ExecAssumption
    <3>2. bar' \in [max : Nat, x : Nat, y : Nat, offset : 0 .. Memory - 1,
                   todo : 0 .. MaxSize \div Page]
      <4>1. MaxSize \div Page \in Nat
        BY Quotient, ExecAssumption
      <4> QED
        BY <2>2, <3>1, <4>1 DEF TypeOK
    <3>3. Len(lo') <= LoPages
      BY <1>2, <1>3, <2>6 DEF TypeOK
    <3>4. pos' \in 0 .. file'.size + Page
      <4>1. pos' \in Nat /\ pos' <= End /\ End <= file.size + Page
        BY <1>3, <2>5 DEF End
      <4> QED
        BY <1>3, <2>2, <2>3, <4>1
    <3>5. file' \in File /\ open' \in BOOLEAN /\ start' \in {0, Page} /\ hi' \in Piece
      BY <1>2, <2>2 DEF TypeOK
    <3>6. pc' \in Loading
      BY <2>2 DEF Loading
    <3> QED
      BY <1>5, <2>2, <2>6, <2>7, <3>2, <3>3, <3>4, <3>5, <3>6 DEF TypeOK
  <2>9. \A n \in Nat : Reached(n)' = Reached(n)
    BY <2>2 DEF Reached, End
  <2>10. PagesInPlace' /\ InLoPart'
    <3>1. ASSUME NEW p \in 1 .. k + 1
          PROVE  lo'[p] = [from |-> Reached(p - 1), n |-> Reached(p) - Reached(p - 1)]
      <4>1. CASE p \in 1 .. k
        BY <1>2, <2>6, <4>1 DEF PagesInPlace
      <4>2. CASE p = k + 1
        BY <1>2, <2>3, <2>4, <2>6, <4>2
      <4> QED
        BY <1>2, <4>1, <4>2
    <3>2. \A p \in 1 .. k + 1 : Reached(p)' = Reached(p) /\ Reached(p - 1)' = Reached(p - 1)
      BY <1>2, <2>9
    <3>3. PagesInPlace'
      BY <2>6, <3>1, <3>2 DEF PagesInPlace
    <3>4. InLoPart'
      BY <2>2, <2>4, <2>6, <2>7 DEF InLoPart, Reached, End
    <3> QED
      BY <3>3, <3>4
  <2>11. CallInv'
    BY <1>2, <2>2, <2>10 DEF CallInv, Loading
  <2>12. BarInv'
    <3> SUFFICES ASSUME Sound' PROVE BarInv'
      BY DEF BarInv
    <3>1. Sound /\ file.chain = file.size /\ start = 0
      BY <2>2 DEF Sound
    <3>2. PICK m \in Nat : /\ bar.x = Cols * m
                           /\ m + bar.todo <= PagesOf /\ m + bar.todo <= k
      BY <1>2, <3>1 DEF BarInv
    <3>3. /\ bar.max = file.size \div Page /\ bar.todo = 0
          /\ bar.y = bar.max * bar.offset /\ bar.y < bar.x + bar.max
      BY <1>2, <3>1 DEF BarInv
    <3>4. bar' = [bar EXCEPT !.todo = 1] /\ bar'.todo = 1 /\ bar'.max = bar.max
          /\ bar'.x = bar.x /\ bar'.y = bar.y /\ bar'.offset = bar.offset
      BY <2>2 DEF TypeOK
    <3>5. k * Page < file.size
      <4>1. pos < file.size
        BY <1>2, <1>3, <3>1 , <2>3, SMTT(40) DEF InLoPart
      <4>2. k * Page \in Nat
        BY <1>2, <1>3, TimesGrows
      <4> QED
        BY <1>3, <2>3, <3>1, <4>1, <4>2 DEF Reached, End
    <3>6. k + 1 <= PagesOf /\ PagesOf \in Nat /\ PagesOf' = PagesOf
      BY <1>2, <1>3, <2>2, <3>5, PagesCount DEF PagesOf
    <3>7. bar'.x = Cols * m /\ m + bar'.todo <= PagesOf' /\ m + bar'.todo <= Len(lo')
      BY <1>2, <2>6, <3>2, <3>3, <3>4, <3>6 DEF TypeOK
    <3>8. (Len(lo') - 1) * Page < file'.size
      BY <1>2, <2>2, <2>6, <3>5
    <3>9. bar'.max = file'.size \div Page
      BY <2>2, <3>3, <3>4
    <3> QED
      BY <2>2, <3>3, <3>4, <3>7, <3>8, <3>9 DEF BarInv
  <2> QED
    BY <2>8, <2>11, <2>12
<1> QED
  BY <1>6, <1>7

\* The rest of the file is read in one piece (exec.c:59), or the call gives up.
LEMMA LoadHiPartIInv ==
    ASSUME IInv, LoadHiPart
    PROVE  IInv'
<1> USE DEF IInv
<1>1. PICK read \in Reads(size) :
         /\ last_error' = read.error
         /\ IF read.r # size THEN Stop /\ UNCHANGED bar
            ELSE /\ hi' = [from |-> pos, n |-> read.moved]
                 /\ progressbar_progress(read.r \div Page) /\ pc' = "bar_hi"
                 /\ pos' = pos + read.moved /\ UNCHANGED <<file, start, open, size, lo>>
  BY DEF LoadHiPart
<1>2. /\ pc = "lo" /\ size # 0 /\ Len(lo) = LoPages
      /\ file \in File /\ file.size <= MaxSize /\ start <= file.size
      /\ PagesInPlace /\ InLoPart /\ open
  BY DEF LoadHiPart, dst_hi, CallInv, Loading
<1>3. /\ file.size \in Nat /\ file.chain \in 0 .. file.size
      /\ start \in {0, Page} /\ start \in Nat /\ Page \in Nat \ {0}
      /\ MaxSize \in Nat /\ LoPages \in Nat /\ pos \in Nat /\ size \in 0 .. MaxSize
  BY <1>2, FileFacts, ExecAssumption DEF TypeOK
<1> DEFINE left == IF file.chain >= pos THEN file.chain - pos ELSE 0
           most == IF size <= left THEN size ELSE left
<1>4. \/ read.r = most /\ read.moved = most /\ read.error \in {"EOF", last_error}
      \/ read.r \in 0 .. size - 1 /\ read.error = "CARD"
  BY <1>3, ReadFacts
<1>5. read.error \in {"OK", "EOF", "CARD", "STALE", "NOT_FOUND",
                      "WRONG_EXTENSION", "FILE_TOO_LARGE"}
  BY <1>4 DEF TypeOK
<1>6. CASE read.r # size
  BY <1>1, <1>5, <1>6, StopIInv
<1>7. CASE read.r = size
  <2>1. read.moved = size /\ size <= left
    <3>1. most = size /\ read.moved = most
      BY <1>3, <1>4, <1>7
    <3> QED
      BY <1>3, <3>1
  <2>2. /\ last_error' = read.error /\ hi' = [from |-> pos, n |-> size]
        /\ pos' = pos + size /\ pc' = "bar_hi"
        /\ bar' = [bar EXCEPT !.todo = size \div Page]
        /\ file' = file /\ start' = start /\ open' = open /\ size' = size /\ lo' = lo
    BY <1>1, <1>7, <2>1 DEF progressbar_progress
  <2>3. /\ pos = Reached(LoPages) /\ size = start + file.size - pos
        /\ End \in Nat /\ pos <= End /\ End <= start + file.size /\ End - pos = left
    <3>1. pos = Reached(LoPages) /\ size = start + file.size - pos
      BY <1>2 DEF InLoPart
    <3> QED
      BY <1>2, <1>3, <3>1, ReachedStep
  <2>4. pos' = start + file.size /\ pos' <= End /\ pos <= start + file.size
    <3> HIDE DEF left
    <3> QED
      BY <1>3, <2>1, <2>2, <2>3
  <2>5. MaxSize \div Page \in Nat /\ size \div Page \in 0 .. MaxSize \div Page
    <3>1. size + 0 * Page <= MaxSize
      BY <1>3
    <3> QED
      BY <1>3, <3>1, Quotient, QuotientGrows
  <2>6. TypeOK'
    <3>1. bar' \in [max : Nat, x : Nat, y : Nat, offset : 0 .. Memory - 1,
                   todo : 0 .. MaxSize \div Page]
      BY <2>2, <2>5 DEF TypeOK
    <3>2. pos' \in 0 .. file'.size + Page
      BY <1>3, <2>2, <2>4
    <3>3. /\ file' \in File /\ open' \in BOOLEAN /\ start' \in {0, Page}
          /\ lo' \in Seq(Piece) /\ Len(lo') <= LoPages /\ size' \in 0 .. MaxSize
      BY <1>2, <1>3, <2>2 DEF TypeOK
    <3>4. pc' \in Loading /\ hi' \in Piece
      BY <1>3, <2>2 DEF Loading, Piece
    <3> QED
      BY <1>5, <2>2, <3>1, <3>2, <3>3, <3>4 DEF TypeOK
  <2>7. CallInv'
    <3>1. PagesInPlace'
      BY <1>2, <2>2 DEF PagesInPlace, Reached, End
    <3>2. Reached(LoPages)' = Reached(LoPages) /\ End' = End
      BY <2>2 DEF Reached, End
    <3>3. HiPartRead'
      BY <1>2, <2>2, <2>3, <2>4, <3>2 DEF HiPartRead
    <3> QED
      BY <1>2, <2>2, <3>1, <3>3 DEF CallInv, Loading
  <2>8. BarInv'
    <3> SUFFICES ASSUME Sound' PROVE BarInv'
      BY DEF BarInv
    <3>1. Sound /\ file.chain = file.size /\ start = 0
      BY <2>2 DEF Sound
    <3>2. PICK m \in Nat : /\ bar.x = Cols * m
                           /\ m + bar.todo <= PagesOf /\ m + bar.todo <= Len(lo)
      BY <1>2, <3>1 DEF BarInv
    <3>3. /\ bar.max = file.size \div Page /\ bar.todo = 0
          /\ bar.y = bar.max * bar.offset /\ bar.y < bar.x + bar.max
      BY <1>2, <3>1 DEF BarInv
    <3>4. /\ bar'.todo = size \div Page /\ bar'.max = bar.max
          /\ bar'.x = bar.x /\ bar'.y = bar.y /\ bar'.offset = bar.offset
      BY <2>2 DEF TypeOK
    <3>5. size + LoPages * Page <= file.size
      <4>1. LoPages * Page \in Nat
        BY <1>3, TimesGrows
      <4>2. pos < file.size
        BY <1>2, <1>3, <2>3, <3>1
      <4>3. pos = LoPages * Page
        BY <1>3, <2>3, <3>1, <4>1, <4>2 DEF Reached, End
      <4> QED
        BY <1>3, <2>3, <3>1, <4>3
    <3>6. (size \div Page) + LoPages <= file.size \div Page
      <4>1. size \in Nat /\ file.size \in Nat /\ LoPages \in Nat /\ Page \in Nat \ {0}
        BY <1>3
      <4> QED
        BY <3>5, <4>1, QuotientGrows
    <3>7. bar'.x = Cols * m /\ m + bar'.todo <= PagesOf'
      <4>1. /\ file.size \div Page <= PagesOf /\ PagesOf \in Nat /\ PagesOf' = PagesOf
            /\ file.size \div Page \in Nat
        BY <1>3, <2>2, PagesCount, Quotient DEF PagesOf
      <4>2. m <= LoPages
        BY <1>2, <3>2, <3>3
      <4> QED
        BY <1>3, <2>5, <3>2, <3>3, <3>4, <3>6, <4>1, <4>2
    <3>8. bar'.max = file'.size \div Page
      BY <2>2, <3>3, <3>4
    <3> QED
      BY <2>2, <3>3, <3>4, <3>7, <3>8 DEF BarInv
  <2> QED
    BY <2>6, <2>7, <2>8
<1> QED
  BY <1>6, <1>7

\* A sound file's bar ends within the screen, or as far beyond it as the page
\* that the quotient does not count reaches: by half a screen for two pages.
LEMMA BarBound ==
    ASSUME IInv, pc # "idle", Sound
    PROVE  /\ file.size % Page = 0 => bar.offset <= Cols
           /\ file.size >= 2 * Page => bar.offset <= Row
           /\ bar.offset <= 2 * Cols
           /\ bar.y < bar.x => bar.offset + 1 <= 2 * Cols
<1>1. PICK k \in Nat : bar.x = Cols * k /\ k + bar.todo <= PagesOf
  BY DEF BarInv, IInv
<1>2. /\ bar.max \in Nat /\ bar.offset \in Nat /\ bar.todo \in Nat
      /\ Cols \in Nat /\ bar.x \in Nat /\ Page \in Nat \ {0}
  BY ExecAssumption DEF IInv, TypeOK
<1>3. bar.y = bar.max * bar.offset /\ bar.y < bar.x + bar.max /\ bar.max = file.size \div Page
  BY DEF BarInv, IInv
<1>4. file.size \in Nat /\ file.size >= Page
  BY FileFacts DEF IInv, CallInv, Sound
<1>5. /\ bar.x = Cols * k /\ k + bar.todo <= bar.max + 1
      /\ file.size % Page = 0 => k <= bar.max
  BY <1>1, <1>2, <1>3, <1>4, PagesCount
<1>6. bar.max >= 1
  <2>1. 0 + 1 * Page <= file.size
    BY <1>2, <1>4
  <2>2. 0 \div Page + 1 <= file.size \div Page
    BY <1>2, <1>4, <2>1, QuotientGrows
  <2> QED
    BY <1>2, <1>3, <2>2, Quotient
<1> DEFINE m == bar.max
           c == Cols
           o == bar.offset
<1>7. bar.x <= m * c + c /\ m * c \in Nat /\ c <= m * c
  <2>1. k <= m + 1
    BY <1>5, <1>2
  <2>2. k * c <= (m + 1) * c /\ (m + 1) * c = m * c + c
    BY <1>2, <2>1, TimesGrows
  <2>3. 1 * c <= m * c
    BY <1>2, <1>6, TimesGrows
  <2> QED
    BY <1>5, <1>2, <2>2, <2>3, TimesGrows
<1>8. (2 * c) * m = m * c + m * c
  BY <1>2
<1>9. ASSUME o > 2 * c PROVE FALSE
  <2>1. (2 * c) * m + m <= o * m
    BY <1>2, <1>9, TimesGrows
  <2> QED
    BY <1>2, <1>3, <1>7, <1>8, <2>1
<1>10. ASSUME o >= 2 * c, bar.y < bar.x PROVE FALSE
  <2>1. (2 * c) * m <= o * m
    BY <1>2, <1>10, TimesGrows
  <2> QED
    BY <1>2, <1>3, <1>7, <1>8, <1>10, <2>1
<1>11. ASSUME file.size % Page = 0, o > c PROVE FALSE
  <2>1. c * m + m <= o * m
    BY <1>2, <1>11, TimesGrows
  <2>2. k * c <= m * c
    BY <1>5, <1>2, <1>11, TimesGrows
  <2>3. o * m = m * o /\ c * m = m * c /\ k * c = c * k
    BY <1>2
  <2> QED
    BY <1>5, <1>2, <1>3, <1>7, <2>1, <2>2, <2>3
<1>12. ASSUME file.size >= 2 * Page, o > Row PROVE FALSE
  <2>1. m >= 2
    <3>1. 0 + 2 * Page <= file.size
      BY <1>2, <1>12
    <3>2. 0 \div Page + 2 <= file.size \div Page
      BY <1>2, <1>4, <3>1, QuotientGrows
    <3> QED
      BY <1>2, <1>3, <3>2, Quotient
  <2>2. Row \in Nat /\ 2 * Row >= 3 * c
    BY ExecAssumption
  <2>3. Row * m + m <= o * m
    BY <1>2, <1>12, <2>2, TimesGrows
  <2>4. (3 * c) * m <= (2 * Row) * m
    BY <1>2, <2>2, TimesGrows
  <2>5. 2 * c <= m * c
    BY <1>2, <2>1, TimesGrows
  <2>6. /\ o * m = m * o /\ (3 * c) * m = 3 * (m * c) /\ (2 * Row) * m = 2 * (Row * m)
        /\ Row * m \in Nat
    BY <1>2, <2>2
  <2> QED
    BY <1>2, <1>3, <1>7, <2>3, <2>4, <2>5, <2>6
<1>13. o \in Nat /\ c \in Nat /\ Row \in Nat
  BY <1>2, ExecAssumption
<1> HIDE DEF m, c, o
<1> QED
  BY <1>9, <1>10, <1>11, <1>12, <1>13 DEF c, o

\* The loops of progressbar.c, and the return from progressbar_progress.
LEMMA ProgressIInv ==
    ASSUME IInv, Progress
    PROVE  IInv'
<1> USE DEF IInv
<1>1. /\ pc \in {"bar_lo", "bar_hi"} /\ pc' = pc /\ file' = file /\ start' = start
      /\ pos' = pos /\ open' = open /\ size' = size /\ lo' = lo /\ hi' = hi
      /\ last_error' = last_error
  BY DEF Progress
<1>2. CallInv'
  BY <1>1 DEF CallInv, PagesInPlace, InLoPart, HiPartRead, Reached, End
<1>3. /\ bar.max \in Nat /\ bar.offset \in 0 .. Memory - 1 /\ bar.todo \in Nat
      /\ Cols \in Nat \ {0} /\ bar.x \in Nat /\ bar.y \in Nat /\ Memory \in Nat
      /\ Memory > 2 * Cols
  BY ExecAssumption DEF TypeOK
<1>4. CASE BarCell
  <2>1. /\ bar.y < bar.x
        /\ bar' = [bar EXCEPT !.offset = (bar.offset + 1) % Memory, !.y = bar.y + bar.max]
    BY <1>4 DEF BarCell
  <2>2. (bar.offset + 1) % Memory \in 0 .. Memory - 1 /\ bar.y + bar.max \in Nat
    BY <1>3
  <2>3. TypeOK'
    <3>1. bar' \in [max : Nat, x : Nat, y : Nat, offset : 0 .. Memory - 1,
                   todo : 0 .. MaxSize \div Page]
      BY <2>1, <2>2 DEF TypeOK
    <3> QED
      BY <1>1, <3>1 DEF TypeOK
  <2>4. BarInv'
    <3> SUFFICES ASSUME Sound' PROVE BarInv'
      BY DEF BarInv
    <3>1. Sound /\ pc # "idle"
      BY <1>1 DEF Sound
    <3>2. (bar.offset + 1) % Memory = bar.offset + 1
      BY <1>3, <2>1, <3>1, BarBound
    <3>3. /\ bar'.max = bar.max /\ bar'.x = bar.x /\ bar'.todo = bar.todo
          /\ bar'.y = bar.y + bar.max /\ bar'.offset = bar.offset + 1
      BY <2>1, <3>2 DEF TypeOK
    <3>4. bar.y = bar.max * bar.offset /\ bar.max = file.size \div Page
      BY <3>1 DEF BarInv
    <3>5. bar'.y = bar'.max * bar'.offset /\ bar'.y < bar'.x + bar'.max
      BY <1>3, <2>1, <3>3, <3>4
    <3> QED
      BY <1>1, <3>1, <3>3, <3>5 DEF BarInv, PagesOf
  <2> QED
    BY <1>2, <2>3, <2>4
<1>5. CASE BarPage
  <2>1. /\ bar.todo > 0
        /\ bar' = [bar EXCEPT !.todo = bar.todo - 1, !.x = bar.x + Cols]
    BY <1>5 DEF BarPage
  <2>2. TypeOK'
    <3>1. bar' \in [max : Nat, x : Nat, y : Nat, offset : 0 .. Memory - 1,
                   todo : 0 .. MaxSize \div Page]
      <4>1. MaxSize \div Page \in Nat
        BY Quotient, ExecAssumption
      <4>2. bar.todo - 1 \in 0 .. MaxSize \div Page /\ bar.x + Cols \in Nat
        BY <1>3, <2>1, <4>1, SMTT(40) DEF TypeOK
      <4> QED
        BY <2>1, <4>2 DEF TypeOK
    <3> QED
      BY <1>1, <3>1 DEF TypeOK
  <2>3. BarInv'
    <3> SUFFICES ASSUME Sound' PROVE BarInv'
      BY DEF BarInv
    <3>1. Sound /\ pc # "idle"
      BY <1>1 DEF Sound
    <3>2. PICK k \in Nat :
             /\ bar.x = Cols * k
             /\ k + bar.todo <= PagesOf
             /\ pc \in {"lo", "bar_lo"} => k + bar.todo <= Len(lo)
      BY <3>1 DEF BarInv
    <3>3. /\ bar'.max = bar.max /\ bar'.y = bar.y /\ bar'.offset = bar.offset
          /\ bar'.x = bar.x + Cols /\ bar'.todo = bar.todo - 1
      BY <2>1 DEF TypeOK
    <3>4. Cols * (k + 1) = Cols * k + Cols
      BY <1>3
    <3>5. bar'.x = Cols * (k + 1) /\ (k + 1) + bar'.todo = k + bar.todo /\ k + 1 \in Nat
      BY <1>3, <3>2, <3>3, <3>4
    <3>6. bar'.y < bar'.x + bar'.max
      BY <1>3, <3>1, <3>3, SMTT(40) DEF BarInv
    <3> QED
      BY <1>1, <3>1, <3>2, <3>3, <3>5, <3>6 DEF BarInv, PagesOf
  <2> QED
    BY <1>2, <2>2, <2>3
<1> QED
  BY <1>4, <1>5 DEF Progress

\* The loader's step between two pages keeps the invariant.
LEMMA ProgressMadeIInv ==
    ASSUME IInv, ProgressMade
    PROVE  IInv'
<1> USE DEF IInv
<1>1. /\ file' = file /\ start' = start /\ pos' = pos /\ size' = size /\ lo' = lo
      /\ hi' = hi /\ last_error' = last_error /\ bar' = bar
  BY DEF ProgressMade
<1>2. \/ pc = "bar_lo" /\ pc' = "lo" /\ open' = open
      \/ pc = "bar_hi" /\ pc' = "running" /\ open' = FALSE
  BY DEF ProgressMade
<1>3. TypeOK'
  BY <1>1, <1>2 DEF TypeOK, Loading
<1>4. CallInv'
  BY <1>1, <1>2 DEF CallInv, PagesInPlace, InLoPart, HiPartRead, Reached, End, Loading
<1>5. BarInv'
  <2>1. bar.todo = 0
    BY DEF ProgressMade, BarFull
  <2> QED
    BY <1>1, <1>2, <2>1 DEF BarInv, Sound, PagesOf
<1> QED
  BY <1>3, <1>4, <1>5

\* The program is run, or the call before it was none.
LEMMA OtherIInv ==
    ASSUME IInv, LoRun \/ ExecNotFound
    PROVE  IInv'
<1> USE DEF IInv
<1>1. CASE LoRun
  <2>1. /\ file' = file /\ start' = start /\ pos' = pos /\ size' = size /\ lo' = lo
        /\ hi' = hi /\ last_error' = last_error /\ bar' = bar
        /\ pc = "lo" /\ size = 0 /\ open' = FALSE /\ pc' = "running"
    BY <1>1 DEF LoRun
  <2>2. TypeOK'
    BY <2>1 DEF TypeOK, Loading
  <2>3. CallInv'
    BY <2>1 DEF CallInv, PagesInPlace, InLoPart, HiPartRead, Reached, End, Loading
  <2>4. BarInv'
    BY <2>1 DEF BarInv, Sound, PagesOf
  <2> QED
    BY <2>2, <2>3, <2>4
<1>2. CASE ExecNotFound
  <2>1. /\ file' = file /\ start' = start /\ pos' = pos /\ size' = size /\ lo' = lo
        /\ hi' = hi /\ bar' = bar /\ pc = "idle" /\ open' = open /\ pc' = pc
        /\ last_error' \in {"NOT_FOUND", "CARD"}
    BY <1>2 DEF ExecNotFound
  <2>2. TypeOK'
    BY <2>1 DEF TypeOK
  <2>3. CallInv' /\ BarInv'
    BY <2>1 DEF CallInv, BarInv, Loading
  <2> QED
    BY <2>2, <2>3
<1> QED
  BY <1>1, <1>2

\* Every step of the loader keeps the invariant.
THEOREM NextIInv == IInv /\ [Next]_vars => IInv'
<1> SUFFICES ASSUME IInv, [Next]_vars PROVE IInv'
  OBVIOUS
<1>1. CASE ExecStale
  BY <1>1, StopIInv DEF ExecStale, IInv
<1>2. CASE \E f \in File, offset \in {0, Page}, error \in {"OK", "EOF", "CARD"} :
              fat_exec_fd(f, offset, error)
  BY <1>2, ExecIInv
<1>3. CASE Restart
  BY <1>3, StopIInv DEF Restart, IInv
<1>4. CASE UNCHANGED vars
  BY <1>4 DEF vars, IInv, TypeOK, CallInv, BarInv, PagesInPlace, InLoPart, HiPartRead,
              Reached, End, Sound, PagesOf
<1> QED
  BY <1>1, <1>2, <1>3, <1>4, OtherIInv, LoadLoPageIInv, LoadHiPartIInv,
     ProgressIInv, ProgressMadeIInv DEF Next

\* The strengthening holds in every state.
THEOREM SpecIInv == Spec => []IInv
<1>1. Init => IInv
  BY InitIInv
<1>2. IInv /\ [Next]_vars => IInv'
  BY NextIInv
<1> QED
  BY <1>1, <1>2, PTL DEF Spec

\* The variables of the loader keep their types (size and todo their ranges).
THEOREM TypeCorrect == Spec => []TypeOK
<1>1. IInv => TypeOK
  BY DEF IInv
<1> QED
  BY <1>1, SpecIInv, PTL

\* exec.c:28: on every path the descriptor is given back before fat_exec_fd
\* returns or the program runs.
THEOREM DescriptorGivenBack == Spec => []NoDescriptorLeak
<1>1. IInv => NoDescriptorLeak
  BY DEF IInv, CallInv, NoDescriptorLeak, Loading
<1> QED
  BY <1>1, SpecIInv, PTL

\* exec.c:46: a program that runs has every byte of its file in its place,
\* whatever the card does, whatever last_error was left behind, however short
\* the chain and wherever the descriptor was.
THEOREM RunsOnlyWholePrograms == Spec => []LoadedWhole
<1>1. IInv => LoadedWhole
  <2> SUFFICES ASSUME IInv, pc = "running" PROVE LoadedWhole
    BY DEF LoadedWhole
  <2>1. /\ file \in File /\ start <= file.size /\ PagesInPlace
        /\ HiPartRead \/ (InLoPart /\ size = 0)
    BY DEF IInv, CallInv
  <2>2. /\ file.size \in Nat /\ file.chain \in 0 .. file.size /\ start \in {0, Page}
        /\ Page \in Nat /\ Page > 0 /\ LoPages \in Nat /\ Len(lo) \in Nat /\ Len(lo) <= LoPages
        /\ start \in Nat
    BY <2>1, FileFacts, ExecAssumption DEF IInv, TypeOK
  <2>3. CASE file.size = 0
    <3>1. \A p \in 0 .. LoPages - 1 : ~(p * Page < file.size)
      BY <2>2, <2>3, TimesGrows
    <3>2. ~(file.size > LoPages * Page)
      BY <2>2, <2>3, TimesGrows
    <3> QED
      BY <3>1, <3>2 DEF LoadedWhole
  <2>4. CASE file.size # 0
    <3>1. \A k \in Nat : Reached(k) <= End /\ Reached(k) \in Nat
      BY <2>1, <2>2, ReachedStep
    <3>2. pos = start + file.size /\ pos <= End
      <4>1. CASE HiPartRead
        BY <4>1 DEF HiPartRead
      <4>2. CASE InLoPart /\ size = 0
        <5>1. pos \in Nat /\ pos = Reached(Len(lo)) /\ 0 = start + file.size - pos
          BY <2>2, <3>1, <4>2 DEF InLoPart
        <5>2. pos <= End
          BY <2>2, <3>1, <5>1
        <5>3. pos = start + file.size
          BY <2>2, <5>1
        <5> QED
          BY <5>2, <5>3
      <4> QED
        BY <2>1, <4>1, <4>2
    <3>3. start = 0 /\ End = file.size /\ pos = file.size
      BY <2>2, <2>4, <3>2 DEF End
    <3>4. \A k \in Nat : Reached(k) = IF k * Page <= file.size THEN k * Page ELSE file.size
      BY <2>2, <3>3, TimesGrows DEF Reached
    <3>5. ASSUME NEW p \in 0 .. LoPages - 1, p * Page < file.size
          PROVE  /\ dst_hi > p /\ lo[p + 1].from = p * Page
                 /\ lo[p + 1].n = Min({Page, file.size - p * Page})
      <4>1. p \in Nat /\ p + 1 \in Nat /\ p * Page \in Nat /\ (p + 1) * Page = p * Page + Page
        BY <2>2, TimesGrows
      <4>2. p < Len(lo)
        <5>1. CASE HiPartRead
          BY <2>2, <5>1 DEF HiPartRead
        <5>2. CASE InLoPart
          <6>1. Reached(Len(lo)) = file.size
            BY <3>3, <5>2 DEF InLoPart
          <6>2. file.size <= Len(lo) * Page
            <7>1. file.size = IF Len(lo) * Page <= file.size THEN Len(lo) * Page
                                                             ELSE file.size
              BY <2>2, <3>4, <6>1
            <7>2. Len(lo) * Page \in Nat
              BY <2>2, TimesGrows
            <7> QED
              BY <2>2, <7>1, <7>2
          <6>3. Len(lo) <= p => Len(lo) * Page <= p * Page
            BY <2>2, <4>1, TimesGrows
          <6> QED
            BY <2>2, <3>5, <4>1, <6>2, <6>3, TimesGrows
        <5> QED
          BY <2>1, <5>1, <5>2
      <4>3. lo[p + 1] = [from |-> Reached(p), n |-> Reached(p + 1) - Reached(p)]
        <5>1. p + 1 \in 1 .. Len(lo) /\ (p + 1) - 1 = p
          BY <2>2, <4>1, <4>2
        <5> QED
          BY <2>1, <5>1 DEF PagesInPlace
      <4>4. Reached(p) = p * Page
        <5>1. Reached(p) = IF p * Page <= file.size THEN p * Page ELSE file.size
          BY <3>4, <4>1
        <5>2. p * Page <= file.size
          BY <2>2, <3>5, <4>1
        <5> QED
          BY <5>1, <5>2
      <4>5. Reached(p + 1) = IF p * Page + Page <= file.size THEN p * Page + Page
                                                            ELSE file.size
        BY <3>4, <4>1
      <4>6. Min({Page, file.size - p * Page}) =
              IF Page <= file.size - p * Page THEN Page ELSE file.size - p * Page
        <5>1. file.size - p * Page \in Int /\ Page \in Int
          BY <2>2, <4>1
        <5> QED
          BY <5>1, MinMaxOfTwo
      <4> QED
        BY <2>2, <4>1, <4>2, <4>3, <4>4, <4>5, <4>6 DEF dst_hi
    <3>6. ASSUME file.size > LoPages * Page
          PROVE  hi = [from |-> LoPages * Page, n |-> file.size - LoPages * Page]
      <4>1. Reached(LoPages) = LoPages * Page /\ LoPages * Page \in Nat
        <5>1. Reached(LoPages) = IF LoPages * Page <= file.size THEN LoPages * Page
                                                                ELSE file.size
          BY <2>2, <3>4
        <5>2. LoPages * Page \in Nat
          BY <2>2, TimesGrows
        <5> QED
          BY <2>2, <3>6, <5>1, <5>2
      <4>2. CASE HiPartRead
        BY <2>2, <3>3, <4>1, <4>2 DEF HiPartRead
      <4>3. CASE InLoPart
        <5>1. Reached(Len(lo)) = file.size
          BY <3>3, <4>3 DEF InLoPart
        <5>2. Len(lo) * Page <= LoPages * Page /\ Len(lo) * Page \in Nat
          BY <2>2, TimesGrows
        <5>3. file.size = IF Len(lo) * Page <= file.size THEN Len(lo) * Page
                                                         ELSE file.size
          BY <2>2, <3>4, <5>1
        <5> QED
          BY <2>2, <3>6, <4>1, <5>2, <5>3
      <4> QED
        BY <2>1, <4>2, <4>3
    <3> QED
      BY <3>5, <3>6 DEF LoadedWhole
  <2> QED
    BY <2>3, <2>4
<1> QED
  BY <1>1, SpecIInv, PTL

\* progressbar.c:24: the bar of a sound file of whole pages stays within the
\* width of the screen, that of any file of two pages or more on its row, and
\* that of any file of a page or more in the character memory, for every page
\* size, width and row.
THEOREM BarStaysOnScreen == Spec => []BarOnScreen
<1>1. IInv => BarOnScreen
  <2> SUFFICES ASSUME IInv, pc # "idle", Sound
               PROVE  /\ file.size % Page = 0 => bar.offset <= Cols
                      /\ file.size >= 2 * Page => bar.offset <= Row
                      /\ bar.offset <= Room
    BY DEF BarOnScreen, Sound
  <2>1. bar.offset \in Nat /\ Cols \in Nat /\ Room \in Nat /\ 2 * Cols <= Room
    BY ExecAssumption DEF IInv, TypeOK
  <2> QED
    BY <2>1, BarBound
<1> QED
  BY <1>1, SpecIInv, PTL
=============================================================================
