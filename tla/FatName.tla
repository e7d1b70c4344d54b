------------------------------ MODULE FatName -------------------------------
(***************************************************************************)
(* lib/fat/name.c: a file's name as the program writes it, a sequence of   *)
(* characters, and as the directory holds it, BaseLen characters and       *)
(* ExtLen of the extension, filled up with blanks.                         *)
(***************************************************************************)
EXTENDS Integers, Sequences, FiniteSetsExt

CONSTANTS BaseLen, \* 8 in the source
          ExtLen   \* 3 in the source

ASSUME NameAssumption == BaseLen \in Nat \ {0} /\ ExtLen \in Nat \ {0}

NameLen == BaseLen + ExtLen

Blank == " "
Dot == "."

\* The first position of s from `from` on that holds one of chars, or the end.
PositionOf(s, from, chars) ==
    Min({i \in from .. Len(s) : s[i] \in chars} \cup {Len(s) + 1})

\* The k-th character of s from `from` on, or a blank.
CharAt(s, from, k) == IF from + k - 1 <= Len(s) THEN s[from + k - 1] ELSE Blank

\* What follows the base: a base that is too long is skipped up to its dot,
\* which then becomes the first character of the extension.
ExtensionAt(src) ==
    LET dot == PositionOf(src, 1, {Dot}) IN IF dot <= BaseLen + 1 THEN dot + 1 ELSE dot

to_fat_name(src) ==
    LET base == PositionOf(src, 1, {Dot}) - 1 IN
    [k \in 1 .. NameLen |->
        CASE src[1] = Dot -> CharAt(src, 1, k)
          [] src[1] # Dot /\ k <= BaseLen -> IF k <= base THEN src[k] ELSE Blank
          [] src[1] # Dot /\ k > BaseLen -> CharAt(src, ExtensionAt(src), k - BaseLen)]

from_fat_name(name) ==
    LET base == SubSeq(name, 1, BaseLen)
        ext == SubSeq(name, BaseLen + 1, NameLen)
        upToBlank(s) == SubSeq(s, 1, PositionOf(s, 1, {Blank}) - 1)
    IN  upToBlank(base) \o (IF ext[1] = Blank THEN <<>> ELSE <<Dot>> \o upToBlank(ext))

\* The names that the two keep.  As a string: without blanks, and within the base
\* when it begins with a dot.  On the card: base and extension are filled up with
\* blanks, and the base has no dot unless it begins with one.
Plain(src) ==
    /\ src \in Seq({src[i] : i \in DOMAIN src} \ {Blank}) /\ src # <<>>
    /\ src[1] = Dot => Len(src) <= BaseLen
Stored(name) ==
    /\ name = [k \in 1 .. NameLen |-> name[k]] /\ name[1] # Blank
    /\ \A i, j \in 1 .. NameLen :
          name[i] = Blank /\ i < j /\ (i <= BaseLen <=> j <= BaseLen) => name[j] = Blank
    /\ IF name[1] = Dot THEN name[BaseLen + 1] = Blank ELSE \A i \in 1 .. BaseLen : name[i] # Dot
=============================================================================
