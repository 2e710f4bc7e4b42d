------------------------------- MODULE TapeFiles -------------------------------
(***************************************************************************)
(* The image buffer of the tape file tool: the commands of software/       *)
(* tp9830/main.c that mark, load, clean up, cut and recover an image, with *)
(* tpf.c and the buffer routines of util/util.c.                           *)
(*                                                                         *)
(* The image is a sequence of cells: a byte, plus Ctl on the control byte  *)
(* that begins a file (BOF).  A word is two bytes, the low one first.  A   *)
(* file is its BOF, HdrWords words of header, their checksum, as many      *)
(* words as the header's space and one more for the content's checksum,    *)
(* which follows the content.                                              *)
(***************************************************************************)
EXTENDS Integers, SequencesExt

CONSTANTS
  Base,        \* values of a byte, 256
  BOF,         \* the byte that begins a file, 0x3c
  HdrWords,    \* TPF_HDR_LEN, 12
  BotPadding,  \* BOT_PADDING, 300
  EotPadding,  \* the 300 of Tpf_Cleanup
  EotSpace,    \* words of space in an EOT file, 13
  Grow,        \* cells by which a buffer grows, 10000
  Spaces, Counts, Contents,  \* what is marked and loaded
  Cleanups,    \* the options clean is given
  Sizes,       \* sizes of the buffer, 100000 at first
  MaxFiles, MaxNum, MaxLen  \* bounds on the image

VARIABLES
  image,  \* BF: p up to l
  size,   \* BF: size
  files   \* what list shows of the image

vars == <<image, size, files>>

Ctl == 8 * Base
Cells == 0 .. Base - 1 \cup {BOF + Ctl}

-----------------------------------------------------------------------------
(* Words, and the fields of a file at bi.                                  *)

Byte(cell)  == cell % Base

(* The bytes are joined with an or; a control bit in the low one falls on  *)
(* a bit of the high one.                                                  *)
Word(p, bi) ==
  LET low == p[bi + 1] high == p[bi + 2] IN
    Base * high + IF low >= Ctl /\ (high \div 8) % 2 = 1 THEN low - Ctl ELSE low

Bytes(w)    == <<w % Base, (w \div Base) % Base>>
BytesOf(ws) == FlattenSeq([i \in DOMAIN ws |-> Bytes(ws[i])])
Zeroes(n)   == [i \in 1 .. n |-> 0]

Num(p, bi)     == Word(p, bi + 1)
Length(p, bi)  == Word(p, bi + 3)
Space(p, bi)   == Word(p, bi + 7)
HdrSum(bi)     == bi + 1 + 2 * HdrWords
Content(bi)    == HdrSum(bi) + 2
ContentSum(p, bi) == Content(bi) + 2 * Length(p, bi)
End(p, bi)     == Content(bi) + 2 * (Space(p, bi) + 1)

Words(p, bi, n) == [k \in 1 .. n |-> Word(p, bi + 2 * (k - 1))]
Sum(ws) ==
  LET sum[k \in 0 .. Len(ws)] == IF k = 0 THEN 0 ELSE sum[k - 1] + ws[k] IN sum[Len(ws)]
Checksum(p, bi, n) == Sum(Words(p, bi, n)) % (Base * Base)

(* bf_put, cell after cell; a buffer grows whenever one falls outside it.  *)
Put(p, bi, cells) ==
  SubSeq(p, 1, bi) \o cells \o SubSeq(p, bi + Len(cells) + 1, Len(p))
Grown(s, n) == IF n <= s THEN s ELSE s + Grow * ((n - s + Grow - 1) \div Grow)

PutHeaderChecksum(p, bi) == Put(p, HdrSum(bi), Bytes(Checksum(p, bi + 1, HdrWords)))
PutContentChecksum(p, bi) ==
  Put(p, ContentSum(p, bi), Bytes(Checksum(p, Content(bi), Length(p, bi))))

-----------------------------------------------------------------------------
(* The files of an image: what is not a BOF is skipped, and so is what     *)
(* belongs to a file.                                                      *)

Behind(p, bi) == IF Content(bi) > Len(p) THEN Len(p) ELSE End(p, bi)
Bofs(p) ==
  LET scanned[i \in 0 .. Len(p)] ==
        IF i = 0 THEN [bofs |-> <<>>, next |-> 0]
        ELSE LET s == scanned[i - 1] IN
          IF i <= s.next \/ Byte(p[i]) # BOF THEN s
          ELSE [bofs |-> Append(s.bofs, i - 1), next |-> Behind(p, i - 1)]
  IN scanned[Len(p)].bofs

(* No file is cut, so that nothing is read past the image.                 *)
Whole(p) ==
  \A bi \in Range(Bofs(p)) :
    Content(bi) <= Len(p) /\ Length(p, bi) <= Space(p, bi) /\ End(p, bi) <= Len(p)

Listed(p) ==
  LET bofs == Bofs(p) IN
    [k \in DOMAIN bofs |->
      [num   |-> Num(p, bofs[k]),
       space |-> Space(p, bofs[k]),
       words |-> Words(p, Content(bofs[k]), Length(p, bofs[k]))]]

(* Mutant: the search goes on after a match.                               *)
FindFileLast(p, fNum) ==
  LET bofs  == Bofs(p)
      found == SelectLastInSeq(bofs, LAMBDA bi : Num(p, bi) = fNum)
  IN IF found > 0 THEN bofs[found]
     ELSE IF fNum < 0 /\ bofs # <<>> THEN bofs[Len(bofs)]
     ELSE -1

FindFile(p, fNum) ==
  LET bofs  == Bofs(p)
      found == SelectInSeq(bofs, LAMBDA bi : Num(p, bi) = fNum)
  IN IF found > 0 THEN bofs[found]
     ELSE IF fNum < 0 /\ bofs # <<>> THEN bofs[Len(bofs)]
     ELSE -1

EmptyFile(num, space) ==
  LET header == <<num, 0, 0, space>> \o Zeroes(HdrWords - 4) IN
    <<BOF + Ctl>> \o BytesOf(header \o <<Sum(header) % (Base * Base)>>)
      \o Zeroes((space + 1) * 2 + space \div 2)

(* Tpf_Mark; numFiles is -1 to append an EOT file only.                    *)
Marked(p, numFiles, fSpace, fNum) ==
  LET found == FindFile(p, fNum)
      q     == IF found < 0 THEN Put(p, 0, Zeroes(BotPadding)) ELSE p
      num   == IF found < 0 THEN 0
               ELSE Num(p, found) + (IF numFiles < 0 THEN 1 ELSE 0)
      at    == IF numFiles < 0 THEN Len(q) ELSE IF found < 0 THEN BotPadding ELSE found
      n     == IF numFiles < 0 THEN 0 ELSE numFiles
  IN IF found < 0 /\ fNum >= 0 THEN p
     ELSE Put(q, at, FlattenSeq([i \in 1 .. n + 1 |->
                       EmptyFile(num + i - 1, IF i = n + 1 THEN EotSpace ELSE fSpace)]))

(* A tape file outside, as store writes it: header and content with their  *)
(* checksums.                                                              *)
Stored(words) ==
  <<0, Len(words), 1, Len(words)>> \o Zeroes(HdrWords - 4) \o <<0>> \o words \o <<0>>

Loaded(p, bi, words) ==
  LET read   == Put(p, bi + 1, BytesOf(Stored(words)))
      num    == Put(read, bi + 1, Bytes(Num(p, bi)))
      fSpace == IF Len(words) > Space(p, bi) THEN Len(words) ELSE Space(p, bi)
  IN PutContentChecksum(PutHeaderChecksum(Put(num, bi + 7, Bytes(fSpace)), bi), bi)

(* Tpf_LoadFile; fNum is -1 for the last file, and a new EOT file.         *)
LoadedFile(p, fNum, words) ==
  LET q == IF fNum < 0 /\ Bofs(p) = <<>> THEN Marked(p, 0, 0, -1) ELSE p
  IN Loaded(q, FindFile(q, fNum), words)

LoadFile(p, fNum, words) ==
  IF fNum >= 0 /\ FindFile(p, fNum) < 0 THEN p
  ELSE IF fNum < 0 THEN Marked(LoadedFile(p, fNum, words), -1, 0, -1)
  ELSE LoadedFile(p, fNum, words)

-----------------------------------------------------------------------------
(* The text of image and tape files: hexadecimal numbers, each ended by a  *)
(* tilde, sixteen to a line, and an exclamation mark.  A digit stands for  *)
(* itself.                                                                 *)

Tilde == 16
Bang  == 17
Other == 18
Digits(n) ==
  LET first == IF n < 16 THEN 4 ELSE IF n < 256 THEN 3 ELSE IF n < 4096 THEN 2 ELSE 1 IN
    SubSeq(<<n \div 4096, (n \div 256) % 16, (n \div 16) % 16, n % 16>>, first, 4)

Encoded(nums) ==
  FlattenSeq([i \in DOMAIN nums |->
    Digits(nums[i]) \o <<Tilde>> \o IF i % 16 = 0 THEN <<Other>> ELSE <<>>]) \o <<Bang>>

(* "HP9830 Tape Image", of which only the number looks like digits.        *)
Title == <<Other, Other, 9, 8, 3, 0, Other, Other, Other>>

(* XNS_Decode, character by character.  Mutant: every digit counts.        *)
ReadingThroughout(s, c) ==
  IF s.done THEN s
  ELSE IF c < 16    THEN [s EXCEPT !.num = 16 * @ + c]
  ELSE IF c = Tilde THEN [s EXCEPT !.nums = Append(@, s.num), !.num = 0]
  ELSE [s EXCEPT !.done = (c = Bang)]

Reading(s, c) ==
  IF s.done THEN s
  ELSE IF c < 16    THEN [s EXCEPT !.num = 16 * @ + c]
  ELSE IF c = Tilde THEN [s EXCEPT !.nums = Append(@, s.num), !.num = 0]
  ELSE IF c = Bang  THEN [s EXCEPT !.done = TRUE]
  ELSE [s EXCEPT !.num = 0]

Decoded(text) ==
  LET read[i \in 0 .. Len(text)] ==
        IF i = 0 THEN [num |-> 0, nums |-> <<>>, done |-> FALSE]
        ELSE Reading(read[i - 1], text[i])
  IN read[Len(text)].nums

(* What store writes of the file at bi: header and content with their sums.*)
StoreWords(p, bi) == Words(p, bi + 1, HdrWords + 1 + Length(p, bi) + 1)

-----------------------------------------------------------------------------
(* Tpf_Cleanup.  A piece is what comes before a file, with the file.       *)

(* Mutant: the padding goes by the file that follows it.                   *)
NeededOwn(p, k) ==
  LET bofs == Bofs(p)
      pad  == bofs[k] - (IF k = 1 THEN 0 ELSE End(p, bofs[k - 1]))
      want == IF k = 1 THEN BotPadding ELSE Space(p, bofs[k]) \div 2
  IN IF want > pad THEN want - pad ELSE 0

Needed(p, k) ==
  LET bofs == Bofs(p)
      pad  == bofs[k] - (IF k = 1 THEN 0 ELSE End(p, bofs[k - 1]))
      want == IF k = 1 THEN BotPadding ELSE Space(p, bofs[k - 1]) \div 2
  IN IF want > pad THEN want - pad ELSE 0

Gap(cells, o) == IF "zeroes" \in o THEN Zeroes(Len(cells)) ELSE cells

(* Mutants: every BOF byte is marked; the number changes after the sums.   *)
CleanFileAll(file, k, o) ==
  LET bof == IF "bofs" \in o
               THEN [i \in DOMAIN file |-> IF file[i] = BOF THEN BOF + Ctl ELSE file[i]]
               ELSE file
      seq == IF "seq" \in o THEN Put(bof, 1, Bytes(k - 1)) ELSE bof
  IN IF "sums" \in o THEN PutContentChecksum(PutHeaderChecksum(seq, 0), 0) ELSE seq

CleanFileSumsFirst(file, k, o) ==
  LET bof  == IF "bofs" \in o /\ file[1] < Ctl THEN Put(file, 0, <<file[1] + Ctl>>) ELSE file
      sums == IF "sums" \in o THEN PutContentChecksum(PutHeaderChecksum(bof, 0), 0) ELSE bof
  IN IF "seq" \in o THEN Put(sums, 1, Bytes(k - 1)) ELSE sums

CleanFile(file, k, o) ==
  LET bof == IF "bofs" \in o /\ file[1] < Ctl THEN Put(file, 0, <<file[1] + Ctl>>) ELSE file
      seq == IF "seq" \in o THEN Put(bof, 1, Bytes(k - 1)) ELSE bof
  IN IF "sums" \in o THEN PutContentChecksum(PutHeaderChecksum(seq, 0), 0) ELSE seq

Cleaned(p, o) ==
  LET bofs     == Bofs(p)
      ends     == <<0>> \o [k \in DOMAIN bofs |-> End(p, bofs[k])]
      gap(k)   == Gap(SubSeq(p, ends[k] + 1, bofs[k]), o)
                    \o Zeroes(IF "pad" \in o THEN Needed(p, k) ELSE 0)
      piece(k) == gap(k) \o CleanFile(SubSeq(p, bofs[k] + 1, ends[k + 1]), k, o)
      tail     == Gap(SubSeq(p, ends[Len(ends)] + 1, Len(p)), o)
  IN FlattenSeq([k \in DOMAIN bofs |-> piece(k)])
       \o (IF "trunc" \in o THEN <<>> ELSE tail)
       \o Zeroes(IF "pad" \in o THEN EotPadding ELSE 0)

(* bf_shift makes room for the zeroes, file after file, and looks whether   *)
(* the room it makes is in the buffer, not whether the moved cells are.     *)
Shifts(p, s) ==
  LET bofs == Bofs(p)
      shifted[k \in 0 .. Len(bofs)] ==
        IF k = 0 THEN [more |-> 0, size |-> s, inside |-> TRUE]
        ELSE LET before == shifted[k - 1]
                 n      == Needed(p, k)
                 end    == bofs[k] + before.more + n
                 room   == IF end >= before.size THEN before.size + Grow ELSE before.size
             IN IF n = 0 THEN before
                ELSE [more   |-> before.more + n,
                      size   |-> room,
                      inside |-> before.inside /\ Len(p) + before.more + n <= room]
  IN shifted[Len(bofs)]

-----------------------------------------------------------------------------
(* The commands.  The inputs are such that every file stays whole: the     *)
(* tool reads past the end of the image otherwise.                         *)

Init == image = <<>> /\ size \in Sizes /\ files = <<>>

Numbers == {Num(image, bi) : bi \in Range(Bofs(image))}

Bounded(p) ==
  /\ Len(p) <= MaxLen /\ Len(Bofs(p)) <= MaxFiles
  /\ \A bi \in Range(Bofs(p)) : Num(p, bi) <= MaxNum

Becomes(p) == image' = p /\ files' = Listed(p)

Mark(numFiles, fSpace, fNum) ==
  LET p == Marked(image, numFiles, fSpace, fNum) IN
    /\ Whole(p) /\ Bounded(p)
    /\ Becomes(p)
    /\ size' = Grown(size, Len(p))

Load(fNum, words) ==
  LET p == LoadFile(image, fNum, words) IN
    /\ Whole(LoadedFile(image, fNum, words)) /\ Whole(p) /\ Bounded(p)
    /\ Becomes(p)
    /\ size' = Grown(size, Len(p))

(* What a shift does to the heap past the buffer is not followed.          *)
Cleanup(o) ==
  LET p == Cleaned(image, o) IN
    /\ Bounded(p)
    /\ "pad" \in o => Shifts(image, size).inside
    /\ Becomes(p)
    /\ size' = Grown(IF "pad" \in o THEN Shifts(image, size).size ELSE size, Len(p))

Truncate(n) ==
  /\ n < Len(image) /\ Whole(SubSeq(image, 1, n))
  /\ Becomes(SubSeq(image, 1, n))
  /\ UNCHANGED size

(* What a tape drive gives back of an image that was written to it: bytes  *)
(* without their control bits, and a stray one in the padding before the   *)
(* first file.                                                             *)
Raw(p) == [i \in DOMAIN p |-> Byte(p[i])]

ReadImage(maxBytes, stray) ==
  LET p == IF stray # 0 /\ Bofs(image) # <<>> /\ Bofs(image)[1] > 0
             THEN Put(Raw(image), 0, <<stray>>) ELSE Raw(image)
  IN /\ Len(image) <= maxBytes /\ Whole(p)
     /\ Becomes(p)
     /\ size' = maxBytes

Next ==
  \/ \E fNum \in Numbers \cup {-1} :
       \/ \E n \in Counts \cup {-1}, fSpace \in Spaces : Mark(n, fSpace, fNum)
       \/ \E words \in Contents : Load(fNum, words)
  \/ \E o \in Cleanups : Cleanup(o)
  \/ \E n \in {0} \cup {End(image, bi) : bi \in Range(Bofs(image))} : Truncate(n)
  \/ \E maxBytes \in Sizes, stray \in {0, 1} : ReadImage(maxBytes, stray)

Spec == Init /\ [][Next]_vars

(* A file's header has room for its number, length, type and space, each a *)
(* word of it.                                                             *)
ASSUME SizesAssumption ==
  /\ Base \in 2 .. 256 /\ BOF \in 1 .. Base - 1
  /\ {HdrWords, BotPadding, EotPadding, EotSpace, Grow} \subseteq Nat
  /\ HdrWords >= 4 /\ Grow > 0
  /\ Counts \subseteq Nat /\ Spaces \subseteq Nat /\ Sizes \subseteq Nat
  /\ Contents \subseteq Seq(Nat) /\ \A words \in Contents : Len(words) < Base * Base

-----------------------------------------------------------------------------
(* Properties.                                                             *)

(* The image is a sequence of cells inside its buffer, and no file of it   *)
(* is cut.                                                                 *)
TypeOK ==
  /\ image \in Seq(Cells)
  /\ size \in Nat /\ Len(image) <= size
  /\ Whole(image)

(* The commands work on bytes (tpf.c lines 330 to 509), and to the list of *)
(* files each does what the catalog says of it: mark and load to the file  *)
(* with the number they are given, or the last one, and to no other, as    *)
(* long as nothing overlaps, also where a write meets what is left of      *)
(* older files; clean to the numbers alone; truncate leaves the start of   *)
(* the list; and an image that has been on tape shows the same list.       *)
Catalog == INSTANCE TapeCatalog

MarksNamed(fNum) ==
  \A fSpace \in Spaces, n \in Counts \cup {-1} :
    LET p == Marked(image, n, fSpace, fNum) IN
      Whole(p) => IF n < 0 THEN Catalog!MarkEot(files, Listed(p), fNum)
                  ELSE Catalog!Mark(files, Listed(p), n, fSpace, fNum)

LoadsNamed(fNum) ==
  \A words \in Contents :
    LET p == LoadFile(image, fNum, words) IN
      Whole(LoadedFile(image, fNum, words)) /\ Whole(p) =>
        IF fNum < 0 THEN Catalog!LoadLast(files, Listed(p), words)
        ELSE Catalog!Load(files, Listed(p), words, fNum)

IsCatalog ==
  /\ \A fNum \in Numbers \cup {-1} : MarksNamed(fNum) /\ LoadsNamed(fNum)
  /\ \A o \in Cleanups :
       LET new == Listed(Cleaned(image, o)) IN
         IF "seq" \in o THEN Catalog!Renumber(files, new) ELSE new = files
  /\ \A bi \in Range(Bofs(image)) :
       Catalog!Truncate(files, Listed(SubSeq(image, 1, End(image, bi))))
  /\ Whole(Raw(image)) => Listed(Raw(image)) = files

SumMatches(p, bi) ==
  /\ Word(p, HdrSum(bi)) = Checksum(p, bi + 1, HdrWords)
  /\ Word(p, ContentSum(p, bi)) = Checksum(p, Content(bi), Length(p, bi))
SumsMatch(p) == \A bi \in Range(Bofs(p)) : SumMatches(p, bi)

(* A BOF byte, not marked as one, in what is left of a file marked over.   *)
LeftOver(bi) == image'[bi + 1] = BOF /\ bi \notin Range(Bofs(image))

(* A marked BOF that the scan jumps over: behind a BOF byte in what is left*)
(* of one file comes the mark of another.                                  *)
Hidden(p) == \E i \in DOMAIN p : p[i] >= Ctl /\ i - 1 \notin Range(Bofs(p))

(* The checksums of every file stay right through marking, loading, padding*)
(* and cutting (tpf.c lines 113 to 136): only renumbering alone spoils     *)
(* them.                                                                   *)
SumsRight ==
  [][\/ \A bi \in Range(Bofs(image')) : SumMatches(image', bi) \/ LeftOver(bi)
     \/ ~SumsMatch(image) \/ Hidden(image)
     \/ \E o \in Cleanups : "seq" \in o /\ "sums" \notin o /\ Cleanup(o)]_vars

(* An image that comes back from tape without its control bits is the same *)
(* again once BOFs are marked by what the headers say (tpf.c lines 486 and *)
(* 487), whatever bytes the files hold.                                    *)
BofsMarked(p) == {i - 1 : i \in {j \in DOMAIN p : p[j] >= Ctl}} = Range(Bofs(p))
Restores == BofsMarked(image) => Cleaned(Raw(image), {"bofs"}) = image

Padding(p, k) ==
  LET bofs == Bofs(p) IN
    (IF k = Len(bofs) THEN Len(p) ELSE bofs[k + 1])
      - (IF k = 0 THEN 0 ELSE End(p, bofs[k]))

PaddedUpTo(p, last) ==
  /\ Padding(p, 0) >= BotPadding
  /\ \A k \in 1 .. last : Padding(p, k) >= Space(p, Bofs(p)[k]) \div 2
  /\ Padding(p, Len(Bofs(p))) >= EotPadding

(* After padding there is enough before the first file, after each file    *)
(* that another one follows, and at the end (tpf.c lines 477 to 484, 507); *)
(* after checksums every checksum is right (lines 492 to 495), whatever    *)
(* else clean does at the same time.                                       *)
CleanupRepairs ==
  \A o \in Cleanups :
    LET p == Cleaned(image, o) IN
      /\ "pad" \in o /\ Bofs(p) # <<>> => PaddedUpTo(p, Len(Bofs(p)) - 1)
      /\ "sums" \in o => SumsMatch(p)

(* An image that is saved and opened again, and a file that is stored and  *)
(* loaded again, are what they were (util.c lines 277 to 317, tpf.c lines  *)
(* 41 to 57, main.c lines 119 to 120 and 195 to 203): the title is no part *)
(* of an image, and a file's text ends where its content's checksum does.  *)
(* A file that another one begins in is not followed.                      *)
Reopens ==
  /\ Decoded(Title \o Encoded(image)) = image
  /\ \A bi \in Range(Bofs(image)) :
       (\A i \in bi + 2 .. End(image, bi) : image[i] < Base) =>
         Put(image, bi + 1, BytesOf(Decoded(Encoded(StoreWords(image, bi))))) = image

(* util.c line 155: the contents are shifted up, so they must have a place *)
(* in the buffer to be shifted to.                                         *)
ShiftsInside == Shifts(image, size).inside

=============================================================================
