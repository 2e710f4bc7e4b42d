------------------------------ MODULE TapeCatalog ------------------------------
(***************************************************************************)
(* What the tape file tool promises of an image: it is a list of tape      *)
(* files, each with a number, a space and content in words, and a command  *)
(* changes the file it names and no other.  Each operator relates the list *)
(* before a command to the list after it.  fNum is the number of a file,   *)
(* or negative for the last one.  What comes after files that were marked  *)
(* over, or after one that has outgrown its space, is not promised.        *)
(***************************************************************************)
EXTENDS Integers, SequencesExt

CONSTANT EotSpace  \* words of space in an EOT file, 13

File(num, space, words) == [num |-> num, space |-> space, words |-> words]
Eot(num)                == File(num, EotSpace, <<>>)

(* The place of the file meant: of several with the number, the first; 0   *)
(* if there is none.                                                       *)
Named(old, fNum) ==
  IF fNum < 0 THEN Len(old) ELSE SelectInSeq(old, LAMBDA file : file.num = fNum)

NumAt(old, k)  == IF k = 0 THEN 0 ELSE old[k].num
Before(old, k) == SubSeq(old, 1, k - 1)
After(old, k)  == SubSeq(old, k + 1, Len(old))

-----------------------------------------------------------------------------
(* mark: count files of one size and an EOT file, from the one named on.   *)
Mark(old, new, count, space, fNum) ==
  LET k    == Named(old, fNum)
      num  == NumAt(old, k)
      kept == Before(old, k) \o [i \in 1 .. count |-> File(num + i - 1, space, <<>>)]
                \o <<Eot(num + count)>>
  IN /\ IsPrefix(kept, new)
     /\ k = Len(old) /\ (k = 0 \/ old[k].words = <<>>) => new = kept

(* mark with a negative count: an EOT file behind all, numbered after the  *)
(* one named.                                                              *)
MarkEot(old, new, fNum) ==
  new = Append(old, Eot(IF old = <<>> THEN 0 ELSE NumAt(old, Named(old, fNum)) + 1))

Loaded(file, words) ==
  File(file.num, IF Len(words) > file.space THEN Len(words) ELSE file.space, words)

(* load with a number.                                                     *)
Load(old, new, words, fNum) ==
  LET k    == Named(old, fNum)
      kept == Append(Before(old, k), Loaded(old[k], words))
  IN /\ IsPrefix(kept, new)
     /\ Len(words) <= old[k].space \/ k = Len(old) => new = kept \o After(old, k)

(* load without one: the last file, and an EOT file after it.              *)
LoadLast(old, new, words) ==
  LET all  == IF old = <<>> THEN <<Eot(0)>> ELSE old
      last == all[Len(all)]
  IN new = Front(all) \o <<Loaded(last, words), Eot(last.num + 1)>>

(* clean, which may number the files anew, and truncate.                   *)
Renumber(old, new) == new = [k \in DOMAIN old |-> [old[k] EXCEPT !.num = k - 1]]
Truncate(old, new) == IsPrefix(new, old)

=============================================================================
