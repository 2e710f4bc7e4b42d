----------------------------- MODULE TapeFilesProofs -----------------------------
(***************************************************************************)
(* Proofs about TapeFiles, for every size of a byte up to 256, of header,  *)
(* padding and space, every file and every sequence of commands: the image *)
(* stays a sequence of cells inside its buffer, all of its files whole, and*)
(* from that alone BOF marks lost on a tape are restored, clean repairs    *)
(* what it is asked to, what is saved opens as it was, no command but one  *)
(* spoils the checksum of a file, and clean and truncate do to the list of *)
(* files what the catalog promises.                                        *)
(*                                                                         *)
(* A lemma that holds of a recursive function is proved for the numbers of *)
(* a set (Inductive), and that the function has values at all by building  *)
(* them (Recursive).  The files of an image are where its Filing says, and *)
(* there is only one (FilingUnique): most of what follows shows that a new *)
(* image has the filing it should.  For the sums it is enough that images  *)
(* which agree up to a place between files have the same files before it   *)
(* (SameFiles), and what a command writes has the sums it should.          *)
(***************************************************************************)
EXTENDS TapeFiles, WellFoundedInduction, SequenceTheorems, TLAPS

-----------------------------------------------------------------------------
(* Induction and recursion over the numbers up to n.                       *)

(* Induction up to n, over a set that stands for the numbers it holds for. *)
LEMMA Inductive ==
  ASSUME NEW n \in Nat, NEW S, 0 \in S, \A k \in 1 .. n : k - 1 \in S => k \in S
  PROVE  \A k \in 0 .. n : k \in S
<1> DEFINE R == OpToRel(<, Nat)
           T == {k \in 0 .. n : k \notin S}
<1>1. SUFFICES ASSUME T # {} PROVE FALSE
  OBVIOUS
<1>2. T \in SUBSET Nat
  OBVIOUS
<1>3. PICK x \in T : \A y \in T : ~(<<y, x>> \in R)
  BY <1>1, <1>2, NatLessThanWellFounded, WFMin
<1>4. ASSUME NEW y \in T, y < x PROVE <<y, x>> \in R
  <2>1. <<y, x>> \in Nat \X Nat
    OBVIOUS
  <2>2. <<y, x>>[1] < <<y, x>>[2]
    BY <1>4
  <2>3. QED
    BY <2>1, <2>2, Zenon DEF OpToRel
<1> HIDE DEF R
<1>5. x \in 1 .. n /\ x \notin S
  OBVIOUS
<1>6. x - 1 \in T /\ x - 1 < x
  BY <1>5
<1>7. QED
  BY <1>3, <1>4, <1>6

(* What is defined by a first value and a step is defined.                 *)
Steps(f, n, V, base, step) ==
  /\ f \in [0 .. n -> V] /\ f[0] = base
  /\ \A k \in 1 .. n : f[k] = step[k][f[k - 1]]

LEMMA Recursive ==
  ASSUME NEW n \in Nat, NEW V, NEW base \in V, NEW step \in [1 .. n -> [V -> V]]
  PROVE  \E f : Steps(f, n, V, base, step)
<1> DEFINE Upto(f, m) == Steps(f, m, V, base, step)
           S == {m \in 0 .. n : \E f : Upto(f, m)}
<1>1. 0 \in S
  <2>1. Upto([k \in 0 .. 0 |-> base], 0)
    BY DEF Steps
  <2> HIDE DEF Upto
  <2>2. QED
    BY <2>1
<1>2. ASSUME NEW m \in 1 .. n, m - 1 \in S PROVE m \in S
  <2>1. PICK f : Upto(f, m - 1)
    BY <1>2
  <2> DEFINE v == step[m][f[m - 1]]
             g == [k \in 0 .. m |-> IF k = m THEN v ELSE f[k]]
  <2>2. \A k \in 0 .. m - 1 : f[k] \in V
    BY <2>1 DEF Steps
  <2>3. v \in V
    <3>1. f[m - 1] \in V /\ step[m] \in [V -> V]
      BY <2>2
    <3>2. QED
      BY <3>1
  <2> HIDE DEF v
  <2>4. g \in [0 .. m -> V] /\ g[0] = base
    BY <2>1, <2>2, <2>3 DEF Steps
  <2>5. ASSUME NEW k \in 1 .. m PROVE g[k] = step[k][g[k - 1]]
    <3>1. CASE k = m
      <4>1. g[k] = v /\ g[k - 1] = f[m - 1]
        BY <3>1
      <4>2. QED
        BY <3>1, <4>1 DEF v
    <3>2. CASE k # m
      <4>1. k \in 1 .. m - 1 /\ g[k] = f[k] /\ g[k - 1] = f[k - 1]
        BY <3>2
      <4>2. QED
        BY <2>1, <4>1 DEF Steps
    <3>3. QED
      BY <3>1, <3>2
  <2> HIDE DEF g
  <2>6. Upto(g, m)
    BY <2>4, <2>5 DEF Steps
  <2> HIDE DEF Upto
  <2>7. QED
    BY <2>6
<1>3. n \in S
  <2> HIDE DEF S
  <2>1. \A m \in 1 .. n : m - 1 \in S => m \in S
    BY <1>2
  <2>2. \A m \in 0 .. n : m \in S
    BY <1>1, <2>1, Inductive, Zenon
  <2>3. QED
    BY <2>2
<1>4. QED
  BY <1>3

-----------------------------------------------------------------------------
(* Sums, and sequences of pieces.                                          *)

(* A sum is summed up.                                                     *)
LEMMA SummedUp ==
  ASSUME NEW ws \in Seq(Nat)
  PROVE  \E sum : /\ sum[0] = 0 /\ Sum(ws) = sum[Len(ws)]
                  /\ \A k \in 1 .. Len(ws) : sum[k] = sum[k - 1] + ws[k]
<1> DEFINE n == Len(ws)
           Body(f) == [k \in 0 .. n |-> IF k = 0 THEN 0 ELSE f[k - 1] + ws[k]]
           sum == CHOOSE f : f = Body(f)
<1>1. n \in Nat /\ \A k \in 1 .. n : ws[k] \in Nat
  OBVIOUS
<1>2. \E f : f = Body(f)
  <2> HIDE DEF n
  <2> DEFINE step == [k \in 1 .. n |-> [v \in Nat |-> v + ws[k]]]
  <2>1. step \in [1 .. n -> [Nat -> Nat]]
    BY <1>1
  <2>2. \A k \in 1 .. n : \A v \in Nat : step[k][v] = v + ws[k]
    OBVIOUS
  <2> HIDE DEF step
  <2>3. PICK f : Steps(f, n, Nat, 0, step)
    BY <1>1, <2>1, Recursive
  <2>4. ASSUME NEW k \in 1 .. n PROVE f[k] = f[k - 1] + ws[k]
    <3>1. k - 1 \in 0 .. n
      BY <1>1
    <3>2. f[k - 1] \in Nat /\ f[k] = step[k][f[k - 1]]
      BY <2>3, <3>1 DEF Steps
    <3>3. QED
      BY <2>2, <3>2
  <2>5. f = Body(f)
    BY <1>1, <2>3, <2>4 DEF Steps
  <2> HIDE DEF Body
  <2>6. QED
    BY <2>5
<1>3. sum = Body(sum)
  <2> HIDE DEF Body
  <2>1. QED
    BY <1>2
<1>4. Sum(ws) = sum[n]
  BY Zenon DEF Sum
<1> HIDE DEF sum, n
<1>5. sum[0] = 0 /\ \A k \in 1 .. n : sum[k] = sum[k - 1] + ws[k]
  BY <1>1, <1>3
<1> HIDE DEF Body
<1>6. QED
  BY <1>4, <1>5 DEF n

(* A sum of numbers is a number.                                           *)
LEMMA SumOfNumbers == ASSUME NEW ws \in Seq(Nat) PROVE Sum(ws) \in Nat
<1>1. PICK n \in Nat : n = Len(ws)
  OBVIOUS
<1>2. PICK sum : /\ sum[0] = 0 /\ Sum(ws) = sum[n]
                 /\ \A k \in 1 .. n : sum[k] = sum[k - 1] + ws[k]
  BY <1>1, SummedUp
<1> DEFINE S == {k \in 0 .. n : sum[k] \in Nat}
<1>3. \A k \in 0 .. n : k \in S
  <2>1. 0 \in S
    BY <1>2
  <2>2. \A k \in 1 .. n : k - 1 \in S => k \in S
    BY <1>1, <1>2
  <2> HIDE DEF S
  <2>3. QED
    BY <2>1, <2>2, Inductive
<1>4. QED
  BY <1>2, <1>3

LEMMA OnePieceMore ==
  ASSUME NEW S, NEW a \in Seq(S), NEW b \in Seq(S)
  PROVE  /\ a \o b \in Seq(S) /\ Len(a \o b) = Len(a) + Len(b)
         /\ \A j \in 1 .. Len(a) : (a \o b)[j] = a[j]
         /\ \A j \in 1 .. Len(b) : (a \o b)[Len(a) + j] = b[j]
OBVIOUS

(* Flattening puts the pieces one behind the other: off[k] cells come      *)
(* before the one after piece k.                                           *)
Laid(s, flat, off) ==
  /\ off \in [0 .. Len(s) -> Nat] /\ off[0] = 0
  /\ \A k \in 1 .. Len(s) : off[k] = off[k - 1] + Len(s[k])
  /\ Len(flat) = off[Len(s)]
  /\ \A k \in 1 .. Len(s) : \A j \in 1 .. Len(s[k]) : flat[off[k - 1] + j] = s[k][j]

LEMMA Flattening ==
  ASSUME NEW S, NEW s \in Seq(Seq(S))
  PROVE  FlattenSeq(s) \in Seq(S) /\ \E off : Laid(s, FlattenSeq(s), off)
<1> DEFINE n == Len(s)
           Body(f) == [k \in 1 .. n |-> IF k = 1 THEN s[k] ELSE f[k - 1] \o s[k]]
           flat == CHOOSE f : f = Body(f)
<1>1. n \in Nat /\ \A k \in 1 .. n : s[k] \in Seq(S) /\ Len(s[k]) \in Nat
  OBVIOUS
<1>2. CASE n = 0
  <2>1. FlattenSeq(s) = s /\ s = <<>>
    BY <1>2 DEF FlattenSeq
  <2>2. Laid(s, s, [k \in 0 .. 0 |-> 0])
    BY <1>2, <2>1 DEF Laid
  <2>3. QED
    BY <2>1, <2>2
<1>3. CASE n # 0
  <2> DEFINE m == n - 1
  <2>0. m \in Nat /\ n = m + 1
    BY <1>1, <1>3
  <2>1. \E f : f = Body(f)
    <3>4. s[1] \in Seq(S)
      BY <1>1, <2>0
    <3> HIDE DEF n, m
    <3>1. \A k \in 1 .. m : s[k + 1] \in Seq(S)
      BY <1>1, <2>0
    <3> DEFINE step == [k \in 1 .. m |-> [v \in Seq(S) |-> v \o s[k + 1]]]
    <3>2. step \in [1 .. m -> [Seq(S) -> Seq(S)]]
      BY <3>1
    <3>3. \A k \in 1 .. m : \A v \in Seq(S) : step[k][v] = v \o s[k + 1]
      OBVIOUS
    <3> HIDE DEF step
    <3>5. PICK f : Steps(f, m, Seq(S), s[1], step)
      BY <2>0, <3>2, <3>4, Recursive
    <3>6. ASSUME NEW k \in 1 .. m PROVE f[k] = f[k - 1] \o s[k + 1]
      <4>1. k - 1 \in 0 .. m
        BY <2>0
      <4>2. f[k - 1] \in Seq(S) /\ f[k] = step[k][f[k - 1]]
        BY <3>5, <4>1 DEF Steps
      <4>3. QED
        BY <3>3, <4>2
    <3> DEFINE g == [k \in 1 .. n |-> f[k - 1]]
    <3>7. ASSUME NEW k \in 1 .. n
          PROVE  g[k] = IF k = 1 THEN s[k] ELSE g[k - 1] \o s[k]
      <4>1. CASE k = 1
        BY <3>5, <4>1 DEF Steps
      <4>2. CASE k # 1
        <5>1. k - 1 \in 1 .. m /\ k - 1 \in 1 .. n /\ k - 1 + 1 = k
          BY <2>0, <4>2
        <5>2. g[k] = f[k - 1] /\ g[k - 1] = f[k - 1 - 1]
          BY <5>1
        <5>3. QED
          BY <3>6, <4>2, <5>1, <5>2
      <4>3. QED
        BY <4>1, <4>2
    <3>8. g = Body(g)
      BY <3>7
    <3> HIDE DEF g, Body
    <3>9. QED
      BY <3>8
  <2>2. flat = Body(flat)
    <3> HIDE DEF Body
    <3>1. QED
      BY <2>1
  <2>3. FlattenSeq(s) = flat[n]
    BY <1>3, Zenon DEF FlattenSeq
  <2> HIDE DEF flat
  <2>4. /\ 1 \in 1 .. n /\ flat[1] = s[1]
        /\ \A k \in 1 .. n : k # 1 => flat[k] = flat[k - 1] \o s[k]
    <3>1. ASSUME NEW k \in 1 .. n
          PROVE  flat[k] = IF k = 1 THEN s[k] ELSE flat[k - 1] \o s[k]
      <4> HIDE DEF n
      <4>1. QED
        BY <2>2
    <3> HIDE DEF n, m
    <3>2. 1 \in 1 .. n
      BY <2>0
    <3>3. QED
      BY <3>1, <3>2
  <2> HIDE DEF Body
  <2> HIDE DEF n, m
  <2>5. \E off \in [0 .. n -> Nat] :
           off[0] = 0 /\ \A k \in 1 .. n : off[k] = off[k - 1] + Len(s[k])
    <3> DEFINE step == [k \in 1 .. n |-> [v \in Nat |-> v + Len(s[k])]]
    <3>1. step \in [1 .. n -> [Nat -> Nat]]
      BY <1>1
    <3>2. \A k \in 1 .. n : \A v \in Nat : step[k][v] = v + Len(s[k])
      OBVIOUS
    <3> HIDE DEF step
    <3>3. PICK off : Steps(off, n, Nat, 0, step)
      BY <1>1, <3>1, Recursive
    <3>4. ASSUME NEW k \in 1 .. n PROVE off[k] = off[k - 1] + Len(s[k])
      <4>1. k - 1 \in 0 .. n
        BY <1>1
      <4>2. off[k - 1] \in Nat /\ off[k] = step[k][off[k - 1]]
        BY <3>3, <4>1 DEF Steps
      <4>3. QED
        BY <3>2, <4>2
    <3>5. QED
      BY <3>3, <3>4 DEF Steps
  <2>6. PICK off \in [0 .. n -> Nat] :
           off[0] = 0 /\ \A k \in 1 .. n : off[k] = off[k - 1] + Len(s[k])
    BY <2>5
  <2> DEFINE Good(i) == /\ flat[i] \in Seq(S) /\ Len(flat[i]) = off[i]
                        /\ \A k \in 1 .. i : \A j \in 1 .. Len(s[k]) :
                             off[k - 1] + j \in 1 .. off[i] /\ flat[i][off[k - 1] + j] = s[k][j]
  <2>7. Good(1)
    <3>1. 1 \in 1 .. n /\ off[1] = off[1 - 1] + Len(s[1]) /\ off[1 - 1] = 0
      BY <1>1, <2>0, <2>6
    <3>2. flat[1] = s[1] /\ s[1] \in Seq(S) /\ off[1] = Len(s[1])
      BY <1>1, <2>4, <3>1
    <3>3. ASSUME NEW k \in 1 .. 1, NEW j \in 1 .. Len(s[k])
          PROVE  off[k - 1] + j \in 1 .. off[1] /\ flat[1][off[k - 1] + j] = s[k][j]
      <4>1. k = 1 /\ off[k - 1] + j = j
        BY <3>1
      <4>2. QED
        BY <3>2, <4>1
    <3>4. QED
      BY <3>2, <3>3
  <2>8. ASSUME NEW i \in 2 .. n, Good(i - 1) PROVE Good(i)
    <3>1. i \in 1 .. n /\ i # 1 /\ i - 1 \in 0 .. n
      BY <1>1
    <3>2. off[i] = off[i - 1] + Len(s[i]) /\ flat[i] = flat[i - 1] \o s[i]
      BY <2>4, <2>6, <3>1
    <3>3. off[i - 1] \in Nat /\ off[i] \in Nat /\ s[i] \in Seq(S) /\ Len(s[i]) \in Nat
      BY <1>1, <2>6, <3>1
    <3>4. PICK a \in Seq(S) : a = flat[i - 1] /\ Len(a) = off[i - 1]
      BY <2>8
    <3>5. /\ flat[i] \in Seq(S) /\ Len(flat[i]) = off[i]
          /\ \A j \in 1 .. off[i - 1] : flat[i][j] = a[j]
          /\ \A j \in 1 .. Len(s[i]) : flat[i][off[i - 1] + j] = s[i][j]
      <4>1. PICK b \in Seq(S) : b = s[i]
        BY <3>3
      <4>2. /\ a \o b \in Seq(S) /\ Len(a \o b) = Len(a) + Len(b)
            /\ \A j \in 1 .. Len(a) : (a \o b)[j] = a[j]
            /\ \A j \in 1 .. Len(b) : (a \o b)[Len(a) + j] = b[j]
        BY OnePieceMore
      <4>3. flat[i] = a \o b
        BY <3>2, <3>4, <4>1
      <4> HIDE DEF Good
      <4>4. QED
        BY <3>2, <3>4, <4>1, <4>2, <4>3
    <3>6. ASSUME NEW k \in 1 .. i, NEW j \in 1 .. Len(s[k])
          PROVE  off[k - 1] + j \in 1 .. off[i] /\ flat[i][off[k - 1] + j] = s[k][j]
      <4>1. CASE k = i
        <5>1. j \in 1 .. Len(s[i])
          BY <4>1
        <5>2. off[i - 1] + j \in 1 .. off[i]
          BY <3>2, <3>3, <5>1
        <5>3. QED
          BY <3>5, <4>1, <5>1, <5>2
      <4>2. CASE k # i
        <5>1. k \in 1 .. i - 1
          BY <4>2
        <5>2. off[k - 1] + j \in 1 .. off[i - 1] /\ a[off[k - 1] + j] = s[k][j]
          BY <2>8, <3>4, <5>1
        <5>3. off[k - 1] + j \in 1 .. off[i]
          BY <3>2, <3>3, <5>2
        <5>4. QED
          BY <3>5, <5>2, <5>3
      <4>3. QED
        BY <4>1, <4>2
    <3>7. QED
      BY <3>5, <3>6
  <2> HIDE DEF Good
  <2> DEFINE T == {i \in 0 .. n : i = 0 \/ Good(i)}
  <2>9. \A i \in 0 .. n : i \in T
    <3>1. 0 \in T
      BY <1>1
    <3>2. ASSUME NEW i \in 1 .. n, i - 1 \in T PROVE i \in T
      <4>1. CASE i = 1
        BY <2>7, <4>1
      <4>2. CASE i # 1
        <5>1. i \in 2 .. n /\ Good(i - 1)
          BY <3>2, <4>2
        <5>2. QED
          BY <2>8, <5>1
      <4>3. QED
        BY <4>1, <4>2
    <3> HIDE DEF T
    <3>3. QED
      BY <1>1, <3>1, <3>2, Inductive
  <2>10. Good(n)
    BY <1>1, <1>3, <2>9
  <2>11. Laid(s, flat[n], off)
    BY <2>6, <2>10 DEF Laid, Good, n
  <2>12. QED
    BY <2>3, <2>10, <2>11 DEF Good
<1>4. QED
  BY <1>2, <1>3

-----------------------------------------------------------------------------
(* Words and cells.                                                        *)

LEMMA Sizes0 ==
  /\ Base \in Nat /\ Base >= 2 /\ Base <= 256 /\ BOF \in Nat /\ BOF > 0 /\ BOF < Base
  /\ Ctl \in Nat /\ Ctl = 8 * Base
  /\ HdrWords \in Nat /\ HdrWords >= 4 /\ BotPadding \in Nat /\ EotPadding \in Nat
  /\ EotSpace \in Nat /\ Grow \in Nat /\ Grow > 0
BY SizesAssumption DEF Ctl

(* Two cells make a number, whatever control bits are in them.             *)
LEMMA WordIsNumber ==
  ASSUME NEW p, NEW bi, p[bi + 1] \in Nat, p[bi + 2] \in Nat PROVE Word(p, bi) \in Nat
<1> DEFINE low == p[bi + 1]
           high == p[bi + 2]
<1>1. Base * high \in Nat /\ Ctl \in Nat
  <2>1. \A x, y \in Nat : x * y \in Nat
    OBVIOUS
  <2>2. QED
    BY <2>1, Sizes0
<1>2. (IF low >= Ctl /\ (high \div 8) % 2 = 1 THEN low - Ctl ELSE low) \in Nat
  BY <1>1
<1>3. \A x, y \in Nat : x + y \in Nat
  OBVIOUS
<1>4. Word(p, bi) = Base * high + IF low >= Ctl /\ (high \div 8) % 2 = 1 THEN low - Ctl ELSE low
  BY DEF Word
<1> HIDE DEF low, high
<1>5. QED
  BY <1>1, <1>2, <1>3, <1>4

(* The fields of a file whose header is in the image, and its places.      *)
LEMMA FieldsAreNumbers ==
  ASSUME NEW p \in Seq(Nat), NEW bi \in Nat, Content(bi) <= Len(p)
  PROVE  /\ Num(p, bi) \in Nat /\ Length(p, bi) \in Nat /\ Space(p, bi) \in Nat
         /\ Content(bi) \in Nat /\ HdrSum(bi) \in Nat /\ HdrSum(bi) = bi + 1 + 2 * HdrWords
         /\ Content(bi) = HdrSum(bi) + 2
         /\ End(p, bi) \in Nat /\ End(p, bi) = Content(bi) + 2 * (Space(p, bi) + 1)
         /\ ContentSum(p, bi) \in Nat /\ ContentSum(p, bi) = Content(bi) + 2 * Length(p, bi)
<1>1. /\ HdrWords \in Nat /\ HdrWords >= 4 /\ Len(p) \in Nat
      /\ \A i \in 1 .. Len(p) : p[i] \in Nat
  BY Sizes0
<1>2. /\ Content(bi) \in Nat /\ HdrSum(bi) \in Nat /\ HdrSum(bi) = bi + 1 + 2 * HdrWords
      /\ Content(bi) = HdrSum(bi) + 2
  BY <1>1 DEF Content, HdrSum
<1>3. bi + 9 <= Len(p)
  BY <1>1, <1>2
<1>4. ASSUME NEW k \in 0 .. 7 PROVE Word(p, bi + k) \in Nat
  <2>1. (bi + k) + 1 \in 1 .. Len(p) /\ (bi + k) + 2 \in 1 .. Len(p)
    BY <1>1, <1>3
  <2>2. QED
    BY <1>1, <2>1, WordIsNumber
<1>5. Num(p, bi) \in Nat /\ Length(p, bi) \in Nat /\ Space(p, bi) \in Nat
  BY <1>4 DEF Num, Length, Space
<1>6. QED
  BY <1>2, <1>5 DEF End, ContentSum

-----------------------------------------------------------------------------
(* The files of an image are at the only places that make a filing of it:  *)
(* each begins with a BOF byte, and between two of them there is no other. *)

After(p, b, k) == IF k = 0 THEN 0 ELSE Behind(p, b[k])

Filing(p, b) ==
  /\ b \in Seq(Nat)
  /\ \A k \in 1 .. Len(b) :
       /\ After(p, b, k - 1) <= b[k] /\ b[k] < Len(p) /\ Byte(p[b[k] + 1]) = BOF
       /\ \A i \in After(p, b, k - 1) + 1 .. b[k] : Byte(p[i]) # BOF
  /\ \A i \in After(p, b, Len(b)) + 1 .. Len(p) : Byte(p[i]) # BOF

LEMMA BehindIs ==
  ASSUME NEW p \in Seq(Nat), NEW bi \in Nat, bi < Len(p)
  PROVE  Behind(p, bi) \in Nat /\ Behind(p, bi) > bi
<1>1. Len(p) \in Nat
  OBVIOUS
<1>2. CASE Content(bi) > Len(p)
  BY <1>1, <1>2 DEF Behind
<1>3. CASE ~(Content(bi) > Len(p))
  <2>1. Content(bi) <= Len(p)
    BY <1>1, <1>3, Sizes0 DEF Content, HdrSum
  <2>2. /\ End(p, bi) \in Nat /\ End(p, bi) = Content(bi) + 2 * (Space(p, bi) + 1)
        /\ Space(p, bi) \in Nat
        /\ Content(bi) = HdrSum(bi) + 2 /\ HdrSum(bi) = bi + 1 + 2 * HdrWords
    BY <2>1, FieldsAreNumbers
  <2>3. HdrWords \in Nat
    BY Sizes0
  <2>4. QED
    BY <1>3, <2>2, <2>3 DEF Behind
<1>4. QED
  BY <1>2, <1>3

(* An image has one filing: below the first place where two differ both    *)
(* have seen the same BOF.                                                 *)
LEMMA FilingUnique ==
  ASSUME NEW p \in Seq(Nat), NEW b, NEW c, Filing(p, b), Filing(p, c) PROVE b = c
<1>1. /\ b \in Seq(Nat) /\ Len(b) \in Nat /\ c \in Seq(Nat) /\ Len(c) \in Nat
      /\ Len(p) \in Nat
      /\ \A k \in 1 .. Len(b) : b[k] \in Nat /\ b[k] < Len(p)
      /\ \A k \in 1 .. Len(c) : c[k] \in Nat /\ c[k] < Len(p)
  BY DEF Filing
<1>2. ASSUME NEW x, NEW y, Filing(p, x), Filing(p, y), NEW k \in 1 .. Len(x), k \in 1 .. Len(y),
             After(p, x, k - 1) = After(p, y, k - 1)
      PROVE  ~(x[k] < y[k])
  <2>1. After(p, x, k - 1) <= x[k] /\ x[k] \in Nat /\ Byte(p[x[k] + 1]) = BOF
    BY <1>2, SMTT(20) DEF Filing
  <2>4. y[k] \in Nat /\ \A i \in After(p, y, k - 1) + 1 .. y[k] : Byte(p[i]) # BOF
    BY <1>2 DEF Filing
  <2>2. After(p, x, k - 1) \in Nat
    <3>1. CASE k = 1
      BY <3>1 DEF After
    <3>2. CASE k # 1
      <4>1. k - 1 \in 1 .. Len(x) /\ x[k - 1] \in Nat /\ x[k - 1] < Len(p)
        BY <1>2, <3>2 DEF Filing
      <4>2. QED
        BY <4>1, BehindIs DEF After
    <3>3. QED
      BY <3>1, <3>2
  <2>3. ASSUME x[k] < y[k] PROVE FALSE
    <3>1. x[k] + 1 \in After(p, x, k - 1) + 1 .. y[k]
      BY <2>1, <2>2, <2>3, <2>4
    <3>2. Byte(p[x[k] + 1]) # BOF
      BY <1>2, <2>4, <3>1
    <3>3. QED
      BY <2>1, <3>2
  <2>5. QED
    BY <2>3
<1>3. ASSUME NEW x, NEW y, Filing(p, x), Filing(p, y),
             \A k \in 1 .. Len(x) : k \in 1 .. Len(y) => x[k] = y[k]
      PROVE  ~(Len(x) < Len(y))
  <2>1. SUFFICES ASSUME Len(x) < Len(y) PROVE FALSE
    OBVIOUS
  <2>2. Len(x) \in Nat /\ Len(y) \in Nat /\ Len(p) \in Nat
    BY <1>3 DEF Filing
  <2> DEFINE k == Len(x) + 1
  <2>3. k \in 1 .. Len(y) /\ k - 1 = Len(x)
    BY <2>1, <2>2
  <2>4. After(p, y, k - 1) = After(p, x, Len(x))
    BY <1>3, <2>1, <2>2, <2>3 DEF After
  <2>5. /\ y[k] \in Nat /\ After(p, y, k - 1) <= y[k] /\ y[k] < Len(p)
        /\ Byte(p[y[k] + 1]) = BOF
    BY <1>3, <2>3 DEF Filing
  <2>6. After(p, x, Len(x)) \in Nat
    <3>1. CASE Len(x) = 0
      BY <3>1 DEF After
    <3>2. CASE Len(x) # 0
      <4>1. Len(x) \in 1 .. Len(x) /\ x[Len(x)] \in Nat /\ x[Len(x)] < Len(p)
        BY <1>3, <2>2, <3>2 DEF Filing
      <4>2. QED
        BY <3>2, <4>1, BehindIs DEF After
    <3>3. QED
      BY <3>1, <3>2
  <2>7. y[k] + 1 \in After(p, x, Len(x)) + 1 .. Len(p)
    BY <2>2, <2>4, <2>5, <2>6
  <2>8. QED
    BY <1>3, <2>5, <2>7 DEF Filing
<1> DEFINE n == Len(b)
           S == {k \in 0 .. n : k = 0 \/ (k \in 1 .. Len(c) => b[k] = c[k])}
<1>4. \A k \in 0 .. n : k \in S
  <2>1. 0 \in S
    BY <1>1
  <2>2. ASSUME NEW k \in 1 .. n, k - 1 \in S PROVE k \in S
    <3>1. SUFFICES ASSUME k \in 1 .. Len(c) PROVE b[k] = c[k]
      OBVIOUS
    <3>2. After(p, b, k - 1) = After(p, c, k - 1)
      BY <1>1, <2>2, <3>1 DEF After
    <3>3. ~(b[k] < c[k]) /\ ~(c[k] < b[k])
      BY <1>2, <3>1, <3>2
    <3>4. QED
      BY <1>1, <3>1, <3>3
  <2> HIDE DEF S
  <2>3. QED
    BY <1>1, <2>1, <2>2, Inductive
<1>5. \A k \in 1 .. Len(b) : k \in 1 .. Len(c) => b[k] = c[k]
  BY <1>1, <1>4
<1>6. Len(b) = Len(c)
  <2>1. \A k \in 1 .. Len(c) : k \in 1 .. Len(b) => c[k] = b[k]
    BY <1>5
  <2>2. ~(Len(b) < Len(c)) /\ ~(Len(c) < Len(b))
    BY <1>3, <1>5, <2>1
  <2>3. QED
    BY <1>1, <2>2
<1>7. QED
  BY <1>1, <1>5, <1>6, SeqEqual

(* What the scan has found when it has looked at i cells.                  *)
FiledUpTo(p, s, i) ==
  /\ s.bofs \in Seq(Nat) /\ s.next \in Nat /\ s.next = After(p, s.bofs, Len(s.bofs))
  /\ \A k \in 1 .. Len(s.bofs) :
       /\ After(p, s.bofs, k - 1) <= s.bofs[k] /\ s.bofs[k] < Len(p)
       /\ Byte(p[s.bofs[k] + 1]) = BOF
       /\ \A j \in After(p, s.bofs, k - 1) + 1 .. s.bofs[k] : Byte(p[j]) # BOF
  /\ \A j \in s.next + 1 .. i : Byte(p[j]) # BOF

(* Looking at one more cell keeps the filing of what was looked at.        *)
LEMMA FiledOneMore ==
  ASSUME NEW p \in Seq(Nat), NEW i \in 1 .. Len(p), NEW s, NEW t, FiledUpTo(p, s, i - 1),
         t = IF i <= s.next \/ Byte(p[i]) # BOF THEN s
             ELSE [bofs |-> Append(s.bofs, i - 1), next |-> Behind(p, i - 1)]
  PROVE  FiledUpTo(p, t, i)
<1>1. Len(p) \in Nat /\ i \in Nat /\ i - 1 \in Nat /\ i - 1 < Len(p) /\ s.next \in Nat
  BY DEF FiledUpTo
<1>2. CASE i <= s.next \/ Byte(p[i]) # BOF
  <2>1. t = s
    BY <1>2
  <2>2. ASSUME NEW j \in s.next + 1 .. i PROVE Byte(p[j]) # BOF
    <3>1. j \in s.next + 1 .. i - 1 \/ (j = i /\ ~(i <= s.next))
      BY <1>1
    <3>2. QED
      BY <1>2, <3>1 DEF FiledUpTo
  <2>3. QED
    BY <2>1, <2>2 DEF FiledUpTo
<1>3. CASE ~(i <= s.next \/ Byte(p[i]) # BOF)
  <2> DEFINE b == s.bofs
             c == t.bofs
             m == Len(b)
  <2>1. c = Append(b, i - 1) /\ t.next = Behind(p, i - 1) /\ Byte(p[i]) = BOF /\ s.next < i
    BY <1>1, <1>3
  <2>2. b \in Seq(Nat) /\ m \in Nat /\ s.next = After(p, b, m)
    BY DEF FiledUpTo
  <2>3. /\ c \in Seq(Nat) /\ Len(c) = m + 1 /\ c[m + 1] = i - 1
        /\ \A k \in 1 .. m : c[k] = b[k]
    BY <1>1, <2>1, <2>2
  <2>4. t.next \in Nat /\ t.next >= i
    BY <1>1, <2>1, BehindIs
  <2>5. \A k \in 0 .. m : After(p, c, k) = After(p, b, k)
    BY <2>2, <2>3 DEF After
  <2>6. After(p, c, Len(c)) = t.next
    BY <2>1, <2>2, <2>3 DEF After
  <2> HIDE DEF c, b
  <2>7. ASSUME NEW k \in 1 .. Len(c)
        PROVE  /\ After(p, c, k - 1) <= c[k] /\ c[k] < Len(p) /\ Byte(p[c[k] + 1]) = BOF
               /\ \A j \in After(p, c, k - 1) + 1 .. c[k] : Byte(p[j]) # BOF
    <3>1. CASE k = m + 1
      <4>1. After(p, c, k - 1) = s.next /\ c[k] = i - 1
        BY <2>2, <2>3, <2>5, <3>1
      <4>2. c[k] + 1 = i
        BY <1>1, <4>1
      <4>3. QED
        BY <1>1, <2>1, <4>1, <4>2 DEF FiledUpTo
    <3>2. CASE k # m + 1
      <4>1. k \in 1 .. m /\ k - 1 \in 0 .. m
        BY <2>2, <2>3, <3>2
      <4>2. After(p, c, k - 1) = After(p, b, k - 1) /\ c[k] = b[k]
        BY <2>3, <2>5, <4>1
      <4>3. QED
        BY <4>1, <4>2 DEF FiledUpTo, b
    <3>3. QED
      BY <3>1, <3>2
  <2>8. \A j \in t.next + 1 .. i : Byte(p[j]) # BOF
    BY <1>1, <2>4
  <2>9. QED
    BY <2>3, <2>4, <2>6, <2>7, <2>8 DEF FiledUpTo, c
<1>4. QED
  BY <1>2, <1>3

(* The scan of an image finds its filing (tpf.c lines 339 to 354).         *)
LEMMA BofsFiling == ASSUME NEW p \in Seq(Nat) PROVE Filing(p, Bofs(p))
<1> DEFINE n == Len(p)
           Body(f) == [i \in 0 .. n |->
                        IF i = 0 THEN [bofs |-> <<>>, next |-> 0]
                        ELSE LET s == f[i - 1] IN
                          IF i <= s.next \/ Byte(p[i]) # BOF THEN s
                          ELSE [bofs |-> Append(s.bofs, i - 1), next |-> Behind(p, i - 1)]]
           scanned == CHOOSE f : f = Body(f)
           V == [bofs : Seq(Nat), next : Nat]
           Next1(i, s) == IF i <= s.next \/ Byte(p[i]) # BOF THEN s
                          ELSE [bofs |-> Append(s.bofs, i - 1), next |-> Behind(p, i - 1)]
<1>1. n \in Nat
  OBVIOUS
<1>2. ASSUME NEW i \in 1 .. n, NEW s \in V PROVE Next1(i, s) \in V
  <2>1. i - 1 \in Nat /\ i - 1 < n
    BY <1>1
  <2>2. Behind(p, i - 1) \in Nat
    BY <2>1, BehindIs
  <2>3. Append(s.bofs, i - 1) \in Seq(Nat)
    BY <2>1
  <2>4. QED
    BY <2>2, <2>3
<1>3. \E f : f = Body(f)
  <2> HIDE DEF n
  <2> DEFINE step == [i \in 1 .. n |-> [s \in V |-> Next1(i, s)]]
             base == [bofs |-> <<>>, next |-> 0]
  <2>1. base \in V
    OBVIOUS
  <2> HIDE DEF V
  <2>2. step \in [1 .. n -> [V -> V]]
    <3> HIDE DEF Next1
    <3>1. QED
      BY <1>2
  <2>3. \A i \in 1 .. n : \A s \in V : step[i][s] = Next1(i, s)
    <3> HIDE DEF Next1
    <3>1. QED
      OBVIOUS
  <2> HIDE DEF step, base
  <2>4. PICK f : Steps(f, n, V, base, step)
    BY <1>1, <2>1, <2>2, Recursive
  <2>5. ASSUME NEW i \in 1 .. n PROVE f[i] = Next1(i, f[i - 1])
    <3> HIDE DEF Next1
    <3>1. i - 1 \in 0 .. n
      BY <1>1
    <3>2. f[i - 1] \in V /\ f[i] = step[i][f[i - 1]]
      BY <2>4, <3>1 DEF Steps
    <3>3. QED
      BY <2>3, <3>2
  <2>6. f \in [0 .. n -> V] /\ f[0] = base
    BY <2>4 DEF Steps
  <2>7. ASSUME NEW i \in 0 .. n PROVE f[i] = IF i = 0 THEN base ELSE Next1(i, f[i - 1])
    <3>1. i = 0 \/ i \in 1 .. n
      BY <1>1
    <3> HIDE DEF Next1
    <3>2. QED
      BY <2>5, <2>6, <3>1
  <2>8. f = Body(f)
    BY <2>6, <2>7 DEF base
  <2> HIDE DEF Body
  <2>9. QED
    BY <2>8
<1>4. scanned = Body(scanned)
  <2> HIDE DEF Body
  <2>1. QED
    BY <1>3
<1>5. Bofs(p) = scanned[n].bofs
  BY Zenon DEF Bofs
<1> HIDE DEF scanned
<1>6. /\ scanned[0] = [bofs |-> <<>>, next |-> 0]
      /\ \A i \in 1 .. n : scanned[i] = Next1(i, scanned[i - 1])
  <2>1. ASSUME NEW i \in 0 .. n
        PROVE  scanned[i] = IF i = 0 THEN [bofs |-> <<>>, next |-> 0]
                            ELSE Next1(i, scanned[i - 1])
    <3> HIDE DEF n
    <3>1. QED
      BY <1>4, Zenon
  <2> HIDE DEF n, Body, Next1
  <2>2. QED
    BY <1>1, <2>1
<1> HIDE DEF Body, n, V
<1> DEFINE S == {i \in 0 .. n : FiledUpTo(p, scanned[i], i)}
<1>7. \A i \in 0 .. n : i \in S
  <2>1. 0 \in S
    <3>1. FiledUpTo(p, [bofs |-> <<>>, next |-> 0], 0)
      BY DEF FiledUpTo, After
    <3>2. QED
      BY <1>1, <1>6, <3>1
  <2>2. ASSUME NEW i \in 1 .. n, i - 1 \in S PROVE i \in S
    <3>1. FiledUpTo(p, scanned[i - 1], i - 1) /\ i \in 1 .. Len(p)
      BY <2>2 DEF n
    <3>2. FiledUpTo(p, scanned[i], i)
      <4>1. scanned[i] = Next1(i, scanned[i - 1])
        BY <1>6
      <4>2. QED
        BY <3>1, <4>1, FiledOneMore
    <3>3. QED
      BY <1>1, <3>2
  <2> HIDE DEF S
  <2>3. QED
    BY <1>1, <2>1, <2>2, Inductive
<1>8. FiledUpTo(p, scanned[n], n)
  BY <1>1, <1>7
<1>9. QED
  <2>1. ASSUME NEW s, FiledUpTo(p, s, Len(p)) PROVE Filing(p, s.bofs)
    BY <2>1 DEF FiledUpTo, Filing
  <2>2. QED
    BY <1>5, <1>8, <2>1 DEF n

-----------------------------------------------------------------------------
(* Cells, and parts of an image.                                           *)

LEMMA CellsAreNumbers ==
  /\ Cells \subseteq Nat
  /\ \A c \in Cells : /\ Byte(c) \in 0 .. Base - 1 /\ (c < Base => Byte(c) = c)
                      /\ (c >= Base => c = BOF + Ctl /\ Byte(c) = BOF)
<1>1. ASSUME NEW c \in Cells
      PROVE  /\ c \in Nat /\ Byte(c) \in 0 .. Base - 1 /\ (c < Base => Byte(c) = c)
             /\ (c >= Base => c = BOF + Ctl /\ Byte(c) = BOF)
  <2>1. CASE c \in 0 .. Base - 1
    BY <2>1, Sizes0 DEF Byte
  <2>2. CASE c = BOF + Ctl
    <3>1. (BOF + 8 * Base) % Base = BOF
      BY Sizes0
    <3>2. QED
      BY <2>2, <3>1, Sizes0 DEF Byte
  <2>3. QED
    BY <2>1, <2>2 DEF Cells
<1>2. QED
  BY <1>1

LEMMA ByteTwice == \A x \in 0 .. Base - 1 : x \in Cells /\ Byte(x) = x
BY Sizes0 DEF Byte, Cells

LEMMA WiderSeq == ASSUME NEW S, NEW T, S \subseteq T, NEW p \in Seq(S) PROVE p \in Seq(T)
<1>1. p = [i \in 1 .. Len(p) |-> p[i]] /\ Len(p) \in Nat /\ \A i \in 1 .. Len(p) : p[i] \in T
  OBVIOUS
<1>2. QED
  BY <1>1

LEMMA SeqCells == ASSUME NEW p \in Seq(Cells) PROVE p \in Seq(Nat)
BY CellsAreNumbers, WiderSeq

LEMMA SubSeqCells ==
  ASSUME NEW S, NEW p \in Seq(S), NEW m \in Nat, m >= 1, NEW n \in Nat, n <= Len(p)
  PROVE  /\ SubSeq(p, m, n) \in Seq(S)
         /\ Len(SubSeq(p, m, n)) = (IF m <= n THEN n - m + 1 ELSE 0)
         /\ \A i \in 1 .. Len(SubSeq(p, m, n)) : SubSeq(p, m, n)[i] = p[m + i - 1]
<1>1. Len(SubSeq(p, m, n)) = (IF m <= n THEN n - m + 1 ELSE 0)
  OBVIOUS
<1>2. \A i \in 1 .. Len(SubSeq(p, m, n)) : SubSeq(p, m, n)[i] = p[m + i - 1]
  OBVIOUS
<1>3. \A i \in 1 .. Len(SubSeq(p, m, n)) : p[m + i - 1] \in S
  BY <1>1
<1>4. SubSeq(p, m, n) \in Seq(S)
  <2>1. SubSeq(p, m, n) = [i \in 1 .. Len(SubSeq(p, m, n)) |-> p[m + i - 1]]
    BY <1>1
  <2>2. Len(SubSeq(p, m, n)) \in Nat
    BY <1>1
  <2> DEFINE q == SubSeq(p, m, n)
  <2> HIDE DEF q
  <2>3. QED
    BY <1>3, <2>1, <2>2 DEF q
<1>5. QED
  BY <1>1, <1>2, <1>4

LEMMA Part ==
  ASSUME NEW S, NEW p \in Seq(S), NEW a \in Nat, NEW e \in Nat, a <= e, e <= Len(p)
  PROVE  /\ SubSeq(p, a + 1, e) \in Seq(S) /\ Len(SubSeq(p, a + 1, e)) = e - a
         /\ \A i \in 1 .. e - a : SubSeq(p, a + 1, e)[i] = p[a + i]
<1>1. PICK m \in Nat : m = a + 1 /\ m >= 1
  OBVIOUS
<1>2. PICK c \in Seq(S) : /\ c = SubSeq(p, m, e)
                          /\ Len(c) = (IF m <= e THEN e - m + 1 ELSE 0)
                          /\ \A i \in 1 .. Len(c) : c[i] = p[m + i - 1]
  <2>1. /\ SubSeq(p, m, e) \in Seq(S)
        /\ Len(SubSeq(p, m, e)) = (IF m <= e THEN e - m + 1 ELSE 0)
        /\ \A i \in 1 .. Len(SubSeq(p, m, e)) : SubSeq(p, m, e)[i] = p[m + i - 1]
    BY <1>1, SubSeqCells
  <2>2. QED
    BY <2>1
<1>3. Len(c) = e - a
  BY <1>1, <1>2
<1>4. ASSUME NEW i \in 1 .. e - a PROVE c[i] = p[a + i]
  <2>1. i \in 1 .. Len(c) /\ m + i - 1 = a + i
    BY <1>1, <1>3
  <2>2. QED
    BY <1>2, <2>1
<1>5. QED
  BY <1>1, <1>2, <1>3, <1>4

(* Writing cells changes these and no other, and lengthens the image only  *)
(* past its end.                                                           *)
LEMMA PutCells ==
  ASSUME NEW S, NEW p \in Seq(S), NEW cells \in Seq(S), NEW bi \in Nat, bi <= Len(p)
  PROVE  /\ Put(p, bi, cells) \in Seq(S)
         /\ Len(Put(p, bi, cells)) =
              (IF bi + Len(cells) <= Len(p) THEN Len(p) ELSE bi + Len(cells))
         /\ \A i \in 1 .. bi : Put(p, bi, cells)[i] = p[i]
         /\ \A i \in 1 .. Len(cells) : Put(p, bi, cells)[bi + i] = cells[i]
         /\ \A i \in bi + Len(cells) + 1 .. Len(p) : Put(p, bi, cells)[i] = p[i]
<1> DEFINE n == Len(cells)
           l == Len(p)
<1>1. n \in Nat /\ l \in Nat
  OBVIOUS
<1>2. PICK a \in Seq(S) : /\ a = SubSeq(p, 1, bi) /\ Len(a) = bi
                           /\ \A i \in 1 .. bi : a[i] = p[i]
  <2>1. /\ SubSeq(p, 1, bi) \in Seq(S) /\ Len(SubSeq(p, 1, bi)) = bi
        /\ \A i \in 1 .. bi : SubSeq(p, 1, bi)[i] = p[i]
    BY SubSeqCells
  <2>2. QED
    BY <2>1
<1>3. PICK z \in Seq(S) :
        /\ z = SubSeq(p, bi + Len(cells) + 1, Len(p))
        /\ Len(z) = (IF bi + n + 1 <= l THEN l - (bi + n + 1) + 1 ELSE 0)
        /\ \A i \in 1 .. Len(z) : z[i] = p[bi + n + 1 + i - 1]
  <2>1. bi + n + 1 \in Nat /\ bi + n + 1 >= 1 /\ l \in Nat
    BY <1>1
  <2>2. PICK m \in Nat : m = bi + n + 1
    BY <2>1
  <2>3. /\ SubSeq(p, m, Len(p)) \in Seq(S)
        /\ Len(SubSeq(p, m, Len(p))) = (IF m <= Len(p) THEN Len(p) - m + 1 ELSE 0)
        /\ \A i \in 1 .. Len(SubSeq(p, m, Len(p))) : SubSeq(p, m, Len(p))[i] = p[m + i - 1]
    BY <2>1, <2>2, SubSeqCells
  <2>4. QED
    BY <2>2, <2>3
<1>6. /\ a \o cells \in Seq(S) /\ Len(a \o cells) = Len(a) + Len(cells)
      /\ \A j \in 1 .. Len(a) : (a \o cells)[j] = a[j]
      /\ \A j \in 1 .. Len(cells) : (a \o cells)[Len(a) + j] = cells[j]
  BY OnePieceMore
<1>7. PICK b \in Seq(S) : b = a \o cells
  BY <1>6
<1>8. /\ b \o z \in Seq(S) /\ Len(b \o z) = Len(b) + Len(z)
      /\ \A j \in 1 .. Len(b) : (b \o z)[j] = b[j]
      /\ \A j \in 1 .. Len(z) : (b \o z)[Len(b) + j] = z[j]
  BY OnePieceMore
<1>9. Put(p, bi, cells) = b \o z
  BY <1>2, <1>3, <1>7 DEF Put
<1>10. PICK q \in Seq(S) : q = b \o z
  BY <1>8
<1>11. /\ Len(b) = bi + n /\ Len(z) \in Nat
       /\ \A j \in 1 .. bi : b[j] = p[j]
       /\ \A j \in 1 .. n : b[bi + j] = cells[j]
  BY <1>2, <1>6, <1>7
<1>12. /\ Len(q) = bi + n + Len(z)
       /\ \A j \in 1 .. bi + n : q[j] = b[j]
       /\ \A j \in 1 .. Len(z) : q[bi + n + j] = z[j]
  BY <1>8, <1>10, <1>11
<1> HIDE DEF n, l
<1>13. Len(q) = (IF bi + n <= l THEN l ELSE bi + n)
  BY <1>1, <1>3, <1>12
<1>14. \A i \in 1 .. bi : q[i] = p[i]
  BY <1>1, <1>11, <1>12
<1>15. ASSUME NEW i \in 1 .. n PROVE q[bi + i] = cells[i]
  <2>1. bi + i \in 1 .. bi + n
    BY <1>1
  <2>2. QED
    BY <1>11, <1>12, <2>1
<1>16. ASSUME NEW i \in bi + n + 1 .. l PROVE q[i] = p[i]
  <2>1. PICK j \in 1 .. Len(z) : i = bi + n + j
    <3>1. bi + n + 1 <= i /\ i <= l /\ i \in Int /\ bi \in Nat /\ n \in Nat /\ l \in Nat
      BY <1>1
    <3>2. Len(z) = l - (bi + n + 1) + 1
      <4>1. Len(z) = (IF bi + n + 1 <= l THEN l - (bi + n + 1) + 1 ELSE 0)
        BY <1>3, Zenon
      <4>2. bi + n + 1 <= l
        BY <3>1
      <4>3. QED
        BY <4>1, <4>2, Zenon
    <3>3. i - (bi + n) \in 1 .. Len(z) /\ i = bi + n + (i - (bi + n))
      BY <3>1, <3>2
    <3>4. QED
      BY <3>3
  <2>2. q[i] = z[j] /\ z[j] = p[bi + n + 1 + j - 1]
    BY <1>3, <1>12, <2>1
  <2>4. bi + n + 1 + j - 1 = i
    BY <1>1, <2>1
  <2>3. QED
    BY <2>2, <2>4
<1>17. QED
  BY <1>9, <1>10, <1>13, <1>14, <1>15, <1>16 DEF n, l

(* A word that was written is read again, if it fits in two bytes.         *)
LEMMA WordOfBytes ==
  ASSUME NEW p, NEW bi, NEW w \in Nat, p[bi + 1] = w % Base, p[bi + 2] = (w \div Base) % Base
  PROVE  Word(p, bi) \in 0 .. w /\ (w < Base * Base => Word(p, bi) = w)
<1>1. Base \in Nat /\ Base >= 2 /\ Ctl \in Nat /\ Ctl >= Base
  BY Sizes0
<1>2. PICK x : x = w % Base
  OBVIOUS
<1>3. PICK v : v = w \div Base
  OBVIOUS
<1>4. PICK y : y = v % Base
  OBVIOUS
<1>5. w = Base * v + x /\ x \in 0 .. Base - 1 /\ v \in Nat
  <2>1. /\ w = Base * (w \div Base) + (w % Base) /\ w % Base \in 0 .. Base - 1
        /\ w \div Base \in Nat
    BY <1>1
  <2>2. QED
    BY <1>2, <1>3, <2>1
<1>6. y \in 0 .. Base - 1 /\ y <= v /\ (v < Base => y = v)
  <2>1. /\ v = Base * (v \div Base) + (v % Base) /\ v % Base \in 0 .. Base - 1
        /\ v \div Base \in Nat /\ (v < Base => v % Base = v)
    BY <1>1, <1>5
  <2>2. Base * (v \div Base) \in Nat
    BY <1>1, <2>1
  <2>3. QED
    BY <1>1, <1>4, <1>5, <2>1, <2>2
<1>7. Word(p, bi) = Base * y + x
  <2>1. p[bi + 1] = x /\ p[bi + 2] = y
    BY <1>2, <1>3, <1>4
  <2>2. ~(x >= Ctl)
    BY <1>1, <1>5
  <2>3. QED
    BY <2>1, <2>2 DEF Word
<1>8. w < Base * Base => v < Base
  <2>1. w < Base * Base => w \div Base < Base
    BY <1>1
  <2>2. QED
    BY <1>3, <2>1
<1>9. Base * y \in Nat /\ Base * v \in Nat /\ Base * y <= Base * v
  BY <1>1, <1>5, <1>6
<1>10. QED
  BY <1>5, <1>6, <1>7, <1>8, <1>9

(* Two bytes without control bits are those of the word they make.         *)
LEMMA BytesOfWord ==
  ASSUME NEW p, NEW bi, p[bi + 1] \in 0 .. Base - 1, p[bi + 2] \in 0 .. Base - 1
  PROVE  Word(p, bi) \in 0 .. Base * Base - 1 /\ Bytes(Word(p, bi)) = <<p[bi + 1], p[bi + 2]>>
<1>1. Base \in Nat /\ Base >= 2 /\ Ctl \in Nat /\ Ctl >= Base
  BY Sizes0
<1>2. PICK x \in 0 .. Base - 1 : x = p[bi + 1]
  OBVIOUS
<1>3. PICK y \in 0 .. Base - 1 : y = p[bi + 2]
  OBVIOUS
<1>4. Word(p, bi) = Base * y + x
  <2>1. ~(x >= Ctl)
    BY <1>1
  <2>2. QED
    BY <1>2, <1>3, <2>1 DEF Word
<1>5. (Base * y + x) % Base = x /\ (Base * y + x) \div Base = y
  BY <1>1
<1>6. y % Base = y
  BY <1>1
<1>7. Base * y + x \in 0 .. Base * Base - 1
  BY <1>1
<1>8. QED
  BY <1>2, <1>3, <1>4, <1>5, <1>6, <1>7 DEF Bytes

LEMMA BytesAreBytes ==
  ASSUME NEW w \in Nat
  PROVE  /\ Bytes(w) \in Seq(0 .. Base - 1) /\ Len(Bytes(w)) = 2
         /\ Bytes(w)[1] = w % Base /\ Bytes(w)[2] = (w \div Base) % Base
<1>1. w % Base \in 0 .. Base - 1 /\ w \div Base \in Nat
  BY Sizes0
<1>2. (w \div Base) % Base \in 0 .. Base - 1
  BY <1>1, Sizes0
<1>3. QED
  BY <1>1, <1>2 DEF Bytes

(* The bytes of words: two for each, the low one first.                    *)
LEMMA BytesOfCells ==
  ASSUME NEW ws \in Seq(Nat)
  PROVE  /\ BytesOf(ws) \in Seq(0 .. Base - 1) /\ Len(BytesOf(ws)) = 2 * Len(ws)
         /\ \A k \in 1 .. Len(ws) : /\ BytesOf(ws)[2 * k - 1] = ws[k] % Base
                                    /\ BytesOf(ws)[2 * k] = (ws[k] \div Base) % Base
<1> DEFINE n == Len(ws)
           s == [i \in DOMAIN ws |-> Bytes(ws[i])]
<1>1. n \in Nat /\ DOMAIN ws = 1 .. n /\ \A k \in 1 .. n : ws[k] \in Nat
  OBVIOUS
<1>2. s \in Seq(Seq(0 .. Base - 1)) /\ Len(s) = n /\ \A k \in 1 .. n : s[k] = Bytes(ws[k])
  BY <1>1, BytesAreBytes
<1> HIDE DEF s, n
<1>3. FlattenSeq(s) \in Seq(0 .. Base - 1) /\ \E off : Laid(s, FlattenSeq(s), off)
  BY <1>2, Flattening
<1>4. PICK off : Laid(s, FlattenSeq(s), off)
  BY <1>3
<1>5. PICK flat : flat = FlattenSeq(s)
  OBVIOUS
<1>6. /\ off \in [0 .. n -> Nat] /\ off[0] = 0 /\ Len(flat) = off[n]
      /\ \A k \in 1 .. n : off[k] = off[k - 1] + 2
      /\ \A k \in 1 .. n : \A j \in 1 .. 2 : flat[off[k - 1] + j] = Bytes(ws[k])[j]
  <2>1. \A k \in 1 .. n : Len(s[k]) = 2 /\ s[k] = Bytes(ws[k])
    BY <1>1, <1>2, BytesAreBytes
  <2>2. QED
    BY <1>2, <1>4, <1>5, <2>1 DEF Laid
<1> DEFINE S == {k \in 0 .. n : off[k] = 2 * k}
<1>7. \A k \in 0 .. n : k \in S
  <2>1. 0 \in S
    BY <1>1, <1>6
  <2>2. \A k \in 1 .. n : k - 1 \in S => k \in S
    BY <1>1, <1>6
  <2> HIDE DEF S
  <2>3. QED
    BY <1>1, <2>1, <2>2, Inductive
<1>8. ASSUME NEW k \in 1 .. n
      PROVE  flat[2 * k - 1] = ws[k] % Base /\ flat[2 * k] = (ws[k] \div Base) % Base
  <2>1. k - 1 \in S
    BY <1>1, <1>7
  <2>2. off[k - 1] + 1 = 2 * k - 1 /\ off[k - 1] + 2 = 2 * k
    BY <1>1, <2>1
  <2>3. flat[off[k - 1] + 1] = Bytes(ws[k])[1] /\ flat[off[k - 1] + 2] = Bytes(ws[k])[2]
    BY <1>6
  <2>4. QED
    BY <1>1, <2>2, <2>3, BytesAreBytes
<1>9. Len(flat) = 2 * n
  <2>1. n \in S
    BY <1>1, <1>7
  <2>2. QED
    BY <1>6, <2>1
<1>10. BytesOf(ws) = flat
  BY <1>5 DEF BytesOf, s
<1>11. QED
  BY <1>3, <1>5, <1>8, <1>9, <1>10 DEF n

-----------------------------------------------------------------------------
(* A file, in an image or by itself.                                       *)

Holds(p, bi, f) == \A i \in 1 .. Len(f) : p[bi + i] = f[i]

FileCells(f) ==
  /\ f \in Seq(Cells) /\ Content(0) <= Len(f) /\ Byte(f[1]) = BOF
  /\ Length(f, 0) <= Space(f, 0) /\ End(f, 0) = Len(f)

(* What a file holds it holds in the image as well.                        *)
LEMMA HeldWord ==
  ASSUME NEW p, NEW f \in Seq(Nat), NEW bi \in Nat, Holds(p, bi, f), NEW x \in Nat, x + 2 <= Len(f)
  PROVE  Word(p, bi + x) = Word(f, x)
<1>1. x + 1 \in 1 .. Len(f) /\ x + 2 \in 1 .. Len(f)
  OBVIOUS
<1>2. p[bi + (x + 1)] = f[x + 1] /\ p[bi + (x + 2)] = f[x + 2]
  BY <1>1 DEF Holds
<1>3. bi + (x + 1) = (bi + x) + 1 /\ bi + (x + 2) = (bi + x) + 2
  OBVIOUS
<1>4. QED
  BY <1>2, <1>3 DEF Word

LEMMA HeldFields ==
  ASSUME NEW p, NEW f \in Seq(Nat), NEW bi \in Nat, Holds(p, bi, f), Content(0) <= Len(f)
  PROVE  /\ Num(p, bi) = Num(f, 0) /\ Length(p, bi) = Length(f, 0) /\ Space(p, bi) = Space(f, 0)
         /\ HdrSum(bi) = bi + HdrSum(0) /\ Content(bi) = bi + Content(0)
         /\ ContentSum(p, bi) = bi + ContentSum(f, 0) /\ End(p, bi) = bi + End(f, 0)
<1>1. Len(f) \in Nat /\ 9 <= Len(f)
  BY Sizes0 DEF Content, HdrSum
<1>2. Word(p, bi + 1) = Word(f, 1) /\ Word(p, bi + 3) = Word(f, 3) /\ Word(p, bi + 7) = Word(f, 7)
  BY <1>1, HeldWord
<1>3. Num(p, bi) = Num(f, 0) /\ Length(p, bi) = Length(f, 0) /\ Space(p, bi) = Space(f, 0)
  BY <1>2 DEF Num, Length, Space
<1>4. HdrSum(bi) = bi + HdrSum(0) /\ Content(bi) = bi + Content(0)
      /\ Content(0) \in Nat
  BY Sizes0 DEF HdrSum, Content
<1>5. Length(f, 0) \in Nat /\ Space(f, 0) \in Nat
  BY FieldsAreNumbers
<1>6. QED
  BY <1>3, <1>4, <1>5 DEF ContentSum, End

(* The checksum of the same cells is the same.                             *)
LEMMA SameChecksum ==
  ASSUME NEW p, NEW f, NEW bi \in Nat, NEW x \in Nat, NEW n \in Nat,
         \A i \in x + 1 .. x + 2 * n : p[bi + i] = f[i]
  PROVE  Checksum(p, bi + x, n) = Checksum(f, x, n)
<1>1. ASSUME NEW k \in 1 .. n PROVE Word(p, bi + x + 2 * (k - 1)) = Word(f, x + 2 * (k - 1))
  <2>1. PICK y \in Nat : y = x + 2 * (k - 1)
    OBVIOUS
  <2>2. y + 1 \in x + 1 .. x + 2 * n /\ y + 2 \in x + 1 .. x + 2 * n
    BY <2>1
  <2>3. p[bi + (y + 1)] = f[y + 1] /\ p[bi + (y + 2)] = f[y + 2]
    BY <2>2
  <2>4. bi + (y + 1) = (bi + y) + 1 /\ bi + (y + 2) = (bi + y) + 2
    OBVIOUS
  <2>5. Word(p, bi + y) = Word(f, y)
    BY <2>3, <2>4 DEF Word
  <2>6. bi + x + 2 * (k - 1) = bi + y
    BY <2>1
  <2>7. QED
    BY <2>1, <2>5, <2>6
<1>2. Words(p, bi + x, n) = Words(f, x, n)
  BY <1>1, Zenon DEF Words
<1>3. QED
  BY <1>2, Zenon DEF Checksum

(* Checksums that are right in a file are right where the image holds it.  *)
LEMMA HeldSums ==
  ASSUME NEW p, NEW f, FileCells(f), NEW bi \in Nat, Holds(p, bi, f)
  PROVE  SumMatches(p, bi) <=> SumMatches(f, 0)
<1>1. f \in Seq(Nat) /\ Content(0) <= Len(f) /\ Length(f, 0) <= Space(f, 0) /\ Len(f) = End(f, 0)
      /\ Len(f) \in Nat
  BY SeqCells DEF FileCells
<1>2. /\ HdrSum(0) \in Nat /\ HdrSum(0) = 1 + 2 * HdrWords /\ Content(0) = HdrSum(0) + 2
      /\ Content(0) \in Nat /\ Length(f, 0) \in Nat /\ Space(f, 0) \in Nat
      /\ End(f, 0) = Content(0) + 2 * (Space(f, 0) + 1)
      /\ ContentSum(f, 0) \in Nat /\ ContentSum(f, 0) = Content(0) + 2 * Length(f, 0)
      /\ HdrWords \in Nat
  BY <1>1, FieldsAreNumbers, Sizes0
<1>3. /\ Length(p, bi) = Length(f, 0) /\ HdrSum(bi) = bi + HdrSum(0)
      /\ Content(bi) = bi + Content(0) /\ ContentSum(p, bi) = bi + ContentSum(f, 0)
  BY <1>1, HeldFields
<1>4. Word(p, HdrSum(bi)) = Word(f, HdrSum(0))
  <2>1. PICK x \in Nat : x = HdrSum(0) /\ x + 2 <= Len(f)
    BY <1>1, <1>2
  <2>2. Word(p, bi + x) = Word(f, x)
    BY <1>1, <2>1, HeldWord
  <2>3. QED
    BY <1>3, <2>1, <2>2
<1>5. Word(p, ContentSum(p, bi)) = Word(f, ContentSum(f, 0))
  <2>1. PICK x \in Nat : x = ContentSum(f, 0) /\ x + 2 <= Len(f)
    BY <1>1, <1>2
  <2>2. Word(p, bi + x) = Word(f, x)
    BY <1>1, <2>1, HeldWord
  <2>3. QED
    BY <1>3, <2>1, <2>2
<1>6. Checksum(p, bi + 1, HdrWords) = Checksum(f, 0 + 1, HdrWords)
  <2> DEFINE x == 1
  <2>1. ASSUME NEW i \in x + 1 .. x + 2 * HdrWords PROVE p[bi + i] = f[i]
    <3>1. i \in 1 .. Len(f)
      BY <1>1, <1>2
    <3>2. QED
      BY <3>1 DEF Holds
  <2>3. x \in Nat
    OBVIOUS
  <2> HIDE DEF x
  <2>4. Checksum(p, bi + x, HdrWords) = Checksum(f, x, HdrWords)
    BY <1>2, <2>1, <2>3, SameChecksum
  <2>2. Checksum(p, bi + 1, HdrWords) = Checksum(f, 1, HdrWords)
    BY <2>4 DEF x
  <2>5. QED
    BY <2>2
<1>7. Checksum(p, Content(bi), Length(p, bi)) = Checksum(f, Content(0), Length(f, 0))
  <2>1. PICK x \in Nat, n \in Nat : x = Content(0) /\ n = Length(f, 0) /\ x + 2 * n <= Len(f)
    BY <1>1, <1>2
  <2>2. Checksum(p, bi + x, n) = Checksum(f, x, n)
    <3>1. \A i \in x + 1 .. x + 2 * n : p[bi + i] = f[i]
      BY <1>1, <2>1, SMTT(20) DEF Holds
    <3>2. QED
      BY <3>1, SameChecksum
  <2>3. QED
    BY <1>3, <2>1, <2>2
<1>8. QED
  BY <1>4, <1>5, <1>6, <1>7 DEF SumMatches

LEMMA SumsAreWords ==
  ASSUME NEW p \in Seq(Nat), NEW bi \in Nat, NEW n \in Nat, bi + 2 * n <= Len(p)
  PROVE  Checksum(p, bi, n) \in 0 .. Base * Base - 1
<1>1. ASSUME NEW k \in 1 .. n PROVE Word(p, bi + 2 * (k - 1)) \in Nat
  <2>1. PICK y \in Nat : y = bi + 2 * (k - 1)
    OBVIOUS
  <2>2. y + 1 \in 1 .. Len(p) /\ y + 2 \in 1 .. Len(p)
    BY <2>1
  <2>3. Word(p, y) \in Nat
    <3>1. p[y + 1] \in Nat /\ p[y + 2] \in Nat
      BY <2>2
    <3>2. QED
      BY <3>1, WordIsNumber
  <2>4. QED
    BY <2>1, <2>3
<1>2. Words(p, bi, n) \in Seq(Nat)
  BY <1>1 DEF Words
<1>3. Sum(Words(p, bi, n)) \in Nat
  BY <1>2, SumOfNumbers
<1>4. Base * Base \in Nat /\ Base * Base > 0
  BY Sizes0
<1>5. QED
  BY <1>3, <1>4 DEF Checksum

LEMMA FileFacts ==
  ASSUME NEW f, FileCells(f)
  PROVE  /\ f \in Seq(Cells) /\ f \in Seq(Nat) /\ Len(f) \in Nat /\ Len(f) >= 13
         /\ HdrSum(0) \in Nat /\ HdrSum(0) >= 9 /\ HdrSum(0) = 1 + 2 * HdrWords
         /\ Content(0) = HdrSum(0) + 2
         /\ Length(f, 0) \in Nat /\ Space(f, 0) \in Nat /\ Length(f, 0) <= Space(f, 0)
         /\ End(f, 0) = Len(f) /\ Len(f) = Content(0) + 2 * (Space(f, 0) + 1)
         /\ ContentSum(f, 0) = Content(0) + 2 * Length(f, 0) /\ ContentSum(f, 0) + 2 <= Len(f)
         /\ Byte(f[1]) = BOF /\ f[1] \in Cells
<1>1. f \in Seq(Nat) /\ f \in Seq(Cells) /\ Len(f) \in Nat /\ Content(0) <= Len(f)
  BY SeqCells DEF FileCells
<1>2. /\ HdrSum(0) \in Nat /\ HdrSum(0) >= 9 /\ HdrSum(0) = 1 + 2 * HdrWords
      /\ Content(0) = HdrSum(0) + 2
      /\ Length(f, 0) \in Nat /\ Space(f, 0) \in Nat
      /\ End(f, 0) = Content(0) + 2 * (Space(f, 0) + 1)
      /\ ContentSum(f, 0) = Content(0) + 2 * Length(f, 0)
  BY <1>1, FieldsAreNumbers, Sizes0
<1>3. QED
  BY <1>1, <1>2 DEF FileCells

(* The same file with another number, or other checksums.                  *)
Resembles(g, f) ==
  /\ FileCells(g) /\ Len(g) = Len(f) /\ Length(g, 0) = Length(f, 0) /\ Space(g, 0) = Space(f, 0)

LEMMA ResemblesToo ==
  ASSUME NEW f, NEW g, NEW h, Resembles(g, f), Resembles(h, g) PROVE Resembles(h, f)
BY DEF Resembles

LEMMA SameFields ==
  ASSUME NEW f, FileCells(f), NEW g \in Seq(Cells), Len(g) = Len(f), Byte(g[1]) = BOF,
         \A i \in 4 .. 9 : g[i] = f[i]
  PROVE  Resembles(g, f)
<1>1. Word(g, 3) = Word(f, 3) /\ Word(g, 7) = Word(f, 7)
  BY DEF Word
<1>2. Length(g, 0) = Length(f, 0) /\ Space(g, 0) = Space(f, 0)
  BY <1>1 DEF Length, Space
<1>3. End(g, 0) = End(f, 0)
  BY <1>2 DEF End
<1>4. QED
  BY <1>2, <1>3 DEF Resembles, FileCells

(* Writing its number or a checksum leaves a file a file of its size.      *)
LEMMA FilePut ==
  ASSUME NEW f, FileCells(f), NEW w \in Nat, NEW at \in Nat, at = 1 \/ at >= HdrSum(0),
         at + 2 <= Len(f)
  PROVE  /\ Resembles(Put(f, at, Bytes(w)), f)
         /\ \A i \in 1 .. at : Put(f, at, Bytes(w))[i] = f[i]
         /\ \A i \in at + 3 .. Len(f) : Put(f, at, Bytes(w))[i] = f[i]
         /\ (w < Base * Base => Word(Put(f, at, Bytes(w)), at) = w)
<1>1. PICK b \in Seq(Cells) : b = Bytes(w)
  <2>1. 0 .. Base - 1 \subseteq Cells
    BY DEF Cells
  <2>2. Bytes(w) \in Seq(Cells)
    BY <2>1, BytesAreBytes, WiderSeq
  <2>3. QED
    BY <2>2
<1>2. Len(b) = 2 /\ b[1] = w % Base /\ b[2] = (w \div Base) % Base
  BY <1>1, BytesAreBytes
<1>3. /\ f \in Seq(Cells) /\ Len(f) \in Nat /\ Len(f) >= 13 /\ HdrSum(0) \in Nat
      /\ HdrSum(0) >= 9 /\ Byte(f[1]) = BOF
  BY FileFacts
<1>4. /\ Put(f, at, b) \in Seq(Cells)
      /\ Len(Put(f, at, b)) = (IF at + Len(b) <= Len(f) THEN Len(f) ELSE at + Len(b))
      /\ \A i \in 1 .. at : Put(f, at, b)[i] = f[i]
      /\ \A i \in 1 .. Len(b) : Put(f, at, b)[at + i] = b[i]
      /\ \A i \in at + Len(b) + 1 .. Len(f) : Put(f, at, b)[i] = f[i]
  <2>1. at <= Len(f)
    BY <1>3
  <2>2. QED
    BY <1>3, <2>1, PutCells
<1>5. PICK g : g = Put(f, at, b)
  OBVIOUS
<1>6. /\ g \in Seq(Cells) /\ Len(g) = Len(f)
      /\ \A i \in 1 .. at : g[i] = f[i]
      /\ g[at + 1] = b[1] /\ g[at + 2] = b[2]
      /\ \A i \in at + 3 .. Len(f) : g[i] = f[i]
  BY <1>2, <1>3, <1>4, <1>5
<1>7. ASSUME NEW i \in 4 .. 9 PROVE g[i] = f[i]
  <2>1. i \in 1 .. at \/ i \in at + 3 .. Len(f)
    BY <1>3
  <2>2. QED
    BY <1>6, <2>1
<1>8. Byte(g[1]) = BOF
  BY <1>3, <1>6
<1>9. Resembles(g, f)
  BY <1>6, <1>7, <1>8, SameFields
<1>10. w < Base * Base => Word(g, at) = w
  BY <1>2, <1>6, WordOfBytes
<1>11. QED
  BY <1>1, <1>5, <1>6, <1>9, <1>10

(* Writing the checksums of a file makes them right (tpf.c lines 113 to    *)
(* 136).                                                                   *)
LEMMA FileSums ==
  ASSUME NEW f, FileCells(f)
  PROVE  /\ Resembles(PutContentChecksum(PutHeaderChecksum(f, 0), 0), f)
         /\ SumMatches(PutContentChecksum(PutHeaderChecksum(f, 0), 0), 0)
         /\ \A i \in 1 .. Len(f) : i <= HdrSum(0) \/ (i > Content(0) /\ i <= ContentSum(f, 0)) =>
              PutContentChecksum(PutHeaderChecksum(f, 0), 0)[i] = f[i]
<1>1. PICK at \in Nat : at = HdrSum(0)
  BY FileFacts
<1>2. /\ f \in Seq(Nat) /\ Len(f) \in Nat /\ at >= 9 /\ at = 1 + 2 * HdrWords
      /\ HdrWords \in Nat /\ at + 2 <= Len(f) /\ 0 + 1 + 2 * HdrWords <= Len(f)
  <2>1. f \in Seq(Nat) /\ Len(f) \in Nat /\ at >= 9 /\ at = 1 + 2 * HdrWords
    BY <1>1, FileFacts
  <2>2. Space(f, 0) \in Nat /\ Len(f) = at + 2 + 2 * (Space(f, 0) + 1)
    BY <1>1, FileFacts
  <2>3. HdrWords \in Nat
    BY Sizes0
  <2>4. QED
    BY <2>1, <2>2, <2>3
<1>3. PICK c : c = Checksum(f, 0 + 1, HdrWords)
  OBVIOUS
<1>4. c \in Nat /\ c < Base * Base
  <2>1. Checksum(f, 0 + 1, HdrWords) \in 0 .. Base * Base - 1
    BY <1>2, SumsAreWords
  <2>2. QED
    BY <1>3, <2>1, Sizes0
<1>5. PICK h : h = Put(f, at, Bytes(c))
  OBVIOUS
<1>6. /\ Resembles(h, f)
      /\ \A i \in 1 .. at : h[i] = f[i]
      /\ \A i \in at + 3 .. Len(f) : h[i] = f[i]
      /\ Word(h, at) = c
  BY <1>1, <1>2, <1>4, <1>5, FilePut
<1>7. FileCells(h) /\ Len(h) = Len(f)
  BY <1>6 DEF Resembles
<1>8. PICK x \in Nat, l \in Nat : x = Content(0) /\ l = Length(h, 0)
  <2>1. HdrSum(0) \in Nat /\ Content(0) = HdrSum(0) + 2 /\ Length(h, 0) \in Nat
    BY <1>7, FileFacts
  <2>2. QED
    BY <2>1
<1>9. /\ h \in Seq(Nat) /\ x = at + 2 /\ ContentSum(h, 0) = x + 2 * l /\ x + 2 * l + 2 <= Len(h)
      /\ Len(h) \in Nat
  BY <1>1, <1>7, <1>8, FileFacts
<1>10. PICK d : d = Checksum(h, x, l)
  OBVIOUS
<1>11. d \in Nat /\ d < Base * Base
  <2>1. Checksum(h, x, l) \in 0 .. Base * Base - 1
    <3>1. x + 2 * l <= Len(h)
      BY <1>9
    <3>2. QED
      BY <1>9, <3>1, SumsAreWords
  <2>2. QED
    BY <1>10, <2>1, Sizes0
<1>12. PICK y \in Nat : y = x + 2 * l
  OBVIOUS
<1>13. PICK g : g = Put(h, y, Bytes(d))
  OBVIOUS
<1>14. /\ Resembles(g, h)
       /\ \A i \in 1 .. y : g[i] = h[i]
       /\ \A i \in y + 3 .. Len(h) : g[i] = h[i]
       /\ Word(g, y) = d
  <2>1. y >= HdrSum(0) /\ y + 2 <= Len(h)
    BY <1>1, <1>9, <1>12
  <2>2. QED
    BY <1>7, <1>11, <1>13, <2>1, FilePut
<1>15. PutContentChecksum(PutHeaderChecksum(f, 0), 0) = g
  BY <1>1, <1>3, <1>5, <1>8, <1>9, <1>10, <1>12, <1>13, Zenon
     DEF PutContentChecksum, PutHeaderChecksum
<1>16. Resembles(g, f)
  BY <1>6, <1>14, ResemblesToo
<1>17. ASSUME NEW i \in 1 .. Len(f), i <= HdrSum(0) \/ (i > Content(0) /\ i <= ContentSum(f, 0))
       PROVE  g[i] = f[i]
  <2>1. ContentSum(f, 0) = y
    BY <1>6, <1>8, <1>12 DEF Resembles, ContentSum
  <2>2. i <= at \/ (i > at + 2 /\ i <= y)
    BY <1>1, <1>8, <1>9, <1>17, <2>1
  <2>3. at <= y
    BY <1>2, <1>9, <1>12
  <2>4. i \in 1 .. y /\ (i \in 1 .. at \/ i \in at + 3 .. Len(f))
    BY <1>2, <2>2, <2>3
  <2>5. QED
    BY <1>6, <1>14, <2>4
<1>18. Word(g, HdrSum(0)) = Checksum(g, 0 + 1, HdrWords)
  <2>1. Word(g, at) = Word(h, at)
    <3>1. at + 1 \in 1 .. y /\ at + 2 \in 1 .. y
      BY <1>9, <1>12
    <3>2. QED
      BY <1>14, <3>1 DEF Word
  <2>2. Checksum(g, 0 + 1, HdrWords) = Checksum(f, 1, HdrWords)
    <3> DEFINE one == 1
               zero == 0
    <3>1. ASSUME NEW i \in one + 1 .. one + 2 * HdrWords PROVE g[zero + i] = f[i]
      <4>1. i \in 1 .. at /\ i \in 1 .. y /\ zero + i = i
        BY <1>2, <1>9, <1>12
      <4>2. QED
        BY <1>6, <1>14, <4>1
    <3>2. zero \in Nat /\ one \in Nat
      OBVIOUS
    <3> HIDE DEF one, zero
    <3>5. HdrWords \in Nat
      BY <1>2
    <3>3. Checksum(g, zero + one, HdrWords) = Checksum(f, one, HdrWords)
      BY <3>1, <3>2, <3>5, SameChecksum
    <3>4. QED
      BY <3>3 DEF one, zero
  <2>3. c = Checksum(f, 1, HdrWords)
    BY <1>3
  <2>4. QED
    BY <1>1, <1>6, <2>1, <2>2, <2>3
<1>19. Word(g, ContentSum(g, 0)) = Checksum(g, Content(0), Length(g, 0))
  <2>1. Length(g, 0) = l
    BY <1>8, <1>14 DEF Resembles
  <2>2. ContentSum(g, 0) = y
    BY <1>8, <1>12, <2>1 DEF ContentSum
  <2>3. Checksum(g, 0 + x, l) = Checksum(h, x, l)
    <3>1. ASSUME NEW i \in x + 1 .. x + 2 * l PROVE g[0 + i] = h[i]
      <4>1. i \in 1 .. y /\ 0 + i = i
        BY <1>12
      <4>2. QED
        BY <1>14, <4>1
    <3>2. 0 \in Nat
      OBVIOUS
    <3>3. QED
      BY <3>1, <3>2, SameChecksum
  <2>4. 0 + x = x
    OBVIOUS
  <2>5. QED
    BY <1>8, <1>10, <1>14, <2>1, <2>2, <2>3, <2>4
<1>20. QED
  BY <1>15, <1>16, <1>17, <1>18, <1>19 DEF SumMatches

LEMMA ResemblesItself == ASSUME NEW f, FileCells(f) PROVE Resembles(f, f)
BY DEF Resembles

(* What clean does to a file's number, and that it leaves its content.     *)
Renumbers(g, f, k, o) ==
  /\ \A i \in Content(0) + 1 .. ContentSum(f, 0) : g[i] = f[i]
  /\ "seq" \in o /\ k - 1 < Base * Base => Num(g, 0) = k - 1
  /\ "seq" \notin o => Num(g, 0) = Num(f, 0)

(* What clean makes of a file is a file of its size and, with sums, has    *)
(* right ones.                                                             *)
LEMMA CleanFileResembles ==
  ASSUME NEW f, FileCells(f), NEW k \in Nat, k >= 1, NEW o
  PROVE  /\ Resembles(CleanFile(f, k, o), f)
         /\ "bofs" \in o => CleanFile(f, k, o)[1] = BOF + Ctl
         /\ "sums" \in o => SumMatches(CleanFile(f, k, o), 0)
         /\ "seq" \notin o /\ "sums" \notin o =>
              \A i \in 2 .. Len(f) : CleanFile(f, k, o)[i] = f[i]
         /\ Renumbers(CleanFile(f, k, o), f, k, o)
<1>1. PICK a : a = IF "bofs" \in o /\ f[1] < Ctl THEN Put(f, 0, <<f[1] + Ctl>>) ELSE f
  OBVIOUS
<1>2. PICK b : b = IF "seq" \in o THEN Put(a, 1, Bytes(k - 1)) ELSE a
  OBVIOUS
<1>3. CleanFile(f, k, o)
        = IF "sums" \in o THEN PutContentChecksum(PutHeaderChecksum(b, 0), 0) ELSE b
  BY <1>1, <1>2, Zenon DEF CleanFile
<1>4. f \in Seq(Cells) /\ Len(f) \in Nat /\ Len(f) >= 13 /\ Byte(f[1]) = BOF /\ f[1] \in Cells
  BY FileFacts
<1>5. (f[1] < Ctl => f[1] = BOF) /\ (~(f[1] < Ctl) => f[1] = BOF + Ctl)
  BY <1>4, CellsAreNumbers, Sizes0 DEF Cells
<1>6. /\ Resembles(a, f) /\ \A i \in 2 .. Len(f) : a[i] = f[i]
      /\ "bofs" \in o => a[1] = BOF + Ctl
  <2>1. CASE "bofs" \in o /\ f[1] < Ctl
    <3>1. PICK c \in Seq(Cells) : c = <<BOF + Ctl>> /\ Len(c) = 1 /\ c[1] = BOF + Ctl
      <4>1. PICK x \in Cells : x = BOF + Ctl
        BY DEF Cells
      <4>2. <<x>> \in Seq(Cells) /\ Len(<<x>>) = 1 /\ <<x>>[1] = x
        OBVIOUS
      <4>3. QED
        BY <4>1, <4>2
    <3>2. a = Put(f, 0, c)
      BY <1>1, <1>5, <2>1, <3>1
    <3>3. /\ Put(f, 0, c) \in Seq(Cells)
          /\ Len(Put(f, 0, c)) = (IF 0 + Len(c) <= Len(f) THEN Len(f) ELSE 0 + Len(c))
          /\ \A i \in 1 .. Len(c) : Put(f, 0, c)[0 + i] = c[i]
          /\ \A i \in 0 + Len(c) + 1 .. Len(f) : Put(f, 0, c)[i] = f[i]
      <4> DEFINE zero == 0
      <4>1. zero \in Nat /\ zero <= Len(f)
        BY <1>4
      <4> HIDE DEF zero
      <4>2. /\ Put(f, zero, c) \in Seq(Cells)
            /\ Len(Put(f, zero, c)) = (IF zero + Len(c) <= Len(f) THEN Len(f) ELSE zero + Len(c))
            /\ \A i \in 1 .. Len(c) : Put(f, zero, c)[zero + i] = c[i]
            /\ \A i \in zero + Len(c) + 1 .. Len(f) : Put(f, zero, c)[i] = f[i]
        BY <1>4, <4>1, PutCells
      <4>3. QED
        BY <4>2 DEF zero
    <3>4. /\ a \in Seq(Cells) /\ Len(a) = Len(f) /\ a[1] = BOF + Ctl
          /\ \A i \in 2 .. Len(f) : a[i] = f[i]
      BY <1>4, <3>1, <3>2, <3>3
    <3>5. Byte(a[1]) = BOF
      BY <3>4, CellsAreNumbers, Sizes0 DEF Cells
    <3>6. \A i \in 4 .. 9 : a[i] = f[i]
      BY <1>4, <3>4
    <3>7. QED
      BY <3>4, <3>5, <3>6, SameFields
  <2>2. CASE ~("bofs" \in o /\ f[1] < Ctl)
    BY <1>1, <1>5, <2>2, ResemblesItself
  <2>3. QED
    BY <2>1, <2>2
<1>7. FileCells(a) /\ Len(a) = Len(f)
  BY <1>6 DEF Resembles
<1>8. /\ Resembles(b, a) /\ b[1] = a[1] /\ ("seq" \notin o => b = a)
      /\ \A i \in 4 .. Len(a) : b[i] = a[i]
      /\ "seq" \in o /\ k - 1 < Base * Base => Num(b, 0) = k - 1
  <2>1. CASE "seq" \in o
    <3>1. PICK w \in Nat : w = k - 1
      OBVIOUS
    <3>2. PICK at \in Nat : at = 1
      OBVIOUS
    <3>3. b = Put(a, at, Bytes(w))
      BY <1>2, <2>1, <3>1, <3>2
    <3>4. at + 2 <= Len(a)
      BY <1>4, <1>7, <3>2
    <3>5. /\ Resembles(Put(a, at, Bytes(w)), a)
          /\ \A i \in 1 .. at : Put(a, at, Bytes(w))[i] = a[i]
          /\ \A i \in at + 3 .. Len(a) : Put(a, at, Bytes(w))[i] = a[i]
          /\ (w < Base * Base => Word(Put(a, at, Bytes(w)), at) = w)
      BY <1>7, <3>2, <3>4, FilePut
    <3>6. 1 \in 1 .. at /\ at + 3 = 4 /\ 0 + 1 = at
      BY <3>2
    <3>7. w < Base * Base => Num(b, 0) = w
      BY <3>3, <3>5, <3>6 DEF Num
    <3>8. QED
      BY <2>1, <3>1, <3>3, <3>5, <3>6, <3>7
  <2>2. CASE "seq" \notin o
    BY <1>2, <1>7, <2>2, ResemblesItself
  <2>3. QED
    BY <2>1, <2>2
<1>9. Resembles(b, f) /\ FileCells(b)
  BY <1>6, <1>8, ResemblesToo DEF Resembles
<1>10. PICK g : g = CleanFile(f, k, o)
  OBVIOUS
<1>11. /\ Resembles(g, b) /\ ("sums" \in o => SumMatches(g, 0)) /\ ("sums" \notin o => g = b)
       /\ \A i \in 1 .. Len(b) : i <= HdrSum(0) \/ (i > Content(0) /\ i <= ContentSum(b, 0)) =>
            g[i] = b[i]
  <2>1. CASE "sums" \in o
    BY <1>3, <1>9, <1>10, <2>1, FileSums
  <2>2. CASE "sums" \notin o
    BY <1>3, <1>9, <1>10, <2>2, ResemblesItself
  <2>3. QED
    BY <2>1, <2>2
<1>12. PICK at \in Nat, y \in Nat :
         /\ at = HdrSum(0) /\ at >= 9 /\ Content(0) = at + 2
         /\ y = ContentSum(f, 0) /\ y = ContentSum(b, 0) /\ y <= Len(f)
         /\ Len(b) = Len(f) /\ Len(a) = Len(f)
  <2>1. PICK l \in Nat, n \in Nat : l = Length(f, 0) /\ n = Space(f, 0) /\ l <= n
    BY FileFacts DEF FileCells
  <2>2. PICK at \in Nat : /\ at = HdrSum(0) /\ at >= 9 /\ Content(0) = at + 2
                          /\ Len(f) = at + 2 + 2 * (n + 1)
    BY <2>1, FileFacts
  <2>3. ContentSum(f, 0) = at + 2 + 2 * l /\ ContentSum(b, 0) = at + 2 + 2 * l
    BY <1>9, <2>1, <2>2 DEF ContentSum, Resembles
  <2>4. at + 2 + 2 * l <= Len(f) /\ at + 2 + 2 * l \in Nat
    BY <2>1, <2>2
  <2>5. QED
    BY <1>7, <1>9, <2>2, <2>3, <2>4 DEF Resembles
<1>13. g[1] = b[1]
  BY <1>4, <1>11, <1>12
<1>14. Renumbers(g, f, k, o)
  <2>1. ASSUME NEW i \in Content(0) + 1 .. ContentSum(f, 0) PROVE g[i] = f[i]
    <3>1. /\ i \in 1 .. Len(b) /\ i > Content(0) /\ i <= ContentSum(b, 0)
          /\ i \in 4 .. Len(a) /\ i \in 2 .. Len(f)
      BY <1>12
    <3>2. QED
      BY <1>6, <1>8, <1>11, <3>1
  <2>2. g[2] = b[2] /\ g[3] = b[3] /\ a[2] = f[2] /\ a[3] = f[3]
    BY <1>4, <1>6, <1>11, <1>12
  <2>3. Num(g, 0) = Num(b, 0) /\ Num(a, 0) = Num(f, 0)
    <3>1. 0 + 1 + 1 = 2 /\ 0 + 1 + 2 = 3
      OBVIOUS
    <3>2. QED
      BY <2>2, <3>1, Zenon DEF Num, Word
  <2>4. QED
    BY <1>8, <2>1, <2>3 DEF Renumbers
<1>15. QED
  BY <1>6, <1>8, <1>9, <1>10, <1>11, <1>13, <1>14, ResemblesToo

-----------------------------------------------------------------------------
(* The files of a whole image.                                             *)

WholeFile(p, bi) ==
  Content(bi) <= Len(p) /\ Length(p, bi) <= Space(p, bi) /\ End(p, bi) <= Len(p)

FileAt(p, k) == SubSeq(p, Bofs(p)[k] + 1, After(p, Bofs(p), k))

(* In a whole image every file is where the filing says, and ends in the   *)
(* image.                                                                  *)
LEMMA WholeFiles ==
  ASSUME NEW p \in Seq(Cells), Whole(p)
  PROVE  /\ Filing(p, Bofs(p)) /\ Bofs(p) \in Seq(Nat) /\ Len(Bofs(p)) \in Nat /\ Len(p) \in Nat
         /\ After(p, Bofs(p), 0) = 0
         /\ \A k \in 1 .. Len(Bofs(p)) :
              /\ WholeFile(p, Bofs(p)[k])
              /\ Bofs(p)[k] \in Nat /\ After(p, Bofs(p), k) = End(p, Bofs(p)[k])
         /\ \A k \in 0 .. Len(Bofs(p)) : After(p, Bofs(p), k) \in 0 .. Len(p)
<1>1. PICK b : b = Bofs(p)
  OBVIOUS
<1>2. p \in Seq(Nat) /\ Len(p) \in Nat
  BY SeqCells
<1>3. Filing(p, b)
  BY <1>1, <1>2, BofsFiling
<1>4. b \in Seq(Nat) /\ Len(b) \in Nat
  BY <1>3 DEF Filing
<1>5. ASSUME NEW k \in 1 .. Len(b)
      PROVE  /\ WholeFile(p, b[k]) /\ b[k] \in Nat /\ After(p, b, k) = End(p, b[k])
             /\ After(p, b, k) \in 0 .. Len(p)
  <2>1. b[k] \in Range(b) /\ b[k] \in Nat
    BY <1>4 DEF Range
  <2>2. WholeFile(p, b[k])
    BY <1>1, <2>1 DEF Whole, WholeFile
  <2>3. Content(b[k]) \in Nat /\ End(p, b[k]) \in Nat
    BY <1>2, <2>1, <2>2, FieldsAreNumbers DEF WholeFile
  <2>4. Behind(p, b[k]) = End(p, b[k])
    BY <1>2, <2>2, <2>3 DEF WholeFile, Behind
  <2>5. After(p, b, k) = End(p, b[k])
    BY <2>4 DEF After
  <2>6. QED
    BY <1>2, <2>1, <2>2, <2>3, <2>5 DEF WholeFile
<1>6. After(p, b, 0) = 0
  BY DEF After
<1>7. \A k \in 0 .. Len(b) : After(p, b, k) \in 0 .. Len(p)
  BY <1>2, <1>4, <1>5, <1>6
<1>8. QED
  BY <1>1, <1>2, <1>3, <1>4, <1>5, <1>6, <1>7

LEMMA FilesApart ==
  ASSUME NEW p, NEW b, Filing(p, b), NEW k \in 1 .. Len(b)
  PROVE  /\ After(p, b, k - 1) <= b[k] /\ b[k] < Len(p) /\ Byte(p[b[k] + 1]) = BOF
         /\ \A i \in After(p, b, k - 1) + 1 .. b[k] : Byte(p[i]) # BOF
BY DEF Filing

(* A file cut out of a whole image is one.                                 *)
LEMMA FileAtFile ==
  ASSUME NEW p \in Seq(Cells), Whole(p), NEW k \in 1 .. Len(Bofs(p))
  PROVE  /\ FileCells(FileAt(p, k)) /\ Holds(p, Bofs(p)[k], FileAt(p, k))
         /\ Len(FileAt(p, k)) = After(p, Bofs(p), k) - Bofs(p)[k]
<1>1. PICK bi \in Nat : bi = Bofs(p)[k]
  BY WholeFiles
<1>2. PICK e \in Nat : e = After(p, Bofs(p), k) /\ e = End(p, bi) /\ e <= Len(p)
  <2>1. After(p, Bofs(p), k) = End(p, bi)
    BY <1>1, WholeFiles
  <2>2. k \in 0 .. Len(Bofs(p))
    BY WholeFiles
  <2>3. After(p, Bofs(p), k) \in 0 .. Len(p)
    BY <2>2, WholeFiles
  <2>4. QED
    BY <2>1, <2>3
<1>3. p \in Seq(Nat) /\ Len(p) \in Nat /\ WholeFile(p, bi)
  BY <1>1, SeqCells, WholeFiles
<1>4. /\ Content(bi) \in Nat /\ Content(bi) = bi + 1 + 2 * HdrWords + 2 /\ HdrWords \in Nat
      /\ HdrWords >= 4 /\ Space(p, bi) \in Nat /\ e = Content(bi) + 2 * (Space(p, bi) + 1)
  BY <1>2, <1>3, FieldsAreNumbers, Sizes0 DEF WholeFile
<1>5. PICK f : f = FileAt(p, k)
  OBVIOUS
<1>6. f \in Seq(Cells) /\ Len(f) = e - bi /\ \A i \in 1 .. Len(f) : f[i] = p[bi + i]
  <2>1. f = SubSeq(p, bi + 1, e)
    BY <1>1, <1>2, <1>5, Zenon DEF FileAt
  <2>2. bi <= e /\ e <= Len(p)
    BY <1>2, <1>4
  <2>3. /\ SubSeq(p, bi + 1, e) \in Seq(Cells) /\ Len(SubSeq(p, bi + 1, e)) = e - bi
        /\ \A i \in 1 .. e - bi : SubSeq(p, bi + 1, e)[i] = p[bi + i]
    BY <2>2, Part
  <2>4. QED
    BY <2>1, <2>3
<1>7. Holds(p, bi, f)
  BY <1>6 DEF Holds
<1>8. Content(0) <= Len(f) /\ Content(bi) = bi + Content(0)
  BY <1>4, <1>6 DEF Content, HdrSum
<1>9. Length(p, bi) = Length(f, 0) /\ Space(p, bi) = Space(f, 0) /\ End(p, bi) = bi + End(f, 0)
  <2>1. f \in Seq(Nat)
    BY <1>6, SeqCells
  <2>2. QED
    BY <1>7, <1>8, <2>1, HeldFields
<1>10. Byte(f[1]) = BOF
  <2>1. 1 \in 1 .. Len(f)
    BY <1>4, <1>6
  <2>2. Byte(p[bi + 1]) = BOF
    BY <1>1, WholeFiles, FilesApart
  <2>3. QED
    BY <1>6, <2>1, <2>2
<1>11. End(f, 0) = Len(f)
  <2>1. e = bi + End(f, 0)
    BY <1>2, <1>9
  <2>2. Space(f, 0) \in Nat /\ Content(0) \in Nat
    BY <1>4, <1>9, Sizes0 DEF Content, HdrSum
  <2>3. End(f, 0) \in Nat
    BY <2>2 DEF End
  <2>4. QED
    BY <1>6, <2>1, <2>3
<1>12. FileCells(f)
  BY <1>3, <1>6, <1>8, <1>9, <1>10, <1>11 DEF FileCells, WholeFile
<1>13. QED
  BY <1>1, <1>2, <1>5, <1>6, <1>7, <1>12

LEMMA ZeroCells ==
  ASSUME NEW n \in Nat
  PROVE  /\ Zeroes(n) \in Seq(Cells) /\ Zeroes(n) \in Seq(Nat) /\ Len(Zeroes(n)) = n
         /\ \A i \in 1 .. n : Zeroes(n)[i] = 0
         /\ Byte(0) = 0 /\ 0 # BOF
<1>1. 0 \in Cells
  BY Sizes0 DEF Cells
<1>2. Byte(0) = 0 /\ 0 # BOF
  BY Sizes0 DEF Byte
<1>3. QED
  BY <1>1, <1>2 DEF Zeroes

(* The parts of an image that is cleaned.                                  *)
Pads(p, k, o) == IF "pad" \in o THEN Needed(p, k) ELSE 0
Before(p, k)  == SubSeq(p, After(p, Bofs(p), k - 1) + 1, Bofs(p)[k])
Hole(p, k, o) == Gap(Before(p, k), o) \o Zeroes(Pads(p, k, o))
Clean(p, k, o) == CleanFile(FileAt(p, k), k, o)
Behinds(p)     == SubSeq(p, After(p, Bofs(p), Len(Bofs(p))) + 1, Len(p))
Rest(p, o) == (IF "trunc" \in o THEN <<>> ELSE Gap(Behinds(p), o))
                \o Zeroes(IF "pad" \in o THEN EotPadding ELSE 0)

LEMMA GapCells ==
  ASSUME NEW c \in Seq(Cells), NEW o, \A i \in 1 .. Len(c) : Byte(c[i]) # BOF
  PROVE  /\ Gap(c, o) \in Seq(Cells) /\ Len(Gap(c, o)) = Len(c)
         /\ \A i \in 1 .. Len(c) : Byte(Gap(c, o)[i]) # BOF
         /\ "zeroes" \notin o => Gap(c, o) = c
<1>1. PICK n \in Nat : n = Len(c)
  OBVIOUS
<1>2. CASE "zeroes" \in o
  <2>1. Gap(c, o) = Zeroes(n)
    BY <1>1, <1>2 DEF Gap
  <2>2. QED
    BY <1>1, <1>2, <2>1, ZeroCells
<1>3. CASE "zeroes" \notin o
  BY <1>3 DEF Gap
<1>4. QED
  BY <1>2, <1>3

(* What padding adds is a number and makes up for what is missing.         *)
LEMMA NeededIs ==
  ASSUME NEW p \in Seq(Cells), Whole(p), NEW k \in 1 .. Len(Bofs(p))
  PROVE  /\ Needed(p, k) \in Nat
         /\ Bofs(p)[k] - After(p, Bofs(p), k - 1) + Needed(p, k)
              >= (IF k = 1 THEN BotPadding ELSE Space(p, Bofs(p)[k - 1]) \div 2)
<1>1. PICK b : b = Bofs(p)
  OBVIOUS
<1>2. b[k] \in Nat /\ k \in Nat
  BY <1>1, WholeFiles
<1>3. (IF k = 1 THEN 0 ELSE End(p, b[k - 1])) = After(p, b, k - 1)
      /\ After(p, b, k - 1) \in Nat
  <2>1. CASE k = 1
    BY <2>1 DEF After
  <2>2. CASE k # 1
    <3>1. k - 1 \in 1 .. Len(b) /\ k - 1 \in 0 .. Len(b)
      BY <1>1, <2>2, WholeFiles
    <3>2. QED
      BY <1>1, <2>2, <3>1, WholeFiles
  <2>3. QED
    BY <2>1, <2>2
<1>4. (IF k = 1 THEN BotPadding ELSE Space(p, b[k - 1]) \div 2) \in Nat
  <2>1. CASE k = 1
    BY <2>1, Sizes0
  <2>2. CASE k # 1
    <3>1. k - 1 \in 1 .. Len(b)
      BY <1>1, <2>2, WholeFiles
    <3>2. PICK bi \in Nat : bi = b[k - 1] /\ Content(bi) <= Len(p)
      BY <1>1, <3>1, WholeFiles DEF WholeFile
    <3>3. Space(p, bi) \in Nat
      BY <3>2, SeqCells, FieldsAreNumbers
    <3>4. QED
      BY <2>2, <3>2, <3>3
  <2>3. QED
    BY <2>1, <2>2
<1>5. PICK want \in Nat : want = IF k = 1 THEN BotPadding ELSE Space(p, b[k - 1]) \div 2
  BY <1>4
<1>6. PICK pad \in Int : pad = b[k] - After(p, b, k - 1)
  BY <1>2, <1>3
<1>7. Needed(p, k) = IF want > pad THEN want - pad ELSE 0
  BY <1>1, <1>3, <1>5, <1>6, Zenon DEF Needed
<1>8. QED
  BY <1>1, <1>5, <1>6, <1>7

LEMMA PadsIs ==
  ASSUME NEW p \in Seq(Cells), Whole(p), NEW k \in 1 .. Len(Bofs(p)), NEW o
  PROVE  Pads(p, k, o) \in Nat
BY NeededIs DEF Pads

(* What clean leaves between two files is no BOF, and enough if it pads.   *)
LEMMA HoleCells ==
  ASSUME NEW p \in Seq(Cells), Whole(p), NEW k \in 1 .. Len(Bofs(p)), NEW o
  PROVE  /\ Hole(p, k, o) \in Seq(Cells)
         /\ Len(Hole(p, k, o)) = Bofs(p)[k] - After(p, Bofs(p), k - 1) + Pads(p, k, o)
         /\ \A i \in 1 .. Len(Hole(p, k, o)) : Byte(Hole(p, k, o)[i]) # BOF
         /\ "zeroes" \notin o =>
              \A i \in 1 .. Bofs(p)[k] - After(p, Bofs(p), k - 1) :
                Hole(p, k, o)[i] = p[After(p, Bofs(p), k - 1) + i]
<1>1. PICK bi \in Nat, a \in Nat : bi = Bofs(p)[k] /\ a = After(p, Bofs(p), k - 1)
  <2>1. k - 1 \in 0 .. Len(Bofs(p))
    BY WholeFiles
  <2>2. QED
    BY <2>1, WholeFiles
<1>2. /\ a <= bi /\ bi < Len(p) /\ \A i \in a + 1 .. bi : Byte(p[i]) # BOF
      /\ Len(p) \in Nat
  <2>1. Filing(p, Bofs(p)) /\ Len(p) \in Nat
    BY WholeFiles
  <2>2. QED
    BY <1>1, <2>1, FilesApart
<1>3. PICK c \in Seq(Cells) : c = Before(p, k) /\ Len(c) = bi - a
                              /\ \A i \in 1 .. bi - a : c[i] = p[a + i]
  <2>1. Before(p, k) = SubSeq(p, a + 1, bi)
    BY <1>1, Zenon DEF Before
  <2>2. /\ SubSeq(p, a + 1, bi) \in Seq(Cells) /\ Len(SubSeq(p, a + 1, bi)) = bi - a
        /\ \A i \in 1 .. bi - a : SubSeq(p, a + 1, bi)[i] = p[a + i]
    BY <1>2, Part
  <2>3. QED
    BY <2>1, <2>2
<1>4. \A i \in 1 .. Len(c) : Byte(c[i]) # BOF
  <2>1. ASSUME NEW i \in 1 .. bi - a PROVE Byte(c[i]) # BOF
    <3>1. a + i \in a + 1 .. bi
      OBVIOUS
    <3>2. QED
      BY <1>2, <1>3, <3>1
  <2>2. QED
    BY <1>3, <2>1
<1>5. PICK d \in Seq(Cells) : /\ d = Gap(c, o) /\ Len(d) = Len(c)
                              /\ \A i \in 1 .. Len(c) : Byte(d[i]) # BOF
                              /\ "zeroes" \notin o => d = c
  BY <1>4, GapCells
<1>6. PICK n \in Nat : n = Pads(p, k, o)
  BY PadsIs
<1>7. PICK z \in Seq(Cells) : z = Zeroes(n) /\ Len(z) = n /\ \A i \in 1 .. n : Byte(z[i]) # BOF
  BY ZeroCells
<1>8. PICK h : h = d \o z
  OBVIOUS
<1>9. /\ h \in Seq(Cells) /\ Len(h) = Len(d) + Len(z)
      /\ \A j \in 1 .. Len(d) : h[j] = d[j]
      /\ \A j \in 1 .. Len(z) : h[Len(d) + j] = z[j]
  BY <1>8, OnePieceMore
<1>10. Hole(p, k, o) = h
  BY <1>3, <1>5, <1>6, <1>7, <1>8 DEF Hole
<1>11. ASSUME NEW i \in 1 .. Len(h) PROVE Byte(h[i]) # BOF
  <2>1. CASE i \in 1 .. Len(d)
    BY <1>5, <1>9, <2>1
  <2>2. CASE ~(i \in 1 .. Len(d))
    <3>1. PICK j \in 1 .. Len(z) : i = Len(d) + j
      <4>1. i - Len(d) \in 1 .. Len(z) /\ i = Len(d) + (i - Len(d))
        BY <1>9, <2>2
      <4>2. QED
        BY <4>1
    <3>2. QED
      BY <1>7, <1>9, <3>1
  <2>3. QED
    BY <2>1, <2>2
<1>12. QED
  BY <1>1, <1>3, <1>5, <1>6, <1>7, <1>9, <1>10, <1>11

LEMMA RestCells ==
  ASSUME NEW p \in Seq(Cells), Whole(p), NEW o
  PROVE  /\ Rest(p, o) \in Seq(Cells)
         /\ \A i \in 1 .. Len(Rest(p, o)) : Byte(Rest(p, o)[i]) # BOF
         /\ "pad" \in o => Len(Rest(p, o)) >= EotPadding
         /\ "pad" \notin o /\ "trunc" \notin o /\ "zeroes" \notin o =>
              /\ Len(Rest(p, o)) = Len(p) - After(p, Bofs(p), Len(Bofs(p)))
              /\ \A i \in 1 .. Len(Rest(p, o)) :
                   Rest(p, o)[i] = p[After(p, Bofs(p), Len(Bofs(p))) + i]
<1>1. PICK l \in Nat, a \in Nat : l = Len(p) /\ a = After(p, Bofs(p), Len(Bofs(p))) /\ a <= l
  <2>1. Len(Bofs(p)) \in 0 .. Len(Bofs(p)) /\ Len(p) \in Nat
    BY WholeFiles
  <2>2. QED
    BY <2>1, WholeFiles
<1>2. \A i \in a + 1 .. l : Byte(p[i]) # BOF
  BY <1>1, WholeFiles DEF Filing
<1>3. PICK c \in Seq(Cells) : c = Behinds(p) /\ Len(c) = l - a
                              /\ \A i \in 1 .. l - a : c[i] = p[a + i]
  <2>1. Behinds(p) = SubSeq(p, a + 1, l)
    BY <1>1, Zenon DEF Behinds
  <2>2. /\ SubSeq(p, a + 1, l) \in Seq(Cells) /\ Len(SubSeq(p, a + 1, l)) = l - a
        /\ \A i \in 1 .. l - a : SubSeq(p, a + 1, l)[i] = p[a + i]
    BY <1>1, Part
  <2>3. QED
    BY <2>1, <2>2
<1>4. \A i \in 1 .. Len(c) : Byte(c[i]) # BOF
  <2>1. ASSUME NEW i \in 1 .. l - a PROVE Byte(c[i]) # BOF
    <3>1. a + i \in a + 1 .. l
      BY <1>1
    <3>2. QED
      BY <1>2, <1>3, <3>1
  <2>2. QED
    BY <1>3, <2>1
<1>5. PICK d \in Seq(Cells) : /\ d = IF "trunc" \in o THEN <<>> ELSE Gap(c, o)
                              /\ \A i \in 1 .. Len(d) : Byte(d[i]) # BOF
                              /\ "zeroes" \notin o /\ "trunc" \notin o => d = c
  <2>1. CASE "trunc" \in o
    <3>1. <<>> \in Seq(Cells) /\ \A i \in 1 .. Len(<<>>) : Byte(<<>>[i]) # BOF
      OBVIOUS
    <3>2. <<>> = IF "trunc" \in o THEN <<>> ELSE Gap(c, o)
      BY <2>1
    <3>3. QED
      BY <2>1, <3>1, <3>2
  <2>2. CASE "trunc" \notin o
    BY <1>4, <2>2, GapCells
  <2>3. QED
    BY <2>1, <2>2
<1>6. PICK n \in Nat : n = (IF "pad" \in o THEN EotPadding ELSE 0)
  BY Sizes0
<1>7. PICK z \in Seq(Cells) : z = Zeroes(n) /\ Len(z) = n /\ \A i \in 1 .. n : Byte(z[i]) # BOF
  BY ZeroCells
<1>8. PICK h : h = d \o z
  OBVIOUS
<1>9. /\ h \in Seq(Cells) /\ Len(h) = Len(d) + Len(z)
      /\ \A j \in 1 .. Len(d) : h[j] = d[j]
      /\ \A j \in 1 .. Len(z) : h[Len(d) + j] = z[j]
  BY <1>8, OnePieceMore
<1>10. Rest(p, o) = h
  BY <1>3, <1>5, <1>6, <1>7, <1>8 DEF Rest
<1>11. ASSUME NEW i \in 1 .. Len(h) PROVE Byte(h[i]) # BOF
  <2>1. CASE i \in 1 .. Len(d)
    BY <1>5, <1>9, <2>1
  <2>2. CASE ~(i \in 1 .. Len(d))
    <3>1. PICK j \in 1 .. Len(z) : i = Len(d) + j
      <4>1. i - Len(d) \in 1 .. Len(z) /\ i = Len(d) + (i - Len(d))
        BY <1>9, <2>2
      <4>2. QED
        BY <4>1
    <3>2. QED
      BY <1>7, <1>9, <3>1
  <2>3. QED
    BY <2>1, <2>2
<1>12. "pad" \in o => Len(h) >= EotPadding
  BY <1>6, <1>7, <1>9
<1>13. ASSUME "pad" \notin o /\ "trunc" \notin o /\ "zeroes" \notin o
       PROVE  Len(h) = l - a /\ \A i \in 1 .. Len(h) : h[i] = p[a + i]
  BY <1>3, <1>5, <1>6, <1>7, <1>9, <1>13
<1>14. QED
  BY <1>1, <1>9, <1>10, <1>11, <1>12, <1>13

-----------------------------------------------------------------------------
(* clean: the image piece by piece.                                        *)

Pieces(p, o) == [k \in 1 .. Len(Bofs(p)) |-> Hole(p, k, o) \o Clean(p, k, o)]

(* Cleaned puts its pieces one behind the other, and then the tail.        *)
LEMMA CleanedIs ==
  ASSUME NEW p \in Seq(Cells), Whole(p), NEW o
  PROVE  Cleaned(p, o) = (FlattenSeq(Pieces(p, o))
                           \o (IF "trunc" \in o THEN <<>> ELSE Gap(Behinds(p), o)))
                           \o Zeroes(IF "pad" \in o THEN EotPadding ELSE 0)
<1> DEFINE bofs     == Bofs(p)
           n        == Len(bofs)
           ends     == <<0>> \o [k \in DOMAIN bofs |-> End(p, bofs[k])]
           gap(k)   == Gap(SubSeq(p, ends[k] + 1, bofs[k]), o)
                         \o Zeroes(IF "pad" \in o THEN Needed(p, k) ELSE 0)
           piece(k) == gap(k) \o CleanFile(SubSeq(p, bofs[k] + 1, ends[k + 1]), k, o)
           tail     == Gap(SubSeq(p, ends[Len(ends)] + 1, Len(p)), o)
<1>1. /\ n \in Nat /\ DOMAIN bofs = 1 .. n /\ bofs \in Seq(Nat)
      /\ \A k \in 1 .. n : End(p, bofs[k]) = After(p, bofs, k) /\ After(p, bofs, k) \in Nat
      /\ After(p, bofs, 0) = 0
  <2>1. n \in Nat /\ bofs \in Seq(Nat) /\ After(p, bofs, 0) = 0
    BY WholeFiles
  <2>2. \A k \in 1 .. n : End(p, bofs[k]) = After(p, bofs, k)
    BY WholeFiles
  <2>3. \A k \in 0 .. n : After(p, bofs, k) \in Nat
    BY WholeFiles
  <2>4. \A k \in 1 .. n : After(p, bofs, k) \in Nat
    BY <2>1, <2>3
  <2>5. DOMAIN bofs = 1 .. n
    BY <2>1
  <2>6. QED
    BY <2>1, <2>2, <2>4, <2>5
<1> HIDE DEF bofs, n
<1>2. Len(ends) = n + 1 /\ \A k \in 1 .. n + 1 : ends[k] = After(p, bofs, k - 1)
  <2>1. PICK e : e = [k \in DOMAIN bofs |-> End(p, bofs[k])]
    OBVIOUS
  <2>2. e \in Seq(Nat) /\ Len(e) = n /\ \A k \in 1 .. n : e[k] = After(p, bofs, k)
    BY <1>1, <2>1
  <2>3. <<0>> \in Seq(Nat) /\ Len(<<0>>) = 1 /\ <<0>>[1] = 0
    OBVIOUS
  <2>4. PICK z \in Seq(Nat) : z = <<0>> /\ Len(z) = 1 /\ z[1] = 0
    BY <2>3
  <2>5. /\ Len(z \o e) = Len(z) + Len(e)
        /\ \A j \in 1 .. Len(z) : (z \o e)[j] = z[j]
        /\ \A j \in 1 .. Len(e) : (z \o e)[Len(z) + j] = e[j]
    BY <2>2, OnePieceMore
  <2>6. ends = z \o e
    BY <2>1, <2>4
  <2> HIDE DEF ends
  <2>7. Len(ends) = n + 1
    BY <1>1, <2>2, <2>4, <2>5, <2>6
  <2>8. ASSUME NEW k \in 1 .. n + 1 PROVE ends[k] = After(p, bofs, k - 1)
    <3>1. CASE k = 1
      BY <1>1, <2>4, <2>5, <2>6, <3>1
    <3>2. CASE k # 1
      <4>1. PICK j \in 1 .. n : k = 1 + j /\ k - 1 = j
        <5>1. k - 1 \in 1 .. n /\ k = 1 + (k - 1)
          BY <1>1, <3>2
        <5>2. QED
          BY <5>1
      <4>2. QED
        BY <2>2, <2>4, <2>5, <2>6, <4>1
    <3>3. QED
      BY <3>1, <3>2
  <2>9. QED
    BY <2>7, <2>8
<1>3. Cleaned(p, o) = (FlattenSeq([k \in DOMAIN bofs |-> piece(k)])
                        \o (IF "trunc" \in o THEN <<>> ELSE tail))
                        \o Zeroes(IF "pad" \in o THEN EotPadding ELSE 0)
  BY Zenon DEF Cleaned, bofs
<1> HIDE DEF ends
<1>4. ASSUME NEW k \in 1 .. n PROVE piece(k) = Hole(p, k, o) \o Clean(p, k, o)
  <2>1. ends[k] = After(p, bofs, k - 1) /\ ends[k + 1] = After(p, bofs, k)
    <3>1. k \in 1 .. n + 1 /\ k + 1 \in 1 .. n + 1 /\ k + 1 - 1 = k
      BY <1>1
    <3>2. ends[k] = After(p, bofs, k - 1) /\ ends[k + 1] = After(p, bofs, k + 1 - 1)
      BY <1>2, <3>1
    <3>3. QED
      BY <3>1, <3>2
  <2>2. QED
    BY <2>1, Zenon DEF Hole, Clean, Before, Pads, FileAt, bofs
<1>5. tail = Gap(Behinds(p), o)
  <2>1. ends[Len(ends)] = After(p, bofs, n)
    <3>1. PICK m \in 1 .. n + 1 : m = n + 1 /\ m - 1 = n
      BY <1>1
    <3>2. ends[m] = After(p, bofs, m - 1)
      BY <1>2
    <3>3. QED
      BY <1>2, <3>1, <3>2
  <2>2. QED
    BY <2>1, Zenon DEF Behinds, bofs, n
<1> HIDE DEF piece, tail
<1>6. [k \in DOMAIN bofs |-> piece(k)] = Pieces(p, o)
  <2>1. [k \in 1 .. n |-> piece(k)] = [k \in 1 .. n |-> Hole(p, k, o) \o Clean(p, k, o)]
    BY <1>4, Zenon
  <2>2. QED
    BY <1>1, <2>1 DEF Pieces, n, bofs
<1>7. QED
  BY <1>3, <1>5, <1>6

LEMMA CleanCells ==
  ASSUME NEW p \in Seq(Cells), Whole(p), NEW k \in 1 .. Len(Bofs(p)), NEW o
  PROVE  /\ Resembles(Clean(p, k, o), FileAt(p, k)) /\ Clean(p, k, o) \in Seq(Cells)
         /\ Len(Clean(p, k, o)) = After(p, Bofs(p), k) - Bofs(p)[k]
         /\ "bofs" \in o => Clean(p, k, o)[1] = BOF + Ctl
         /\ "sums" \in o => SumMatches(Clean(p, k, o), 0)
         /\ "seq" \notin o /\ "sums" \notin o =>
              \A i \in 2 .. Len(FileAt(p, k)) : Clean(p, k, o)[i] = FileAt(p, k)[i]
         /\ Renumbers(Clean(p, k, o), FileAt(p, k), k, o)
<1>1. PICK f : f = FileAt(p, k)
  OBVIOUS
<1>2. FileCells(f) /\ Len(f) = After(p, Bofs(p), k) - Bofs(p)[k]
  BY <1>1, FileAtFile
<1>3. k \in Nat /\ k >= 1
  BY WholeFiles
<1>4. /\ Resembles(CleanFile(f, k, o), f)
      /\ "bofs" \in o => CleanFile(f, k, o)[1] = BOF + Ctl
      /\ "sums" \in o => SumMatches(CleanFile(f, k, o), 0)
      /\ "seq" \notin o /\ "sums" \notin o =>
           \A i \in 2 .. Len(f) : CleanFile(f, k, o)[i] = f[i]
      /\ Renumbers(CleanFile(f, k, o), f, k, o)
  BY <1>2, <1>3, CleanFileResembles
<1>5. PICK g : g = CleanFile(f, k, o)
  OBVIOUS
<1>6. g \in Seq(Cells) /\ Len(g) = Len(f)
  BY <1>4, <1>5 DEF Resembles, FileCells
<1>7. Clean(p, k, o) = g
  BY <1>1, <1>5 DEF Clean
<1>8. QED
  BY <1>1, <1>2, <1>4, <1>5, <1>6, <1>7

(* Where the parts of a cleaned image are.                                 *)
Layout(q, p, o, off) ==
  /\ q \in Seq(Cells)
  /\ off \in [0 .. Len(Bofs(p)) -> Nat] /\ off[0] = 0
  /\ Len(q) = off[Len(Bofs(p))] + Len(Rest(p, o))
  /\ \A k \in 1 .. Len(Bofs(p)) :
       /\ off[k] = off[k - 1] + Len(Hole(p, k, o)) + Len(Clean(p, k, o))
       /\ Holds(q, off[k - 1], Hole(p, k, o))
       /\ Holds(q, off[k - 1] + Len(Hole(p, k, o)), Clean(p, k, o))
  /\ Holds(q, off[Len(Bofs(p))], Rest(p, o))

(* Where the pieces are in the cleaned image.                              *)
LEMMA CleanedLayout ==
  ASSUME NEW p \in Seq(Cells), Whole(p), NEW o
  PROVE  \E off : Layout(Cleaned(p, o), p, o, off)
<1>1. PICK n \in Nat : n = Len(Bofs(p))
  BY WholeFiles
<1>2. PICK s : s = Pieces(p, o)
  OBVIOUS
<1>3. ASSUME NEW k \in 1 .. n
      PROVE  /\ s[k] \in Seq(Cells) /\ Len(s[k]) = Len(Hole(p, k, o)) + Len(Clean(p, k, o))
             /\ Len(Hole(p, k, o)) \in Nat /\ Len(Clean(p, k, o)) \in Nat
             /\ \A j \in 1 .. Len(Hole(p, k, o)) : s[k][j] = Hole(p, k, o)[j]
             /\ \A j \in 1 .. Len(Clean(p, k, o)) :
                  s[k][Len(Hole(p, k, o)) + j] = Clean(p, k, o)[j]
  <2>1. PICK a \in Seq(Cells) : a = Hole(p, k, o)
    BY <1>1, HoleCells
  <2>2. PICK b \in Seq(Cells) : b = Clean(p, k, o)
    BY <1>1, CleanCells
  <2>3. s[k] = a \o b
    BY <1>1, <1>2, <2>1, <2>2 DEF Pieces
  <2>4. /\ a \o b \in Seq(Cells) /\ Len(a \o b) = Len(a) + Len(b)
        /\ \A j \in 1 .. Len(a) : (a \o b)[j] = a[j]
        /\ \A j \in 1 .. Len(b) : (a \o b)[Len(a) + j] = b[j]
    BY OnePieceMore
  <2>5. QED
    BY <2>1, <2>2, <2>3, <2>4
<1>4. s \in Seq(Seq(Cells)) /\ Len(s) = n
  <2>1. s = [k \in 1 .. n |-> s[k]]
    BY <1>1, <1>2 DEF Pieces
  <2>2. QED
    BY <1>1, <1>3, <2>1
<1>5. FlattenSeq(s) \in Seq(Cells) /\ \E off : Laid(s, FlattenSeq(s), off)
  BY <1>4, Flattening
<1>6. PICK flat \in Seq(Cells) : flat = FlattenSeq(s)
  BY <1>5
<1>7. PICK off : Laid(s, flat, off)
  BY <1>5, <1>6
<1>8. /\ off \in [0 .. n -> Nat] /\ off[0] = 0 /\ Len(flat) = off[n]
      /\ \A k \in 1 .. n : off[k] = off[k - 1] + Len(s[k])
      /\ \A k \in 1 .. n : \A j \in 1 .. Len(s[k]) : flat[off[k - 1] + j] = s[k][j]
  BY <1>4, <1>7 DEF Laid
<1>9. PICK r \in Seq(Cells) : r = Rest(p, o)
  BY RestCells
<1>10. Cleaned(p, o) = flat \o r
  <2>1. PICK t \in Seq(Cells) : t = (IF "trunc" \in o THEN <<>> ELSE Gap(Behinds(p), o))
    <3>1. Gap(Behinds(p), o) \in Seq(Cells)
      <4>1. Behinds(p) \in Seq(Cells)
        <5>1. PICK l \in Nat, a \in Nat :
                l = Len(p) /\ a = After(p, Bofs(p), Len(Bofs(p))) /\ a <= l
          <6>1. Len(Bofs(p)) \in 0 .. Len(Bofs(p)) /\ Len(p) \in Nat
            BY WholeFiles
          <6>2. QED
            BY <6>1, WholeFiles
        <5>2. SubSeq(p, a + 1, l) \in Seq(Cells)
          BY <5>1, Part
        <5>3. QED
          BY <5>1, <5>2, Zenon DEF Behinds
      <4>2. PICK c \in Seq(Cells) : c = Behinds(p)
        BY <4>1
      <4>3. Zeroes(Len(c)) \in Seq(Cells)
        BY ZeroCells
      <4>4. QED
        BY <4>2, <4>3 DEF Gap
    <3>2. <<>> \in Seq(Cells)
      OBVIOUS
    <3>3. QED
      BY <3>1, <3>2
  <2>2. PICK z \in Seq(Cells) : z = Zeroes(IF "pad" \in o THEN EotPadding ELSE 0)
    <3>1. PICK m \in Nat : m = (IF "pad" \in o THEN EotPadding ELSE 0)
      BY Sizes0
    <3>2. QED
      BY <3>1, ZeroCells
  <2>3. Cleaned(p, o) = (flat \o t) \o z
    BY <1>2, <1>6, <2>1, <2>2, CleanedIs
  <2>4. r = t \o z
    BY <1>9, <2>1, <2>2 DEF Rest
  <2>5. (flat \o t) \o z = flat \o (t \o z)
    BY ConcatAssociative
  <2>6. QED
    BY <2>3, <2>4, <2>5
<1>11. PICK q : q = flat \o r
  OBVIOUS
<1>12. /\ q \in Seq(Cells) /\ Len(q) = off[n] + Len(r)
       /\ \A j \in 1 .. off[n] : q[j] = flat[j]
       /\ \A j \in 1 .. Len(r) : q[off[n] + j] = r[j]
  <2>1. /\ flat \o r \in Seq(Cells) /\ Len(flat \o r) = Len(flat) + Len(r)
        /\ \A j \in 1 .. Len(flat) : (flat \o r)[j] = flat[j]
        /\ \A j \in 1 .. Len(r) : (flat \o r)[Len(flat) + j] = r[j]
    BY OnePieceMore
  <2>2. QED
    BY <1>8, <1>11, <2>1
<1>13. ASSUME NEW k \in 1 .. n, NEW j \in 1 .. Len(s[k])
       PROVE  q[off[k - 1] + j] = s[k][j]
  <2>1. off[k - 1] + j \in 1 .. off[n]
    <3> DEFINE S == {m \in 0 .. n : m >= k => off[k - 1] + j <= off[m]}
    <3>1. off[k - 1] \in Nat /\ off[k] = off[k - 1] + Len(s[k]) /\ Len(s[k]) \in Nat
      <4>1. off[k - 1] \in Nat /\ off[k] = off[k - 1] + Len(s[k])
        <5>1. k - 1 \in 0 .. n
          OBVIOUS
        <5>2. QED
          BY <1>8, <5>1
      <4>2. s[k] \in Seq(Cells)
        BY <1>3
      <4>3. QED
        BY <4>1, <4>2
    <3>2. 0 \in S
      OBVIOUS
    <3>3. ASSUME NEW m \in 1 .. n, m - 1 \in S PROVE m \in S
      <4>1. CASE m = k
        BY <3>1, <4>1
      <4>2. CASE m # k
        <5>4. m - 1 \in 0 .. n /\ s[m] \in Seq(Cells)
          BY <1>3
        <5>5. off[m - 1] \in Nat /\ off[m] = off[m - 1] + Len(s[m])
          BY <1>8, <5>4
        <5>1. off[m] = off[m - 1] + Len(s[m]) /\ Len(s[m]) \in Nat /\ off[m - 1] \in Nat
          BY <5>4, <5>5
        <5>2. m >= k => off[k - 1] + j <= off[m - 1]
          BY <3>3, <4>2
        <5>3. QED
          BY <3>1, <5>1, <5>2
      <4>3. QED
        BY <4>1, <4>2
    <3>4. \A m \in 0 .. n : m \in S
      <4> HIDE DEF S
      <4>1. QED
        BY <3>2, <3>3, Inductive
    <3>5. off[k - 1] + j <= off[n] /\ off[n] \in Nat
      BY <1>8, <3>4
    <3>6. QED
      BY <3>1, <3>5
  <2>2. QED
    BY <1>8, <1>12, <2>1
<1>14. ASSUME NEW k \in 1 .. n
       PROVE  /\ off[k] = off[k - 1] + Len(Hole(p, k, o)) + Len(Clean(p, k, o))
              /\ Holds(q, off[k - 1], Hole(p, k, o))
              /\ Holds(q, off[k - 1] + Len(Hole(p, k, o)), Clean(p, k, o))
  <2>1. PICK h \in Nat, c \in Nat : h = Len(Hole(p, k, o)) /\ c = Len(Clean(p, k, o))
    BY <1>3
  <2>2. Len(s[k]) = h + c /\ off[k - 1] \in Nat
    <3>1. k - 1 \in 0 .. n
      BY <1>1
    <3>2. off[k - 1] \in Nat
      BY <1>8, <3>1
    <3>3. QED
      BY <1>3, <2>1, <3>2
  <2>3. ASSUME NEW j \in 1 .. h PROVE q[off[k - 1] + j] = Hole(p, k, o)[j]
    <3>1. j \in 1 .. Len(s[k])
      BY <2>2
    <3>2. QED
      BY <1>3, <1>13, <2>1, <3>1
  <2>4. ASSUME NEW j \in 1 .. c PROVE q[(off[k - 1] + h) + j] = Clean(p, k, o)[j]
    <3>1. h + j \in 1 .. Len(s[k]) /\ (off[k - 1] + h) + j = off[k - 1] + (h + j)
      BY <2>2
    <3>2. q[off[k - 1] + (h + j)] = s[k][h + j]
      BY <1>13, <3>1
    <3>3. s[k][h + j] = Clean(p, k, o)[j]
      BY <1>3, <2>1
    <3>4. QED
      BY <3>1, <3>2, <3>3
  <2>5. off[k] = off[k - 1] + h + c
    BY <1>8, <2>2
  <2>6. QED
    BY <2>1, <2>3, <2>4, <2>5 DEF Holds
<1>15. Layout(q, p, o, off)
  BY <1>1, <1>8, <1>9, <1>12, <1>14 DEF Layout, Holds
<1>16. QED
  BY <1>10, <1>11, <1>15

(* Places that do not fall from one to the next do not fall at all.        *)
LEMMA Rising ==
  ASSUME NEW n \in Nat, NEW off \in [0 .. n -> Nat], \A k \in 1 .. n : off[k - 1] <= off[k]
  PROVE  \A k \in 0 .. n : \A m \in k .. n : off[k] <= off[m]
<1> SUFFICES ASSUME NEW k \in 0 .. n PROVE \A m \in k .. n : off[k] <= off[m]
  OBVIOUS
<1> DEFINE S == {m \in 0 .. n : m >= k => off[k] <= off[m]}
<1>1. 0 \in S
  OBVIOUS
<1>2. ASSUME NEW m \in 1 .. n, m - 1 \in S PROVE m \in S
  <2>1. m - 1 \in 0 .. n /\ m \in 0 .. n
    OBVIOUS
  <2>2. off[m - 1] \in Nat /\ off[m] \in Nat /\ off[k] \in Nat /\ off[m - 1] <= off[m]
    BY <2>1
  <2>3. m = k \/ (m >= k => m - 1 >= k)
    OBVIOUS
  <2>4. QED
    BY <1>2, <2>1, <2>2, <2>3
<1>3. \A m \in 0 .. n : m \in S
  <2> HIDE DEF S
  <2>1. QED
    BY <1>1, <1>2, Inductive
<1>4. QED
  BY <1>3

FiledAs(q, p, o, off) ==
  /\ Layout(q, p, o, off) /\ Filing(q, Bofs(q)) /\ Len(Bofs(q)) = Len(Bofs(p))
  /\ \A k \in 1 .. Len(Bofs(p)) :
       /\ Bofs(q)[k] = off[k - 1] + Len(Hole(p, k, o)) /\ End(q, Bofs(q)[k]) = off[k]
       /\ Space(q, Bofs(q)[k]) = Space(p, Bofs(p)[k])
       /\ WholeFile(q, Bofs(q)[k]) /\ Bofs(q)[k] \in Nat

(* The cleaned image has as many files, each at its place in its piece.    *)
LEMMA CleanedFiles ==
  ASSUME NEW p \in Seq(Cells), Whole(p), NEW o, NEW q, NEW off, Layout(q, p, o, off)
  PROVE  FiledAs(q, p, o, off)
<1>1. PICK n \in Nat : n = Len(Bofs(p))
  BY WholeFiles
<1>2. /\ q \in Seq(Cells) /\ q \in Seq(Nat) /\ Len(q) \in Nat
      /\ off \in [0 .. n -> Nat] /\ off[0] = 0
      /\ Len(q) = off[n] + Len(Rest(p, o)) /\ Holds(q, off[n], Rest(p, o))
      /\ \A k \in 1 .. n :
           /\ off[k] = off[k - 1] + Len(Hole(p, k, o)) + Len(Clean(p, k, o))
           /\ Holds(q, off[k - 1], Hole(p, k, o))
           /\ Holds(q, off[k - 1] + Len(Hole(p, k, o)), Clean(p, k, o))
  <2>1. q \in Seq(Cells) /\ q \in Seq(Nat) /\ Len(q) \in Nat
    BY SeqCells DEF Layout
  <2>2. QED
    BY <1>1, <2>1 DEF Layout
<1>3. ASSUME NEW k \in 1 .. n
      PROVE  /\ k - 1 \in 0 .. n /\ k \in 0 .. n /\ off[k - 1] \in Nat /\ off[k] \in Nat
             /\ Len(Hole(p, k, o)) \in Nat /\ Len(Clean(p, k, o)) \in Nat
  <2>1. k - 1 \in 0 .. n /\ k \in 0 .. n
    OBVIOUS
  <2>2. off[k - 1] \in Nat /\ off[k] \in Nat
    BY <1>2, <2>1
  <2>3. Hole(p, k, o) \in Seq(Cells) /\ Clean(p, k, o) \in Seq(Cells)
    BY <1>1, HoleCells, CleanCells
  <2>4. QED
    BY <2>1, <2>2, <2>3
<1>4. \A k \in 0 .. n : off[k] <= off[n]
  <2>1. ASSUME NEW k \in 1 .. n PROVE off[k - 1] <= off[k]
    BY <1>2, <1>3
  <2>2. \A k \in 0 .. n : \A m \in k .. n : off[k] <= off[m]
    BY <1>2, <2>1, Rising
  <2>3. QED
    BY <2>2
<1>5. off[n] <= Len(q) /\ off[n] \in Nat
  <2>1. Len(Rest(p, o)) \in Nat
    BY RestCells
  <2>2. off[n] \in Nat
    BY <1>2
  <2>3. QED
    BY <1>2, <2>1, <2>2
<1> DEFINE c == [k \in 1 .. n |-> off[k - 1] + Len(Hole(p, k, o))]
<1>6. c \in Seq(Nat) /\ Len(c) = n /\ \A k \in 1 .. n : c[k] = off[k - 1] + Len(Hole(p, k, o))
  BY <1>3
<1> HIDE DEF c
<1>7. ASSUME NEW k \in 1 .. n
      PROVE  /\ c[k] \in Nat /\ WholeFile(q, c[k]) /\ End(q, c[k]) = off[k]
             /\ Space(q, c[k]) = Space(p, Bofs(p)[k])
             /\ After(q, c, k) = off[k] /\ c[k] < Len(q) /\ Byte(q[c[k] + 1]) = BOF
  <2>1. PICK g : g = Clean(p, k, o)
    OBVIOUS
  <2>2. PICK f : f = FileAt(p, k)
    OBVIOUS
  <2>3. Resembles(g, f) /\ FileCells(g)
    BY <1>1, <2>1, <2>2, CleanCells DEF Resembles
  <2>4. PICK ck \in Nat : ck = c[k] /\ ck = off[k - 1] + Len(Hole(p, k, o))
    <3>1. off[k - 1] + Len(Hole(p, k, o)) \in Nat
      BY <1>3
    <3>2. c[k] = off[k - 1] + Len(Hole(p, k, o))
      BY <1>6
    <3>3. QED
      BY <3>1, <3>2
  <2>5. Holds(q, ck, g) /\ off[k] = ck + Len(g) /\ off[k] <= Len(q)
    <3>1. Holds(q, ck, g) /\ off[k] = ck + Len(g)
      BY <1>2, <2>1, <2>4
    <3>2. off[k] <= off[n] /\ off[k] \in Nat
      BY <1>3, <1>4
    <3>3. QED
      BY <1>2, <1>5, <3>1, <3>2
  <2>6. /\ g \in Seq(Nat) /\ Len(g) \in Nat /\ Len(g) >= 13 /\ Content(0) <= Len(g)
        /\ Length(g, 0) <= Space(g, 0) /\ End(g, 0) = Len(g) /\ Byte(g[1]) = BOF
    BY <2>3, FileFacts DEF FileCells
  <2>7. /\ Length(q, ck) = Length(g, 0) /\ Space(q, ck) = Space(g, 0)
        /\ Content(ck) = ck + Content(0) /\ End(q, ck) = ck + End(g, 0)
    BY <2>5, <2>6, HeldFields
  <2>8. Content(0) \in Nat
    BY Sizes0 DEF Content, HdrSum
  <2>15. End(q, ck) = off[k]
    BY <2>5, <2>6, <2>7
  <2>16. Content(ck) <= Len(q)
    <3>1. Len(q) \in Nat /\ off[k] \in Nat
      BY <1>2, <1>3
    <3>2. QED
      BY <2>5, <2>6, <2>7, <2>8, <3>1
  <2>9. WholeFile(q, ck) /\ End(q, ck) = off[k]
    BY <2>5, <2>6, <2>7, <2>15, <2>16 DEF WholeFile
  <2>10. Behind(q, ck) = End(q, ck)
    BY <1>2, <2>4, <2>7, <2>8, <2>9 DEF Behind, WholeFile
  <2>11. After(q, c, k) = off[k]
    BY <2>4, <2>9, <2>10 DEF After
  <2>12. ck < Len(q) /\ Byte(q[ck + 1]) = BOF
    <3>1. 1 \in 1 .. Len(g)
      BY <2>6
    <3>2. q[ck + 1] = g[1]
      BY <2>5, <3>1 DEF Holds
    <3>3. Len(q) \in Nat /\ off[k] \in Nat
      BY <1>2, <1>3
    <3>4. QED
      BY <2>5, <2>6, <3>2, <3>3
  <2>13. Space(g, 0) = Space(p, Bofs(p)[k])
    <3>1. PICK bi \in Nat : bi = Bofs(p)[k]
      BY <1>1, WholeFiles
    <3>2. FileCells(f) /\ Holds(p, bi, f)
      BY <1>1, <2>2, <3>1, FileAtFile
    <3>3. f \in Seq(Nat) /\ Content(0) <= Len(f)
      BY <3>2, FileFacts DEF FileCells
    <3>4. Space(p, bi) = Space(f, 0)
      BY <3>2, <3>3, HeldFields
    <3>5. QED
      BY <2>3, <3>1, <3>4 DEF Resembles
  <2>14. QED
    BY <2>4, <2>7, <2>9, <2>11, <2>12, <2>13
<1>8. After(q, c, 0) = off[0]
  BY <1>2 DEF After
<1>9. \A k \in 0 .. n : After(q, c, k) = off[k]
  <2>1. ASSUME NEW k \in 0 .. n PROVE After(q, c, k) = off[k]
    <3>1. k = 0 \/ k \in 1 .. n
      OBVIOUS
    <3>2. QED
      BY <1>7, <1>8, <3>1
  <2>2. QED
    BY <2>1
<1>10. Filing(q, c)
  <2>1. ASSUME NEW k \in 1 .. n
        PROVE  /\ After(q, c, k - 1) <= c[k]
               /\ \A i \in After(q, c, k - 1) + 1 .. c[k] : Byte(q[i]) # BOF
    <3>1. After(q, c, k - 1) = off[k - 1] /\ off[k - 1] \in Nat
      BY <1>3, <1>9
    <3>2. PICK h \in Seq(Cells) : h = Hole(p, k, o) /\ \A i \in 1 .. Len(h) : Byte(h[i]) # BOF
      BY <1>1, HoleCells
    <3>3. c[k] = off[k - 1] + Len(h) /\ Holds(q, off[k - 1], h)
      BY <1>2, <1>6, <3>2
    <3>4. ASSUME NEW i \in off[k - 1] + 1 .. c[k] PROVE Byte(q[i]) # BOF
      <4>1. PICK j \in 1 .. Len(h) : i = off[k - 1] + j
        <5>1. i - off[k - 1] \in 1 .. Len(h) /\ i = off[k - 1] + (i - off[k - 1])
          BY <3>1, <3>3
        <5>2. QED
          BY <5>1
      <4>2. q[i] = h[j]
        BY <3>3, <4>1 DEF Holds
      <4>3. QED
        BY <3>2, <4>2
    <3>5. QED
      BY <3>1, <3>3, <3>4
  <2>2. ASSUME NEW i \in After(q, c, n) + 1 .. Len(q) PROVE Byte(q[i]) # BOF
    <3>1. After(q, c, n) = off[n]
      BY <1>9
    <3>2. PICK r \in Seq(Cells) : r = Rest(p, o) /\ \A j \in 1 .. Len(r) : Byte(r[j]) # BOF
      BY RestCells
    <3>3. PICK j \in 1 .. Len(r) : i = off[n] + j
      <4>1. i - off[n] \in 1 .. Len(r) /\ i = off[n] + (i - off[n])
        BY <1>2, <1>5, <3>1, <3>2
      <4>2. QED
        BY <4>1
    <3>4. q[i] = r[j]
      BY <1>2, <3>2, <3>3 DEF Holds
    <3>5. QED
      BY <3>2, <3>4
  <2>3. QED
    BY <1>6, <1>7, <2>1, <2>2 DEF Filing
<1>11. Bofs(q) = c
  <2>1. Filing(q, Bofs(q))
    BY <1>2, BofsFiling
  <2>2. QED
    BY <1>2, <1>10, <2>1, FilingUnique
<1>12. QED
  BY <1>1, <1>6, <1>7, <1>10, <1>11 DEF FiledAs

(* No file is cut by clean.                                                *)
LEMMA CleanedWhole ==
  ASSUME NEW p \in Seq(Cells), Whole(p), NEW o
  PROVE  Cleaned(p, o) \in Seq(Cells) /\ Whole(Cleaned(p, o))
<1>1. PICK off : Layout(Cleaned(p, o), p, o, off)
  BY CleanedLayout
<1>2. PICK q : q = Cleaned(p, o) /\ Layout(q, p, o, off) /\ FiledAs(q, p, o, off)
  BY <1>1, CleanedFiles
<1>3. ASSUME NEW bi \in Range(Bofs(q)) PROVE WholeFile(q, bi)
  <2>1. Bofs(q) \in Seq(Nat) /\ Len(Bofs(q)) = Len(Bofs(p))
    BY <1>2 DEF FiledAs, Filing
  <2>2. PICK k \in 1 .. Len(Bofs(p)) : bi = Bofs(q)[k]
    BY <1>3, <2>1 DEF Range
  <2>3. QED
    BY <1>2, <2>2 DEF FiledAs
<1>4. QED
  BY <1>2, <1>3 DEF Layout, Whole, WholeFile

(* With sums, the checksums of the cleaned image are right.                *)
LEMMA CleanedSums ==
  ASSUME NEW p \in Seq(Cells), Whole(p), NEW o, "sums" \in o PROVE SumsMatch(Cleaned(p, o))
<1>1. PICK off : Layout(Cleaned(p, o), p, o, off)
  BY CleanedLayout
<1>2. PICK q : q = Cleaned(p, o) /\ Layout(q, p, o, off) /\ FiledAs(q, p, o, off)
  BY <1>1, CleanedFiles
<1>3. ASSUME NEW bi \in Range(Bofs(q)) PROVE SumMatches(q, bi)
  <2>1. Bofs(q) \in Seq(Nat) /\ Len(Bofs(q)) = Len(Bofs(p))
    BY <1>2 DEF FiledAs, Filing
  <2>2. PICK k \in 1 .. Len(Bofs(p)) : bi = Bofs(q)[k]
    BY <1>3, <2>1 DEF Range
  <2>3. PICK g : g = Clean(p, k, o)
    OBVIOUS
  <2>4. FileCells(g) /\ SumMatches(g, 0)
    BY <2>3, CleanCells DEF Resembles
  <2>5. bi \in Nat /\ Holds(q, bi, g)
    BY <1>2, <2>2, <2>3 DEF FiledAs, Layout
  <2>6. QED
    BY <2>4, <2>5, HeldSums
<1>4. QED
  BY <1>2, <1>3 DEF SumsMatch

-----------------------------------------------------------------------------
(* clean repairs, and restores marks that a tape has lost.                 *)

(* With padding, there is enough of it.                                    *)
LEMMA CleanedPadding ==
  ASSUME NEW p \in Seq(Cells), Whole(p), NEW o, "pad" \in o, Bofs(Cleaned(p, o)) # <<>>
  PROVE  PaddedUpTo(Cleaned(p, o), Len(Bofs(Cleaned(p, o))) - 1)
<1>1. PICK off : Layout(Cleaned(p, o), p, o, off)
  BY CleanedLayout
<1>2. PICK q : q = Cleaned(p, o) /\ Layout(q, p, o, off) /\ FiledAs(q, p, o, off)
  BY <1>1, CleanedFiles
<1>3. PICK n \in Nat : n = Len(Bofs(p)) /\ n = Len(Bofs(q)) /\ n > 0
  <2>1. Bofs(q) \in Seq(Nat) /\ Len(Bofs(q)) = Len(Bofs(p)) /\ Bofs(q) # <<>>
    BY <1>2 DEF FiledAs, Filing
  <2>2. QED
    BY <2>1
<1>4. ASSUME NEW k \in 0 .. n - 1
      PROVE  Padding(q, k) >= (IF k = 0 THEN BotPadding ELSE Space(q, Bofs(q)[k]) \div 2)
  <2>1. PICK m \in 1 .. n : m = k + 1 /\ m - 1 = k
    BY <1>3
  <2>2. off[k] \in Nat
    <3>1. off \in [0 .. n -> Nat] /\ k \in 0 .. n
      BY <1>2, <1>3 DEF Layout
    <3>2. QED
      BY <3>1
  <2>3. Bofs(q)[m] = off[k] + Len(Hole(p, m, o)) /\ Bofs(q)[m] \in Nat
    BY <1>2, <1>3, <2>1 DEF FiledAs
  <2>4. (IF k = 0 THEN 0 ELSE End(q, Bofs(q)[k])) = off[k]
    BY <1>2, <1>3 DEF FiledAs, Layout
  <2>5. Padding(q, k) = Bofs(q)[m] - off[k]
    <3>1. k # n
      BY <1>3
    <3>2. Padding(q, k) = (IF k = n THEN Len(q) ELSE Bofs(q)[k + 1])
                            - (IF k = 0 THEN 0 ELSE End(q, Bofs(q)[k]))
      BY <1>3 DEF Padding
    <3>3. QED
      BY <2>1, <2>4, <3>1, <3>2
  <2>6. Len(Hole(p, m, o)) = Bofs(p)[m] - After(p, Bofs(p), m - 1) + Needed(p, m)
    BY <1>3, HoleCells DEF Pads
  <2>7. /\ Bofs(p)[m] - After(p, Bofs(p), m - 1) + Needed(p, m)
             >= (IF m = 1 THEN BotPadding ELSE Space(p, Bofs(p)[m - 1]) \div 2)
    BY <1>3, NeededIs
  <2>8. k # 0 => Space(q, Bofs(q)[k]) = Space(p, Bofs(p)[k])
    <3>1. k # 0 => k \in 1 .. n
      BY <1>3
    <3>2. QED
      BY <1>2, <1>3, <3>1 DEF FiledAs
  <2>9. Len(Hole(p, m, o)) >= (IF k = 0 THEN BotPadding ELSE Space(q, Bofs(q)[k]) \div 2)
    BY <2>1, <2>6, <2>7, <2>8
  <2>10. Len(Hole(p, m, o)) \in Nat
    BY <1>3, HoleCells
  <2>11. Padding(q, k) = Len(Hole(p, m, o))
    BY <2>2, <2>3, <2>5, <2>10
  <2>12. QED
    BY <2>9, <2>11
<1>5. Padding(q, n) >= EotPadding
  <2>1. n \in 1 .. n
    BY <1>3
  <2>2. End(q, Bofs(q)[n]) = off[n] /\ off[n] \in Nat
    BY <1>2, <1>3, <2>1, SMTT(20) DEF FiledAs, Layout
  <2>3. Len(q) = off[n] + Len(Rest(p, o))
    BY <1>2, <1>3 DEF Layout
  <2>4. Len(Rest(p, o)) \in Nat /\ Len(Rest(p, o)) >= EotPadding
    BY RestCells
  <2>5. Padding(q, n) = Len(q) - End(q, Bofs(q)[n])
    BY <1>3 DEF Padding
  <2>6. QED
    BY <2>2, <2>3, <2>4, <2>5
<1>6. Padding(q, 0) >= BotPadding
  BY <1>3, <1>4
<1>7. ASSUME NEW k \in 1 .. n - 1 PROVE Padding(q, k) >= Space(q, Bofs(q)[k]) \div 2
  <2>1. k \in 0 .. n - 1 /\ k # 0
    OBVIOUS
  <2>2. QED
    BY <1>4, <2>1
<1>8. QED
  BY <1>2, <1>3, <1>5, <1>6, <1>7 DEF PaddedUpTo

(* CleanupRepairs in one state.                                            *)
LEMMA Repairs ==
  ASSUME TypeOK PROVE CleanupRepairs
<1>1. image \in Seq(Cells) /\ Whole(image)
  BY DEF TypeOK
<1>2. QED
  BY <1>1, CleanedPadding, CleanedSums, Zenon DEF CleanupRepairs

LEMMA BytesOnly ==
  ASSUME NEW p \in Seq(Cells), Whole(p), BofsMarked(p), NEW k \in 1 .. Len(Bofs(p)),
         NEW i \in Bofs(p)[k] + 2 .. After(p, Bofs(p), k)
  PROVE  p[i] \in 0 .. Base - 1
<1>1. PICK b : b = Bofs(p)
  OBVIOUS
<1>2. PICK n \in Nat : n = Len(b)
  BY <1>1, WholeFiles
<1>3. /\ b \in Seq(Nat) /\ Filing(p, b) /\ Len(p) \in Nat
      /\ \A m \in 0 .. n : After(p, b, m) \in 0 .. Len(p)
      /\ \A m \in 1 .. n : b[m] \in Nat
  BY <1>1, <1>2, WholeFiles
<1>4. PICK off \in [0 .. n -> Nat] : \A m \in 0 .. n : off[m] = After(p, b, m)
  <2>1. [m \in 0 .. n |-> After(p, b, m)] \in [0 .. n -> Nat]
    BY <1>3
  <2>2. QED
    BY <2>1
<1>5. ASSUME NEW m \in 1 .. n PROVE off[m - 1] <= b[m] /\ b[m] < off[m]
  <2>1. m - 1 \in 0 .. n /\ m \in 0 .. n
    OBVIOUS
  <2>2. After(p, b, m - 1) <= b[m] /\ b[m] < Len(p)
    BY <1>2, <1>3, FilesApart
  <2>3. Behind(p, b[m]) > b[m]
    BY <1>3, <2>2, SeqCells, BehindIs
  <2>4. After(p, b, m) = Behind(p, b[m])
    BY DEF After
  <2>5. b[m] \in Nat /\ off[m] \in Nat /\ off[m] = Behind(p, b[m])
    BY <1>3, <1>4, <2>1, <2>4
  <2>6. QED
    BY <1>4, <2>1, <2>2, <2>3, <2>5
<1>6. \A j \in 0 .. n : \A m \in j .. n : off[j] <= off[m]
  <2>1. ASSUME NEW m \in 1 .. n PROVE off[m - 1] <= off[m]
    <3>1. off[m - 1] \in Nat /\ off[m] \in Nat /\ b[m] \in Nat
      BY <1>3
    <3>2. QED
      BY <1>5, <3>1
  <2>2. QED
    BY <2>1, Rising
<1>7. k \in 1 .. n /\ b[k] \in Nat /\ off[k] \in Nat /\ i \in b[k] + 2 .. off[k] /\ off[k] <= Len(p)
  <2>1. k \in 1 .. n /\ k \in 0 .. n
    BY <1>1, <1>2
  <2>2. off[k] = After(p, b, k) /\ off[k] \in 0 .. Len(p) /\ b[k] \in Nat
    BY <1>3, <1>4, <2>1
  <2>3. QED
    BY <1>1, <1>3, <2>1, <2>2
<1>8. i \in 1 .. Len(p) /\ p[i] \in Cells
  <2>1. Len(p) \in Nat
    BY <1>3
  <2>2. i \in 1 .. Len(p)
    BY <1>7, <2>1
  <2>3. QED
    BY <2>2
<1>9. SUFFICES ASSUME ~(p[i] \in 0 .. Base - 1) PROVE FALSE
  OBVIOUS
<1>10. p[i] >= Ctl
  BY <1>8, <1>9, Sizes0 DEF Cells
<1>11. i - 1 \in Range(b)
  BY <1>1, <1>8, <1>10 DEF BofsMarked
<1>12. PICK m \in 1 .. n : i - 1 = b[m]
  BY <1>2, <1>3, <1>11 DEF Range
<1>13. off[m - 1] <= b[m] /\ b[m] < off[m] /\ off[k - 1] <= b[k]
  BY <1>5, <1>7
<1>14. /\ off[m - 1] \in Nat /\ off[m] \in Nat /\ off[k - 1] \in Nat /\ b[m] \in Nat
  <2>1. m - 1 \in 0 .. n /\ m \in 0 .. n /\ k - 1 \in 0 .. n
    BY <1>7
  <2>2. QED
    BY <1>3, <2>1
<1>15. b[m] > b[k] /\ b[m] < off[k]
  BY <1>7, <1>12
<1>16. CASE m > k
  <2>1. k \in 0 .. n /\ m - 1 \in k .. n
    BY <1>7, <1>16
  <2>2. off[k] <= off[m - 1]
    BY <1>6, <2>1
  <2>3. off[m - 1] <= b[m] /\ off[m - 1] \in Nat /\ b[m] \in Nat /\ off[k] \in Nat
    BY <1>7, <1>13, <1>14
  <2>4. QED
    BY <1>15, <2>2, <2>3
<1>17. CASE m < k
  <2>1. m \in 0 .. n /\ k - 1 \in m .. n
    BY <1>7, <1>17
  <2>2. off[m] <= off[k - 1]
    BY <1>6, <2>1
  <2>3. b[m] < off[m] /\ off[k - 1] <= b[k] /\ b[k] \in Nat /\ b[m] \in Nat
    BY <1>7, <1>13, <1>14
  <2>4. off[m] \in Nat /\ off[k - 1] \in Nat
    BY <1>14
  <2>5. QED
    BY <1>15, <2>2, <2>3, <2>4
<1>18. CASE m = k
  BY <1>7, <1>15, <1>18
<1>19. QED
  BY <1>7, <1>16, <1>17, <1>18

(* Without its control bits an image is one of the same length.            *)
LEMMA RawCells ==
  ASSUME NEW p \in Seq(Cells)
  PROVE  /\ Raw(p) \in Seq(Cells) /\ Len(Raw(p)) = Len(p)
         /\ \A i \in 1 .. Len(p) : Raw(p)[i] = Byte(p[i]) /\ Byte(Raw(p)[i]) = Byte(p[i])
<1>1. Len(p) \in Nat /\ DOMAIN p = 1 .. Len(p) /\ \A i \in 1 .. Len(p) : p[i] \in Cells
  OBVIOUS
<1>2. ASSUME NEW i \in 1 .. Len(p) PROVE Byte(p[i]) \in Cells /\ Byte(Byte(p[i])) = Byte(p[i])
  <2>1. Byte(p[i]) \in 0 .. Base - 1
    BY <1>1, CellsAreNumbers
  <2>2. QED
    BY <2>1, ByteTwice
<1>3. QED
  BY <1>1, <1>2 DEF Raw

(* Its files are the same ones: the scan looks at bytes alone.             *)
LEMMA RawFiles ==
  ASSUME NEW p \in Seq(Cells), Whole(p), BofsMarked(p)
  PROVE  /\ Bofs(Raw(p)) = Bofs(p) /\ Whole(Raw(p))
         /\ \A k \in 1 .. Len(Bofs(p)) : End(Raw(p), Bofs(p)[k]) = End(p, Bofs(p)[k])
<1>1. PICK b : b = Bofs(p)
  OBVIOUS
<1>2. PICK n \in Nat : n = Len(b)
  BY <1>1, WholeFiles
<1>3. PICK r : r = Raw(p)
  OBVIOUS
<1>4. /\ r \in Seq(Cells) /\ r \in Seq(Nat) /\ Len(r) = Len(p) /\ Len(p) \in Nat
      /\ \A i \in 1 .. Len(p) : r[i] = Byte(p[i]) /\ Byte(r[i]) = Byte(p[i])
  <2>1. r \in Seq(Cells)
    BY <1>3, RawCells
  <2>2. QED
    BY <1>3, <2>1, RawCells, SeqCells
<1>5. ASSUME NEW k \in 1 .. n
      PROVE  /\ b[k] \in Nat /\ WholeFile(r, b[k]) /\ Behind(r, b[k]) = Behind(p, b[k])
             /\ End(r, b[k]) = End(p, b[k])
  <2>1. PICK bi \in Nat : bi = b[k] /\ WholeFile(p, bi) /\ After(p, b, k) = End(p, bi)
    BY <1>1, <1>2, WholeFiles
  <2>2. /\ Content(bi) \in Nat /\ End(p, bi) \in Nat /\ Space(p, bi) \in Nat
        /\ Content(bi) = bi + 1 + 2 * HdrWords + 2
        /\ End(p, bi) = Content(bi) + 2 * (Space(p, bi) + 1) /\ End(p, bi) <= Len(p)
        /\ HdrWords \in Nat /\ HdrWords >= 4
    BY <1>4, <2>1, SeqCells, FieldsAreNumbers, Sizes0 DEF WholeFile
  <2>3. ASSUME NEW i \in bi + 2 .. bi + 9 PROVE r[i] = p[i]
    <3>3. bi + 9 <= End(p, bi)
      BY <2>2
    <3>5. PICK e \in Nat : e = After(p, b, k) /\ bi + 9 <= e /\ e <= Len(p)
      BY <2>1, <2>2, <3>3
    <3>6. i \in bi + 2 .. e /\ i \in 1 .. Len(p)
      BY <1>4, <3>5
    <3>1. i \in bi + 2 .. After(p, b, k) /\ i \in 1 .. Len(p)
      BY <3>5, <3>6
    <3>2. p[i] \in 0 .. Base - 1
      BY <1>1, <1>2, <2>1, <3>1, BytesOnly
    <3>4. QED
      BY <1>4, <3>1, <3>2, ByteTwice
  <2>4. Length(r, bi) = Length(p, bi) /\ Space(r, bi) = Space(p, bi)
    <3>1. /\ r[bi + 4] = p[bi + 4] /\ r[bi + 5] = p[bi + 5]
          /\ r[bi + 8] = p[bi + 8] /\ r[bi + 9] = p[bi + 9]
      BY <2>3
    <3>2. /\ r[bi + 3 + 1] = p[bi + 3 + 1] /\ r[bi + 3 + 2] = p[bi + 3 + 2]
          /\ r[bi + 7 + 1] = p[bi + 7 + 1] /\ r[bi + 7 + 2] = p[bi + 7 + 2]
      BY <3>1
    <3>3. QED
      BY <3>2 DEF Length, Space, Word
  <2>5. End(r, bi) = End(p, bi)
    BY <2>4 DEF End
  <2>6. WholeFile(r, bi)
    BY <1>4, <2>1, <2>4, <2>5 DEF WholeFile
  <2>7. Behind(r, bi) = Behind(p, bi)
    BY <1>4, <2>5 DEF Behind
  <2>8. QED
    BY <2>1, <2>5, <2>6, <2>7
<1>6. \A k \in 0 .. n : After(r, b, k) = After(p, b, k)
  <2>1. ASSUME NEW k \in 0 .. n PROVE After(r, b, k) = After(p, b, k)
    <3>1. k = 0 \/ k \in 1 .. n
      OBVIOUS
    <3>2. QED
      BY <1>5, <3>1 DEF After
  <2>2. QED
    BY <2>1
<1>7. /\ b \in Seq(Nat) /\ Filing(p, b) /\ \A k \in 0 .. n : After(p, b, k) \in 0 .. Len(p)
  BY <1>1, <1>2, WholeFiles
<1>8. Filing(r, b)
  <2>1. ASSUME NEW k \in 1 .. n
        PROVE  /\ After(r, b, k - 1) <= b[k] /\ b[k] < Len(r) /\ Byte(r[b[k] + 1]) = BOF
               /\ \A i \in After(r, b, k - 1) + 1 .. b[k] : Byte(r[i]) # BOF
    <3>1. /\ After(p, b, k - 1) <= b[k] /\ b[k] < Len(p) /\ Byte(p[b[k] + 1]) = BOF
          /\ \A i \in After(p, b, k - 1) + 1 .. b[k] : Byte(p[i]) # BOF
      BY <1>2, <1>7, FilesApart
    <3>2. k - 1 \in 0 .. n /\ b[k] \in Nat
      BY <1>5
    <3>3. After(r, b, k - 1) = After(p, b, k - 1) /\ After(p, b, k - 1) \in Nat
      BY <1>6, <1>7, <3>2
    <3>4. b[k] + 1 \in 1 .. Len(p)
      BY <1>4, <3>1, <3>2
    <3>5. ASSUME NEW i \in After(p, b, k - 1) + 1 .. b[k] PROVE Byte(r[i]) # BOF
      <4>1. i \in 1 .. Len(p)
        BY <1>4, <3>1, <3>2, <3>3
      <4>2. QED
        BY <1>4, <3>1, <4>1
    <3>6. QED
      BY <1>4, <3>1, <3>3, <3>4, <3>5
  <2>2. ASSUME NEW i \in After(r, b, n) + 1 .. Len(r) PROVE Byte(r[i]) # BOF
    <3>1. n \in 0 .. n
      OBVIOUS
    <3>2. After(r, b, n) = After(p, b, n) /\ After(p, b, n) \in Nat
      BY <1>6, <1>7, <3>1
    <3>3. i \in 1 .. Len(p) /\ i \in After(p, b, n) + 1 .. Len(p)
      BY <1>4, <3>2
    <3>4. Byte(p[i]) # BOF
      BY <1>2, <1>7, <3>3 DEF Filing
    <3>5. QED
      BY <1>4, <3>3, <3>4
  <2>3. QED
    BY <1>2, <1>7, <2>1, <2>2 DEF Filing
<1>9. Bofs(r) = b
  <2>1. Filing(r, Bofs(r))
    BY <1>4, BofsFiling
  <2>2. QED
    BY <1>4, <1>8, <2>1, FilingUnique
<1>10. Whole(r)
  <2>1. ASSUME NEW bi \in Range(b) PROVE WholeFile(r, bi)
    <3>1. PICK k \in 1 .. n : bi = b[k]
      BY <1>2, <1>7 DEF Range
    <3>2. QED
      BY <1>5, <3>1
  <2>2. QED
    BY <1>9, <2>1 DEF Whole, WholeFile
<1>11. QED
  BY <1>1, <1>2, <1>3, <1>5, <1>9, <1>10

LEMMA ByteFree ==
  ASSUME NEW p \in Seq(Cells), NEW i \in 1 .. Len(p), Byte(p[i]) # BOF PROVE Byte(p[i]) = p[i]
<1>1. PICK c \in Cells : c = p[i]
  OBVIOUS
<1>2. c \in Nat /\ (c < Base => Byte(c) = c) /\ (c >= Base => Byte(c) = BOF)
  BY CellsAreNumbers
<1>3. QED
  BY <1>1, <1>2, Sizes0

(* Marking by headers what lost its marks gives back the image.            *)
LEMMA Restored ==
  ASSUME NEW p \in Seq(Cells), Whole(p), BofsMarked(p)
  PROVE  Cleaned(Raw(p), {"bofs"}) = p
<1>1. PICK b : b = Bofs(p)
  OBVIOUS
<1>2. PICK n \in Nat : n = Len(b)
  BY <1>1, WholeFiles
<1>3. PICK r \in Seq(Cells) : r = Raw(p)
  BY RawCells
<1>4. /\ Len(r) = Len(p) /\ Len(p) \in Nat /\ \A i \in 1 .. Len(p) : r[i] = Byte(p[i])
  BY <1>3, RawCells
<1>5. Bofs(r) = b /\ Whole(r)
  BY <1>1, <1>3, RawFiles
<1>6. PICK o : o = {"bofs"}
  OBVIOUS
<1>7. "bofs" \in o /\ "zeroes" \notin o /\ "seq" \notin o /\ "sums" \notin o /\ "pad" \notin o
      /\ "trunc" \notin o
  BY <1>6
<1>8. PICK off : Layout(Cleaned(r, o), r, o, off)
  BY <1>5, CleanedLayout
<1>9. PICK q : q = Cleaned(r, o) /\ Layout(q, r, o, off)
  BY <1>8
<1> DEFINE A(k) == After(r, b, k)
<1>10. /\ A(0) = 0 /\ b \in Seq(Nat) /\ Filing(r, b)
       /\ \A k \in 0 .. n : A(k) \in 0 .. Len(p)
       /\ \A k \in 1 .. n : b[k] \in Nat
  BY <1>2, <1>4, <1>5, WholeFiles
<1>11. ASSUME NEW k \in 1 .. n
       PROVE  /\ A(k - 1) \in Nat /\ A(k) \in Nat /\ b[k] \in Nat /\ A(k - 1) <= b[k]
              /\ b[k] < Len(p) /\ A(k) <= Len(p)
              /\ \A i \in A(k - 1) + 1 .. b[k] : Byte(r[i]) # BOF
  <2>1. k - 1 \in 0 .. n /\ k \in 0 .. n /\ k \in 1 .. Len(b)
    BY <1>2
  <2>2. A(k - 1) \in 0 .. Len(p) /\ A(k) \in 0 .. Len(p) /\ b[k] \in Nat
    BY <1>10, <2>1
  <2>3. A(k - 1) <= b[k] /\ b[k] < Len(r) /\ \A i \in A(k - 1) + 1 .. b[k] : Byte(r[i]) # BOF
    BY <1>10, <2>1, FilesApart
  <2>4. QED
    BY <1>4, <2>2, <2>3
<1>12. /\ off \in [0 .. n -> Nat] /\ off[0] = 0
       /\ Len(q) = off[n] + Len(Rest(r, o)) /\ Holds(q, off[n], Rest(r, o))
       /\ q \in Seq(Cells)
  BY <1>2, <1>5, <1>9 DEF Layout
<1>13. ASSUME NEW k \in 1 .. n
       PROVE  /\ Len(Hole(r, k, o)) = b[k] - A(k - 1) /\ Len(Clean(r, k, o)) = A(k) - b[k]
              /\ off[k] = off[k - 1] + Len(Hole(r, k, o)) + Len(Clean(r, k, o))
              /\ Holds(q, off[k - 1], Hole(r, k, o))
              /\ Holds(q, off[k - 1] + Len(Hole(r, k, o)), Clean(r, k, o))
              /\ off[k - 1] \in Nat
  <2>1. k \in 1 .. Len(Bofs(r)) /\ k - 1 \in 0 .. n
    BY <1>2, <1>5
  <2>2. Pads(r, k, o) = 0
    BY <1>7 DEF Pads
  <2>3. Len(Hole(r, k, o)) = b[k] - A(k - 1) + 0
    BY <1>5, <2>1, <2>2, HoleCells
  <2>4. Len(Clean(r, k, o)) = A(k) - b[k]
    BY <1>5, <2>1, CleanCells
  <2>5. off[k - 1] \in Nat
    BY <1>12, <2>1
  <2>6. /\ off[k] = off[k - 1] + Len(Hole(r, k, o)) + Len(Clean(r, k, o))
        /\ Holds(q, off[k - 1], Hole(r, k, o))
        /\ Holds(q, off[k - 1] + Len(Hole(r, k, o)), Clean(r, k, o))
    BY <1>9, <2>1 DEF Layout
  <2>7. Len(Hole(r, k, o)) = b[k] - A(k - 1)
    <3>1. A(k - 1) \in Nat /\ b[k] \in Nat
      BY <1>11
    <3>2. QED
      BY <2>3, <3>1
  <2>8. QED
    BY <2>4, <2>5, <2>6, <2>7
<1> DEFINE S == {k \in 0 .. n : off[k] = A(k)
                               /\ \A i \in 1 .. Len(p) : i <= A(k) => q[i] = p[i]}
<1> HIDE DEF A
<1>14. 0 \in S
  BY <1>10, <1>12
<1>15. ASSUME NEW k \in 1 .. n, k - 1 \in S PROVE k \in S
  <2>1. off[k - 1] = A(k - 1) /\ \A i \in 1 .. Len(p) : i <= A(k - 1) => q[i] = p[i]
    BY <1>15
  <2>2. off[k] = A(k)
    <3>1. off[k] = A(k - 1) + (b[k] - A(k - 1)) + (A(k) - b[k])
      BY <1>13, <2>1
    <3>2. A(k - 1) \in Nat /\ A(k) \in Nat /\ b[k] \in Nat
      BY <1>11
    <3>3. QED
      BY <3>1, <3>2
  <2>3. off[k - 1] + Len(Hole(r, k, o)) = b[k]
    <3>1. Len(Hole(r, k, o)) = b[k] - A(k - 1)
      BY <1>13
    <3>2. A(k - 1) \in Nat /\ b[k] \in Nat
      BY <1>11
    <3>3. QED
      BY <2>1, <3>1, <3>2
  <2>4. ASSUME NEW i \in 1 .. Len(p), i <= A(k) PROVE q[i] = p[i]
    <3>1. CASE i <= A(k - 1)
      BY <2>1, <3>1
    <3>2. CASE A(k - 1) < i /\ i <= b[k]
      <4>1. PICK j \in 1 .. b[k] - A(k - 1) : i = A(k - 1) + j
        <5>1. i - A(k - 1) \in 1 .. b[k] - A(k - 1) /\ i = A(k - 1) + (i - A(k - 1))
          BY <1>11, <3>2
        <5>2. QED
          BY <5>1
      <4>2. q[i] = Hole(r, k, o)[j]
        BY <1>13, <2>1, <4>1 DEF Holds
      <4>3. Hole(r, k, o)[j] = r[A(k - 1) + j]
        <5>1. k \in 1 .. Len(Bofs(r))
          BY <1>2, <1>5
        <5>2. QED
          BY <1>5, <1>7, <4>1, <5>1, HoleCells DEF A
      <4>4. Byte(r[i]) # BOF /\ r[i] = Byte(p[i])
        <5>1. i \in A(k - 1) + 1 .. b[k]
          BY <1>11, <3>2
        <5>2. QED
          BY <1>4, <1>11, <5>1
      <4>5. Byte(p[i]) # BOF
        BY <1>3, <2>4, <4>4, RawCells
      <4>6. QED
        BY <4>1, <4>2, <4>3, <4>4, <4>5, ByteFree
    <3>3. CASE i = b[k] + 1
      <4>1. 1 \in 1 .. Len(Clean(r, k, o))
        BY <1>11, <1>13, <3>3, <2>4
      <4>2. q[b[k] + 1] = Clean(r, k, o)[1]
        BY <1>13, <2>3, <4>1 DEF Holds
      <4>3. Clean(r, k, o)[1] = BOF + Ctl
        <5>1. k \in 1 .. Len(Bofs(r))
          BY <1>2, <1>5
        <5>2. QED
          BY <1>5, <1>7, <5>1, CleanCells
      <4>4. p[i] = BOF + Ctl
        <5>1. b[k] \in Range(b)
          <6>1. k \in DOMAIN b
            BY <1>2, <1>10
          <6>2. QED
            BY <6>1 DEF Range
        <5>2. PICK j \in DOMAIN p : p[j] >= Ctl /\ b[k] = j - 1
          BY <1>1, <5>1 DEF BofsMarked
        <5>3. j = i /\ p[i] \in Cells
          BY <3>3, <5>2
        <5>4. QED
          BY <5>2, <5>3, Sizes0 DEF Cells
      <4>5. QED
        BY <3>3, <4>2, <4>3, <4>4
    <3>4. CASE b[k] + 1 < i
      <4>1. PICK j \in 2 .. A(k) - b[k] : i = b[k] + j
        <5>1. i - b[k] \in 2 .. A(k) - b[k] /\ i = b[k] + (i - b[k])
          BY <1>11, <2>4, <3>4
        <5>2. QED
          BY <5>1
      <4>2. k \in 1 .. Len(Bofs(r)) /\ k \in 1 .. Len(Bofs(p))
        BY <1>1, <1>2, <1>5
      <4>3. PICK f : f = FileAt(r, k)
        OBVIOUS
      <4>4. Len(f) = A(k) - b[k] /\ Holds(r, b[k], f)
        BY <1>5, <4>2, <4>3, FileAtFile DEF A
      <4>5. Clean(r, k, o)[j] = f[j]
        BY <1>5, <1>7, <4>1, <4>2, <4>3, <4>4, CleanCells
      <4>6. j \in 1 .. A(k) - b[k]
        OBVIOUS
      <4>7. f[j] = r[i]
        BY <4>1, <4>4, <4>6 DEF Holds
      <4>8. q[i] = Clean(r, k, o)[j]
        BY <1>13, <2>3, <4>1, <4>6 DEF Holds
      <4>9. p[i] \in 0 .. Base - 1
        <5>1. After(p, b, k) = A(k)
          <6>1. WholeFile(p, b[k]) /\ WholeFile(r, b[k]) /\ After(p, b, k) = End(p, b[k])
            BY <1>1, <1>5, <4>2, WholeFiles
          <6>2. A(k) = End(r, b[k])
            BY <1>5, <4>2, WholeFiles DEF A
          <6>3. End(r, b[k]) = End(p, b[k])
            BY <1>1, <1>3, <4>2, RawFiles
          <6>4. QED
            BY <6>1, <6>2, <6>3
        <5>2. i \in b[k] + 2 .. A(k)
          BY <1>11, <2>4, <3>4
        <5>3. QED
          BY <1>1, <4>2, <5>1, <5>2, BytesOnly
      <4>10. QED
        BY <1>4, <4>5, <4>7, <4>8, <4>9, ByteTwice
    <3>5. A(k - 1) \in Nat /\ b[k] \in Nat /\ i \in Nat
      BY <1>11
    <3>6. \/ i <= A(k - 1) \/ (A(k - 1) < i /\ i <= b[k])
          \/ i = b[k] + 1 \/ b[k] + 1 < i
      BY <3>5
    <3>7. QED
      BY <3>1, <3>2, <3>3, <3>4, <3>6
  <2>5. QED
    BY <2>2, <2>4
<1>16. n \in S
  <2> HIDE DEF S
  <2>1. \A k \in 0 .. n : k \in S
    BY <1>14, <1>15, Inductive
  <2>2. QED
    BY <2>1
<1>17. off[n] = A(n) /\ A(n) \in Nat /\ A(n) <= Len(p)
       /\ \A i \in 1 .. Len(p) : i <= A(n) => q[i] = p[i]
  <2>1. n \in 0 .. n
    OBVIOUS
  <2>2. QED
    BY <1>4, <1>10, <1>16, <2>1
<1>18. Len(Rest(r, o)) = Len(p) - A(n) /\ \A j \in 1 .. Len(Rest(r, o)) : Rest(r, o)[j] = r[A(n) + j]
  BY <1>2, <1>4, <1>5, <1>7, RestCells DEF A
<1>19. Len(q) = Len(p)
  BY <1>4, <1>12, <1>17, <1>18
<1>20. ASSUME NEW i \in 1 .. Len(p) PROVE q[i] = p[i]
  <2>1. CASE i <= A(n)
    BY <1>17, <2>1
  <2>2. CASE ~(i <= A(n))
    <3>1. PICK j \in 1 .. Len(p) - A(n) : i = A(n) + j
      <4>1. i - A(n) \in 1 .. Len(p) - A(n) /\ i = A(n) + (i - A(n))
        BY <1>17, <2>2
      <4>2. QED
        BY <4>1
    <3>2. q[i] = r[i]
      <4>1. j \in 1 .. Len(Rest(r, o))
        BY <1>18
      <4>2. q[off[n] + j] = Rest(r, o)[j]
        BY <1>12, <4>1 DEF Holds
      <4>3. Rest(r, o)[j] = r[A(n) + j]
        BY <1>18, <4>1
      <4>4. off[n] + j = i /\ A(n) + j = i
        BY <1>17, <3>1
      <4>5. QED
        BY <4>2, <4>3, <4>4
    <3>3. Byte(r[i]) # BOF
      <4>1. i \in A(n) + 1 .. Len(r)
        BY <1>4, <1>17, <2>2
      <4>2. QED
        BY <1>2, <1>10, <4>1 DEF Filing, A
    <3>4. Byte(p[i]) # BOF
      BY <1>3, <3>3, RawCells
    <3>5. Byte(p[i]) = p[i]
      BY <3>4, ByteFree
    <3>6. QED
      BY <1>4, <3>2, <3>5
  <2>3. QED
    BY <2>1, <2>2
<1>21. q = p
  BY <1>12, <1>19, <1>20, SeqEqual
<1>22. QED
  BY <1>3, <1>6, <1>9, <1>21

(* Restores in one state.                                                  *)
LEMMA RestoresFromType == ASSUME TypeOK PROVE Restores
BY Restored DEF TypeOK, Restores

-----------------------------------------------------------------------------
(* Finding files, and the buffer.                                          *)

(* Min gives the least of a set of numbers.                                *)
LEMMA LeastExists ==
  ASSUME NEW S \in SUBSET Nat, S # {}
  PROVE  Min(S) \in S /\ \A y \in S : Min(S) <= y
<1> DEFINE R == OpToRel(<, Nat)
<1>1. PICK x \in S : \A y \in S : ~(<<y, x>> \in R)
  BY NatLessThanWellFounded, WFMin
<1>2. ASSUME NEW y \in S, y < x PROVE <<y, x>> \in R
  <2>1. <<y, x>> \in Nat \X Nat
    OBVIOUS
  <2>2. <<y, x>>[1] < <<y, x>>[2]
    BY <1>2
  <2>3. QED
    BY <2>1, <2>2, Zenon DEF OpToRel
<1> HIDE DEF R
<1>3. ASSUME NEW y \in S PROVE ~(y < x)
  BY <1>1, <1>2, Zenon
<1>4. \A y \in S : x <= y
  BY <1>3
<1>5. QED
  BY <1>4 DEF Min

(* A file that is found is one of the image.                               *)
LEMMA FindFileFinds ==
  ASSUME NEW p \in Seq(Nat), NEW fNum \in Int
  PROVE  \/ FindFile(p, fNum) = -1 /\ ~(fNum < 0 /\ Bofs(p) # <<>>)
         \/ \E k \in 1 .. Len(Bofs(p)) : FindFile(p, fNum) = Bofs(p)[k]
<1>1. PICK b : b = Bofs(p)
  OBVIOUS
<1>2. PICK n \in Nat : n = Len(b)
  <2>1. Filing(p, b)
    BY <1>1, BofsFiling
  <2>2. QED
    BY <2>1 DEF Filing
<1> DEFINE I == {i \in 1 .. n : Num(p, b[i]) = fNum}
           found == IF I # {} THEN Min(I) ELSE 0
<1>3. FindFile(p, fNum) = IF found > 0 THEN b[found]
                          ELSE IF fNum < 0 /\ b # <<>> THEN b[Len(b)] ELSE -1
  BY <1>1, <1>2, Zenon DEF FindFile, SelectInSeq
<1>4. CASE found > 0
  <2>1. I # {} /\ I \in SUBSET Nat
    BY <1>4
  <2>2. Min(I) \in I
    BY <2>1, LeastExists
  <2>3. found \in 1 .. n
    BY <2>1, <2>2
  <2> HIDE DEF found
  <2>4. QED
    BY <1>1, <1>2, <1>3, <1>4, <2>3
<1>5. CASE ~(found > 0)
  <2> HIDE DEF found
  <2>1. CASE fNum < 0 /\ b # <<>>
    <3>1. b \in Seq(Nat)
      BY <1>1, BofsFiling DEF Filing
    <3>2. n \in 1 .. n
      BY <1>2, <2>1, <3>1
    <3>3. FindFile(p, fNum) = b[n]
      BY <1>2, <1>3, <1>5, <2>1
    <3>4. QED
      BY <1>1, <1>2, <3>2, <3>3
  <2>2. CASE ~(fNum < 0 /\ b # <<>>)
    BY <1>1, <1>3, <1>5, <2>2
  <2>3. QED
    BY <2>1, <2>2
<1>6. QED
  BY <1>4, <1>5

(* A buffer that grows holds what it grows for.                            *)
LEMMA GrownIs == ASSUME NEW s \in Nat, NEW n \in Nat PROVE Grown(s, n) \in Nat /\ Grown(s, n) >= n
<1>1. Grow \in Nat /\ Grow > 0
  BY Sizes0
<1>2. CASE n <= s
  BY <1>2 DEF Grown
<1>3. CASE ~(n <= s)
  <2>1. s + Grow * ((n - s + Grow - 1) \div Grow) >= n
    BY <1>1, <1>3
  <2>2. (n - s + Grow - 1) \div Grow \in Nat
    BY <1>1, <1>3
  <2>3. Grow * ((n - s + Grow - 1) \div Grow) \in Nat
    BY <1>1, <2>2
  <2>4. s + Grow * ((n - s + Grow - 1) \div Grow) \in Nat
    BY <2>3
  <2>5. QED
    BY <1>3, <2>1, <2>4 DEF Grown
<1>4. QED
  BY <1>2, <1>3

LEMMA ByteSeqs == ASSUME NEW s \in Seq(0 .. Base - 1) PROVE s \in Seq(Cells)
<1>1. 0 .. Base - 1 \subseteq Cells
  BY DEF Cells
<1>2. QED
  BY <1>1, WiderSeq

(* A file as it is marked: nothing in it but the first cell, and maybe its *)
(* header, looks like a BOF.                                               *)
LEMMA EmptyFileCells ==
  ASSUME NEW num \in Nat, NEW space \in Nat
  PROVE  /\ EmptyFile(num, space) \in Seq(Cells)
         /\ Len(EmptyFile(num, space)) = Content(0) + (space + 1) * 2 + space \div 2
         /\ EmptyFile(num, space)[1] = BOF + Ctl
         /\ \A i \in Content(0) + 1 .. Len(EmptyFile(num, space)) : EmptyFile(num, space)[i] = 0
         /\ Space(EmptyFile(num, space), 0) \in 0 .. space
<1>0. HdrWords \in Nat /\ HdrWords >= 4 /\ Content(0) = 1 + 2 * HdrWords + 2 /\ Content(0) \in Nat
  BY Sizes0 DEF Content, HdrSum
<1>1. PICK c \in Nat : /\ c = Content(0) /\ c = 1 + 2 * (HdrWords + 1)
                       /\ HdrWords \in Nat /\ HdrWords >= 4
  <2>1. Content(0) = 1 + 2 * (HdrWords + 1)
    BY <1>0
  <2>2. QED
    BY <1>0, <2>1
<1>2. PICK m \in Nat : m = HdrWords - 4
  BY <1>1
<1>3. PICK four \in Seq(Nat) : four = <<num, 0, 0, space>> /\ Len(four) = 4 /\ four[4] = space
  <2>1. <<num, 0, 0, space>> \in Seq(Nat) /\ Len(<<num, 0, 0, space>>) = 4
        /\ <<num, 0, 0, space>>[4] = space
    OBVIOUS
  <2>2. QED
    BY <2>1
<1>4. PICK z \in Seq(Nat) : z = Zeroes(m) /\ Len(z) = m
  BY ZeroCells
<1>5. PICK header \in Seq(Nat) : header = four \o z /\ Len(header) = HdrWords /\ header[4] = space
  <2>1. /\ four \o z \in Seq(Nat) /\ Len(four \o z) = Len(four) + Len(z)
        /\ \A j \in 1 .. Len(four) : (four \o z)[j] = four[j]
    BY OnePieceMore
  <2>2. 4 \in 1 .. Len(four)
    BY <1>3
  <2>3. (four \o z)[4] = space
    BY <1>3, <2>1, <2>2
  <2>4. Len(four \o z) = HdrWords
    BY <1>1, <1>2, <1>3, <1>4, <2>1
  <2>5. QED
    BY <2>1, <2>3, <2>4
<1>6. PICK sum \in Nat : sum = Sum(header) % (Base * Base)
  <2>1. Sum(header) \in Nat /\ Base * Base \in Nat /\ Base * Base > 0
    BY SumOfNumbers, Sizes0
  <2>2. Sum(header) % (Base * Base) \in Nat
    BY <2>1
  <2>3. QED
    BY <2>2
<1>7. PICK ws \in Seq(Nat) : ws = header \o <<sum>> /\ Len(ws) = HdrWords + 1 /\ ws[4] = space
  <2>1. PICK one \in Seq(Nat) : one = <<sum>> /\ Len(one) = 1
    <3>1. <<sum>> \in Seq(Nat) /\ Len(<<sum>>) = 1
      OBVIOUS
    <3>2. QED
      BY <3>1
  <2>2. /\ header \o one \in Seq(Nat) /\ Len(header \o one) = Len(header) + Len(one)
        /\ \A j \in 1 .. Len(header) : (header \o one)[j] = header[j]
    BY OnePieceMore
  <2>3. 4 \in 1 .. Len(header)
    BY <1>1, <1>5
  <2>4. (header \o one)[4] = space
    BY <1>5, <2>2, <2>3
  <2>5. QED
    BY <1>5, <2>1, <2>2, <2>4
<1>8. PICK bytes \in Seq(Cells) : /\ bytes = BytesOf(ws) /\ Len(bytes) = 2 * (HdrWords + 1)
                                  /\ bytes[7] = space % Base
                                  /\ bytes[8] = (space \div Base) % Base
  <2>1. /\ BytesOf(ws) \in Seq(0 .. Base - 1) /\ Len(BytesOf(ws)) = 2 * Len(ws)
        /\ \A k \in 1 .. Len(ws) : /\ BytesOf(ws)[2 * k - 1] = ws[k] % Base
                                   /\ BytesOf(ws)[2 * k] = (ws[k] \div Base) % Base
    BY BytesOfCells
  <2>2. 4 \in 1 .. Len(ws)
    BY <1>1, <1>7
  <2>3. BytesOf(ws)[2 * 4 - 1] = ws[4] % Base /\ BytesOf(ws)[2 * 4] = (ws[4] \div Base) % Base
    BY <2>1, <2>2
  <2>7. 2 * 4 - 1 = 7 /\ 2 * 4 = 8
    OBVIOUS
  <2>8. ws[4] = space
    BY <1>7
  <2>4. BytesOf(ws)[7] = space % Base /\ BytesOf(ws)[8] = (space \div Base) % Base
    BY <2>3, <2>7, <2>8
  <2>5. BytesOf(ws) \in Seq(Cells)
    BY <2>1, ByteSeqs
  <2>6. QED
    BY <1>7, <2>1, <2>4, <2>5
<1>9. PICK l \in Nat : l = (space + 1) * 2 + space \div 2
  OBVIOUS
<1>10. PICK tail \in Seq(Cells) : /\ tail = Zeroes(l) /\ Len(tail) = l
                                  /\ \A i \in 1 .. l : tail[i] = 0
  BY ZeroCells
<1>11. PICK bof \in Seq(Cells) : bof = <<BOF + Ctl>> /\ Len(bof) = 1 /\ bof[1] = BOF + Ctl
  <2>1. PICK x \in Cells : x = BOF + Ctl
    BY DEF Cells
  <2>2. <<x>> \in Seq(Cells) /\ Len(<<x>>) = 1 /\ <<x>>[1] = x
    OBVIOUS
  <2>3. QED
    BY <2>1, <2>2
<1>12. EmptyFile(num, space) = (bof \o bytes) \o tail
  <2>1. header = <<num, 0, 0, space>> \o Zeroes(HdrWords - 4)
    BY <1>2, <1>3, <1>4, <1>5
  <2>2. BytesOf(header \o <<Sum(header) % (Base * Base)>>) = bytes
    BY <1>6, <1>7, <1>8
  <2>3. QED
    BY <1>9, <1>10, <1>11, <2>1, <2>2 DEF EmptyFile
<1>13. PICK h \in Seq(Cells) :
         /\ h = bof \o bytes /\ Len(h) = c /\ h[1] = BOF + Ctl
         /\ h[8] = space % Base /\ h[9] = (space \div Base) % Base
  <2>1. /\ bof \o bytes \in Seq(Cells) /\ Len(bof \o bytes) = Len(bof) + Len(bytes)
        /\ \A j \in 1 .. Len(bof) : (bof \o bytes)[j] = bof[j]
        /\ \A j \in 1 .. Len(bytes) : (bof \o bytes)[Len(bof) + j] = bytes[j]
    BY OnePieceMore
  <2>2. 7 \in 1 .. Len(bytes) /\ 8 \in 1 .. Len(bytes) /\ 1 \in 1 .. Len(bof)
    BY <1>1, <1>8, <1>11
  <2>3. /\ (bof \o bytes)[1] = BOF + Ctl
        /\ (bof \o bytes)[8] = bytes[7] /\ (bof \o bytes)[9] = bytes[8]
    BY <1>11, <2>1, <2>2
  <2>4. Len(bof \o bytes) = c
    <3>1. Len(bof \o bytes) = 1 + 2 * (HdrWords + 1)
      BY <1>8, <1>11, <2>1
    <3>2. QED
      BY <1>1, <3>1
  <2>5. QED
    BY <1>8, <2>1, <2>3, <2>4
<1>14. PICK e \in Seq(Cells) :
         /\ e = EmptyFile(num, space) /\ Len(e) = c + l
         /\ \A j \in 1 .. c : e[j] = h[j]
         /\ \A j \in 1 .. l : e[c + j] = 0
  <2>1. /\ h \o tail \in Seq(Cells) /\ Len(h \o tail) = Len(h) + Len(tail)
        /\ \A j \in 1 .. Len(h) : (h \o tail)[j] = h[j]
        /\ \A j \in 1 .. Len(tail) : (h \o tail)[Len(h) + j] = tail[j]
    BY OnePieceMore
  <2>2. EmptyFile(num, space) = h \o tail
    BY <1>12, <1>13
  <2>3. Len(h) = c /\ Len(tail) = l /\ \A i \in 1 .. l : tail[i] = 0
    BY <1>10, <1>13
  <2>4. PICK e \in Seq(Cells) : e = h \o tail
    BY <2>1
  <2>5. /\ Len(e) = c + l /\ \A j \in 1 .. c : e[j] = h[j]
        /\ \A j \in 1 .. l : e[c + j] = 0
    BY <2>1, <2>3, <2>4
  <2>6. QED
    BY <2>2, <2>4, <2>5
<1>15. e[1] = BOF + Ctl /\ e[8] = space % Base /\ e[9] = (space \div Base) % Base
  <2>1. 1 \in 1 .. c /\ 8 \in 1 .. c /\ 9 \in 1 .. c
    BY <1>1
  <2>2. QED
    BY <1>13, <1>14, <2>1
<1>16. ASSUME NEW i \in c + 1 .. Len(e) PROVE e[i] = 0
  <2>1. PICK j \in 1 .. l : i = c + j
    <3>1. i - c \in 1 .. l /\ i = c + (i - c)
      BY <1>1, <1>14, SMTT(20)
    <3>2. QED
      BY <3>1
  <2>2. QED
    BY <1>14, <2>1
<1>17. Space(e, 0) \in 0 .. space
  <2>1. e[7 + 1] = space % Base /\ e[7 + 2] = (space \div Base) % Base
    BY <1>15
  <2>2. Word(e, 7) \in 0 .. space
    BY <2>1, WordOfBytes
  <2>3. Space(e, 0) = Word(e, 7)
    BY DEF Space
  <2>4. QED
    BY <2>2, <2>3
<1>18. Len(e) = Content(0) + (space + 1) * 2 + space \div 2
  <2>1. Len(e) = Content(0) + ((space + 1) * 2 + space \div 2)
    BY <1>1, <1>9, <1>14
  <2>2. Content(0) \in Nat /\ (space + 1) * 2 \in Nat /\ space \div 2 \in Nat
    BY <1>1
  <2>3. QED
    BY <2>1, <2>2
<1>19. QED
  BY <1>1, <1>14, <1>15, <1>16, <1>17, <1>18

-----------------------------------------------------------------------------
(* Shifting makes the buffer no smaller.                                   *)

(* The shifts of a cleanup leave a size.                                   *)
LEMMA ShiftedSize ==
  ASSUME NEW p \in Seq(Cells), Whole(p), NEW s \in Nat
  PROVE  Shifts(p, s).size \in Nat
<1> DEFINE n == Len(Bofs(p))
           Next1(k, before) ==
             LET more == Needed(p, k)
                 end  == Bofs(p)[k] + before.more + more
                 room == IF end >= before.size THEN before.size + Grow ELSE before.size
             IN IF more = 0 THEN before
                ELSE [more   |-> before.more + more,
                      size   |-> room,
                      inside |-> before.inside /\ Len(p) + before.more + more <= room]
           Body(f) == [k \in 0 .. n |->
                        IF k = 0 THEN [more |-> 0, size |-> s, inside |-> TRUE]
                        ELSE Next1(k, f[k - 1])]
           shifted == CHOOSE f : f = Body(f)
           V == [more : Nat, size : Nat, inside : BOOLEAN]
<1>1. n \in Nat
  BY WholeFiles
<1>2. ASSUME NEW k \in 1 .. n, NEW before \in V PROVE Next1(k, before) \in V
  <2>1. PICK more \in Nat : more = Needed(p, k)
    BY NeededIs
  <2>2. Grow \in Nat
    BY Sizes0
  <2> DEFINE end  == Bofs(p)[k] + before.more + more
             room == IF end >= before.size THEN before.size + Grow ELSE before.size
             ins  == before.inside /\ Len(p) + before.more + more <= room
  <2>3. room \in Nat /\ before.more + more \in Nat
    <3> HIDE DEF end
    <3>1. QED
      BY <2>2
  <2>4. ins \in BOOLEAN
    BY Zenon
  <2>5. Next1(k, before) = IF more = 0 THEN before
                          ELSE [more |-> before.more + more, size |-> room, inside |-> ins]
    BY <2>1, Zenon
  <2> HIDE DEF Next1, room, ins
  <2>6. QED
    BY <2>3, <2>4, <2>5
<1>3. \E f : f = Body(f)
  <2> HIDE DEF n
  <2> DEFINE step == [k \in 1 .. n |-> [before \in V |-> Next1(k, before)]]
             base == [more |-> 0, size |-> s, inside |-> TRUE]
  <2>1. base \in V
    OBVIOUS
  <2> HIDE DEF V
  <2>2. step \in [1 .. n -> [V -> V]]
    <3> HIDE DEF Next1
    <3>1. QED
      BY <1>2
  <2>3. \A k \in 1 .. n : \A before \in V : step[k][before] = Next1(k, before)
    <3> HIDE DEF Next1
    <3>1. QED
      OBVIOUS
  <2> HIDE DEF step, base
  <2>4. PICK f : Steps(f, n, V, base, step)
    BY <1>1, <2>1, <2>2, Recursive
  <2>5. ASSUME NEW k \in 1 .. n PROVE f[k] = Next1(k, f[k - 1])
    <3> HIDE DEF Next1
    <3>1. k - 1 \in 0 .. n
      BY <1>1
    <3>2. f[k - 1] \in V /\ f[k] = step[k][f[k - 1]]
      BY <2>4, <3>1 DEF Steps
    <3>3. QED
      BY <2>3, <3>2
  <2>6. f \in [0 .. n -> V] /\ f[0] = base
    BY <2>4 DEF Steps
  <2>7. ASSUME NEW k \in 0 .. n PROVE f[k] = IF k = 0 THEN base ELSE Next1(k, f[k - 1])
    <3>1. k = 0 \/ k \in 1 .. n
      BY <1>1
    <3> HIDE DEF Next1
    <3>2. QED
      BY <2>5, <2>6, <3>1
  <2> HIDE DEF Next1
  <2>8. f = Body(f)
    BY <2>6, <2>7 DEF base
  <2> HIDE DEF Body
  <2>9. QED
    BY <2>8
<1>4. shifted = Body(shifted)
  <2> HIDE DEF Body
  <2>1. QED
    BY <1>3
<1>5. Shifts(p, s) = shifted[n]
  BY Zenon DEF Shifts
<1> HIDE DEF shifted
<1> DEFINE first == [more |-> 0, size |-> s, inside |-> TRUE]
<1>6. shifted[0] = first /\ \A k \in 1 .. n : shifted[k] = Next1(k, shifted[k - 1])
  <2>1. ASSUME NEW k \in 0 .. n
        PROVE  shifted[k] = IF k = 0 THEN first ELSE Next1(k, shifted[k - 1])
    <3> HIDE DEF n, Next1
    <3>1. QED
      BY <1>4, Zenon
  <2> HIDE DEF n, Body, Next1, first
  <2>2. QED
    BY <1>1, <2>1
<1> HIDE DEF Body, n
<1> DEFINE S == {k \in 0 .. n : shifted[k] \in V}
<1>7. \A k \in 0 .. n : k \in S
  <2>1. 0 \in S
    <3>1. first \in V
      OBVIOUS
    <3> HIDE DEF V, first
    <3>2. QED
      BY <1>1, <1>6, <3>1
  <2> HIDE DEF V, Next1
  <2>2. ASSUME NEW k \in 1 .. n, k - 1 \in S PROVE k \in S
    <3>1. shifted[k] \in V
      BY <1>2, <1>6, <2>2
    <3>2. QED
      BY <1>1, <3>1
  <2> HIDE DEF S
  <2>3. QED
    BY <1>1, <2>1, <2>2, Inductive
<1>8. shifted[n] \in V
  BY <1>1, <1>7
<1>9. QED
  BY <1>5, <1>8

-----------------------------------------------------------------------------
(* mark.                                                                   *)

EmptyFiles(num, n, fSpace) ==
  [i \in 1 .. n + 1 |-> EmptyFile(num + i - 1, IF i = n + 1 THEN EotSpace ELSE fSpace)]

LEMMA EmptyFilesCells ==
  ASSUME NEW num \in Nat, NEW n \in Nat, NEW fSpace \in Nat
  PROVE  /\ FlattenSeq(EmptyFiles(num, n, fSpace)) \in Seq(Cells)
         /\ n = 0 => FlattenSeq(EmptyFiles(num, n, fSpace)) = EmptyFile(num, EotSpace)
<1>1. PICK s : s = EmptyFiles(num, n, fSpace)
  OBVIOUS
<1>2. ASSUME NEW i \in 1 .. n + 1
      PROVE  EmptyFile(num + i - 1, IF i = n + 1 THEN EotSpace ELSE fSpace) \in Seq(Cells)
  <2>1. num + i - 1 \in Nat /\ (IF i = n + 1 THEN EotSpace ELSE fSpace) \in Nat
    BY Sizes0
  <2>2. QED
    BY <2>1, EmptyFileCells
<1>3. s \in Seq(Seq(Cells)) /\ Len(s) = n + 1
      /\ s[n + 1] = EmptyFile(num + (n + 1) - 1, EotSpace)
  BY <1>1, <1>2 DEF EmptyFiles
<1>4. FlattenSeq(s) \in Seq(Cells)
  BY <1>3, Flattening
<1>5. ASSUME n = 0 PROVE FlattenSeq(s) = EmptyFile(num, EotSpace)
  <2>1. PICK off : Laid(s, FlattenSeq(s), off)
    BY <1>3, Flattening
  <2>2. num + (n + 1) - 1 = num /\ 1 - 1 = 0
    BY <1>5
  <2>3. Len(s) = 1 /\ s[1] = EmptyFile(num, EotSpace)
    BY <1>3, <1>5, <2>2
  <2>4. PICK e \in Seq(Cells) : e = EmptyFile(num, EotSpace) /\ e = s[1]
    BY <1>2, <1>5, <2>2, <2>3, EmptyFileCells, Sizes0
  <2>5. 1 \in 1 .. Len(s)
    BY <2>3
  <2>6. off[1] = off[0] + Len(e) /\ off[0] = 0 /\ Len(FlattenSeq(s)) = off[1]
        /\ \A j \in 1 .. Len(e) : FlattenSeq(s)[off[0] + j] = e[j]
    BY <2>1, <2>2, <2>3, <2>4, <2>5 DEF Laid
  <2>7. Len(FlattenSeq(s)) = Len(e) /\ \A j \in 1 .. Len(e) : FlattenSeq(s)[j] = e[j]
    BY <2>4, <2>6
  <2>8. FlattenSeq(s) = e
    BY <1>4, <2>4, <2>7, SeqEqual
  <2>9. QED
    BY <2>4, <2>8
<1>6. QED
  BY <1>1, <1>4, <1>5

(* The file that is marked over, if there is one.                          *)
LEMMA FoundFile ==
  ASSUME NEW p \in Seq(Cells), Whole(p), NEW fNum \in Int
  PROVE  \/ FindFile(p, fNum) = -1 /\ ~(fNum < 0 /\ Bofs(p) # <<>>)
         \/ /\ FindFile(p, fNum) \in Nat
            /\ Content(FindFile(p, fNum)) <= Len(p)
            /\ Num(p, FindFile(p, fNum)) \in Nat
<1>1. p \in Seq(Nat)
  BY SeqCells
<1>2. ASSUME NEW k \in 1 .. Len(Bofs(p))
      PROVE  /\ Bofs(p)[k] \in Nat /\ Content(Bofs(p)[k]) <= Len(p)
             /\ Num(p, Bofs(p)[k]) \in Nat
  <2>1. Bofs(p)[k] \in Nat /\ Content(Bofs(p)[k]) <= Len(p)
    BY WholeFiles DEF WholeFile
  <2>2. QED
    BY <1>1, <2>1, FieldsAreNumbers
<1>3. QED
  BY <1>1, <1>2, FindFileFinds

(* Marking an image of cells gives one.                                    *)
LEMMA MarkedCells ==
  ASSUME NEW p \in Seq(Cells), Whole(p),
         NEW numFiles \in Nat \cup {-1}, NEW fSpace \in Nat, NEW fNum \in Int
  PROVE  Marked(p, numFiles, fSpace, fNum) \in Seq(Cells)
<1>1. PICK found : found = FindFile(p, fNum)
  OBVIOUS
<1>2. found = -1 \/ (found \in Nat /\ Content(found) <= Len(p) /\ Num(p, found) \in Nat)
  BY <1>1, FoundFile
<1>3. CASE found < 0 /\ fNum >= 0
  BY <1>1, <1>3 DEF Marked
<1>4. CASE ~(found < 0 /\ fNum >= 0)
  <2>1. PICK q : q = IF found < 0 THEN Put(p, 0, Zeroes(BotPadding)) ELSE p
    OBVIOUS
  <2>2. PICK num : num = IF found < 0 THEN 0
                         ELSE Num(p, found) + (IF numFiles < 0 THEN 1 ELSE 0)
    OBVIOUS
  <2>3. PICK at : at = IF numFiles < 0 THEN Len(q)
                       ELSE IF found < 0 THEN BotPadding ELSE found
    OBVIOUS
  <2>4. PICK n : n = IF numFiles < 0 THEN 0 ELSE numFiles
    OBVIOUS
  <2>5. Marked(p, numFiles, fSpace, fNum) = Put(q, at, FlattenSeq(EmptyFiles(num, n, fSpace)))
    BY <1>1, <1>4, <2>1, <2>2, <2>3, <2>4, Zenon DEF Marked, EmptyFiles
  <2>6. num \in Nat /\ n \in Nat
    BY <1>2, <2>2, <2>4
  <2>7. /\ q \in Seq(Cells) /\ Len(q) \in Nat
        /\ found < 0 => Len(q) >= BotPadding
        /\ ~(found < 0) => q = p
    <3>1. CASE found < 0
      <4>1. PICK z \in Seq(Cells) : z = Zeroes(BotPadding) /\ Len(z) = BotPadding
        BY ZeroCells, Sizes0
      <4>2. 0 \in Nat /\ 0 <= Len(p) /\ Len(p) \in Nat /\ BotPadding \in Nat
        BY Sizes0
      <4>3. Put(p, 0, z) \in Seq(Cells)
            /\ Len(Put(p, 0, z)) = IF 0 + Len(z) <= Len(p) THEN Len(p) ELSE 0 + Len(z)
        BY <4>2, PutCells
      <4>4. Len(Put(p, 0, z)) >= BotPadding /\ Len(Put(p, 0, z)) \in Nat
        BY <4>1, <4>2, <4>3
      <4>5. QED
        BY <2>1, <3>1, <4>1, <4>3, <4>4
    <3>2. CASE ~(found < 0)
      BY <2>1, <3>2
    <3>3. QED
      BY <3>1, <3>2
  <2>8. at \in Nat /\ at <= Len(q)
    <3>1. CASE numFiles < 0
      BY <2>3, <2>7, <3>1
    <3>2. CASE ~(numFiles < 0) /\ found < 0
      BY <2>3, <2>7, <3>2, Sizes0
    <3>3. CASE ~(numFiles < 0) /\ ~(found < 0)
      <4>1. found \in Nat /\ Content(found) <= Len(p) /\ q = p /\ at = found
        BY <1>2, <2>3, <2>7, <3>3
      <4>2. Content(found) = found + 1 + 2 * HdrWords + 2 /\ HdrWords \in Nat
        BY Sizes0 DEF Content, HdrSum
      <4>3. QED
        BY <2>7, <4>1, <4>2
    <3>4. QED
      BY <3>1, <3>2, <3>3
  <2>9. PICK files1 \in Seq(Cells) : files1 = FlattenSeq(EmptyFiles(num, n, fSpace))
    BY <2>6, EmptyFilesCells
  <2>10. Put(q, at, files1) \in Seq(Cells)
    BY <2>7, <2>8, PutCells
  <2>11. QED
    BY <2>5, <2>9, <2>10
<1>5. QED
  BY <1>3, <1>4

(* A mark of nothing but an EOT file gives an image without files one.     *)
LEMMA FirstMarked ==
  ASSUME NEW p \in Seq(Cells), Bofs(p) = <<>>
  PROVE  /\ Marked(p, 0, 0, -1) \in Seq(Cells)
         /\ Bofs(Marked(p, 0, 0, -1)) = <<BotPadding>>
         /\ Content(BotPadding) <= Len(Marked(p, 0, 0, -1))
<1>1. p \in Seq(Nat) /\ Len(p) \in Nat
  BY SeqCells
<1>2. Filing(p, <<>>)
  BY <1>1, BofsFiling
<1>3. \A i \in 1 .. Len(p) : Byte(p[i]) # BOF
  <2>1. After(p, <<>>, Len(<<>>)) = 0
    BY DEF After
  <2>2. QED
    BY <1>2, <2>1 DEF Filing
<1>4. FindFile(p, -1) = -1
  BY <1>1, FindFileFinds
<1>5. PICK b0 \in Nat : b0 = BotPadding
  BY Sizes0
<1>6. PICK z \in Seq(Cells) : z = Zeroes(b0) /\ Len(z) = b0 /\ \A i \in 1 .. b0 : z[i] = 0
  BY ZeroCells
<1>7. PICK e \in Seq(Cells) :
        /\ e = EmptyFile(0, EotSpace) /\ Len(e) >= Content(0) /\ Len(e) \in Nat
        /\ e[1] = BOF + Ctl /\ \A i \in Content(0) + 1 .. Len(e) : e[i] = 0
  <2>1. EotSpace \in Nat /\ 0 \in Nat /\ Content(0) \in Nat
    BY Sizes0 DEF Content, HdrSum
  <2>2. PICK e \in Seq(Cells) :
          /\ e = EmptyFile(0, EotSpace)
          /\ Len(e) = Content(0) + (EotSpace + 1) * 2 + EotSpace \div 2
          /\ e[1] = BOF + Ctl /\ \A i \in Content(0) + 1 .. Len(e) : e[i] = 0
    BY <2>1, EmptyFileCells
  <2>3. Len(e) >= Content(0) /\ Len(e) \in Nat
    <3>1. (EotSpace + 1) * 2 \in Nat /\ EotSpace \div 2 \in Nat
      BY <2>1
    <3>2. QED
      BY <2>1, <2>2, <3>1
  <2>4. QED
    BY <2>2, <2>3
<1>8. PICK q0 \in Seq(Cells) :
        /\ q0 = Put(p, 0, z) /\ Len(q0) \in Nat /\ Len(q0) >= b0
        /\ \A i \in 1 .. b0 : q0[i] = 0
        /\ \A i \in b0 + 1 .. Len(q0) : i <= Len(p) /\ q0[i] = p[i]
  <2>1. /\ Put(p, 0, z) \in Seq(Cells)
        /\ Len(Put(p, 0, z)) = (IF 0 + Len(z) <= Len(p) THEN Len(p) ELSE 0 + Len(z))
        /\ \A i \in 1 .. Len(z) : Put(p, 0, z)[0 + i] = z[i]
        /\ \A i \in 0 + Len(z) + 1 .. Len(p) : Put(p, 0, z)[i] = p[i]
    BY <1>1, PutCells
  <2>2. PICK q0 \in Seq(Cells) : q0 = Put(p, 0, z)
    BY <2>1
  <2>3. /\ Len(q0) = (IF b0 <= Len(p) THEN Len(p) ELSE b0)
        /\ \A i \in 1 .. b0 : q0[i] = z[i]
        /\ \A i \in b0 + 1 .. Len(p) : q0[i] = p[i]
    BY <1>6, <2>1, <2>2
  <2>4. QED
    BY <1>1, <1>6, <2>2, <2>3
<1>9. PICK q \in Seq(Cells) :
        /\ q = Put(q0, b0, e) /\ Len(q) \in Nat /\ Len(q) >= b0 + Len(e)
        /\ \A i \in 1 .. b0 : q[i] = 0
        /\ \A i \in 1 .. Len(e) : q[b0 + i] = e[i]
        /\ \A i \in b0 + Len(e) + 1 .. Len(q) : i <= Len(p) /\ q[i] = p[i]
  <2>1. /\ Put(q0, b0, e) \in Seq(Cells)
        /\ Len(Put(q0, b0, e)) = (IF b0 + Len(e) <= Len(q0) THEN Len(q0) ELSE b0 + Len(e))
        /\ \A i \in 1 .. b0 : Put(q0, b0, e)[i] = q0[i]
        /\ \A i \in 1 .. Len(e) : Put(q0, b0, e)[b0 + i] = e[i]
        /\ \A i \in b0 + Len(e) + 1 .. Len(q0) : Put(q0, b0, e)[i] = q0[i]
    BY <1>8, PutCells
  <2>2. PICK q \in Seq(Cells) : q = Put(q0, b0, e)
    BY <2>1
  <2>3. Len(q) \in Nat /\ Len(q) >= b0 + Len(e)
    BY <1>7, <1>8, <2>1, <2>2
  <2>4. ASSUME NEW i \in b0 + Len(e) + 1 .. Len(q) PROVE i <= Len(p) /\ q[i] = p[i]
    <3>1. i \in b0 + Len(e) + 1 .. Len(q0)
      BY <1>7, <1>8, <2>1, <2>2
    <3>2. i \in b0 + 1 .. Len(q0)
      BY <1>7, <1>8, <3>1
    <3>3. q[i] = q0[i]
      BY <2>1, <2>2, <3>1
    <3>4. QED
      BY <1>8, <3>2, <3>3
  <2>5. QED
    BY <1>8, <2>1, <2>2, <2>3, <2>4
<1>10. Marked(p, 0, 0, -1) = q
  <2>1. /\ -1 < 0 /\ ~(-1 >= 0) /\ ~(0 < 0)
    OBVIOUS
  <2>2. Marked(p, 0, 0, -1) = Put(q0, b0, FlattenSeq(EmptyFiles(0, 0, 0)))
    BY <1>4, <1>5, <1>6, <1>8, <2>1, Zenon DEF Marked, EmptyFiles
  <2>3. FlattenSeq(EmptyFiles(0, 0, 0)) = e
    BY <1>7, EmptyFilesCells
  <2>4. QED
    BY <1>9, <2>2, <2>3
<1>11. PICK c \in Nat : c = Content(0) /\ Content(b0) = b0 + c /\ c > 0
  <2>1. Content(0) \in Nat /\ Content(b0) = b0 + Content(0) /\ Content(0) > 0
    BY Sizes0 DEF Content, HdrSum
  <2>2. QED
    BY <2>1
<1>12. Content(b0) <= Len(q)
  BY <1>7, <1>9, <1>11
<1>13. After(q, <<b0>>, 1) \in Nat /\ After(q, <<b0>>, 1) >= b0 + c
  <2>1. q \in Seq(Nat)
    BY SeqCells
  <2>2. Space(q, b0) \in Nat /\ End(q, b0) = Content(b0) + 2 * (Space(q, b0) + 1)
    BY <1>12, <2>1, FieldsAreNumbers
  <2>3. After(q, <<b0>>, 1) = End(q, b0)
    BY <1>9, <1>11, <1>12 DEF After, Behind
  <2>4. QED
    BY <1>11, <2>2, <2>3
<1>14. PICK b \in Seq(Nat) : b = <<b0>> /\ Len(b) = 1 /\ b[1] = b0
  <2>1. <<b0>> \in Seq(Nat) /\ Len(<<b0>>) = 1 /\ <<b0>>[1] = b0
    OBVIOUS
  <2>2. QED
    BY <2>1
<1>15. Byte(0) = 0 /\ BOF # 0 /\ Byte(BOF + Ctl) = BOF
  <2>1. BOF + Ctl \in Cells /\ BOF + Ctl >= Base
    BY Sizes0 DEF Cells
  <2>2. QED
    BY <2>1, CellsAreNumbers, ZeroCells
<1>16. Filing(q, b)
  <2>1. After(q, b, 0) = 0 /\ b0 < Len(q) /\ Byte(q[b0 + 1]) = BOF
    <3>1. 1 \in 1 .. Len(e)
      BY <1>7, <1>11
    <3>2. q[b0 + 1] = BOF + Ctl
      BY <1>7, <1>9, <3>1
    <3>3. After(q, b, 0) = 0
      BY DEF After
    <3>4. QED
      BY <1>9, <1>11, <1>12, <1>15, <3>2, <3>3
  <2>2. ASSUME NEW i \in 1 .. b0 PROVE Byte(q[i]) # BOF
    BY <1>9, <1>15
  <2>3. ASSUME NEW i \in After(q, b, 1) + 1 .. Len(q) PROVE Byte(q[i]) # BOF
    <3>1. i \in Nat /\ i > b0 + c /\ i <= Len(q)
      BY <1>9, <1>13, <1>14
    <3>2. CASE i <= b0 + Len(e)
      <4>1. i - b0 \in c + 1 .. Len(e) /\ b0 + (i - b0) = i /\ i - b0 \in 1 .. Len(e)
        BY <1>7, <3>1, <3>2
      <4>2. q[i] = e[i - b0] /\ e[i - b0] = 0
        BY <1>7, <1>9, <1>11, <4>1
      <4>3. QED
        BY <1>15, <4>2
    <3>3. CASE ~(i <= b0 + Len(e))
      <4>1. i \in b0 + Len(e) + 1 .. Len(q)
        BY <1>7, <1>9, <3>1, <3>3
      <4>2. q[i] = p[i] /\ i \in 1 .. Len(p)
        BY <1>1, <1>9, <3>1, <4>1
      <4>3. QED
        BY <1>3, <4>2
    <3>4. QED
      BY <3>2, <3>3
  <2>4. \A k \in 1 .. Len(b) : k = 1 /\ k - 1 = 0
    BY <1>14
  <2>5. QED
    BY <1>14, <2>1, <2>2, <2>3, <2>4 DEF Filing
<1>17. Bofs(q) = b
  BY <1>16, SeqCells, BofsFiling, FilingUnique
<1>18. QED
  BY <1>5, <1>10, <1>12, <1>14, <1>17

-----------------------------------------------------------------------------
(* load.                                                                   *)

(* A tape file's words: its length is the second of them.                  *)
LEMMA StoredWords ==
  ASSUME NEW words \in Seq(Nat)
  PROVE  /\ Stored(words) \in Seq(Nat) /\ Len(Stored(words)) = HdrWords + 2 + Len(words)
         /\ Stored(words)[2] = Len(words)
<1>0. HdrWords \in Nat /\ HdrWords >= 4 /\ Len(words) \in Nat
  BY Sizes0
<1>1. PICK n \in Nat : n = Len(words)
  BY <1>0
<1>2. PICK four \in Seq(Nat) : four = <<0, n, 1, n>> /\ Len(four) = 4 /\ four[2] = n
  <2>1. <<0, n, 1, n>> \in Seq(Nat) /\ Len(<<0, n, 1, n>>) = 4 /\ <<0, n, 1, n>>[2] = n
    OBVIOUS
  <2>2. QED
    BY <2>1
<1>3. PICK z \in Seq(Nat) : z = Zeroes(HdrWords - 4) /\ Len(z) = HdrWords - 4
  <2>1. HdrWords - 4 \in Nat
    BY <1>0
  <2>2. QED
    BY <2>1, ZeroCells
<1>4. PICK one \in Seq(Nat) : one = <<0>> /\ Len(one) = 1
  <2>1. <<0>> \in Seq(Nat) /\ Len(<<0>>) = 1
    OBVIOUS
  <2>2. QED
    BY <2>1
<1>5. PICK a \in Seq(Nat) : a = four \o z /\ Len(a) = HdrWords /\ a[2] = n
  <2>1. 2 \in 1 .. Len(four)
    BY <1>2
  <2>2. four \o z \in Seq(Nat) /\ Len(four \o z) = Len(four) + Len(z) /\ (four \o z)[2] = four[2]
    BY <2>1, OnePieceMore
  <2>3. Len(four \o z) = HdrWords
    BY <1>0, <1>2, <1>3, <2>2
  <2>4. QED
    BY <1>2, <2>2, <2>3
<1>6. PICK b \in Seq(Nat) : b = a \o one /\ Len(b) = HdrWords + 1 /\ b[2] = n
  <2>1. 2 \in 1 .. Len(a)
    BY <1>0, <1>5
  <2>2. a \o one \in Seq(Nat) /\ Len(a \o one) = Len(a) + Len(one) /\ (a \o one)[2] = a[2]
    BY <2>1, OnePieceMore
  <2>3. QED
    BY <1>4, <1>5, <2>2
<1>7. PICK c \in Seq(Nat) : c = b \o words /\ Len(c) = HdrWords + 1 + n /\ c[2] = n
  <2>1. 2 \in 1 .. Len(b)
    BY <1>0, <1>6
  <2>2. b \o words \in Seq(Nat) /\ Len(b \o words) = Len(b) + Len(words)
        /\ (b \o words)[2] = b[2]
    BY <2>1, OnePieceMore
  <2>3. QED
    BY <1>1, <1>6, <2>2
<1>8. PICK d \in Seq(Nat) : d = c \o one /\ Len(d) = HdrWords + 2 + n /\ d[2] = n
  <2>1. 2 \in 1 .. Len(c)
    BY <1>0, <1>7
  <2>2. c \o one \in Seq(Nat) /\ Len(c \o one) = Len(c) + Len(one) /\ (c \o one)[2] = c[2]
    BY <2>1, OnePieceMore
  <2>3. Len(c \o one) = HdrWords + 2 + n
    BY <1>0, <1>4, <1>7, <2>2
  <2>4. QED
    BY <1>7, <2>2, <2>3
<1>9. Stored(words) = d
  BY <1>1, <1>2, <1>3, <1>4, <1>5, <1>6, <1>7, <1>8, Zenon DEF Stored
<1>10. QED
  BY <1>1, <1>8, <1>9

(* Putting a word changes its two cells.                                   *)
LEMMA PutWord ==
  ASSUME NEW p \in Seq(Cells), NEW x \in Nat, x + 2 <= Len(p), NEW w \in Nat
  PROVE  /\ Put(p, x, Bytes(w)) \in Seq(Cells) /\ Len(Put(p, x, Bytes(w))) = Len(p)
         /\ \A i \in 1 .. Len(p) : i # x + 1 /\ i # x + 2 => Put(p, x, Bytes(w))[i] = p[i]
<1>1. PICK b \in Seq(Cells) : b = Bytes(w) /\ Len(b) = 2
  BY BytesAreBytes, ByteSeqs
<1>2. /\ Put(p, x, b) \in Seq(Cells)
      /\ Len(Put(p, x, b)) = (IF x + Len(b) <= Len(p) THEN Len(p) ELSE x + Len(b))
      /\ \A i \in 1 .. x : Put(p, x, b)[i] = p[i]
      /\ \A i \in x + Len(b) + 1 .. Len(p) : Put(p, x, b)[i] = p[i]
  BY PutCells
<1>3. PICK q \in Seq(Cells) : q = Put(p, x, b)
  BY <1>2
<1>4. Len(p) \in Nat
  OBVIOUS
<1>5. ASSUME NEW i \in 1 .. Len(p), i # x + 1, i # x + 2 PROVE q[i] = p[i]
  <2>1. i \in 1 .. x \/ i \in x + 2 + 1 .. Len(p)
    BY <1>4, <1>5
  <2>2. QED
    BY <1>1, <1>2, <1>3, <2>1
<1>6. Len(q) = Len(p)
  BY <1>1, <1>2, <1>3
<1>7. QED
  BY <1>1, <1>3, <1>5, <1>6

(* Checksums of the same cells are the same.                               *)
LEMMA EqualChecksum ==
  ASSUME NEW p, NEW f, NEW x \in Nat, NEW n \in Nat, \A i \in x + 1 .. x + 2 * n : p[i] = f[i]
  PROVE  Checksum(p, x, n) = Checksum(f, x, n)
<1>1. ASSUME NEW k \in 1 .. n PROVE Word(p, x + 2 * (k - 1)) = Word(f, x + 2 * (k - 1))
  <2>1. PICK y \in Nat : y = x + 2 * (k - 1)
    OBVIOUS
  <2>2. y + 1 \in x + 1 .. x + 2 * n /\ y + 2 \in x + 1 .. x + 2 * n
    BY <2>1
  <2>3. p[y + 1] = f[y + 1] /\ p[y + 2] = f[y + 2]
    BY <2>2
  <2>4. Word(p, y) = Word(f, y)
    BY <2>3, Zenon DEF Word
  <2>5. QED
    BY <2>1, <2>4
<1>2. Words(p, x, n) = Words(f, x, n)
  BY <1>1, Zenon DEF Words
<1>3. QED
  BY <1>2, Zenon DEF Checksum

(* A word that was put is read again.                                      *)
LEMMA PutWordRead ==
  ASSUME NEW p \in Seq(Cells), NEW x \in Nat, x + 2 <= Len(p), NEW w \in Nat, w < Base * Base
  PROVE  Word(Put(p, x, Bytes(w)), x) = w
<1>1. PICK b \in Seq(Cells) :
        b = Bytes(w) /\ Len(b) = 2 /\ b[1] = w % Base /\ b[2] = (w \div Base) % Base
  BY BytesAreBytes, ByteSeqs
<1>2. \A i \in 1 .. Len(b) : Put(p, x, b)[x + i] = b[i]
  <2>1. x <= Len(p)
    OBVIOUS
  <2>2. QED
    BY <2>1, PutCells
<1>3. Put(p, x, b)[x + 1] = w % Base /\ Put(p, x, b)[x + 2] = (w \div Base) % Base
  BY <1>1, <1>2
<1>4. QED
  BY <1>1, <1>3, WordOfBytes

(* Writing the checksums of a file in an image makes them right, and writes*)
(* nothing else.                                                           *)
LEMMA SumsPut ==
  ASSUME NEW r \in Seq(Cells), NEW bi \in Nat, Content(bi) <= Len(r), ContentSum(r, bi) + 2 <= Len(r),
         NEW s, s = PutContentChecksum(PutHeaderChecksum(r, bi), bi)
  PROVE  /\ s \in Seq(Cells) /\ Len(s) = Len(r) /\ SumMatches(s, bi)
         /\ \A i \in 1 .. Len(r) : i <= HdrSum(bi) \/ i > ContentSum(r, bi) + 2 => s[i] = r[i]
<1>1. PICK at \in Nat : at = HdrSum(bi) /\ at = bi + 1 + 2 * HdrWords
  BY Sizes0 DEF HdrSum
<1>2. /\ HdrWords \in Nat /\ at >= bi + 9 /\ Len(r) \in Nat /\ at + 2 <= Len(r)
      /\ Content(bi) = at + 2 /\ r \in Seq(Nat) /\ bi + 1 \in Nat /\ bi + 1 + 2 * HdrWords <= Len(r)
  BY <1>1, SeqCells, Sizes0 DEF Content
<1>3. PICK l \in Nat : l = Length(r, bi)
  BY <1>2, FieldsAreNumbers
<1>4. PICK y \in Nat : y = at + 2 + 2 * l /\ y = ContentSum(r, bi) /\ y + 2 <= Len(r)
  BY <1>2, <1>3 DEF ContentSum
<1>5. PICK c \in Nat : c = Checksum(r, bi + 1, HdrWords) /\ c < Base * Base
  <2>1. Checksum(r, bi + 1, HdrWords) \in 0 .. Base * Base - 1
    BY <1>2, SumsAreWords
  <2>2. QED
    BY <2>1, Sizes0
<1>6. PICK h \in Seq(Cells) :
        /\ h = Put(r, at, Bytes(c)) /\ Len(h) = Len(r) /\ Word(h, at) = c
        /\ \A i \in 1 .. Len(r) : i # at + 1 /\ i # at + 2 => h[i] = r[i]
  <2>1. /\ Put(r, at, Bytes(c)) \in Seq(Cells) /\ Len(Put(r, at, Bytes(c))) = Len(r)
        /\ \A i \in 1 .. Len(r) : i # at + 1 /\ i # at + 2 => Put(r, at, Bytes(c))[i] = r[i]
    BY <1>2, <1>5, PutWord
  <2>2. Word(Put(r, at, Bytes(c)), at) = c
    BY <1>2, <1>5, PutWordRead
  <2>3. QED
    BY <2>1, <2>2
<1>7. Length(h, bi) = l
  <2>1. /\ bi + 3 + 1 \in 1 .. Len(r) /\ bi + 3 + 1 # at + 1 /\ bi + 3 + 1 # at + 2
        /\ bi + 3 + 2 \in 1 .. Len(r) /\ bi + 3 + 2 # at + 1 /\ bi + 3 + 2 # at + 2
    BY <1>2
  <2>2. h[bi + 3 + 1] = r[bi + 3 + 1] /\ h[bi + 3 + 2] = r[bi + 3 + 2]
    BY <1>6, <2>1
  <2>3. QED
    BY <1>3, <2>2, Zenon DEF Length, Word
<1>8. PICK d \in Nat : d = Checksum(h, at + 2, l) /\ d < Base * Base
  <2>1. h \in Seq(Nat) /\ at + 2 \in Nat /\ at + 2 + 2 * l <= Len(h)
    BY <1>2, <1>4, <1>6, SeqCells
  <2>2. Checksum(h, at + 2, l) \in 0 .. Base * Base - 1
    BY <2>1, SumsAreWords
  <2>3. QED
    BY <2>2, Sizes0
<1>9. PICK g \in Seq(Cells) :
        /\ g = Put(h, y, Bytes(d)) /\ Len(g) = Len(r) /\ Word(g, y) = d
        /\ \A i \in 1 .. Len(r) : i # y + 1 /\ i # y + 2 => g[i] = h[i]
  <2>1. y + 2 <= Len(h)
    BY <1>4, <1>6
  <2>2. /\ Put(h, y, Bytes(d)) \in Seq(Cells) /\ Len(Put(h, y, Bytes(d))) = Len(h)
        /\ \A i \in 1 .. Len(h) : i # y + 1 /\ i # y + 2 => Put(h, y, Bytes(d))[i] = h[i]
    BY <1>8, <2>1, PutWord
  <2>3. Word(Put(h, y, Bytes(d)), y) = d
    BY <1>8, <2>1, PutWordRead
  <2>4. QED
    BY <1>6, <2>2, <2>3
<1>10. s = g
  <2>1. PutHeaderChecksum(r, bi) = h
    BY <1>1, <1>5, <1>6, Zenon DEF PutHeaderChecksum
  <2>2. ContentSum(h, bi) = y
    BY <1>2, <1>4, <1>7 DEF ContentSum
  <2>3. PutContentChecksum(h, bi) = g
    BY <1>2, <1>7, <1>8, <1>9, <2>2, Zenon DEF PutContentChecksum
  <2>4. QED
    BY <2>1, <2>3
<1>11. ASSUME NEW i \in 1 .. at PROVE g[i] = r[i]
  <2>1. i \in 1 .. Len(r) /\ i # at + 1 /\ i # at + 2 /\ i # y + 1 /\ i # y + 2
    BY <1>2, <1>4
  <2>2. g[i] = h[i] /\ h[i] = r[i]
    BY <1>6, <1>9, <2>1
  <2>3. QED
    BY <2>2
<1>12. ASSUME NEW i \in 1 .. y PROVE g[i] = h[i]
  <2>1. i \in 1 .. Len(r) /\ i # y + 1 /\ i # y + 2
    BY <1>2, <1>4
  <2>2. QED
    BY <1>9, <2>1
<1>13. ASSUME NEW i \in 1 .. Len(r), i <= at \/ i > y + 2 PROVE g[i] = r[i]
  BY <1>4, <1>6, <1>9, <1>13
<1>14. Length(g, bi) = l
  <2>1. bi + 3 + 1 \in 1 .. at /\ bi + 3 + 2 \in 1 .. at
    BY <1>2
  <2>2. g[bi + 3 + 1] = r[bi + 3 + 1] /\ g[bi + 3 + 2] = r[bi + 3 + 2]
    BY <1>11, <2>1
  <2>3. QED
    BY <1>3, <2>2, Zenon DEF Length, Word
<1>15. Word(g, HdrSum(bi)) = Checksum(g, bi + 1, HdrWords)
  <2>1. Word(g, at) = Word(h, at)
    <3>1. at + 1 \in 1 .. y /\ at + 2 \in 1 .. y
      BY <1>4
    <3>2. QED
      BY <1>12, <3>1 DEF Word
  <2>2. PICK x \in Nat : x = bi + 1 /\ x + 2 * HdrWords = at
    BY <1>1, <1>2
  <2>3. \A i \in x + 1 .. x + 2 * HdrWords : g[i] = r[i]
    BY <1>11, <2>2
  <2>4. Checksum(g, x, HdrWords) = Checksum(r, x, HdrWords)
    BY <1>2, <2>3, EqualChecksum
  <2>5. QED
    BY <1>1, <1>5, <1>6, <2>1, <2>2, <2>4
<1>16. Word(g, ContentSum(g, bi)) = Checksum(g, Content(bi), Length(g, bi))
  <2>1. ContentSum(g, bi) = y
    BY <1>2, <1>4, <1>14 DEF ContentSum
  <2>2. PICK x \in Nat : x = at + 2 /\ x + 2 * l = y
    BY <1>4
  <2>3. \A i \in x + 1 .. x + 2 * l : g[i] = h[i]
    BY <1>12, <2>2
  <2>4. Checksum(g, x, l) = Checksum(h, x, l)
    BY <2>3, EqualChecksum
  <2>5. QED
    BY <1>2, <1>8, <1>9, <1>14, <2>1, <2>2, <2>4
<1>17. QED
  BY <1>1, <1>4, <1>9, <1>10, <1>13, <1>15, <1>16 DEF SumMatches

(* Loading a file into an image of cells gives one, with that file's sums  *)
(* right and nothing else written.                                         *)
LEMMA LoadedIs ==
  ASSUME NEW p \in Seq(Cells), NEW bi \in Nat, Content(bi) <= Len(p), NEW words \in Seq(Nat),
         NEW s, s = Loaded(p, bi, words),
         NEW e, e = Content(bi) + 2 * Len(words) + 2
  PROVE  /\ s \in Seq(Cells) /\ SumMatches(s, bi) /\ e \in Nat /\ e <= Len(s)
         /\ Len(words) < Base * Base => Length(s, bi) = Len(words)
         /\ \A i \in 1 .. bi + 1 : s[i] = p[i]
         /\ \A i \in e + 1 .. Len(s) : i <= Len(p) /\ s[i] = p[i]
<1>0. HdrWords \in Nat /\ HdrWords >= 4 /\ Len(words) \in Nat /\ Len(p) \in Nat
  BY Sizes0
<1>1. PICK h \in Nat : h = HdrWords /\ h >= 4
  BY <1>0
<1>2. PICK n \in Nat : n = Len(words)
  BY <1>0
<1>3. HdrSum(bi) = bi + 1 + 2 * h /\ Content(bi) = bi + 3 + 2 * h /\ e = bi + 5 + 2 * h + 2 * n
  BY <1>1, <1>2 DEF Content, HdrSum
<1>4. PICK st \in Seq(Nat) : st = Stored(words) /\ Len(st) = h + 2 + n /\ st[2] = n
  BY <1>1, <1>2, StoredWords
<1>5. PICK cells \in Seq(Cells) :
        /\ cells = BytesOf(st) /\ Len(cells) = 2 * (h + 2 + n)
        /\ cells[3] = n % Base /\ cells[4] = (n \div Base) % Base
  <2>1. /\ BytesOf(st) \in Seq(0 .. Base - 1) /\ Len(BytesOf(st)) = 2 * Len(st)
        /\ \A k \in 1 .. Len(st) : /\ BytesOf(st)[2 * k - 1] = st[k] % Base
                                   /\ BytesOf(st)[2 * k] = (st[k] \div Base) % Base
    BY BytesOfCells
  <2>2. 2 \in 1 .. Len(st) /\ 2 * 2 - 1 = 3 /\ 2 * 2 = 4
    BY <1>4
  <2>3. BytesOf(st)[3] = st[2] % Base /\ BytesOf(st)[4] = (st[2] \div Base) % Base
    BY <2>1, <2>2
  <2>4. BytesOf(st) \in Seq(Cells)
    BY <2>1, ByteSeqs
  <2>5. QED
    BY <1>4, <2>1, <2>3, <2>4
<1>6. PICK read \in Seq(Cells) :
        /\ read = Put(p, bi + 1, cells)
        /\ Len(read) \in Nat /\ Len(read) >= e
        /\ read[bi + 4] = n % Base /\ read[bi + 5] = (n \div Base) % Base
        /\ \A i \in 1 .. bi + 1 : read[i] = p[i]
        /\ \A i \in e + 1 .. Len(read) : i <= Len(p) /\ read[i] = p[i]
  <2>1. bi + 1 \in Nat /\ bi + 1 <= Len(p) /\ bi + 1 + Len(cells) = e
    <3>1. Len(cells) = 2 * h + 4 + 2 * n
      BY <1>5
    <3>2. Content(bi) <= Len(p) /\ Content(bi) = bi + 3 + 2 * h /\ e = bi + 5 + 2 * h + 2 * n
      BY <1>3
    <3>3. bi + 3 + 2 * h <= Len(p)
      BY <3>2
    <3>4. bi + 1 <= Len(p)
      BY <1>0, <3>3
    <3>5. bi + 1 + (2 * h + 4 + 2 * n) = bi + 5 + 2 * h + 2 * n
      OBVIOUS
    <3>6. bi + 1 + Len(cells) = e
      BY <3>1, <3>2, <3>5
    <3>7. QED
      BY <3>4, <3>6
  <2>2. /\ Put(p, bi + 1, cells) \in Seq(Cells)
        /\ Len(Put(p, bi + 1, cells)) = (IF e <= Len(p) THEN Len(p) ELSE e)
        /\ \A i \in 1 .. bi + 1 : Put(p, bi + 1, cells)[i] = p[i]
        /\ \A i \in 1 .. Len(cells) : Put(p, bi + 1, cells)[bi + 1 + i] = cells[i]
        /\ \A i \in e + 1 .. Len(p) : Put(p, bi + 1, cells)[i] = p[i]
    <3>1. PICK x \in Nat : x = bi + 1 /\ x <= Len(p) /\ x + Len(cells) = e
      BY <2>1
    <3>2. /\ Put(p, x, cells) \in Seq(Cells)
          /\ Len(Put(p, x, cells)) =
               (IF x + Len(cells) <= Len(p) THEN Len(p) ELSE x + Len(cells))
          /\ \A i \in 1 .. x : Put(p, x, cells)[i] = p[i]
          /\ \A i \in 1 .. Len(cells) : Put(p, x, cells)[x + i] = cells[i]
          /\ \A i \in x + Len(cells) + 1 .. Len(p) : Put(p, x, cells)[i] = p[i]
      <4>1. x <= Len(p)
        BY <3>1
      <4>2. QED
        BY <4>1, PutCells
    <3>3. QED
      BY <3>1, <3>2, Zenon
  <2>3. PICK read \in Seq(Cells) : read = Put(p, bi + 1, cells)
    BY <2>2
  <2>4. 3 \in 1 .. Len(cells) /\ 4 \in 1 .. Len(cells)
    BY <1>1, <1>5
  <2>5. bi + 1 + 3 = bi + 4 /\ bi + 1 + 4 = bi + 5
    OBVIOUS
  <2>6. read[bi + 4] = cells[3] /\ read[bi + 5] = cells[4]
    BY <2>2, <2>3, <2>4, <2>5
  <2>7. Len(read) \in Nat /\ Len(read) >= e /\ e \in Nat
    BY <1>0, <1>3, <2>2, <2>3
  <2>8. \A i \in e + 1 .. Len(read) : i <= Len(p) /\ read[i] = p[i]
    BY <1>0, <2>2, <2>3, <2>7
  <2>9. QED
    BY <1>5, <2>2, <2>3, <2>6, <2>7, <2>8
<1> DEFINE Kept(q) == /\ q \in Seq(Cells) /\ Len(q) = Len(read)
                      /\ q[bi + 4] = n % Base /\ q[bi + 5] = (n \div Base) % Base
                      /\ \A i \in 1 .. bi + 1 : q[i] = p[i]
                      /\ \A i \in e + 1 .. Len(q) : i <= Len(p) /\ q[i] = p[i]
<1>7. ASSUME NEW q, Kept(q), NEW x \in Nat, x > bi, x + 2 <= e, NEW w \in Nat,
             x + 2 < bi + 4 \/ x + 1 > bi + 5
      PROVE  Kept(Put(q, x, Bytes(w)))
  <2>0. e \in Nat /\ x + 2 <= Len(q) /\ Len(q) \in Nat
    BY <1>3, <1>6, <1>7
  <2>1. /\ Put(q, x, Bytes(w)) \in Seq(Cells) /\ Len(Put(q, x, Bytes(w))) = Len(q)
        /\ \A i \in 1 .. Len(q) : i # x + 1 /\ i # x + 2 => Put(q, x, Bytes(w))[i] = q[i]
    BY <1>7, <2>0, PutWord
  <2>2. bi + 4 \in 1 .. Len(q) /\ bi + 5 \in 1 .. Len(q)
    BY <1>1, <1>3, <1>6, <1>7
  <2>3. bi + 4 # x + 1 /\ bi + 4 # x + 2 /\ bi + 5 # x + 1 /\ bi + 5 # x + 2
    BY <1>7
  <2>4. ASSUME NEW i \in 1 .. bi + 1 PROVE Put(q, x, Bytes(w))[i] = p[i]
    <3>1. i \in 1 .. Len(q) /\ i # x + 1 /\ i # x + 2
      BY <1>7, <2>2
    <3>2. QED
      BY <1>7, <2>1, <3>1
  <2>5. ASSUME NEW i \in e + 1 .. Len(q) PROVE i <= Len(p) /\ Put(q, x, Bytes(w))[i] = p[i]
    <3>1. i \in 1 .. Len(q) /\ i # x + 1 /\ i # x + 2
      BY <1>7, <2>0
    <3>2. QED
      BY <1>7, <2>1, <3>1
  <2>6. Put(q, x, Bytes(w))[bi + 4] = q[bi + 4] /\ Put(q, x, Bytes(w))[bi + 5] = q[bi + 5]
    BY <2>1, <2>2, <2>3
  <2>7. QED
    BY <1>7, <2>1, <2>4, <2>5, <2>6
<1>8. Num(p, bi) \in Nat /\ Space(p, bi) \in Nat
  BY SeqCells, FieldsAreNumbers
<1>9. Kept(read)
  BY <1>6
<1>10. PICK num : num = Put(read, bi + 1, Bytes(Num(p, bi))) /\ Kept(num)
  <2>1. bi + 1 \in Nat /\ bi + 1 > bi /\ bi + 1 + 2 <= e /\ bi + 1 + 2 < bi + 4
    BY <1>1, <1>3
  <2> HIDE DEF Kept
  <2>2. QED
    BY <1>7, <1>8, <1>9, <2>1
<1>11. PICK spaced :
         /\ spaced = Put(num, bi + 7, Bytes(IF n > Space(p, bi) THEN n ELSE Space(p, bi)))
         /\ Kept(spaced)
  <2>1. bi + 7 \in Nat /\ bi + 7 > bi /\ bi + 7 + 2 <= e /\ bi + 7 + 1 > bi + 5
    BY <1>1, <1>3
  <2>2. (IF n > Space(p, bi) THEN n ELSE Space(p, bi)) \in Nat
    BY <1>8
  <2> HIDE DEF Kept
  <2>3. QED
    BY <1>7, <1>10, <2>1, <2>2
<1>12. Length(spaced, bi) \in 0 .. n /\ (n < Base * Base => Length(spaced, bi) = n)
  <2>1. spaced[(bi + 3) + 1] = n % Base /\ spaced[(bi + 3) + 2] = (n \div Base) % Base
    <3>1. (bi + 3) + 1 = bi + 4 /\ (bi + 3) + 2 = bi + 5
      OBVIOUS
    <3>2. QED
      BY <1>11, <3>1
  <2>2. QED
    BY <2>1, WordOfBytes DEF Length
<1>13. /\ spaced \in Seq(Cells) /\ Content(bi) <= Len(spaced) /\ Len(spaced) \in Nat
       /\ ContentSum(spaced, bi) + 2 <= e /\ ContentSum(spaced, bi) + 2 <= Len(spaced)
       /\ ContentSum(spaced, bi) \in Nat /\ e \in Nat /\ e <= Len(spaced)
  <2>1. PICK m \in 0 .. n : m = Length(spaced, bi)
    BY <1>12
  <2>2. ContentSum(spaced, bi) = bi + 3 + 2 * h + 2 * m
    BY <1>3, <2>1 DEF ContentSum
  <2>3. spaced \in Seq(Cells) /\ Len(spaced) = Len(read)
    BY <1>11
  <2>4. QED
    BY <1>3, <1>6, <2>2, <2>3
<1>14. s = PutContentChecksum(PutHeaderChecksum(spaced, bi), bi)
  BY <1>2, <1>4, <1>5, <1>6, <1>10, <1>11, Zenon DEF Loaded
<1>15. /\ s \in Seq(Cells) /\ Len(s) = Len(spaced) /\ SumMatches(s, bi)
       /\ \A i \in 1 .. Len(spaced) :
            i <= HdrSum(bi) \/ i > ContentSum(spaced, bi) + 2 => s[i] = spaced[i]
  BY <1>13, <1>14, SumsPut
<1>16. ASSUME NEW i \in 1 .. bi + 5 PROVE s[i] = spaced[i]
  <2>1. i \in 1 .. Len(spaced) /\ i <= HdrSum(bi)
    BY <1>1, <1>3, <1>13
  <2>2. QED
    BY <1>15, <2>1
<1>17. ASSUME NEW i \in 1 .. bi + 1 PROVE s[i] = p[i]
  <2>1. s[i] = spaced[i]
    BY <1>16
  <2>2. QED
    BY <1>11, <2>1
<1>18. ASSUME NEW i \in e + 1 .. Len(s) PROVE i <= Len(p) /\ s[i] = p[i]
  <2>1. i \in 1 .. Len(spaced) /\ i > ContentSum(spaced, bi) + 2 /\ i \in e + 1 .. Len(spaced)
    BY <1>13, <1>15
  <2>2. s[i] = spaced[i]
    BY <1>15, <2>1
  <2>3. QED
    BY <1>11, <2>1, <2>2
<1>19. Length(s, bi) = Length(spaced, bi)
  <2>1. bi + 3 + 1 \in 1 .. bi + 5 /\ bi + 3 + 2 \in 1 .. bi + 5
    OBVIOUS
  <2>2. s[bi + 3 + 1] = spaced[bi + 3 + 1] /\ s[bi + 3 + 2] = spaced[bi + 3 + 2]
    BY <1>16, <2>1
  <2>3. QED
    BY <2>2, Zenon DEF Length, Word
<1>20. QED
  BY <1>2, <1>12, <1>13, <1>15, <1>17, <1>18, <1>19

(* Loading a file into an image of cells gives one.                        *)
LEMMA LoadedCells ==
  ASSUME NEW p \in Seq(Cells), NEW bi \in Nat, Content(bi) <= Len(p), NEW words \in Seq(Nat)
  PROVE  Loaded(p, bi, words) \in Seq(Cells)
<1>1. PICK e : e = Content(bi) + 2 * Len(words) + 2
  OBVIOUS
<1>2. PICK s : s = Loaded(p, bi, words)
  OBVIOUS
<1>3. s \in Seq(Cells)
  BY <1>1, <1>2, LoadedIs
<1>4. QED
  BY <1>2, <1>3

LEMMA LoadedFileCells ==
  ASSUME NEW p \in Seq(Cells), Whole(p), NEW words \in Seq(Nat), NEW fNum \in Int,
         fNum < 0 \/ FindFile(p, fNum) >= 0
  PROVE  LoadedFile(p, fNum, words) \in Seq(Cells)
<1>1. PICK q : q = IF fNum < 0 /\ Bofs(p) = <<>> THEN Marked(p, 0, 0, -1) ELSE p
  OBVIOUS
<1>2. LoadedFile(p, fNum, words) = Loaded(q, FindFile(q, fNum), words)
  BY <1>1, Zenon DEF LoadedFile
<1>3. CASE fNum < 0 /\ Bofs(p) = <<>>
  <2>1. q \in Seq(Cells) /\ Bofs(q) = <<BotPadding>> /\ Content(BotPadding) <= Len(q)
    BY <1>1, <1>3, FirstMarked
  <2>2. FindFile(q, fNum) = BotPadding
    <3>1. Bofs(q) # <<>> /\ Len(Bofs(q)) = 1 /\ Bofs(q)[1] = BotPadding
      BY <2>1
    <3>2. \E k \in 1 .. 1 : FindFile(q, fNum) = Bofs(q)[k]
      BY <1>3, <2>1, <3>1, SeqCells, FindFileFinds
    <3>3. QED
      BY <3>1, <3>2
  <2>3. QED
    BY <1>2, <2>1, <2>2, LoadedCells, Sizes0
<1>4. CASE ~(fNum < 0 /\ Bofs(p) = <<>>)
  <2>1. q = p
    BY <1>1, <1>4
  <2>2. FindFile(p, fNum) \in Nat /\ Content(FindFile(p, fNum)) <= Len(p)
    BY <1>4, FoundFile
  <2>3. QED
    BY <1>2, <2>1, <2>2, LoadedCells
<1>5. QED
  BY <1>3, <1>4

(* So does the whole of load, with the EOT file it may add.                *)
LEMMA LoadFileCells ==
  ASSUME NEW p \in Seq(Cells), Whole(p), NEW words \in Seq(Nat), NEW fNum \in Int,
         Whole(LoadedFile(p, fNum, words))
  PROVE  LoadFile(p, fNum, words) \in Seq(Cells)
<1>1. FindFile(p, fNum) \in Int
  BY FoundFile
<1>2. CASE fNum >= 0 /\ FindFile(p, fNum) < 0
  BY <1>2 DEF LoadFile
<1>3. CASE ~(fNum >= 0 /\ FindFile(p, fNum) < 0)
  <2>1. PICK q \in Seq(Cells) : q = LoadedFile(p, fNum, words) /\ Whole(q)
    BY <1>1, <1>3, LoadedFileCells
  <2>2. Marked(q, -1, 0, -1) \in Seq(Cells)
    BY <2>1, MarkedCells
  <2>3. QED
    BY <1>3, <2>1, <2>2 DEF LoadFile
<1>4. QED
  BY <1>2, <1>3

-----------------------------------------------------------------------------
(* Every command keeps the types, and what follows from that.              *)

(* The empty image is one of cells, whole.                                 *)
LEMMA InitTypeOK == Init => TypeOK
<1>1. SUFFICES ASSUME Init PROVE TypeOK
  OBVIOUS
<1>2. image = <<>> /\ size \in Nat
  BY <1>1, SizesAssumption DEF Init
<1>3. PICK p \in Seq(Cells) : p = <<>> /\ Len(p) = 0
  <2>1. <<>> \in Seq(Cells) /\ Len(<<>>) = 0
    OBVIOUS
  <2>2. QED
    BY <2>1
<1>4. Bofs(p) = <<>>
  <2>1. PICK b : b = Bofs(p)
    OBVIOUS
  <2>2. Filing(p, b)
    BY <2>1, SeqCells, BofsFiling
  <2>3. b \in Seq(Nat) /\ Len(b) \in Nat /\ \A k \in 1 .. Len(b) : b[k] \in Nat /\ b[k] < 0
    BY <1>3, <2>2 DEF Filing
  <2>4. Len(b) = 0
    BY <2>3
  <2>5. QED
    BY <2>1, <2>3, <2>4
<1>5. Whole(p)
  BY <1>4 DEF Whole, Range
<1>6. QED
  BY <1>2, <1>3, <1>5 DEF TypeOK

LEMMA NumbersAre == ASSUME TypeOK PROVE Numbers \cup {-1} \subseteq Int
<1>1. image \in Seq(Cells) /\ image \in Seq(Nat) /\ Whole(image)
  BY SeqCells DEF TypeOK
<1>2. ASSUME NEW bi \in Range(Bofs(image)) PROVE Num(image, bi) \in Int
  <2>1. PICK k \in DOMAIN Bofs(image) : bi = Bofs(image)[k]
    BY DEF Range
  <2>2. k \in 1 .. Len(Bofs(image))
    BY <1>1, <2>1, WholeFiles
  <2>3. bi \in Nat /\ Content(bi) <= Len(image)
    BY <1>1, <2>1, <2>2, WholeFiles DEF WholeFile
  <2>4. QED
    BY <1>1, <2>3, FieldsAreNumbers
<1>3. QED
  BY <1>2 DEF Numbers

LEMMA MarkTypeOK ==
  ASSUME TypeOK, NEW n \in Counts \cup {-1}, NEW fSpace \in Spaces, NEW fNum \in Int,
         Mark(n, fSpace, fNum)
  PROVE  TypeOK'
<1>1. n \in Nat \cup {-1} /\ fSpace \in Nat
  BY SizesAssumption
<1>2. PICK p \in Seq(Cells) : p = Marked(image, n, fSpace, fNum)
  BY <1>1, MarkedCells DEF TypeOK
<1>3. Whole(p) /\ image' = p /\ size' = Grown(size, Len(p))
  BY <1>2 DEF Mark, Becomes
<1>4. size' \in Nat /\ size' >= Len(p) /\ Len(p) \in Nat
  BY <1>3, GrownIs DEF TypeOK
<1>5. QED
  BY <1>3, <1>4 DEF TypeOK, Whole

LEMMA LoadTypeOK ==
  ASSUME TypeOK, NEW fNum \in Int, NEW words \in Contents, Load(fNum, words) PROVE TypeOK'
<1>1. words \in Seq(Nat)
  BY SizesAssumption
<1>2. PICK p \in Seq(Cells) : p = LoadFile(image, fNum, words)
  BY <1>1, LoadFileCells DEF TypeOK, Load
<1>3. Whole(p) /\ image' = p /\ size' = Grown(size, Len(p))
  BY <1>2 DEF Load, Becomes
<1>4. size' \in Nat /\ size' >= Len(p) /\ Len(p) \in Nat
  BY <1>3, GrownIs DEF TypeOK
<1>5. QED
  BY <1>3, <1>4 DEF TypeOK, Whole

LEMMA CleanupTypeOK == ASSUME TypeOK, NEW o, Cleanup(o) PROVE TypeOK'
<1>1. PICK p \in Seq(Cells) : p = Cleaned(image, o) /\ Whole(p)
  BY CleanedWhole DEF TypeOK
<1>2. PICK s \in Nat : s = IF "pad" \in o THEN Shifts(image, size).size ELSE size
  BY ShiftedSize DEF TypeOK
<1>3. image' = p /\ size' = Grown(s, Len(p))
  BY <1>1, <1>2 DEF Cleanup, Becomes
<1>4. size' \in Nat /\ size' >= Len(p) /\ Len(p) \in Nat
  BY <1>3, GrownIs
<1>5. QED
  BY <1>1, <1>3, <1>4 DEF TypeOK, Whole

LEMMA TruncateTypeOK ==
  ASSUME TypeOK, NEW n \in {0} \cup {End(image, bi) : bi \in Range(Bofs(image))}, Truncate(n)
  PROVE  TypeOK'
<1>1. image \in Seq(Cells) /\ image \in Seq(Nat) /\ Whole(image) /\ Len(image) \in Nat
  BY SeqCells DEF TypeOK
<1>2. n \in Nat
  <2>1. ASSUME NEW bi \in Range(Bofs(image)) PROVE End(image, bi) \in Nat
    <3>1. PICK k \in DOMAIN Bofs(image) : bi = Bofs(image)[k]
      BY DEF Range
    <3>2. k \in 1 .. Len(Bofs(image))
      BY <1>1, <3>1, WholeFiles
    <3>3. bi \in Nat /\ Content(bi) <= Len(image)
      BY <1>1, <3>1, <3>2, WholeFiles DEF WholeFile
    <3>4. QED
      BY <1>1, <3>3, FieldsAreNumbers
  <2>2. QED
    BY <2>1
<1>3. n <= Len(image)
  BY <1>1, <1>2 DEF Truncate
<1>4. PICK p \in Seq(Cells) : p = SubSeq(image, 1, n) /\ Len(p) = n
  <2>1. 0 \in Nat /\ 0 <= n /\ 0 + 1 = 1
    BY <1>2
  <2>2. SubSeq(image, 0 + 1, n) \in Seq(Cells) /\ Len(SubSeq(image, 0 + 1, n)) = n - 0
    BY <1>1, <1>2, <1>3, <2>1, Part
  <2>3. n - 0 = n
    BY <1>2
  <2>4. SubSeq(image, 1, n) \in Seq(Cells) /\ Len(SubSeq(image, 1, n)) = n
    BY <2>1, <2>2, <2>3
  <2>5. QED
    BY <2>4
<1>5. image' = p /\ size' = size /\ Whole(p)
  BY <1>4 DEF Truncate, Becomes
<1>6. size' \in Nat /\ Len(p) <= size'
  BY <1>1, <1>3, <1>4, <1>5 DEF TypeOK
<1>7. QED
  BY <1>5, <1>6 DEF TypeOK, Whole

LEMMA ReadImageTypeOK ==
  ASSUME TypeOK, NEW maxBytes \in Sizes, NEW stray \in {0, 1}, ReadImage(maxBytes, stray)
  PROVE  TypeOK'
<1>1. image \in Seq(Cells) /\ image \in Seq(Nat) /\ Whole(image) /\ Len(image) \in Nat
  BY SeqCells DEF TypeOK
<1>2. PICK r \in Seq(Cells) : r = Raw(image) /\ Len(r) = Len(image)
  BY <1>1, RawCells
<1>3. PICK strays : strays <=> stray # 0 /\ Bofs(image) # <<>> /\ Bofs(image)[1] > 0
  OBVIOUS
<1>4. PICK p : p = IF strays THEN Put(r, 0, <<stray>>) ELSE r
  OBVIOUS
<1>5. p \in Seq(Cells) /\ Len(p) = Len(image)
  <2>1. CASE strays
    <3>1. stray \in Cells
      BY Sizes0 DEF Cells
    <3>2. PICK c \in Seq(Cells) : c = <<stray>> /\ Len(c) = 1
      <4>1. <<stray>> \in Seq(Cells) /\ Len(<<stray>>) = 1
        BY <3>1
      <4>2. QED
        BY <4>1
    <3>3. Len(image) >= 1
      <4>1. 1 \in 1 .. Len(Bofs(image))
        BY <1>1, <1>3, <2>1, WholeFiles
      <4>2. Bofs(image)[1] < Len(image)
        BY <1>1, <4>1, WholeFiles, FilesApart
      <4>3. QED
        BY <1>1, <1>3, <2>1, <4>1, <4>2, WholeFiles
    <3>4. /\ Put(r, 0, c) \in Seq(Cells)
          /\ Len(Put(r, 0, c)) = (IF 0 + Len(c) <= Len(r) THEN Len(r) ELSE 0 + Len(c))
      <4>1. 0 \in Nat /\ 0 <= Len(r)
        BY <1>1, <1>2
      <4>2. QED
        BY <4>1, PutCells
    <3>5. QED
      BY <1>1, <1>2, <1>4, <2>1, <3>2, <3>3, <3>4
  <2>2. CASE ~strays
    BY <1>2, <1>4, <2>2
  <2>3. QED
    BY <2>1, <2>2
<1>6. Len(image) <= maxBytes /\ Whole(p) /\ image' = p /\ size' = maxBytes
  BY <1>2, <1>3, <1>4 DEF ReadImage, Becomes
<1>7. maxBytes \in Nat
  BY SizesAssumption
<1>8. QED
  BY <1>5, <1>6, <1>7 DEF TypeOK, Whole

(* No command spoils the types: mark, load and a read-back see to whole    *)
(* files, clean and truncate keep them.                                    *)
LEMMA StepTypeOK == TypeOK /\ [Next]_vars => TypeOK'
<1>1. SUFFICES ASSUME TypeOK, [Next]_vars PROVE TypeOK'
  OBVIOUS
<1>2. ASSUME NEW fNum \in Numbers \cup {-1}, NEW n \in Counts \cup {-1}, NEW fSpace \in Spaces,
             Mark(n, fSpace, fNum)
      PROVE  TypeOK'
  BY <1>1, <1>2, NumbersAre, MarkTypeOK
<1>3. ASSUME NEW fNum \in Numbers \cup {-1}, NEW words \in Contents, Load(fNum, words)
      PROVE  TypeOK'
  BY <1>1, <1>3, NumbersAre, LoadTypeOK
<1>4. ASSUME NEW o \in Cleanups, Cleanup(o) PROVE TypeOK'
  BY <1>1, <1>4, CleanupTypeOK
<1>5. ASSUME NEW n \in {0} \cup {End(image, bi) : bi \in Range(Bofs(image))}, Truncate(n)
      PROVE  TypeOK'
  BY <1>1, <1>5, TruncateTypeOK
<1>6. ASSUME NEW maxBytes \in Sizes, NEW stray \in {0, 1}, ReadImage(maxBytes, stray)
      PROVE  TypeOK'
  BY <1>1, <1>6, ReadImageTypeOK
<1>7. CASE UNCHANGED vars
  BY <1>1, <1>7 DEF vars, TypeOK, Whole
<1>8. QED
  BY <1>1, <1>2, <1>3, <1>4, <1>5, <1>6, <1>7 DEF Next

(* After any commands, with any files and sizes, the image is a sequence of*)
(* cells in a buffer big enough for it, and none of its files is cut       *)
(* (tpf.c, main.c lines 116 to 215).                                       *)
THEOREM TypeCorrect == Spec => []TypeOK
BY InitTypeOK, StepTypeOK, PTL DEF Spec

(* An image that comes back from a tape without control bits, its files    *)
(* being all of its marked cells, is the same after clean has marked BOFs  *)
(* by the headers (tpf.c lines 486 and 487), whatever bytes the files hold.*)
THEOREM RestoresAlways == Spec => []Restores
<1>1. TypeOK => Restores
  BY RestoresFromType
<1>2. QED
  BY <1>1, TypeCorrect, PTL

(* After padding every gap is wide enough, and after checksums every       *)
(* checksum is right, whatever else clean does at the same time and        *)
(* whatever the image was (tpf.c lines 477 to 507).                        *)
THEOREM RepairsAlways == Spec => []CleanupRepairs
<1>1. TypeOK => CleanupRepairs
  BY Repairs
<1>2. QED
  BY <1>1, TypeCorrect, PTL

-----------------------------------------------------------------------------
(* The text of an image: numbers as digits, and their reader.              *)

Hex        == 0 .. 15
Characters == 0 .. 18
Limit      == 65536  \* a number has four digits

LEMMA HexAre ==
  /\ Hex \subseteq Nat /\ \A c \in Hex : c < 16
  /\ \A c \in Nat : c < 16 => c \in Hex
BY DEF Hex

LEMMA CharactersAre == Characters \subseteq Nat /\ \A c \in Characters : c <= 18
BY DEF Characters

(* The decoder has read the numbers ns and part of another one, v.         *)
Reader(v, ns) == [num |-> v, nums |-> ns, done |-> FALSE]

(* What the decoder makes of each character (util.c lines 282 to 294).     *)
LEMMA OneCharacter ==
  ASSUME NEW v \in Nat, NEW ns \in Seq(Nat)
  PROVE  /\ \A c \in Hex : Reading(Reader(v, ns), c) = Reader(16 * v + c, ns)
         /\ Reading(Reader(v, ns), Tilde) = Reader(0, Append(ns, v))
         /\ Reading(Reader(v, ns), Other) = Reader(0, ns)
         /\ Reading(Reader(v, ns), Bang).nums = ns
<1> DEFINE s == Reader(v, ns)
<1>1. s = [num |-> v, nums |-> ns, done |-> FALSE] /\ ~s.done /\ s.num = v /\ s.nums = ns
  BY DEF Reader
<1>2. Tilde = 16 /\ Bang = 17 /\ Other = 18
  BY DEF Tilde, Bang, Other
<1>3. ASSUME NEW c \in Hex PROVE Reading(s, c) = Reader(16 * v + c, ns)
  <2>1. Reading(s, c) = [s EXCEPT !.num = 16 * v + c]
    BY <1>1, HexAre DEF Reading
  <2>2. QED
    BY <1>1, <2>1 DEF Reader
<1>4. Reading(s, Tilde) = Reader(0, Append(ns, v))
  <2>1. Reading(s, Tilde) = [s EXCEPT !.nums = Append(ns, v), !.num = 0]
    BY <1>1, <1>2 DEF Reading
  <2>2. PICK more : more = Append(ns, v)
    OBVIOUS
  <2>3. QED
    BY <1>1, <2>1, <2>2 DEF Reader
<1>5. Reading(s, Other) = Reader(0, ns)
  <2>1. Reading(s, Other) = [s EXCEPT !.num = 0]
    BY <1>1, <1>2 DEF Reading
  <2>2. QED
    BY <1>1, <2>1 DEF Reader
<1>6. Reading(s, Bang).nums = ns
  <2>1. Reading(s, Bang) = [s EXCEPT !.done = TRUE]
    BY <1>1, <1>2 DEF Reading
  <2>2. QED
    BY <1>1, <2>1
<1>7. QED
  BY <1>3, <1>4, <1>5, <1>6

Readings(text, read) ==
  /\ read[0] = Reader(0, <<>>)
  /\ \A i \in 1 .. Len(text) : read[i] = Reading(read[i - 1], text[i])
  /\ Decoded(text) = read[Len(text)].nums

(* The decoder has a reading of every text.                                *)
LEMMA Reads == ASSUME NEW text \in Seq(Characters) PROVE \E read : Readings(text, read)
<1> DEFINE n == Len(text)
           V == [num : Nat, nums : Seq(Nat), done : BOOLEAN]
           base == Reader(0, <<>>)
           Body(f) == [i \in 0 .. n |-> IF i = 0 THEN [num |-> 0, nums |-> <<>>, done |-> FALSE]
                                        ELSE Reading(f[i - 1], text[i])]
           read == CHOOSE f : f = Body(f)
<1>1. n \in Nat
  OBVIOUS
<1>2. ASSUME NEW s \in V, NEW c \in Nat PROVE Reading(s, c) \in V
  <2>1. CASE s.done
    BY <2>1 DEF Reading
  <2>2. CASE ~s.done /\ c < 16
    <3>1. 16 * s.num + c \in Nat
      OBVIOUS
    <3>2. Reading(s, c) = [s EXCEPT !.num = 16 * s.num + c]
      BY <2>2 DEF Reading
    <3>3. QED
      BY <3>1, <3>2
  <2>3. CASE ~s.done /\ c = Tilde
    <3>0. s.nums \in Seq(Nat) /\ s.num \in Nat /\ s.done \in BOOLEAN
      OBVIOUS
    <3> HIDE DEF V
    <3>1. PICK ns \in Seq(Nat) : ns = Append(s.nums, s.num)
      <4>1. ASSUME NEW x \in Seq(Nat), NEW y \in Nat PROVE Append(x, y) \in Seq(Nat)
        OBVIOUS
      <4>2. QED
        BY <3>0, <4>1
    <3>2. Reading(s, c) = [s EXCEPT !.nums = Append(s.nums, s.num), !.num = 0]
      <4>1. c = Tilde /\ ~(c < 16) /\ ~s.done
        BY <2>3 DEF Tilde
      <4>2. QED
        BY <4>1, Zenon DEF Reading
    <3>3. Reading(s, c) = [s EXCEPT !.nums = ns, !.num = 0]
      BY <3>1, <3>2, Zenon
    <3> USE DEF V
    <3>4. [s EXCEPT !.nums = ns, !.num = 0] \in V
      OBVIOUS
    <3>5. QED
      BY <3>3, <3>4
  <2>4. CASE ~s.done /\ ~(c < 16) /\ c # Tilde
    <3>1. CASE c = Bang
      <4>1. Reading(s, c) = [s EXCEPT !.done = TRUE]
        BY <2>4, <3>1 DEF Reading
      <4>2. QED
        BY <4>1
    <3>2. CASE c # Bang
      <4>1. Reading(s, c) = [s EXCEPT !.num = 0]
        BY <2>4, <3>2 DEF Reading
      <4>2. QED
        BY <4>1, SMTT(20)
    <3>3. QED
      BY <3>1, <3>2
  <2>5. QED
    BY <2>1, <2>2, <2>3, <2>4
<1>3. base \in V
  BY DEF Reader
<1>4. ASSUME NEW i \in 1 .. n PROVE text[i] \in Nat
  <2>1. text[i] \in Characters
    OBVIOUS
  <2>2. QED
    BY <2>1, CharactersAre
<1> HIDE DEF n
<1>5. \E f : f = Body(f)
  <2> HIDE DEF V
  <2> DEFINE step == [i \in 1 .. n |-> [s \in V |-> Reading(s, text[i])]]
  <2>1. step \in [1 .. n -> [V -> V]]
    BY <1>2, <1>4
  <2>2. \A i \in 1 .. n : \A s \in V : step[i][s] = Reading(s, text[i])
    OBVIOUS
  <2> HIDE DEF step, base
  <2>3. PICK f : Steps(f, n, V, base, step)
    BY <1>1, <1>3, <2>1, Recursive
  <2>4. ASSUME NEW i \in 1 .. n PROVE f[i] = Reading(f[i - 1], text[i])
    <3>1. i - 1 \in 0 .. n
      BY <1>1
    <3>2. f[i - 1] \in V /\ f[i] = step[i][f[i - 1]]
      BY <2>3, <3>1 DEF Steps
    <3>3. QED
      BY <2>2, <3>2
  <2>5. f \in [0 .. n -> V] /\ f[0] = base
    BY <2>3 DEF Steps
  <2>6. ASSUME NEW i \in 0 .. n
        PROVE  f[i] = IF i = 0 THEN base ELSE Reading(f[i - 1], text[i])
    <3>1. i = 0 \/ i \in 1 .. n
      BY <1>1
    <3>2. QED
      BY <2>4, <2>5, <3>1
  <2>7. f = Body(f)
    BY <2>5, <2>6 DEF base, Reader
  <2> HIDE DEF Body
  <2>8. QED
    BY <2>7
<1>6. read = Body(read)
  <2> HIDE DEF Body
  <2>1. QED
    BY <1>5
<1>7. Decoded(text) = read[n].nums
  BY Zenon DEF Decoded, n
<1> HIDE DEF read
<1>8. ASSUME NEW i \in 0 .. n
      PROVE  read[i] = IF i = 0 THEN base ELSE Reading(read[i - 1], text[i])
  BY <1>6, Zenon DEF base, Reader
<1> HIDE DEF Body, base
<1>9. read[0] = base /\ \A i \in 1 .. n : read[i] = Reading(read[i - 1], text[i])
  BY <1>1, <1>8
<1>10. QED
  BY <1>7, <1>9 DEF Readings, n, base

(* The digits of a number, the highest first.                              *)
LEMMA DigitsAre ==
  ASSUME NEW n \in Nat, n < Limit
  PROVE  /\ Digits(n) \in Seq(Hex) /\ Len(Digits(n)) \in 1 .. 4
         /\ Len(Digits(n)) = 1 => n = Digits(n)[1]
         /\ Len(Digits(n)) = 2 => n = 16 * Digits(n)[1] + Digits(n)[2]
         /\ Len(Digits(n)) = 3 => n = 16 * (16 * Digits(n)[1] + Digits(n)[2]) + Digits(n)[3]
         /\ Len(Digits(n)) = 4 =>
              n = 16 * (16 * (16 * Digits(n)[1] + Digits(n)[2]) + Digits(n)[3]) + Digits(n)[4]
<1>1. PICK q1 \in Nat : q1 = n \div 16
  OBVIOUS
<1>2. PICK d \in Nat : d = n % 16
  OBVIOUS
<1>3. n = 16 * q1 + d /\ q1 < 4096 /\ d < 16
  BY <1>1, <1>2 DEF Limit
<1>4. PICK q2 \in Nat : q2 = q1 \div 16
  OBVIOUS
<1>5. PICK c \in Nat : c = q1 % 16
  OBVIOUS
<1>6. q1 = 16 * q2 + c /\ q2 < 256 /\ c < 16
  BY <1>3, <1>4, <1>5
<1>7. PICK a \in Nat : a = q2 \div 16
  OBVIOUS
<1>8. PICK b \in Nat : b = q2 % 16
  OBVIOUS
<1>9. q2 = 16 * a + b /\ a < 16 /\ b < 16
  BY <1>6, <1>7, <1>8
<1>10. n = 256 * q2 + (16 * c + d) /\ n = 4096 * a + (256 * b + 16 * c + d)
  BY <1>3, <1>6, <1>9
<1>11. n \div 256 = q2 /\ n \div 4096 = a
  <2>1. 16 * c + d \in Nat /\ 16 * c + d < 256
    BY <1>3, <1>6
  <2>2. n \div 256 = q2
    BY <1>10, <2>1
  <2>3. 256 * b + 16 * c + d \in Nat /\ 256 * b + 16 * c + d < 4096
    BY <1>3, <1>6, <1>9
  <2>4. n \div 4096 = a
    BY <1>10, <2>3
  <2>5. QED
    BY <2>2, <2>4
<1> DEFINE s == <<a, b, c, d>>
<1>13. s \in Seq(Hex) /\ Len(s) = 4 /\ s[1] = a /\ s[2] = b /\ s[3] = c /\ s[4] = d
  <2>1. a \in Hex /\ b \in Hex /\ c \in Hex /\ d \in Hex
    BY <1>3, <1>6, <1>9, HexAre
  <2>2. <<a, b, c, d>> \in Seq(Hex) /\ Len(<<a, b, c, d>>) = 4
        /\ <<a, b, c, d>>[1] = a /\ <<a, b, c, d>>[2] = b
        /\ <<a, b, c, d>>[3] = c /\ <<a, b, c, d>>[4] = d
    BY <2>1
  <2>3. QED
    BY <2>2
<1>14. PICK m \in 1 .. 4 :
         m = IF n < 16 THEN 4 ELSE IF n < 256 THEN 3 ELSE IF n < 4096 THEN 2 ELSE 1
  OBVIOUS
<1>15. Digits(n) = SubSeq(s, m, 4)
  <2>1. Digits(n) = SubSeq(<<n \div 4096, (n \div 256) % 16, (n \div 16) % 16, n % 16>>, m, 4)
    BY <1>14 DEF Digits
  <2>2. (n \div 256) % 16 = b
    BY <1>8, <1>11
  <2>3. (n \div 16) % 16 = c
    BY <1>1, <1>5
  <2>4. n \div 4096 = a /\ n % 16 = d
    BY <1>2, <1>11
  <2>5. <<n \div 4096, (n \div 256) % 16, (n \div 16) % 16, n % 16>> = s
    BY <2>2, <2>3, <2>4
  <2> HIDE DEF s
  <2>6. QED
    BY <2>1, <2>5
<1> HIDE DEF s
<1>16. /\ SubSeq(s, m, 4) \in Seq(Hex) /\ Len(SubSeq(s, m, 4)) = 5 - m
       /\ \A i \in 1 .. 5 - m : SubSeq(s, m, 4)[i] = s[m + i - 1]
  <2>1. m \in Nat /\ m >= 1 /\ 4 \in Nat /\ 4 <= Len(s) /\ m <= 4
    BY <1>13
  <2>2. /\ SubSeq(s, m, 4) \in Seq(Hex)
        /\ Len(SubSeq(s, m, 4)) = (IF m <= 4 THEN 4 - m + 1 ELSE 0)
        /\ \A i \in 1 .. Len(SubSeq(s, m, 4)) : SubSeq(s, m, 4)[i] = s[m + i - 1]
    BY <1>13, <2>1, SubSeqCells
  <2>3. (IF m <= 4 THEN 4 - m + 1 ELSE 0) = 5 - m
    BY <2>1
  <2>4. QED
    BY <2>2, <2>3
<1>17. PICK t : t = Digits(n)
  OBVIOUS
<1>18. t \in Seq(Hex) /\ Len(t) = 5 - m /\ \A i \in 1 .. 5 - m : t[i] = s[m + i - 1]
  BY <1>15, <1>16, <1>17
<1>24. t \in Seq(Hex)
  BY <1>18
<1>19. CASE m = 4
  <2>1. Len(t) = 1 /\ t[1] = d
    BY <1>13, <1>18, <1>19
  <2>2. n < 16
    BY <1>14, <1>19
  <2>3. n = d
    BY <1>2, <2>2
  <2>4. Digits(n) \in Seq(Hex) /\ Len(Digits(n)) = 1
    <3>1. t \in Seq(Hex) /\ Len(t) = 1
      BY <1>24, <2>1
    <3>2. QED
      BY <1>17, <3>1
  <2>5. Digits(n)[1] = d
    BY <1>17, <2>1
  <2>6. n = Digits(n)[1]
    BY <2>3, <2>5
  <2>7. QED
    BY <2>4, <2>6
<1>20. CASE m = 3
  <2>1. Len(t) = 2 /\ t[1] = c /\ t[2] = d
    BY <1>13, <1>18, <1>20
  <2>2. n < 256
    BY <1>14, <1>20
  <2>3. n = 16 * c + d
    BY <1>3, <1>6, <1>9, <1>10, <2>2
  <2>4. QED
    BY <1>17, <1>18, <2>1, <2>3
<1>21. CASE m = 2
  <2>1. Len(t) = 3 /\ t[1] = b /\ t[2] = c /\ t[3] = d
    BY <1>13, <1>18, <1>21
  <2>2. n < 4096
    BY <1>14, <1>21
  <2>3. n = 16 * (16 * b + c) + d
    BY <1>10, <2>2
  <2>4. QED
    BY <1>17, <1>18, <2>1, <2>3
<1>22. CASE m = 1
  <2>1. Len(t) = 4 /\ t[1] = a /\ t[2] = b /\ t[3] = c /\ t[4] = d
    BY <1>13, <1>18, <1>22
  <2>2. n = 16 * (16 * (16 * a + b) + c) + d
    BY <1>10
  <2>3. QED
    BY <1>17, <1>18, <2>1, <2>2
<1>23. QED
  BY <1>19, <1>20, <1>21, <1>22

Part1(x)    == Digits(x) \o <<Tilde>>
Part2(i)    == IF i % 16 = 0 THEN <<Other>> ELSE <<>>
Piece(x, i) == Part1(x) \o Part2(i)

LEMMA PieceIs ==
  ASSUME NEW x \in Nat, x < Limit, NEW i
  PROVE  /\ Piece(x, i) \in Seq(Characters)
         /\ \/ Len(Piece(x, i)) = Len(Digits(x)) + 1
            \/ /\ Len(Piece(x, i)) = Len(Digits(x)) + 1 + 1
               /\ Piece(x, i)[Len(Digits(x)) + 1 + 1] = Other
         /\ \A j \in 1 .. Len(Digits(x)) : Piece(x, i)[j] = Digits(x)[j]
         /\ Piece(x, i)[Len(Digits(x)) + 1] = Tilde
<1>1. Hex \subseteq Characters
  BY DEF Hex, Characters
<1>2. PICK d \in Seq(Characters) : d = Digits(x)
  <2>1. Digits(x) \in Seq(Hex)
    BY DigitsAre
  <2>2. QED
    BY <1>1, <2>1, WiderSeq
<1>3. PICK m \in Nat : m = Len(d)
  OBVIOUS
<1>4. PICK tilde \in Seq(Characters) : tilde = <<Tilde>> /\ Len(tilde) = 1 /\ tilde[1] = Tilde
  <2>1. PICK c \in Characters : c = Tilde
    BY DEF Tilde, Characters
  <2>2. <<c>> \in Seq(Characters) /\ Len(<<c>>) = 1 /\ <<c>>[1] = c
    OBVIOUS
  <2>3. QED
    BY <2>1, <2>2
<1>5. PICK r \in Seq(Characters) :
        r = Part2(i) /\ (Len(r) = 0 \/ (Len(r) = 1 /\ r[1] = Other))
  <2>1. PICK c \in Characters : c = Other
    BY DEF Other, Characters
  <2>2. <<c>> \in Seq(Characters) /\ Len(<<c>>) = 1 /\ <<c>>[1] = c
    OBVIOUS
  <2>3. <<>> \in Seq(Characters) /\ Len(<<>>) = 0
    OBVIOUS
  <2>4. Part2(i) = <<c>> \/ Part2(i) = <<>>
    BY <2>1, Zenon DEF Part2
  <2>5. CASE Part2(i) = <<c>>
    <3>1. Part2(i) \in Seq(Characters) /\ Len(Part2(i)) = 1 /\ Part2(i)[1] = Other
      BY <2>1, <2>2, <2>5, Zenon
    <3>2. QED
      BY <3>1
  <2>6. CASE Part2(i) = <<>>
    <3>1. Part2(i) \in Seq(Characters) /\ Len(Part2(i)) = 0
      BY <2>3, <2>6, Zenon
    <3>2. QED
      BY <3>1
  <2>7. QED
    BY <2>4, <2>5, <2>6
<1>6. PICK p \in Seq(Characters) :
        p = Part1(x) /\ Len(p) = m + 1 /\ p[m + 1] = Tilde /\ \A j \in 1 .. m : p[j] = d[j]
  <2>1. /\ d \o tilde \in Seq(Characters) /\ Len(d \o tilde) = Len(d) + Len(tilde)
        /\ \A j \in 1 .. Len(d) : (d \o tilde)[j] = d[j]
        /\ \A j \in 1 .. Len(tilde) : (d \o tilde)[Len(d) + j] = tilde[j]
    BY OnePieceMore
  <2>2. 1 \in 1 .. Len(tilde)
    BY <1>4
  <2>3. (d \o tilde)[m + 1] = Tilde
    BY <1>3, <1>4, <2>1, <2>2
  <2>4. Part1(x) = d \o tilde
    BY <1>2, <1>4 DEF Part1
  <2>5. /\ Part1(x) \in Seq(Characters) /\ Len(Part1(x)) = m + 1
        /\ Part1(x)[m + 1] = Tilde /\ \A j \in 1 .. m : Part1(x)[j] = d[j]
    BY <1>3, <1>4, <2>1, <2>3, <2>4, Zenon
  <2>6. QED
    BY <2>5
<1>7. /\ p \o r \in Seq(Characters) /\ Len(p \o r) = Len(p) + Len(r)
      /\ \A j \in 1 .. Len(p) : (p \o r)[j] = p[j]
      /\ \A j \in 1 .. Len(r) : (p \o r)[Len(p) + j] = r[j]
  BY OnePieceMore
<1>8. PICK q \in Seq(Characters) : q = p \o r /\ q = Piece(x, i)
  <2>1. Piece(x, i) = p \o r
    BY <1>5, <1>6, Zenon DEF Piece
  <2>2. Piece(x, i) \in Seq(Characters)
    BY <1>7, <2>1, Zenon
  <2>3. QED
    BY <2>1, <2>2
<1>9. \A j \in 1 .. m : q[j] = d[j]
  <2>1. \A j \in 1 .. m : j \in 1 .. Len(p)
    BY <1>6
  <2>2. QED
    BY <1>6, <1>7, <1>8, <2>1
<1>10. q[m + 1] = Tilde
  <2>1. m + 1 \in 1 .. Len(p)
    BY <1>6
  <2>2. QED
    BY <1>6, <1>7, <1>8, <2>1
<1>11. Len(q) = m + 1 \/ (Len(q) = m + 1 + 1 /\ q[m + 1 + 1] = Other)
  <2>1. Len(q) = m + 1 + Len(r)
    BY <1>6, <1>7, <1>8
  <2>2. CASE Len(r) = 0
    BY <2>1, <2>2
  <2>3. CASE Len(r) = 1 /\ r[1] = Other
    <3>1. 1 \in 1 .. Len(r)
      BY <2>3
    <3>2. q[Len(p) + 1] = r[1]
      BY <1>7, <1>8, <3>1
    <3>3. QED
      BY <1>6, <2>1, <2>3, <3>2
  <2>4. QED
    BY <1>5, <2>2, <2>3
<1>12. QED
  BY <1>2, <1>3, <1>8, <1>9, <1>10, <1>11

LEMMA OneMoreRead ==
  ASSUME NEW text \in Seq(Characters), NEW read, Readings(text, read), NEW i \in Nat, i < Len(text)
  PROVE  read[i + 1] = Reading(read[i], text[i + 1])
<1>1. i + 1 \in 1 .. Len(text) /\ (i + 1) - 1 = i
  OBVIOUS
<1>2. QED
  BY <1>1 DEF Readings

(* Reading digits d, from a on.                                            *)
LEMMA OneDigit ==
  ASSUME NEW text \in Seq(Characters), NEW read, Readings(text, read), NEW i \in Nat, i < Len(text),
         NEW v \in Nat, NEW ns \in Seq(Nat), read[i] = Reader(v, ns), text[i + 1] \in Hex
  PROVE  read[i + 1] = Reader(16 * v + text[i + 1], ns) /\ 16 * v + text[i + 1] \in Nat
<1>1. Reading(Reader(v, ns), text[i + 1]) = Reader(16 * v + text[i + 1], ns)
  BY OneCharacter
<1>2. read[i + 1] = Reading(read[i], text[i + 1])
  BY OneMoreRead
<1>3. 16 * v + text[i + 1] \in Nat
  <2>1. text[i + 1] \in Nat
    BY HexAre
  <2>2. QED
    BY <2>1
<1>4. QED
  BY <1>1, <1>2, <1>3

(* The cells of q come after a in a text; what a reader has read there.    *)
Spelled(text, a, q) == a + Len(q) <= Len(text) /\ \A j \in 1 .. Len(q) : text[a + j] = q[j]

HasRead(text, read, a, v, ns) ==
  /\ text \in Seq(Characters) /\ Readings(text, read) /\ a \in Nat
  /\ v \in Nat /\ ns \in Seq(Nat) /\ read[a] = Reader(v, ns)

(* Reading its digits makes the number.                                    *)
LEMMA DigitsRead ==
  ASSUME NEW text, NEW read, NEW a, NEW ns, HasRead(text, read, a, 0, ns),
         NEW x \in Nat, x < Limit, NEW d \in Seq(Hex), d = Digits(x), Spelled(text, a, d)
  PROVE  HasRead(text, read, a + Len(d), x, ns)
<1>1. /\ text \in Seq(Characters) /\ Readings(text, read) /\ a \in Nat
      /\ ns \in Seq(Nat) /\ read[a] = Reader(0, ns)
  BY DEF HasRead
<1>2. PICK m \in 1 .. 4 : m = Len(d)
  BY DigitsAre
<1>3. \A j \in 1 .. m : text[a + j] = d[j] /\ d[j] \in Hex
  BY <1>2 DEF Spelled
<1>4. a + m <= Len(text) /\ Len(text) \in Nat
  BY <1>1, <1>2 DEF Spelled
<1>5. 16 * 0 + d[1] = d[1] /\ d[1] \in Nat
  <2>1. d[1] \in Hex
    BY <1>3
  <2>2. d[1] \in Nat
    BY <2>1, HexAre, Zenon
  <2>3. QED
    BY <2>2
<1>6. read[a + 1] = Reader(d[1], ns)
  <2>1. text[a + 1] = d[1] /\ d[1] \in Hex /\ a < Len(text)
    BY <1>1, <1>3, <1>4
  <2>2. QED
    BY <1>1, <1>5, <2>1, OneDigit
<1>12. /\ Len(d) = 1 => x = d[1]
       /\ Len(d) = 2 => x = 16 * d[1] + d[2]
       /\ Len(d) = 3 => x = 16 * (16 * d[1] + d[2]) + d[3]
       /\ Len(d) = 4 => x = 16 * (16 * (16 * d[1] + d[2]) + d[3]) + d[4]
  BY DigitsAre
<1> DEFINE v2 == 16 * d[1] + d[2]
           v3 == 16 * v2 + d[3]
           v4 == 16 * v3 + d[4]
<1>7. ASSUME m >= 2 PROVE read[a + 2] = Reader(v2, ns) /\ v2 \in Nat
  <2>1. text[a + 1 + 1] = d[2] /\ d[2] \in Hex /\ a + 1 < Len(text) /\ a + 1 \in Nat
    <3>1. 2 \in 1 .. m /\ a + 1 + 1 = a + 2
      BY <1>1, <1>7
    <3>2. QED
      BY <1>1, <1>3, <1>4, <1>7, <3>1
  <2>2. read[a + 1 + 1] = Reader(v2, ns) /\ v2 \in Nat
    BY <1>1, <1>5, <1>6, <2>1, OneDigit
  <2> HIDE DEF v2
  <2>3. a + 1 + 1 = a + 2
    BY <1>1
  <2>4. QED
    BY <2>2, <2>3
<1> HIDE DEF v2
<1>8. ASSUME m >= 3 PROVE read[a + 3] = Reader(v3, ns) /\ v3 \in Nat
  <2>1. text[a + 2 + 1] = d[3] /\ d[3] \in Hex /\ a + 2 < Len(text) /\ a + 2 \in Nat
    <3>1. 3 \in 1 .. m /\ a + 2 + 1 = a + 3
      BY <1>1, <1>8
    <3>2. QED
      BY <1>1, <1>3, <1>4, <1>8, <3>1
  <2>2. read[a + 2 + 1] = Reader(v3, ns) /\ v3 \in Nat
    BY <1>1, <1>7, <1>8, <2>1, OneDigit
  <2> HIDE DEF v3
  <2>3. a + 2 + 1 = a + 3
    BY <1>1
  <2>4. QED
    BY <2>2, <2>3
<1> HIDE DEF v3
<1>9. ASSUME m = 4 PROVE read[a + 4] = Reader(v4, ns)
  <2>1. text[a + 3 + 1] = d[4] /\ d[4] \in Hex /\ a + 3 < Len(text) /\ a + 3 \in Nat
    <3>1. 4 \in 1 .. m /\ a + 3 + 1 = a + 4
      BY <1>1, <1>9
    <3>2. QED
      BY <1>1, <1>3, <1>4, <1>9, <3>1
  <2>2. read[a + 3 + 1] = Reader(v4, ns)
    BY <1>1, <1>8, <1>9, <2>1, OneDigit
  <2> HIDE DEF v4
  <2>3. a + 3 + 1 = a + 4
    BY <1>1
  <2>4. QED
    BY <2>2, <2>3
<1> HIDE DEF v4
<1>10. read[a + m] = Reader(x, ns)
  <2>1. CASE m = 1
    <3>1. x = d[1]
      BY <1>2, <1>12, <2>1
    <3>2. QED
      BY <1>6, <2>1, <3>1
  <2>2. CASE m = 2
    <3>1. x = v2
      BY <1>2, <1>12, <2>2 DEF v2
    <3>2. QED
      BY <1>7, <2>2, <3>1
  <2>3. CASE m = 3
    <3>1. x = v3
      BY <1>2, <1>12, <2>3 DEF v2, v3
    <3>2. QED
      BY <1>8, <2>3, <3>1
  <2>4. CASE m = 4
    <3>1. x = v4
      BY <1>2, <1>12, <2>4 DEF v2, v3, v4
    <3>2. QED
      BY <1>9, <2>4, <3>1
  <2>5. QED
    BY <2>1, <2>2, <2>3, <2>4
<1>11. QED
  BY <1>1, <1>2, <1>10 DEF HasRead

(* Reading a piece adds its number to those read.                          *)
LEMMA PieceRead ==
  ASSUME NEW text, NEW read, NEW a, NEW ns, HasRead(text, read, a, 0, ns),
         NEW x \in Nat, x < Limit, NEW i, NEW q, q = Piece(x, i), Spelled(text, a, q)
  PROVE  HasRead(text, read, a + Len(q), 0, Append(ns, x))
<1>0. /\ text \in Seq(Characters) /\ Readings(text, read) /\ a \in Nat
      /\ ns \in Seq(Nat) /\ read[a] = Reader(0, ns)
  BY DEF HasRead
<1>1. PICK d \in Seq(Hex) : d = Digits(x)
  BY DigitsAre
<1>2. PICK m \in Nat : m = Len(d)
  OBVIOUS
<1>3. /\ q \in Seq(Characters)
      /\ Len(q) = m + 1 \/ (Len(q) = m + 1 + 1 /\ q[m + 1 + 1] = Other)
      /\ \A j \in 1 .. m : q[j] = d[j]
      /\ q[m + 1] = Tilde
  BY <1>1, <1>2, PieceIs
<1>4. PICK l \in Nat, n \in Nat : l = Len(q) /\ n = Len(text)
  BY <1>0, <1>3
<1>5. l >= m + 1 /\ a + l <= n /\ \A j \in 1 .. l : text[a + j] = q[j]
  BY <1>3, <1>4 DEF Spelled
<1>6. PICK b \in Nat : b = a + m /\ b < n /\ b + 1 <= n
  BY <1>0, <1>5
<1>7. PICK more \in Seq(Nat) : more = Append(ns, x)
  <2>1. Append(ns, x) \in Seq(Nat)
    BY <1>0
  <2>2. QED
    BY <2>1
<1>8. HasRead(text, read, b, x, ns)
  <2>1. Spelled(text, a, d)
    <3>1. ASSUME NEW j \in 1 .. m PROVE text[a + j] = d[j]
      <4>1. j \in 1 .. l
        BY <1>5
      <4>2. QED
        BY <1>3, <1>5, <4>1
    <3>2. QED
      BY <1>2, <1>4, <1>6, <3>1 DEF Spelled
  <2>2. HasRead(text, read, a + Len(d), x, ns)
    BY <1>1, <2>1, DigitsRead
  <2>3. QED
    BY <1>2, <1>6, <2>2
<1>9. HasRead(text, read, b + 1, 0, more)
  <2>1. m + 1 \in 1 .. l /\ a + (m + 1) = b + 1
    BY <1>0, <1>5, <1>6
  <2>2. text[b + 1] = Tilde
    BY <1>3, <1>5, <2>1
  <2>3. read[b + 1] = Reading(read[b], text[b + 1])
    BY <1>0, <1>4, <1>6, OneMoreRead
  <2>4. read[b] = Reader(x, ns)
    BY <1>8 DEF HasRead
  <2>5. Reading(Reader(x, ns), Tilde) = Reader(0, more)
    BY <1>0, <1>7, OneCharacter
  <2>6. QED
    BY <1>0, <2>2, <2>3, <2>4, <2>5 DEF HasRead
<1>10. CASE l = m + 1
  <2>1. a + Len(q) = b + 1
    BY <1>0, <1>4, <1>6, <1>10
  <2>2. QED
    BY <1>7, <1>9, <2>1
<1>11. CASE l = m + 1 + 1 /\ q[m + 1 + 1] = Other
  <2>1. PICK c \in Nat : c = b + 1 /\ c < n
    BY <1>0, <1>5, <1>6, <1>11
  <2>2. m + 1 + 1 \in 1 .. l /\ a + (m + 1 + 1) = c + 1
    BY <1>0, <1>6, <1>11, <2>1
  <2>3. text[c + 1] = Other
    BY <1>5, <1>11, <2>2
  <2>4. read[c + 1] = Reading(read[c], text[c + 1])
    BY <1>0, <1>4, <2>1, OneMoreRead
  <2>5. read[c] = Reader(0, more)
    BY <1>9, <2>1 DEF HasRead
  <2>6. Reading(Reader(0, more), Other) = Reader(0, more)
    BY OneCharacter
  <2>7. HasRead(text, read, c + 1, 0, more)
    BY <1>0, <2>3, <2>4, <2>5, <2>6 DEF HasRead
  <2>8. a + Len(q) = c + 1
    BY <1>0, <1>4, <1>11, <2>2
  <2>9. QED
    BY <1>7, <2>7, <2>8
<1>12. QED
  BY <1>3, <1>4, <1>10, <1>11

(* The first k numbers are the first k - 1 and one more.                   *)
LEMMA OneLonger ==
  ASSUME NEW s \in Seq(Nat), NEW k \in 1 .. Len(s)
  PROVE  /\ SubSeq(s, 1, k - 1) \in Seq(Nat)
         /\ SubSeq(s, 1, k) = Append(SubSeq(s, 1, k - 1), s[k])
<1>1. k - 1 \in Nat /\ k - 1 <= Len(s) /\ k \in Nat /\ 1 \in Nat /\ 1 >= 1 /\ k <= Len(s)
  OBVIOUS
<1>2. PICK a \in Seq(Nat) :
        /\ a = SubSeq(s, 1, k - 1) /\ Len(a) = k - 1
        /\ \A i \in 1 .. k - 1 : a[i] = s[1 + i - 1]
  <2>1. /\ SubSeq(s, 1, k - 1) \in Seq(Nat)
        /\ Len(SubSeq(s, 1, k - 1)) = (IF 1 <= k - 1 THEN k - 1 - 1 + 1 ELSE 0)
        /\ \A i \in 1 .. Len(SubSeq(s, 1, k - 1)) : SubSeq(s, 1, k - 1)[i] = s[1 + i - 1]
    BY <1>1, SubSeqCells
  <2>2. (IF 1 <= k - 1 THEN k - 1 - 1 + 1 ELSE 0) = k - 1
    OBVIOUS
  <2>3. QED
    BY <2>1, <2>2
<1>3. PICK b \in Seq(Nat) :
        /\ b = SubSeq(s, 1, k) /\ Len(b) = k /\ \A i \in 1 .. k : b[i] = s[1 + i - 1]
  <2>1. /\ SubSeq(s, 1, k) \in Seq(Nat)
        /\ Len(SubSeq(s, 1, k)) = (IF 1 <= k THEN k - 1 + 1 ELSE 0)
        /\ \A i \in 1 .. Len(SubSeq(s, 1, k)) : SubSeq(s, 1, k)[i] = s[1 + i - 1]
    BY <1>1, SubSeqCells
  <2>2. (IF 1 <= k THEN k - 1 + 1 ELSE 0) = k
    OBVIOUS
  <2>3. QED
    BY <2>1, <2>2
<1>4. PICK x \in Nat : x = s[k]
  OBVIOUS
<1>5. /\ Append(a, x) \in Seq(Nat) /\ Len(Append(a, x)) = k /\ Append(a, x)[k] = x
      /\ \A i \in 1 .. k - 1 : Append(a, x)[i] = a[i]
  BY <1>2
<1>6. ASSUME NEW i \in 1 .. k PROVE b[i] = Append(a, x)[i]
  <2>1. 1 + i - 1 = i
    OBVIOUS
  <2>2. CASE i = k
    BY <1>3, <1>4, <1>5, <2>1, <2>2
  <2>3. CASE i # k
    <3>1. i \in 1 .. k - 1
      BY <2>3
    <3>2. QED
      BY <1>2, <1>3, <1>5, <2>1, <3>1
  <2>4. QED
    BY <2>2, <2>3
<1>7. b = Append(a, x)
  <2>1. PICK c \in Seq(Nat) : c = Append(a, x) /\ Len(c) = k
    BY <1>5
  <2>2. \A i \in 1 .. Len(b) : b[i] = c[i]
    BY <1>3, <1>6, <2>1
  <2>3. b = c
    BY <1>3, <2>1, <2>2, SeqEqual
  <2>4. QED
    BY <2>1, <2>3
<1>8. QED
  BY <1>2, <1>3, <1>4, <1>7

Pieces16(nums) == [i \in DOMAIN nums |-> Piece(nums[i], i)]

(* The encoded numbers are their pieces and the exclamation mark.          *)
LEMMA EncodedIs ==
  ASSUME NEW nums \in Seq(Nat), \A i \in 1 .. Len(nums) : nums[i] < Limit
  PROVE  /\ Pieces16(nums) \in Seq(Seq(Characters)) /\ Len(Pieces16(nums)) = Len(nums)
         /\ \A i \in 1 .. Len(nums) : Pieces16(nums)[i] = Piece(nums[i], i)
         /\ Encoded(nums) \in Seq(Characters)
         /\ Len(Encoded(nums)) = Len(FlattenSeq(Pieces16(nums))) + 1
         /\ \A j \in 1 .. Len(FlattenSeq(Pieces16(nums))) :
              Encoded(nums)[j] = FlattenSeq(Pieces16(nums))[j]
         /\ Encoded(nums)[Len(FlattenSeq(Pieces16(nums))) + 1] = Bang
<1>1. ASSUME NEW i \in 1 .. Len(nums) PROVE Piece(nums[i], i) \in Seq(Characters)
  <2>1. nums[i] \in Nat /\ nums[i] < Limit
    OBVIOUS
  <2>2. QED
    BY <2>1, PieceIs
<1>2. PICK s : s = Pieces16(nums)
  OBVIOUS
<1>3. /\ s \in Seq(Seq(Characters)) /\ Len(s) = Len(nums)
      /\ \A i \in 1 .. Len(nums) : s[i] = Piece(nums[i], i)
  <2>1. DOMAIN nums = 1 .. Len(nums) /\ Len(nums) \in Nat
    OBVIOUS
  <2>2. s = [i \in 1 .. Len(nums) |-> Piece(nums[i], i)]
    BY <1>2, <2>1 DEF Pieces16
  <2>3. s \in Seq(Seq(Characters))
    BY <1>1, <2>1, <2>2
  <2>4. QED
    BY <2>1, <2>2, <2>3
<1>4. PICK flat \in Seq(Characters) : flat = FlattenSeq(s)
  BY <1>3, Flattening
<1>5. PICK bang \in Seq(Characters) : bang = <<Bang>> /\ Len(bang) = 1 /\ bang[1] = Bang
  <2>1. PICK c \in Characters : c = Bang
    BY DEF Bang, Characters
  <2>2. <<c>> \in Seq(Characters) /\ Len(<<c>>) = 1 /\ <<c>>[1] = c
    OBVIOUS
  <2>3. QED
    BY <2>1, <2>2
<1>6. Encoded(nums) = flat \o bang
  <2>1. Encoded(nums) = FlattenSeq(Pieces16(nums)) \o <<Bang>>
    BY Zenon DEF Encoded, Pieces16, Piece, Part1, Part2
  <2>2. QED
    BY <1>2, <1>4, <1>5, <2>1
<1>7. /\ flat \o bang \in Seq(Characters) /\ Len(flat \o bang) = Len(flat) + Len(bang)
      /\ \A j \in 1 .. Len(flat) : (flat \o bang)[j] = flat[j]
      /\ \A j \in 1 .. Len(bang) : (flat \o bang)[Len(flat) + j] = bang[j]
  BY OnePieceMore
<1>8. (flat \o bang)[Len(flat) + 1] = Bang
  <2>1. 1 \in 1 .. Len(bang)
    BY <1>5
  <2>2. QED
    BY <1>5, <1>7, <2>1
<1>9. /\ Encoded(nums) \in Seq(Characters) /\ Len(Encoded(nums)) = Len(flat) + 1
      /\ \A j \in 1 .. Len(flat) : Encoded(nums)[j] = flat[j]
      /\ Encoded(nums)[Len(flat) + 1] = Bang
  BY <1>5, <1>6, <1>7, <1>8
<1>10. QED
  BY <1>2, <1>3, <1>4, <1>9

(* What is encoded behind a title, from which no number remains, is what is *)
(* decoded.                                                                *)
LEMMA DecodedEncoded ==
  ASSUME NEW nums \in Seq(Nat), \A i \in 1 .. Len(nums) : nums[i] < Limit,
         NEW text, NEW read, NEW a, HasRead(text, read, a, 0, <<>>),
         Spelled(text, a, Encoded(nums)), Len(text) = a + Len(Encoded(nums))
  PROVE  Decoded(text) = nums
<1>0. /\ text \in Seq(Characters) /\ Readings(text, read) /\ a \in Nat /\ Len(text) \in Nat
  BY DEF HasRead
<1>1. PICK s \in Seq(Seq(Characters)) :
        /\ s = Pieces16(nums) /\ Len(s) = Len(nums)
        /\ \A i \in 1 .. Len(nums) : s[i] = Piece(nums[i], i)
  BY EncodedIs
<1>2. PICK flat \in Seq(Characters) : flat = FlattenSeq(s)
  BY Flattening
<1>3. PICK e \in Seq(Characters) :
        /\ e = Encoded(nums) /\ Len(e) = Len(flat) + 1 /\ e[Len(flat) + 1] = Bang
        /\ \A j \in 1 .. Len(flat) : e[j] = flat[j]
  BY <1>1, <1>2, EncodedIs
<1>4. PICK off : Laid(s, flat, off)
  BY <1>2, Flattening
<1>5. PICK n \in Nat : n = Len(nums)
  OBVIOUS
<1>6. /\ off \in [0 .. n -> Nat] /\ off[0] = 0 /\ Len(flat) = off[n]
      /\ \A k \in 1 .. n : /\ s[k] = Piece(nums[k], k) /\ nums[k] \in Nat /\ nums[k] < Limit
                           /\ off[k] = off[k - 1] + Len(s[k])
                           /\ \A j \in 1 .. Len(s[k]) : flat[off[k - 1] + j] = s[k][j]
  BY <1>1, <1>4, <1>5 DEF Laid
<1>7. \A k \in 1 .. n : s[k] \in Seq(Characters) /\ Len(s[k]) \in Nat
  BY <1>1, <1>5
<1>8. \A k \in 0 .. n : off[k] <= off[n]
  <2>1. ASSUME NEW k \in 1 .. n PROVE off[k - 1] <= off[k]
    <3>1. k - 1 \in 0 .. n /\ k \in 0 .. n
      OBVIOUS
    <3>2. off[k - 1] \in Nat /\ off[k] \in Nat
      BY <1>6, <3>1
    <3>3. off[k] = off[k - 1] + Len(s[k]) /\ Len(s[k]) \in Nat
      BY <1>6, <1>7
    <3>4. QED
      BY <3>2, <3>3
  <2>2. \A k \in 0 .. n : \A m \in k .. n : off[k] <= off[m]
    BY <1>6, <2>1, Rising
  <2>3. QED
    BY <2>2
<1>9. PICK l \in Nat : l = Len(flat) /\ l = off[n] /\ Len(e) = l + 1
  BY <1>3, <1>6
<1>10. PICK size1 \in Nat : size1 = Len(text) /\ size1 = a + (l + 1)
  BY <1>0, <1>3, <1>9
<1>11. \A j \in 1 .. l + 1 : text[a + j] = e[j]
  BY <1>3, <1>9 DEF Spelled
<1>12. \A j \in 1 .. l : text[a + j] = flat[j]
  <2>1. \A j \in 1 .. l : j \in 1 .. l + 1
    OBVIOUS
  <2>2. QED
    BY <1>3, <1>9, <1>11, <2>1
<1> DEFINE S == {k \in 0 .. n : HasRead(text, read, a + off[k], 0, SubSeq(nums, 1, k))}
<1>13. 0 \in S
  <2>1. a + off[0] = a
    BY <1>0, <1>6
  <2>2. SubSeq(nums, 1, 0) = <<>>
    OBVIOUS
  <2>3. HasRead(text, read, a + off[0], 0, SubSeq(nums, 1, 0))
    BY <2>1, <2>2, Zenon
  <2>4. 0 \in 0 .. n
    OBVIOUS
  <2>5. QED
    BY <2>3, <2>4, Zenon
<1>14. ASSUME NEW k \in 1 .. n, k - 1 \in S PROVE k \in S
  <2>1. PICK o \in Nat : o = off[k - 1]
    <3>1. k - 1 \in 0 .. n
      OBVIOUS
    <3>2. QED
      BY <1>6, <3>1
  <2>2. PICK q : q = s[k]
    OBVIOUS
  <2>3. /\ q = Piece(nums[k], k) /\ off[k] = o + Len(q) /\ Len(q) \in Nat
        /\ \A j \in 1 .. Len(q) : flat[o + j] = q[j]
    BY <1>6, <1>7, <2>1, <2>2
  <2>4. o + Len(q) <= l
    <3>1. k \in 0 .. n
      OBVIOUS
    <3>2. QED
      BY <1>8, <1>9, <2>3, <3>1
  <2>5. PICK ns \in Seq(Nat) :
          ns = SubSeq(nums, 1, k - 1) /\ SubSeq(nums, 1, k) = Append(ns, nums[k])
    BY <1>5, OneLonger
  <2>6. PICK b \in Nat : b = a + o
    BY <1>0
  <2>7. HasRead(text, read, b, 0, ns)
    BY <1>14, <2>1, <2>5, <2>6
  <2>8. Spelled(text, b, q)
    <3>1. ASSUME NEW j \in 1 .. Len(q) PROVE text[b + j] = q[j]
      <4>1. o + j \in 1 .. l /\ a + (o + j) = b + j
        BY <1>0, <2>3, <2>4, <2>6
      <4>2. QED
        BY <1>12, <2>3, <4>1
    <3>2. b + Len(q) <= size1
      BY <1>0, <1>10, <2>3, <2>4, <2>6
    <3>3. QED
      BY <1>10, <3>1, <3>2 DEF Spelled
  <2>9. PICK x \in Nat : x = nums[k] /\ x < Limit
    BY <1>6
  <2>10. HasRead(text, read, b + Len(q), 0, Append(ns, x))
    <3>1. q = Piece(x, k)
      BY <2>3, <2>9
    <3>2. QED
      BY <2>7, <2>8, <2>9, <3>1, PieceRead
  <2>11. b + Len(q) = a + off[k]
    BY <1>0, <2>3, <2>6
  <2>12. HasRead(text, read, a + off[k], 0, SubSeq(nums, 1, k))
    BY <2>5, <2>9, <2>10, <2>11
  <2>13. k \in 0 .. n
    OBVIOUS
  <2>14. QED
    BY <2>12, <2>13, Zenon
<1>15. n \in S
  <2> HIDE DEF S
  <2>1. \A k \in 0 .. n : k \in S
    BY <1>13, <1>14, Inductive
  <2>2. QED
    BY <2>1
<1>16. SubSeq(nums, 1, n) = nums
  BY <1>5
<1>17. PICK b \in Nat : b = a + l
  BY <1>0
<1>18. read[b] = Reader(0, nums)
  <2>1. HasRead(text, read, a + off[n], 0, SubSeq(nums, 1, n))
    BY <1>15
  <2>2. QED
    BY <1>9, <1>16, <1>17, <2>1 DEF HasRead
<1>19. text[b + 1] = Bang /\ size1 = b + 1 /\ b < size1
  <2>1. l + 1 \in 1 .. l + 1 /\ a + (l + 1) = b + 1
    BY <1>0, <1>17
  <2>2. text[b + 1] = Bang
    BY <1>3, <1>9, <1>11, <2>1
  <2>3. QED
    BY <1>10, <2>1, <2>2
<1>20. read[b + 1] = Reading(read[b], text[b + 1])
  BY <1>0, <1>10, <1>19, OneMoreRead
<1>21. Reading(Reader(0, nums), Bang).nums = nums
  BY OneCharacter
<1>22. Decoded(text) = read[b + 1].nums
  BY <1>0, <1>10, <1>19 DEF Readings
<1>23. QED
  BY <1>18, <1>19, <1>20, <1>21, <1>22

-----------------------------------------------------------------------------
(* Saving and opening, storing and loading.                                *)

(* A cell, with or without its control bit, has no more than four digits.  *)
LEMMA CellsBelowLimit == \A c \in Cells : c \in Nat /\ c < Limit
<1>1. ASSUME NEW c \in Cells PROVE c < Limit
  <2>1. CASE c \in 0 .. Base - 1
    BY <2>1, Sizes0 DEF Limit
  <2>2. CASE c = BOF + Ctl
    BY <2>2, Sizes0 DEF Limit
  <2>3. QED
    BY <2>1, <2>2 DEF Cells
<1>2. QED
  BY <1>1, CellsAreNumbers

LEMMA OtherRead ==
  ASSUME NEW text, NEW read, NEW a, NEW v, NEW ns, HasRead(text, read, a, v, ns),
         a < Len(text), text[a + 1] = Other
  PROVE  HasRead(text, read, a + 1, 0, ns)
<1>1. /\ text \in Seq(Characters) /\ Readings(text, read) /\ a \in Nat
      /\ v \in Nat /\ ns \in Seq(Nat) /\ read[a] = Reader(v, ns)
  BY DEF HasRead
<1>2. read[a + 1] = Reading(read[a], text[a + 1])
  BY <1>1, OneMoreRead
<1>3. Reading(Reader(v, ns), Other) = Reader(0, ns)
  BY <1>1, OneCharacter
<1>4. QED
  BY <1>1, <1>2, <1>3 DEF HasRead

LEMMA DigitRead ==
  ASSUME NEW text, NEW read, NEW a, NEW v, NEW ns, HasRead(text, read, a, v, ns),
         a < Len(text), text[a + 1] \in Hex
  PROVE  \E w : HasRead(text, read, a + 1, w, ns)
<1>1. /\ text \in Seq(Characters) /\ Readings(text, read) /\ a \in Nat
      /\ v \in Nat /\ ns \in Seq(Nat) /\ read[a] = Reader(v, ns)
  BY DEF HasRead
<1>2. read[a + 1] = Reader(16 * v + text[a + 1], ns) /\ 16 * v + text[a + 1] \in Nat
  BY <1>1, OneDigit
<1>3. HasRead(text, read, a + 1, 16 * v + text[a + 1], ns)
  BY <1>1, <1>2 DEF HasRead
<1>4. QED
  BY <1>3

(* The title, character by character.                                      *)
LEMMA TitleIs ==
  /\ Title \in Seq(Characters) /\ Len(Title) = 9
  /\ \A j \in {1, 2, 7, 8, 9} : Title[j] = Other
  /\ \A j \in {3, 4, 5, 6} : Title[j] \in Hex
<1>1. PICK o \in Characters : o = Other
  BY DEF Other, Characters
<1>2. 9 \in Characters /\ 8 \in Characters /\ 3 \in Characters /\ 0 \in Characters
  BY DEF Characters
<1>3. 9 \in Hex /\ 8 \in Hex /\ 3 \in Hex /\ 0 \in Hex
  BY DEF Hex
<1>4. PICK t : t = <<o, o, 9, 8, 3, 0, o, o, o>>
  OBVIOUS
<1>5. /\ t \in Seq(Characters) /\ Len(t) = 9 /\ t[1] = o /\ t[2] = o /\ t[3] = 9 /\ t[4] = 8
      /\ t[5] = 3 /\ t[6] = 0 /\ t[7] = o /\ t[8] = o /\ t[9] = o
  BY <1>2, <1>4
<1>6. Title = t
  BY <1>1, <1>4 DEF Title
<1>7. QED
  BY <1>1, <1>3, <1>5, <1>6

(* The number in the title is forgotten at its end.                        *)
LEMMA TitleRead ==
  ASSUME NEW text \in Seq(Characters), NEW read, Readings(text, read), Spelled(text, 0, Title)
  PROVE  HasRead(text, read, 9, 0, <<>>)
<1>1. Len(text) \in Nat /\ Len(text) >= 9
  BY TitleIs DEF Spelled
<1>2. \A j \in 1 .. 9 : text[j] = Title[j]
  <2>1. \A j \in 1 .. 9 : text[0 + j] = Title[j]
    BY TitleIs DEF Spelled
  <2>2. QED
    BY <2>1
<1>3. /\ text[0 + 1] = Other /\ text[1 + 1] = Other /\ text[6 + 1] = Other
      /\ text[7 + 1] = Other /\ text[8 + 1] = Other
  BY <1>2, TitleIs
<1>4. text[2 + 1] \in Hex /\ text[3 + 1] \in Hex /\ text[4 + 1] \in Hex /\ text[5 + 1] \in Hex
  BY <1>2, TitleIs
<1>5. HasRead(text, read, 0, 0, <<>>)
  <2>1. read[0] = Reader(0, <<>>)
    BY DEF Readings
  <2>2. <<>> \in Seq(Nat)
    OBVIOUS
  <2>3. QED
    BY <2>1, <2>2 DEF HasRead
<1> DEFINE Past(i) == \E w : HasRead(text, read, i, w, <<>>)
<1>6. ASSUME NEW i \in 0 .. 8, Past(i), text[i + 1] = Other \/ text[i + 1] \in Hex
      PROVE  Past(i + 1)
  <2>1. PICK w : HasRead(text, read, i, w, <<>>)
    BY <1>6
  <2>2. i < Len(text)
    BY <1>1
  <2>3. CASE text[i + 1] = Other
    BY <2>1, <2>2, <2>3, OtherRead
  <2>4. CASE text[i + 1] \in Hex
    BY <2>1, <2>2, <2>4, DigitRead
  <2>5. QED
    BY <1>6, <2>3, <2>4
<1>7. Past(0)
  BY <1>5
<1> HIDE DEF Past
<1>8. Past(0 + 1)
  BY <1>3, <1>6, <1>7
<1>9. Past(1 + 1)
  BY <1>3, <1>6, <1>8
<1>10. Past(2 + 1)
  BY <1>4, <1>6, <1>9
<1>11. Past(3 + 1)
  BY <1>4, <1>6, <1>10
<1>12. Past(4 + 1)
  BY <1>4, <1>6, <1>11
<1>13. Past(5 + 1)
  BY <1>4, <1>6, <1>12
<1>14. Past(6 + 1)
  BY <1>3, <1>6, <1>13
<1>15. Past(7 + 1)
  BY <1>3, <1>6, <1>14
<1>16. PICK w : HasRead(text, read, 8, w, <<>>)
  BY <1>15 DEF Past
<1>17. HasRead(text, read, 8 + 1, 0, <<>>)
  <2>1. 8 < Len(text)
    BY <1>1
  <2>2. QED
    BY <1>3, <1>16, <2>1, OtherRead
<1>18. QED
  BY <1>17

(* A title before the numbers does not change them.                        *)
LEMMA TitledDecoded ==
  ASSUME NEW nums \in Seq(Nat), \A i \in 1 .. Len(nums) : nums[i] < Limit
  PROVE  Decoded(Title \o Encoded(nums)) = nums
<1>1. PICK e \in Seq(Characters) : e = Encoded(nums)
  BY EncodedIs
<1>2. PICK t \in Seq(Characters) : t = Title /\ Len(t) = 9
  BY TitleIs
<1>3. PICK text \in Seq(Characters) :
        /\ text = t \o e /\ Len(text) = 9 + Len(e)
        /\ \A j \in 1 .. 9 : text[j] = t[j]
        /\ \A j \in 1 .. Len(e) : text[9 + j] = e[j]
  <2>1. /\ t \o e \in Seq(Characters) /\ Len(t \o e) = Len(t) + Len(e)
        /\ \A j \in 1 .. Len(t) : (t \o e)[j] = t[j]
        /\ \A j \in 1 .. Len(e) : (t \o e)[Len(t) + j] = e[j]
    BY OnePieceMore
  <2>2. PICK x \in Seq(Characters) : x = t \o e
    BY <2>1
  <2>3. /\ Len(x) = 9 + Len(e)
        /\ \A j \in 1 .. 9 : x[j] = t[j]
        /\ \A j \in 1 .. Len(e) : x[9 + j] = e[j]
    BY <1>2, <2>1, <2>2
  <2>4. QED
    BY <2>2, <2>3
<1>4. PICK read : Readings(text, read)
  BY Reads
<1>5. Spelled(text, 0, Title)
  <2>1. \A j \in 1 .. 9 : text[0 + j] = t[j]
    BY <1>3
  <2>2. 0 + 9 <= Len(text)
    BY <1>3
  <2>3. QED
    BY <1>2, <2>1, <2>2 DEF Spelled
<1>6. HasRead(text, read, 9, 0, <<>>)
  BY <1>4, <1>5, TitleRead
<1>7. Spelled(text, 9, Encoded(nums)) /\ Len(text) = 9 + Len(Encoded(nums))
  BY <1>1, <1>3 DEF Spelled
<1>8. Decoded(text) = nums
  BY <1>6, <1>7, DecodedEncoded
<1>9. QED
  BY <1>1, <1>2, <1>3, <1>8

(* Numbers without a title are decoded as they are.                        *)
LEMMA JustDecoded ==
  ASSUME NEW nums \in Seq(Nat), \A i \in 1 .. Len(nums) : nums[i] < Limit
  PROVE  Decoded(Encoded(nums)) = nums
<1>1. PICK e \in Seq(Characters) : e = Encoded(nums)
  BY EncodedIs
<1>2. PICK read : Readings(e, read)
  BY Reads
<1>3. HasRead(e, read, 0, 0, <<>>)
  <2>1. read[0] = Reader(0, <<>>)
    BY <1>2 DEF Readings
  <2>2. <<>> \in Seq(Nat)
    OBVIOUS
  <2>3. QED
    BY <1>2, <2>1, <2>2 DEF HasRead
<1>4. Spelled(e, 0, e) /\ Len(e) = 0 + Len(e)
  <2>1. 0 + Len(e) = Len(e)
    OBVIOUS
  <2>2. \A j \in 1 .. Len(e) : e[0 + j] = e[j]
    OBVIOUS
  <2>3. QED
    BY <2>1, <2>2 DEF Spelled
<1>5. Decoded(e) = nums
  BY <1>1, <1>3, <1>4, DecodedEncoded
<1>6. QED
  BY <1>1, <1>5

(* An image that is saved opens as it was.                                 *)
LEMMA ImageReopened ==
  ASSUME NEW p \in Seq(Cells) PROVE Decoded(Title \o Encoded(p)) = p
<1>1. p \in Seq(Nat)
  BY SeqCells
<1>2. \A i \in 1 .. Len(p) : p[i] < Limit
  BY CellsBelowLimit
<1>3. QED
  BY <1>1, <1>2, TitledDecoded

(* The words of a part that holds bytes only; put back, they change nothing*)
LEMMA WordsPutBack ==
  ASSUME NEW p \in Seq(Cells), NEW x \in Nat, NEW n \in Nat, x + 2 * n <= Len(p),
         \A i \in x + 1 .. x + 2 * n : p[i] < Base
  PROVE  /\ Words(p, x, n) \in Seq(Nat) /\ \A k \in 1 .. Len(Words(p, x, n)) : Words(p, x, n)[k] < Limit
         /\ Put(p, x, BytesOf(Words(p, x, n))) = p
<1>1. Len(p) \in Nat /\ Base \in Nat /\ Base >= 2 /\ Base <= 256
  BY Sizes0
<1>2. ASSUME NEW i \in x + 1 .. x + 2 * n PROVE p[i] \in 0 .. Base - 1
  <2>1. i \in 1 .. Len(p)
    BY <1>1
  <2>2. p[i] \in Cells
    BY <2>1
  <2>3. p[i] \in Nat
    BY <2>2, CellsAreNumbers
  <2>4. QED
    BY <1>1, <1>2, <2>3
<1>3. ASSUME NEW k \in 1 .. n
      PROVE  /\ Word(p, x + 2 * (k - 1)) \in 0 .. Base * Base - 1
             /\ Word(p, x + 2 * (k - 1)) % Base = p[x + (2 * k - 1)]
             /\ (Word(p, x + 2 * (k - 1)) \div Base) % Base = p[x + 2 * k]
  <2>1. PICK y \in Nat : y = x + 2 * (k - 1)
    OBVIOUS
  <2>2. /\ y + 1 \in x + 1 .. x + 2 * n /\ y + 2 \in x + 1 .. x + 2 * n
        /\ y + 1 = x + (2 * k - 1) /\ y + 2 = x + 2 * k
    BY <2>1
  <2>3. p[y + 1] \in 0 .. Base - 1 /\ p[y + 2] \in 0 .. Base - 1
    BY <1>2, <2>2
  <2>4. PICK w : w = Word(p, y)
    OBVIOUS
  <2>5. w \in 0 .. Base * Base - 1 /\ Bytes(w) = <<p[y + 1], p[y + 2]>>
    BY <2>3, <2>4, BytesOfWord
  <2>6. w % Base = p[y + 1] /\ (w \div Base) % Base = p[y + 2]
    BY <2>5 DEF Bytes
  <2>7. QED
    BY <2>1, <2>2, <2>4, <2>5, <2>6
<1>4. PICK ws \in Seq(Nat) :
        /\ ws = Words(p, x, n) /\ Len(ws) = n
        /\ \A k \in 1 .. n : ws[k] = Word(p, x + 2 * (k - 1)) /\ ws[k] \in 0 .. Base * Base - 1
  <2>1. \A k \in 1 .. n : Word(p, x + 2 * (k - 1)) \in Nat
    BY <1>3
  <2>2. Words(p, x, n) \in Seq(Nat) /\ Len(Words(p, x, n)) = n
    BY <2>1 DEF Words
  <2>3. \A k \in 1 .. n : Words(p, x, n)[k] = Word(p, x + 2 * (k - 1))
    BY DEF Words
  <2>4. QED
    BY <1>3, <2>2, <2>3
<1>5. \A w \in 0 .. Base * Base - 1 : w < Limit
  <2>1. Base * Base <= 256 * 256
    BY <1>1
  <2>2. PICK m \in Nat : m = Base * Base
    BY <1>1
  <2>3. m <= Limit /\ Limit \in Nat
    BY <2>1, <2>2 DEF Limit
  <2>4. QED
    BY <2>2, <2>3
<1>6. PICK cells \in Seq(Cells) :
        /\ cells = BytesOf(ws) /\ Len(cells) = 2 * n
        /\ \A k \in 1 .. n : cells[2 * k - 1] = p[x + (2 * k - 1)] /\ cells[2 * k] = p[x + 2 * k]
  <2>1. /\ BytesOf(ws) \in Seq(0 .. Base - 1) /\ Len(BytesOf(ws)) = 2 * Len(ws)
        /\ \A k \in 1 .. Len(ws) : /\ BytesOf(ws)[2 * k - 1] = ws[k] % Base
                                   /\ BytesOf(ws)[2 * k] = (ws[k] \div Base) % Base
    BY BytesOfCells
  <2>2. BytesOf(ws) \in Seq(Cells)
    BY <2>1, ByteSeqs
  <2>3. PICK cells \in Seq(Cells) : cells = BytesOf(ws)
    BY <2>2
  <2>4. ASSUME NEW k \in 1 .. n
        PROVE  cells[2 * k - 1] = p[x + (2 * k - 1)] /\ cells[2 * k] = p[x + 2 * k]
    <3>1. cells[2 * k - 1] = ws[k] % Base /\ cells[2 * k] = (ws[k] \div Base) % Base
      BY <1>4, <2>1, <2>3
    <3>2. ws[k] = Word(p, x + 2 * (k - 1))
      BY <1>4
    <3>3. QED
      BY <1>3, <3>1, <3>2, Zenon
  <2>5. Len(cells) = 2 * n
    BY <1>4, <2>1, <2>3
  <2>6. QED
    BY <2>3, <2>4, <2>5
<1>7. ASSUME NEW j \in 1 .. 2 * n PROVE cells[j] = p[x + j]
  <2>1. PICK k \in 1 .. n : j = 2 * k - 1 \/ j = 2 * k
    <3>1. (j + 1) \div 2 \in 1 .. n /\ (j = 2 * ((j + 1) \div 2) - 1 \/ j = 2 * ((j + 1) \div 2))
      OBVIOUS
    <3>2. QED
      BY <3>1
  <2>2. QED
    BY <1>6, <2>1
<1>8. PICK q \in Seq(Cells) :
        /\ q = Put(p, x, cells) /\ Len(q) = Len(p)
        /\ \A i \in 1 .. x : q[i] = p[i]
        /\ \A i \in 1 .. 2 * n : q[x + i] = cells[i]
        /\ \A i \in x + 2 * n + 1 .. Len(p) : q[i] = p[i]
  <2>1. x <= Len(p)
    BY <1>1
  <2>2. /\ Put(p, x, cells) \in Seq(Cells)
        /\ Len(Put(p, x, cells)) =
             (IF x + Len(cells) <= Len(p) THEN Len(p) ELSE x + Len(cells))
        /\ \A i \in 1 .. x : Put(p, x, cells)[i] = p[i]
        /\ \A i \in 1 .. Len(cells) : Put(p, x, cells)[x + i] = cells[i]
        /\ \A i \in x + Len(cells) + 1 .. Len(p) : Put(p, x, cells)[i] = p[i]
    BY <2>1, PutCells
  <2>3. QED
    BY <1>6, <2>2
<1>9. ASSUME NEW i \in 1 .. Len(q) PROVE q[i] = p[i]
  <2>1. CASE i \in 1 .. x
    BY <1>8, <2>1
  <2>2. CASE i \in x + 1 .. x + 2 * n
    <3>1. i - x \in 1 .. 2 * n /\ x + (i - x) = i
      BY <2>2
    <3>2. q[x + (i - x)] = cells[i - x] /\ cells[i - x] = p[x + (i - x)]
      BY <1>7, <1>8, <3>1
    <3>3. QED
      BY <3>1, <3>2
  <2>3. CASE i \in x + 2 * n + 1 .. Len(p)
    BY <1>8, <2>3
  <2>4. QED
    BY <1>1, <1>8, <2>1, <2>2, <2>3
<1>10. q = p
  BY <1>8, <1>9, SeqEqual
<1>11. QED
  BY <1>4, <1>5, <1>6, <1>8, <1>10

(* A file that is stored, and holds no control cell, loads as it was.      *)
LEMMA FileReloaded ==
  ASSUME NEW p \in Seq(Cells), Whole(p), NEW bi \in Range(Bofs(p)),
         \A i \in bi + 2 .. End(p, bi) : p[i] < Base
  PROVE  Put(p, bi + 1, BytesOf(Decoded(Encoded(StoreWords(p, bi))))) = p
<1>1. PICK k \in 1 .. Len(Bofs(p)) : bi = Bofs(p)[k]
  <2>1. Bofs(p) \in Seq(Nat)
    BY WholeFiles
  <2>2. QED
    BY <2>1 DEF Range
<1>2. bi \in Nat /\ WholeFile(p, bi) /\ p \in Seq(Nat) /\ Len(p) \in Nat
  BY <1>1, WholeFiles, SeqCells
<1>3. /\ Length(p, bi) \in Nat /\ Space(p, bi) \in Nat /\ HdrWords \in Nat
      /\ Content(bi) = bi + 1 + 2 * HdrWords + 2
      /\ End(p, bi) = Content(bi) + 2 * (Space(p, bi) + 1)
      /\ Length(p, bi) <= Space(p, bi) /\ End(p, bi) <= Len(p)
  BY <1>2, FieldsAreNumbers, Sizes0 DEF WholeFile
<1>4. PICK n \in Nat : n = HdrWords + 1 + Length(p, bi) + 1
  BY <1>3
<1>5. PICK x \in Nat : x = bi + 1
  BY <1>2
<1>6. x + 2 * n <= End(p, bi) /\ x + 2 * n <= Len(p) /\ End(p, bi) \in Nat
  <2>1. PICK l \in Nat, s \in Nat, h \in Nat, m \in Nat :
          l = Length(p, bi) /\ s = Space(p, bi) /\ h = HdrWords /\ m = Len(p)
    BY <1>2, <1>3
  <2>2. PICK e \in Nat : e = End(p, bi) /\ e = bi + 1 + 2 * h + 2 + 2 * (s + 1) /\ e <= m
    BY <1>2, <1>3, <2>1
  <2>3. l <= s /\ n = h + 1 + l + 1
    BY <1>3, <1>4, <2>1
  <2>4. x + 2 * n <= e
    BY <1>2, <1>5, <2>2, <2>3
  <2>5. x + 2 * n <= m
    BY <2>2, <2>4
  <2>6. QED
    BY <2>1, <2>2, <2>4, <2>5
<1>7. ASSUME NEW i \in x + 1 .. x + 2 * n PROVE p[i] < Base
  <2>1. i \in bi + 2 .. End(p, bi)
    BY <1>2, <1>5, <1>6
  <2>2. QED
    BY <2>1
<1>8. PICK ws \in Seq(Nat) :
        /\ ws = StoreWords(p, bi) /\ \A j \in 1 .. Len(ws) : ws[j] < Limit
        /\ Put(p, x, BytesOf(ws)) = p
  <2>1. /\ Words(p, x, n) \in Seq(Nat)
        /\ \A j \in 1 .. Len(Words(p, x, n)) : Words(p, x, n)[j] < Limit
        /\ Put(p, x, BytesOf(Words(p, x, n))) = p
    BY <1>6, <1>7, WordsPutBack
  <2>2. StoreWords(p, bi) = Words(p, x, n)
    BY <1>4, <1>5 DEF StoreWords
  <2>3. QED
    BY <2>1, <2>2
<1>9. Decoded(Encoded(ws)) = ws
  BY <1>8, JustDecoded
<1>10. QED
  BY <1>5, <1>8, <1>9

(* Reopens in one state.                                                   *)
LEMMA ReopensFromType == ASSUME TypeOK PROVE Reopens
<1>1. image \in Seq(Cells) /\ Whole(image)
  BY DEF TypeOK
<1>2. Decoded(Title \o Encoded(image)) = image
  BY <1>1, ImageReopened
<1>3. ASSUME NEW bi \in Range(Bofs(image)), \A i \in bi + 2 .. End(image, bi) : image[i] < Base
      PROVE  Put(image, bi + 1, BytesOf(Decoded(Encoded(StoreWords(image, bi))))) = image
  BY <1>1, <1>3, FileReloaded
<1>4. QED
  BY <1>2, <1>3 DEF Reopens

(* Save and open, store and load give back the image they were given: no   *)
(* title, line end or control bit gets into the numbers (util.c lines 277  *)
(* to 317).                                                                *)
THEOREM ReopensAlways == Spec => []Reopens
<1>1. TypeOK => Reopens
  BY ReopensFromType
<1>2. QED
  BY <1>1, TypeCorrect, PTL

-----------------------------------------------------------------------------
(* The sums of files where an image is written over.                       *)

(* The files of a whole image, as a set: they lie apart, and every BOF byte*)
(* is in one of them.                                                      *)
LEMMA FileSet ==
  ASSUME NEW p \in Seq(Cells), Whole(p)
  PROVE  /\ Range(Bofs(p)) \subseteq Nat
         /\ \A bi \in Range(Bofs(p)) :
              /\ \E k \in 1 .. Len(Bofs(p)) : bi = Bofs(p)[k]
              /\ WholeFile(p, bi) /\ Byte(p[bi + 1]) = BOF /\ Space(p, bi) \in Nat
              /\ End(p, bi) \in Nat /\ End(p, bi) <= Len(p)
              /\ End(p, bi) = bi + 2 * HdrWords + 5 + 2 * Space(p, bi)
              /\ bi + 13 <= End(p, bi)
         /\ \A bi, bj \in Range(Bofs(p)) : bi < bj => End(p, bi) <= bj
         /\ \A i \in 1 .. Len(p) : Byte(p[i]) = BOF =>
              \E bi \in Range(Bofs(p)) : bi < i /\ i <= End(p, bi)
<1>1. PICK b : b = Bofs(p)
  OBVIOUS
<1>2. /\ Filing(p, b) /\ b \in Seq(Nat) /\ Len(b) \in Nat /\ Len(p) \in Nat /\ After(p, b, 0) = 0
      /\ \A k \in 1 .. Len(b) : WholeFile(p, b[k]) /\ b[k] \in Nat /\ After(p, b, k) = End(p, b[k])
      /\ \A k \in 0 .. Len(b) : After(p, b, k) \in 0 .. Len(p)
  BY <1>1, WholeFiles
<1>3. \A bi \in Range(b) : \E k \in 1 .. Len(b) : bi = b[k]
  BY <1>2 DEF Range
<1>4. \A k \in 1 .. Len(b) : b[k] \in Range(b)
  BY <1>2 DEF Range
<1>5. Range(b) \subseteq Nat
  BY <1>2, <1>3
<1>6. ASSUME NEW bi \in Range(b)
      PROVE  /\ WholeFile(p, bi) /\ Byte(p[bi + 1]) = BOF /\ Space(p, bi) \in Nat
             /\ End(p, bi) \in Nat /\ End(p, bi) <= Len(p)
             /\ End(p, bi) = bi + 2 * HdrWords + 5 + 2 * Space(p, bi)
             /\ bi + 13 <= End(p, bi)
  <2>1. PICK k \in 1 .. Len(b) : bi = b[k]
    BY <1>3
  <2>2. WholeFile(p, bi) /\ bi \in Nat
    BY <1>2, <2>1
  <2>3. Byte(p[bi + 1]) = BOF
    BY <1>2, <2>1 DEF Filing
  <2>4. p \in Seq(Nat)
    BY SeqCells
  <2>5. /\ Space(p, bi) \in Nat /\ Content(bi) \in Nat /\ HdrSum(bi) = bi + 1 + 2 * HdrWords
        /\ Content(bi) = HdrSum(bi) + 2 /\ End(p, bi) = Content(bi) + 2 * (Space(p, bi) + 1)
    BY <2>2, <2>4, FieldsAreNumbers DEF WholeFile
  <2>6. HdrWords \in Nat /\ HdrWords >= 4
    BY Sizes0
  <2>7. QED
    BY <2>2, <2>3, <2>5, <2>6 DEF WholeFile
<1>7. ASSUME NEW k \in 1 .. Len(b) PROVE After(p, b, k - 1) <= b[k] /\ b[k] <= After(p, b, k)
  <2>1. After(p, b, k - 1) <= b[k]
    BY <1>2, FilesApart
  <2>2. b[k] + 13 <= End(p, b[k])
    BY <1>4, <1>6
  <2>3. QED
    BY <1>2, <2>1, <2>2
<1>8. ASSUME NEW k \in 1 .. Len(b), NEW m \in 1 .. Len(b), k < m PROVE End(p, b[k]) <= b[m]
  <2> DEFINE off == [i \in 0 .. Len(b) |-> After(p, b, i)]
  <2>1. off \in [0 .. Len(b) -> Nat]
    BY <1>2
  <2>2. ASSUME NEW i \in 1 .. Len(b) PROVE off[i - 1] <= off[i]
    <3>1. i - 1 \in 0 .. Len(b) /\ i \in 0 .. Len(b)
      BY <1>2
    <3>2. After(p, b, i - 1) \in Nat /\ After(p, b, i) \in Nat /\ b[i] \in Nat
      BY <1>2, <3>1
    <3>3. QED
      BY <1>7, <3>1, <3>2
  <2>3. k \in 0 .. Len(b) /\ m - 1 \in k .. Len(b) /\ m - 1 \in 0 .. Len(b)
    BY <1>2, <1>8
  <2>4. off[k] = After(p, b, k) /\ off[m - 1] = After(p, b, m - 1)
    BY <2>3
  <2> HIDE DEF off
  <2>5. off[k] <= off[m - 1]
    BY <1>2, <2>1, <2>2, <2>3, Rising
  <2>6. After(p, b, k) \in Nat /\ After(p, b, m - 1) \in Nat /\ b[m] \in Nat
    BY <1>2, <2>3
  <2>7. QED
    BY <1>2, <1>7, <2>4, <2>5, <2>6
<1>9. ASSUME NEW bi \in Range(b), NEW bj \in Range(b), bi < bj PROVE End(p, bi) <= bj
  <2>1. PICK k \in 1 .. Len(b), m \in 1 .. Len(b) : bi = b[k] /\ bj = b[m]
    BY <1>3
  <2>2. CASE k < m
    BY <1>8, <2>1, <2>2
  <2>3. CASE k = m
    BY <1>5, <1>9, <2>1, <2>3
  <2>4. CASE m < k
    <3>1. End(p, bj) <= bi
      BY <1>8, <2>1, <2>4
    <3>2. QED
      BY <1>5, <1>6, <1>9, <3>1
  <2>5. QED
    BY <1>2, <2>2, <2>3, <2>4
<1>10. ASSUME NEW i \in 1 .. Len(p), Byte(p[i]) = BOF
       PROVE  \E bi \in Range(b) : bi < i /\ i <= End(p, bi)
  <2> DEFINE S == {k \in 1 .. Len(b) : i <= After(p, b, k)}
  <2>1. S # {}
    <3>1. SUFFICES ASSUME S = {} PROVE FALSE
      OBVIOUS
    <3>2. After(p, b, Len(b)) \in Nat
      BY <1>2
    <3>3. CASE Len(b) = 0
      <4>1. i \in After(p, b, Len(b)) + 1 .. Len(p)
        BY <1>2, <3>3
      <4>2. QED
        BY <1>2, <1>10, <4>1 DEF Filing
    <3>4. CASE Len(b) # 0
      <4>1. Len(b) \in 1 .. Len(b)
        BY <1>2, <3>4
      <4>2. ~(i <= After(p, b, Len(b)))
        BY <3>1, <4>1
      <4>3. i \in After(p, b, Len(b)) + 1 .. Len(p)
        BY <1>2, <3>2, <4>2
      <4>4. QED
        BY <1>2, <1>10, <4>3 DEF Filing
    <3>5. QED
      BY <3>3, <3>4
  <2>2. S \in SUBSET Nat
    OBVIOUS
  <2>3. PICK k \in S : \A y \in S : k <= y
    <3> HIDE DEF S
    <3>1. QED
      BY <2>1, <2>2, LeastExists
  <2>4. k \in 1 .. Len(b) /\ k - 1 \in 0 .. Len(b) /\ k \in 0 .. Len(b) /\ i <= After(p, b, k)
    BY <1>2, <2>3
  <2>5. After(p, b, k - 1) < i
    <3>1. CASE k = 1
      BY <1>2, <3>1
    <3>2. CASE k # 1
      <4>1. k - 1 \notin S
        BY <2>3, <2>4
      <4>2. k - 1 \in 1 .. Len(b)
        BY <2>4, <3>2
      <4>3. After(p, b, k - 1) \in Nat
        BY <1>2, <2>4
      <4>4. QED
        BY <4>1, <4>2, <4>3
    <3>3. QED
      BY <3>1, <3>2
  <2>6. b[k] < i
    <3>1. SUFFICES ASSUME ~(b[k] < i) PROVE FALSE
      OBVIOUS
    <3>2. After(p, b, k - 1) \in Nat /\ b[k] \in Nat
      BY <1>2, <2>4
    <3>3. i \in After(p, b, k - 1) + 1 .. b[k]
      BY <2>5, <3>1, <3>2
    <3>4. QED
      BY <1>2, <1>10, <2>4, <3>3, FilesApart
  <2>7. b[k] \in Range(b) /\ After(p, b, k) = End(p, b[k])
    BY <1>2, <1>4, <2>4
  <2>8. QED
    BY <2>4, <2>6, <2>7
<1>11. QED
  BY <1>1, <1>3, <1>5, <1>6, <1>9, <1>10

(* The cells up to at hold whole files only.                               *)
Free(p, at) == \A bi \in Range(Bofs(p)) : bi < at => End(p, bi) <= at

Same(p, q, a, e) == \A i \in a + 1 .. e : p[i] = q[i]

(* A file ends where one with the same header does.                        *)
LEMMA SameEnd ==
  ASSUME NEW p, NEW q, NEW bi \in Nat, NEW e \in Nat, bi + 13 <= e, Same(p, q, bi, e)
  PROVE  End(p, bi) = End(q, bi)
<1>1. p[bi + 7 + 1] = q[bi + 7 + 1] /\ p[bi + 7 + 2] = q[bi + 7 + 2]
  BY DEF Same
<1>2. Space(p, bi) = Space(q, bi)
  BY <1>1, Zenon DEF Space, Word
<1>3. QED
  BY <1>2, Zenon DEF End

(* Two images that agree up to a place that lies in no file of one have the*)
(* same files before it: where the first two differ, one of them would be  *)
(* in a file of the other.                                                 *)
LEMMA NotInside ==
  ASSUME NEW p \in Seq(Cells), Whole(p), NEW q \in Seq(Cells), Whole(q),
         NEW at \in Nat, at <= Len(p), at <= Len(q), Same(p, q, 0, at),
         NEW x \in Nat, x < at, x \in Range(Bofs(p)),
         \A y \in 0 .. x - 1 : y \in Range(Bofs(p)) <=> y \in Range(Bofs(q)),
         \A y \in 0 .. x - 1 : y \in Range(Bofs(p)) => End(p, y) <= at
  PROVE  x \in Range(Bofs(q))
<1>1. SUFFICES ASSUME x \notin Range(Bofs(q)) PROVE FALSE
  OBVIOUS
<1>2. x + 1 \in 0 + 1 .. at /\ x + 1 \in 1 .. Len(q)
  OBVIOUS
<1>3. p[x + 1] = q[x + 1] /\ Byte(p[x + 1]) = BOF
  BY <1>2, FileSet DEF Same
<1>4. PICK y \in Range(Bofs(q)) : y < x + 1 /\ x + 1 <= End(q, y)
  BY <1>2, <1>3, FileSet
<1>5. y \in 0 .. x - 1 /\ y \in Nat
  BY <1>1, <1>4, FileSet
<1>6. y \in Range(Bofs(p)) /\ End(p, y) <= at
  BY <1>4, <1>5
<1>7. End(p, y) = End(q, y)
  <2>1. PICK e \in Nat : e = End(p, y) /\ y + 13 <= e
    BY <1>6, FileSet
  <2>2. Same(p, q, y, e)
    BY <1>5, <1>6, <2>1 DEF Same
  <2>3. QED
    BY <1>5, <2>1, <2>2, SameEnd
<1>8. End(p, y) <= x /\ End(p, y) \in Nat
  BY <1>5, <1>6, FileSet
<1>9. QED
  BY <1>4, <1>7, <1>8

LEMMA SameFiles ==
  ASSUME NEW p \in Seq(Cells), Whole(p), NEW q \in Seq(Cells), Whole(q),
         NEW at \in Nat, at <= Len(p), at <= Len(q), Same(p, q, 0, at), Free(p, at)
  PROVE  /\ \A x \in 0 .. at - 1 : x \in Range(Bofs(p)) <=> x \in Range(Bofs(q))
         /\ Free(q, at)
<1> DEFINE S == {x \in 0 .. at - 1 : ~(x \in Range(Bofs(p)) <=> x \in Range(Bofs(q)))}
<1>1. Same(q, p, 0, at)
  BY DEF Same
<1>2. \A y \in 0 .. at - 1 : y \in Range(Bofs(p)) => End(p, y) <= at
  BY DEF Free
<1>3. S = {}
  <2>1. SUFFICES ASSUME S # {} PROVE FALSE
    OBVIOUS
  <2>2. S \in SUBSET Nat
    OBVIOUS
  <2>3. PICK x \in S : \A y \in S : x <= y
    <3> HIDE DEF S
    <3>1. QED
      BY <2>1, <2>2, LeastExists
  <2>4. x \in 0 .. at - 1 /\ x \in Nat /\ x < at
    BY <2>3
  <2>5. ASSUME NEW y \in 0 .. x - 1
        PROVE  /\ y \in Range(Bofs(p)) <=> y \in Range(Bofs(q))
               /\ y \in Range(Bofs(p)) => End(p, y) <= at
               /\ y \in Range(Bofs(q)) => End(q, y) <= at
    <3>1. y \in Nat /\ y < x /\ y \in 0 .. at - 1
      BY <2>4
    <3>2. y \notin S
      BY <2>3, <2>4, <3>1
    <3>3. y \in Range(Bofs(p)) <=> y \in Range(Bofs(q))
      BY <3>1, <3>2
    <3>4. ASSUME y \in Range(Bofs(p)) PROVE End(p, y) <= at /\ End(q, y) <= at
      <4>1. End(p, y) <= at
        BY <1>2, <3>1, <3>4
      <4>2. PICK e \in Nat : e = End(p, y) /\ y + 13 <= e
        BY <3>4, FileSet
      <4>3. Same(p, q, y, e)
        BY <3>1, <4>1, <4>2 DEF Same
      <4>4. End(p, y) = End(q, y)
        BY <3>1, <4>2, <4>3, SameEnd
      <4>5. QED
        BY <4>1, <4>4
    <3>5. QED
      BY <3>3, <3>4
  <2>6. CASE x \in Range(Bofs(p))
    <3>1. x \in Range(Bofs(q))
      BY <2>4, <2>5, <2>6, NotInside
    <3>2. QED
      BY <2>3, <2>6, <3>1
  <2>7. CASE x \notin Range(Bofs(p))
    <3>1. x \in Range(Bofs(q))
      BY <2>3, <2>7
    <3>2. x \in Range(Bofs(p))
      BY <1>1, <2>4, <2>5, <3>1, NotInside
    <3>3. QED
      BY <2>7, <3>2
  <2>8. QED
    BY <2>6, <2>7
<1>4. \A x \in 0 .. at - 1 : x \in Range(Bofs(p)) <=> x \in Range(Bofs(q))
  BY <1>3
<1>5. ASSUME NEW bi \in Range(Bofs(q)), bi < at PROVE End(q, bi) <= at
  <2>1. bi \in Nat
    BY FileSet
  <2>2. bi \in Range(Bofs(p))
    BY <1>4, <1>5, <2>1
  <2>3. PICK e \in Nat : e = End(p, bi) /\ bi + 13 <= e /\ e <= at
    BY <1>5, <2>2, FileSet DEF Free
  <2>4. Same(p, q, bi, e)
    BY <2>1, <2>3 DEF Same
  <2>5. QED
    BY <2>1, <2>3, <2>4, SameEnd
<1>6. QED
  BY <1>4, <1>5 DEF Free

(* The first BOF byte behind a place that is free begins a file.           *)
LEMMA NextFile ==
  ASSUME NEW p \in Seq(Cells), Whole(p), NEW y \in Nat, Free(p, y), NEW z \in Nat, y <= z,
         z < Len(p), \A i \in y + 1 .. z : Byte(p[i]) # BOF, Byte(p[z + 1]) = BOF
  PROVE  /\ z \in Range(Bofs(p))
         /\ \A bi \in Range(Bofs(p)) : bi < y \/ bi = z \/ bi >= End(p, z)
<1>1. z + 1 \in 1 .. Len(p)
  OBVIOUS
<1>2. PICK bi \in Range(Bofs(p)) : bi < z + 1 /\ z + 1 <= End(p, bi)
  BY <1>1, FileSet
<1>3. bi \in Nat /\ End(p, bi) \in Nat
  BY FileSet
<1>4. ~(bi < y)
  BY <1>2, <1>3 DEF Free
<1>5. bi = z
  <2>1. SUFFICES ASSUME bi # z PROVE FALSE
    OBVIOUS
  <2>2. bi + 1 \in y + 1 .. z
    BY <1>2, <1>3, <1>4, <2>1
  <2>3. Byte(p[bi + 1]) = BOF
    BY FileSet
  <2>4. QED
    BY <2>2, <2>3
<1>6. ASSUME NEW x \in Range(Bofs(p)), ~(x < y), x # z PROVE x >= End(p, z)
  <2>1. x \in Nat /\ Byte(p[x + 1]) = BOF
    BY FileSet
  <2>2. ~(x < z)
    <3>1. SUFFICES ASSUME x < z PROVE FALSE
      OBVIOUS
    <3>2. x + 1 \in y + 1 .. z
      BY <1>6, <2>1, <3>1
    <3>3. QED
      BY <2>1, <3>2
  <2>3. z < x
    BY <1>6, <2>1, <2>2
  <2>4. End(p, z) <= x /\ End(p, z) \in Nat
    BY <1>5, <2>3, FileSet
  <2>5. QED
    BY <2>1, <2>4
<1>7. QED
  BY <1>5, <1>6

(* What lies in no file's way is where a file begins or the image ends.    *)
LEMMA FreeAt ==
  ASSUME NEW p \in Seq(Cells), Whole(p), NEW at \in Nat,
         at = 0 \/ at \in Range(Bofs(p)) \/ at >= Len(p)
                \/ \E bi \in Range(Bofs(p)) : at = End(p, bi)
  PROVE  Free(p, at)
<1> SUFFICES ASSUME NEW bi \in Range(Bofs(p)), bi < at PROVE End(p, bi) <= at
  BY DEF Free
<1>1. bi \in Nat /\ End(p, bi) \in Nat /\ End(p, bi) <= Len(p) /\ Len(p) \in Nat
  BY FileSet
<1>2. CASE at = 0
  BY <1>1, <1>2
<1>3. CASE at \in Range(Bofs(p))
  BY <1>3, FileSet
<1>4. CASE at >= Len(p)
  BY <1>1, <1>4
<1>5. ASSUME NEW bj \in Range(Bofs(p)), at = End(p, bj) PROVE End(p, bi) <= at
  <2>1. bj \in Nat /\ End(p, bj) \in Nat
    BY FileSet
  <2>2. CASE bi = bj
    BY <1>1, <1>5, <2>2
  <2>3. CASE bi < bj
    <3>1. End(p, bi) <= bj /\ bj + 13 <= End(p, bj)
      BY <2>3, FileSet
    <3>2. QED
      BY <1>1, <1>5, <2>1, <3>1
  <2>4. CASE bj < bi
    <3>1. End(p, bj) <= bi
      BY <2>4, FileSet
    <3>2. QED
      BY <1>1, <1>5, <2>1, <3>1
  <2>5. QED
    BY <1>1, <2>1, <2>2, <2>3, <2>4
<1>6. QED
  BY <1>2, <1>3, <1>4, <1>5

(* The sums of a file are right wherever the same cells are.               *)
LEMMA SameSums ==
  ASSUME NEW q \in Seq(Cells), Whole(q), NEW bi \in Range(Bofs(q)), NEW p,
         Same(p, q, bi, End(q, bi))
  PROVE  SumMatches(p, bi) <=> SumMatches(q, bi)
<1>1. PICK k \in 1 .. Len(Bofs(q)) : bi = Bofs(q)[k]
  BY FileSet
<1>2. PICK f : f = FileAt(q, k)
  OBVIOUS
<1>3. FileCells(f) /\ Holds(q, bi, f) /\ Len(f) = End(q, bi) - bi
  BY <1>1, <1>2, FileAtFile, WholeFiles
<1>4. bi \in Nat /\ End(q, bi) \in Nat /\ bi + 13 <= End(q, bi)
  BY FileSet
<1>5. Holds(p, bi, f)
  <2>1. ASSUME NEW i \in 1 .. Len(f) PROVE p[bi + i] = f[i]
    <3>1. bi + i \in bi + 1 .. End(q, bi)
      BY <1>3, <1>4
    <3>2. p[bi + i] = q[bi + i]
      BY <3>1 DEF Same
    <3>3. QED
      BY <1>3, <3>2 DEF Holds
  <2>2. QED
    BY <2>1 DEF Holds
<1>6. QED
  BY <1>3, <1>4, <1>5, HeldSums

(* The sums of the files of q are right, but for BOF bytes left over.      *)
SumsRightOf(p, q) ==
  \A bi \in Range(Bofs(q)) :
    SumMatches(q, bi) \/ (q[bi + 1] = BOF /\ bi \notin Range(Bofs(p)))

(* A BOF byte of p where p has no file is not marked.                      *)
LEMMA Unmarked ==
  ASSUME NEW p \in Seq(Cells), ~Hidden(p), NEW x \in Nat, x < Len(p), x \notin Range(Bofs(p)),
         Byte(p[x + 1]) = BOF
  PROVE  p[x + 1] = BOF
<1>1. x + 1 \in DOMAIN p /\ p[x + 1] \in Cells /\ (x + 1) - 1 = x
  OBVIOUS
<1>2. ~(p[x + 1] >= Ctl)
  BY <1>1 DEF Hidden
<1>3. p[x + 1] < Base
  BY <1>1, <1>2, Sizes0 DEF Cells
<1>4. QED
  BY <1>1, <1>3, CellsAreNumbers

(* What is written from at to e, and over the old image there, leaves the  *)
(* files outside with their sums.                                          *)
LEMMA Overwritten ==
  ASSUME NEW p \in Seq(Cells), Whole(p), SumsMatch(p), ~Hidden(p), NEW q \in Seq(Cells), Whole(q),
         NEW at \in Nat, at <= Len(p), at <= Len(q), Same(p, q, 0, at), Free(p, at),
         NEW e \in Nat, \A i \in e + 1 .. Len(q) : i <= Len(p) /\ q[i] = p[i],
         \A bi \in Range(Bofs(q)) : at <= bi /\ bi < e => SumMatches(q, bi)
  PROVE  SumsRightOf(p, q)
<1> SUFFICES ASSUME NEW bi \in Range(Bofs(q))
             PROVE  SumMatches(q, bi) \/ (q[bi + 1] = BOF /\ bi \notin Range(Bofs(p)))
  BY DEF SumsRightOf
<1>1. /\ bi \in Nat /\ End(q, bi) \in Nat /\ End(q, bi) <= Len(q) /\ bi + 13 <= End(q, bi)
      /\ Byte(q[bi + 1]) = BOF /\ Len(q) \in Nat /\ Len(p) \in Nat
  BY FileSet
<1>2. CASE bi < at
  <2>1. bi \in Range(Bofs(p)) /\ Free(q, at)
    <3>1. bi \in 0 .. at - 1
      BY <1>1, <1>2
    <3>2. QED
      BY <3>1, SameFiles
  <2>2. End(q, bi) <= at
    BY <1>2, <2>1 DEF Free
  <2>3. Same(p, q, bi, End(q, bi))
    BY <1>1, <2>2 DEF Same
  <2>4. SumMatches(p, bi)
    BY <2>1 DEF SumsMatch
  <2>5. QED
    BY <2>3, <2>4, SameSums
<1>3. CASE at <= bi /\ bi < e
  BY <1>3
<1>4. CASE e <= bi
  <2>1. \A i \in bi + 1 .. End(q, bi) : i <= Len(p) /\ q[i] = p[i]
    BY <1>1, <1>4
  <2>2. Same(p, q, bi, End(q, bi))
    BY <2>1 DEF Same
  <2>3. CASE bi \in Range(Bofs(p))
    <3>1. SumMatches(p, bi)
      BY <2>3 DEF SumsMatch
    <3>2. QED
      BY <2>2, <3>1, SameSums
  <2>4. CASE bi \notin Range(Bofs(p))
    <3>1. bi + 1 <= Len(p) /\ q[bi + 1] = p[bi + 1]
      BY <1>1, <2>1
    <3>2. q[bi + 1] = BOF
      BY <1>1, <2>4, <3>1, Unmarked
    <3>3. QED
      BY <2>4, <3>2
  <2>5. QED
    BY <2>3, <2>4
<1>5. QED
  BY <1>1, <1>2, <1>3, <1>4

(* What is over a multiple, and sums of it.                                *)
LEMMA Modulo ==
  ASSUME NEW m \in Nat, m > 0, NEW x \in Nat, NEW r \in 0 .. m - 1
  PROVE  (m * x + r) % m = r
OBVIOUS

LEMMA ModuloSum ==
  ASSUME NEW m \in Nat, m > 0, NEW a \in Nat, NEW b \in Nat
  PROVE  ((a % m) + (b % m)) % m = (a + b) % m
<1>1. PICK x \in Nat, r \in 0 .. m - 1 : a = m * x + r /\ a % m = r
  <2>1. a = m * (a \div m) + (a % m) /\ a \div m \in Nat /\ a % m \in 0 .. m - 1
    OBVIOUS
  <2>2. QED
    BY <2>1
<1>2. PICK y \in Nat, s \in 0 .. m - 1 : b = m * y + s /\ b % m = s
  <2>1. b = m * (b \div m) + (b % m) /\ b \div m \in Nat /\ b % m \in 0 .. m - 1
    OBVIOUS
  <2>2. QED
    BY <2>1
<1>3. PICK z \in Nat, t \in 0 .. m - 1 : r + s = m * z + t /\ (r + s) % m = t
  <2>1. PICK n \in Nat : n = r + s
    OBVIOUS
  <2>2. n = m * (n \div m) + (n % m) /\ n \div m \in Nat /\ n % m \in 0 .. m - 1
    OBVIOUS
  <2>3. QED
    BY <2>1, <2>2
<1>4. PICK v \in Nat : v = x + y + z
  OBVIOUS
<1>5. a + b = m * v + t
  <2>1. m * v = m * x + m * y + m * z
    BY <1>4
  <2>2. m * x \in Nat /\ m * y \in Nat /\ m * z \in Nat
    OBVIOUS
  <2>3. QED
    BY <1>1, <1>2, <1>3, <2>1, <2>2
<1>6. (m * v + t) % m = t
  BY Modulo
<1>7. QED
  BY <1>1, <1>2, <1>3, <1>5, <1>6

(* A word that was written is read again but for what is over two bytes.   *)
LEMMA WordModulo ==
  ASSUME NEW p, NEW bi, NEW w \in Nat, p[bi + 1] = w % Base, p[bi + 2] = (w \div Base) % Base
  PROVE  Word(p, bi) = w % (Base * Base)
<1>1. Base \in Nat /\ Base >= 2 /\ Ctl \in Nat /\ Ctl >= Base
  BY Sizes0
<1>2. PICK v \in Nat, x \in 0 .. Base - 1 : w = Base * v + x /\ x = w % Base /\ v = w \div Base
  <2>1. w = Base * (w \div Base) + (w % Base) /\ w \div Base \in Nat /\ w % Base \in 0 .. Base - 1
    BY <1>1
  <2>2. QED
    BY <2>1
<1>3. PICK u \in Nat, y \in 0 .. Base - 1 : v = Base * u + y /\ y = v % Base
  <2>1. v = Base * (v \div Base) + (v % Base) /\ v \div Base \in Nat /\ v % Base \in 0 .. Base - 1
    BY <1>1
  <2>2. QED
    BY <2>1
<1>4. Word(p, bi) = Base * y + x
  <2>1. p[bi + 1] = x /\ p[bi + 2] = y
    BY <1>2, <1>3
  <2>2. ~(x >= Ctl)
    BY <1>1
  <2>3. QED
    BY <2>1, <2>2 DEF Word
<1>5. PICK m \in Nat : m = Base * Base /\ m > 0
  BY <1>1
<1>6. w = m * u + (Base * y + x)
  <2>1. PICK c \in Nat : c = Base
    BY <1>1
  <2>2. c * (c * u + y) = c * (c * u) + c * y /\ c * (c * u) = (c * c) * u
    OBVIOUS
  <2>3. w = c * (c * u + y) + x
    BY <1>2, <1>3, <2>1
  <2>4. c * (c * u) \in Nat /\ c * y \in Nat
    OBVIOUS
  <2>5. w = (c * c) * u + (c * y + x)
    BY <2>2, <2>3, <2>4
  <2>6. QED
    BY <1>5, <2>1, <2>5
<1>7. Base * y + x \in 0 .. m - 1
  BY <1>1, <1>5
<1>8. (m * u + (Base * y + x)) % m = Base * y + x
  BY <1>5, <1>7, Modulo
<1>9. QED
  BY <1>4, <1>5, <1>6, <1>8

(* The words of an empty file's header, summed.                            *)
LEMMA SumOfTwo ==
  ASSUME NEW ws \in Seq(Nat), Len(ws) >= 4, \A k \in 1 .. Len(ws) : k # 1 /\ k # 4 => ws[k] = 0
  PROVE  Sum(ws) = ws[1] + ws[4]
<1>1. PICK sum : /\ sum[0] = 0 /\ Sum(ws) = sum[Len(ws)]
                 /\ \A k \in 1 .. Len(ws) : sum[k] = sum[k - 1] + ws[k]
  BY SummedUp
<1>2. PICK n \in Nat : n = Len(ws)
  OBVIOUS
<1>3. PICK a \in Nat, b \in Nat : a = ws[1] /\ b = ws[4]
  OBVIOUS
<1> DEFINE S == {k \in 0 .. n : sum[k] = IF k = 0 THEN 0 ELSE IF k < 4 THEN a ELSE a + b}
<1>4. 0 \in S
  BY <1>1
<1>5. ASSUME NEW k \in 1 .. n, k - 1 \in S PROVE k \in S
  <2>1. sum[k] = sum[k - 1] + ws[k]
    BY <1>1, <1>2
  <2>2. sum[k - 1] = IF k - 1 = 0 THEN 0 ELSE IF k - 1 < 4 THEN a ELSE a + b
    BY <1>5
  <2>3. ws[k] = IF k = 1 THEN a ELSE IF k = 4 THEN b ELSE 0
    BY <1>2, <1>3
  <2>4. sum[k] = IF k = 0 THEN 0 ELSE IF k < 4 THEN a ELSE a + b
    BY <2>1, <2>2, <2>3
  <2>5. QED
    BY <2>4
<1>6. \A k \in 0 .. n : k \in S
  <2> HIDE DEF S
  <2>1. QED
    BY <1>4, <1>5, Inductive
<1>7. sum[n] = a + b
  BY <1>2, <1>6
<1>8. QED
  BY <1>1, <1>2, <1>3, <1>7

LEMMA SumOfNone == Sum(<<>>) = 0
<1>1. <<>> \in Seq(Nat) /\ Len(<<>>) = 0
  OBVIOUS
<1>2. QED
  BY <1>1, SummedUp

(* The words of an empty file's header, and its cells.                     *)
EmptyHeader(ws, num, space) ==
  /\ ws \in Seq(Nat) /\ Len(ws) = HdrWords + 1 /\ ws[1] = num /\ ws[4] = space
  /\ \A k \in 1 .. HdrWords : k # 1 /\ k # 4 => ws[k] = 0
  /\ ws[HdrWords + 1] = (num + space) % (Base * Base)

LEMMA EmptyFileWords ==
  ASSUME NEW num \in Nat, NEW space \in Nat
  PROVE  \E ws : /\ EmptyHeader(ws, num, space)
                 /\ \A k \in 1 .. HdrWords + 1 :
                      /\ EmptyFile(num, space)[2 * k] = ws[k] % Base
                      /\ EmptyFile(num, space)[2 * k + 1] = (ws[k] \div Base) % Base
<1>1. HdrWords \in Nat /\ HdrWords >= 4 /\ Base * Base \in Nat /\ Base * Base > 0
  BY Sizes0
<1>2. PICK m \in Nat : m = HdrWords - 4
  BY <1>1
<1>3. PICK four \in Seq(Nat) : /\ four = <<num, 0, 0, space>> /\ Len(four) = 4 /\ four[1] = num
                               /\ four[2] = 0 /\ four[3] = 0 /\ four[4] = space
  <2>1. <<num, 0, 0, space>> \in Seq(Nat) /\ Len(<<num, 0, 0, space>>) = 4
    OBVIOUS
  <2>2. /\ <<num, 0, 0, space>>[1] = num /\ <<num, 0, 0, space>>[2] = 0
        /\ <<num, 0, 0, space>>[3] = 0 /\ <<num, 0, 0, space>>[4] = space
    OBVIOUS
  <2>3. QED
    BY <2>1, <2>2
<1>4. PICK z \in Seq(Nat) : z = Zeroes(m) /\ Len(z) = m /\ \A i \in 1 .. m : z[i] = 0
  BY ZeroCells
<1>5. PICK header \in Seq(Nat) :
        /\ header = four \o z /\ Len(header) = HdrWords /\ header[1] = num /\ header[4] = space
        /\ \A k \in 1 .. HdrWords : k # 1 /\ k # 4 => header[k] = 0
  <2>1. /\ four \o z \in Seq(Nat) /\ Len(four \o z) = Len(four) + Len(z)
        /\ \A j \in 1 .. Len(four) : (four \o z)[j] = four[j]
        /\ \A j \in 1 .. Len(z) : (four \o z)[Len(four) + j] = z[j]
    BY OnePieceMore
  <2>2. PICK header \in Seq(Nat) : header = four \o z
    BY <2>1
  <2>3. Len(header) = HdrWords /\ \A j \in 1 .. 4 : header[j] = four[j]
    BY <1>1, <1>2, <1>3, <1>4, <2>1, <2>2
  <2>4. ASSUME NEW k \in 1 .. HdrWords, k # 1 /\ k # 4 PROVE header[k] = 0
    <3>1. CASE k <= 4
      <4>1. k = 2 \/ k = 3
        BY <2>4, <3>1
      <4>2. QED
        BY <1>3, <2>3, <4>1
    <3>2. CASE ~(k <= 4)
      <4>1. k - 4 \in 1 .. m /\ 4 + (k - 4) = k
        BY <1>1, <1>2, <3>2
      <4>2. header[4 + (k - 4)] = z[k - 4]
        BY <1>3, <1>4, <2>1, <2>2, <4>1
      <4>3. QED
        BY <1>4, <4>1, <4>2
    <3>3. QED
      BY <3>1, <3>2
  <2>5. header[1] = num /\ header[4] = space
    BY <1>3, <2>3
  <2>6. QED
    BY <2>2, <2>3, <2>4, <2>5
<1>6. Sum(header) = num + space
  BY <1>1, <1>5, SumOfTwo
<1>7. PICK sum \in Nat : sum = Sum(header) % (Base * Base) /\ sum = (num + space) % (Base * Base)
  <2>1. (num + space) % (Base * Base) \in Nat
    BY <1>1
  <2>2. QED
    BY <1>6, <2>1
<1>8. PICK ws : ws = header \o <<sum>> /\ EmptyHeader(ws, num, space)
  <2>1. PICK one \in Seq(Nat) : one = <<sum>> /\ Len(one) = 1 /\ one[1] = sum
    <3>1. <<sum>> \in Seq(Nat) /\ Len(<<sum>>) = 1 /\ <<sum>>[1] = sum
      OBVIOUS
    <3>2. QED
      BY <3>1
  <2>2. /\ header \o one \in Seq(Nat) /\ Len(header \o one) = Len(header) + Len(one)
        /\ \A j \in 1 .. Len(header) : (header \o one)[j] = header[j]
        /\ \A j \in 1 .. Len(one) : (header \o one)[Len(header) + j] = one[j]
    BY OnePieceMore
  <2>3. PICK ws \in Seq(Nat) : ws = header \o one
    BY <2>2
  <2>4. /\ Len(ws) = HdrWords + 1 /\ ws[HdrWords + 1] = sum
        /\ \A j \in 1 .. HdrWords : ws[j] = header[j]
    <3>1. 1 \in 1 .. Len(one)
      BY <2>1
    <3>2. QED
      BY <1>5, <2>1, <2>2, <2>3, <3>1
  <2>5. 1 \in 1 .. HdrWords /\ 4 \in 1 .. HdrWords
    BY <1>1
  <2>6. EmptyHeader(ws, num, space)
    BY <1>5, <1>7, <2>4, <2>5 DEF EmptyHeader
  <2>7. QED
    BY <2>1, <2>3, <2>6
<1>9. PICK bytes \in Seq(Cells) :
        /\ bytes = BytesOf(ws) /\ Len(bytes) = 2 * (HdrWords + 1)
        /\ \A k \in 1 .. HdrWords + 1 : /\ bytes[2 * k - 1] = ws[k] % Base
                                        /\ bytes[2 * k] = (ws[k] \div Base) % Base
  <2>1. ws \in Seq(Nat) /\ Len(ws) = HdrWords + 1
    BY <1>8 DEF EmptyHeader
  <2>2. /\ BytesOf(ws) \in Seq(0 .. Base - 1) /\ Len(BytesOf(ws)) = 2 * Len(ws)
        /\ \A k \in 1 .. Len(ws) : /\ BytesOf(ws)[2 * k - 1] = ws[k] % Base
                                   /\ BytesOf(ws)[2 * k] = (ws[k] \div Base) % Base
    BY <2>1, BytesOfCells
  <2>3. BytesOf(ws) \in Seq(Cells)
    BY <2>2, ByteSeqs
  <2>4. QED
    BY <2>1, <2>2, <2>3
<1>10. PICK l \in Nat : l = (space + 1) * 2 + space \div 2
  OBVIOUS
<1>11. PICK tail \in Seq(Cells) : tail = Zeroes(l)
  BY ZeroCells
<1>12. PICK bof \in Seq(Cells) : bof = <<BOF + Ctl>> /\ Len(bof) = 1
  <2>1. PICK x \in Cells : x = BOF + Ctl
    BY DEF Cells
  <2>2. <<x>> \in Seq(Cells) /\ Len(<<x>>) = 1
    OBVIOUS
  <2>3. QED
    BY <2>1, <2>2
<1>13. EmptyFile(num, space) = (bof \o bytes) \o tail
  <2>1. header = <<num, 0, 0, space>> \o Zeroes(HdrWords - 4)
    BY <1>2, <1>3, <1>4, <1>5
  <2>2. BytesOf(header \o <<Sum(header) % (Base * Base)>>) = bytes
    BY <1>7, <1>8, <1>9
  <2>3. QED
    BY <1>10, <1>11, <1>12, <2>1, <2>2 DEF EmptyFile
<1>14. ASSUME NEW j \in 1 .. Len(bytes) PROVE EmptyFile(num, space)[1 + j] = bytes[j]
  <2>1. /\ bof \o bytes \in Seq(Cells) /\ Len(bof \o bytes) = Len(bof) + Len(bytes)
        /\ \A i \in 1 .. Len(bytes) : (bof \o bytes)[Len(bof) + i] = bytes[i]
    BY OnePieceMore
  <2>2. PICK h \in Seq(Cells) : h = bof \o bytes
    BY <2>1
  <2>3. h[1 + j] = bytes[j] /\ 1 + j \in 1 .. Len(h)
    BY <1>12, <2>1, <2>2
  <2>4. \A i \in 1 .. Len(h) : (h \o tail)[i] = h[i]
    BY OnePieceMore
  <2>5. QED
    BY <1>13, <2>2, <2>3, <2>4
<1>15. ASSUME NEW k \in 1 .. HdrWords + 1
       PROVE  /\ EmptyFile(num, space)[2 * k] = ws[k] % Base
              /\ EmptyFile(num, space)[2 * k + 1] = (ws[k] \div Base) % Base
  <2>1. /\ 2 * k - 1 \in 1 .. Len(bytes) /\ 2 * k \in 1 .. Len(bytes)
        /\ 1 + (2 * k - 1) = 2 * k /\ 1 + 2 * k = 2 * k + 1
    BY <1>1, <1>9
  <2>2. /\ EmptyFile(num, space)[1 + (2 * k - 1)] = bytes[2 * k - 1]
        /\ EmptyFile(num, space)[1 + 2 * k] = bytes[2 * k]
    BY <1>14, <2>1
  <2>3. QED
    BY <1>9, <2>1, <2>2
<1>16. QED
  BY <1>8, <1>15

(* A file that mark has written has the right sums, and no more space than *)
(* it was given.                                                           *)
LEMMA EmptyFileHeld ==
  ASSUME NEW num \in Nat, NEW space \in Nat, NEW q, NEW z \in Nat,
         Holds(q, z, EmptyFile(num, space))
  PROVE  SumMatches(q, z) /\ Length(q, z) = 0 /\ Space(q, z) \in 0 .. space
<1>1. PICK n \in Nat : n = HdrWords /\ n >= 4
  BY Sizes0
<1>2. PICK f \in Seq(Cells) :
        /\ f = EmptyFile(num, space) /\ Len(f) \in Nat /\ Len(f) >= 2 * n + 5
        /\ \A i \in 2 * n + 4 .. Len(f) : f[i] = 0
  <2>1. PICK f \in Seq(Cells) :
          /\ f = EmptyFile(num, space)
          /\ Len(f) = Content(0) + (space + 1) * 2 + space \div 2
          /\ \A i \in Content(0) + 1 .. Len(f) : f[i] = 0
    BY EmptyFileCells
  <2>2. Content(0) = 2 * n + 3
    BY <1>1 DEF Content, HdrSum
  <2>3. (space + 1) * 2 \in Nat /\ (space + 1) * 2 >= 2 /\ space \div 2 \in Nat
    OBVIOUS
  <2>4. QED
    BY <2>1, <2>2, <2>3
<1>3. PICK ws : /\ EmptyHeader(ws, num, space)
                /\ \A k \in 1 .. n + 1 : /\ f[2 * k] = ws[k] % Base
                                         /\ f[2 * k + 1] = (ws[k] \div Base) % Base
  <2>1. PICK ws : /\ EmptyHeader(ws, num, space)
                  /\ \A k \in 1 .. HdrWords + 1 :
                       /\ EmptyFile(num, space)[2 * k] = ws[k] % Base
                       /\ EmptyFile(num, space)[2 * k + 1] = (ws[k] \div Base) % Base
    BY EmptyFileWords, Zenon
  <2>2. \A k \in 1 .. n + 1 : f[2 * k] = ws[k] % Base /\ f[2 * k + 1] = (ws[k] \div Base) % Base
    BY <1>1, <1>2, <2>1
  <2>3. QED
    BY <2>1, <2>2
<1>4. /\ ws \in Seq(Nat) /\ Len(ws) = n + 1 /\ ws[1] = num /\ ws[4] = space
      /\ \A k \in 1 .. n : k # 1 /\ k # 4 => ws[k] = 0
      /\ ws[n + 1] = (num + space) % (Base * Base)
  BY <1>1, <1>3 DEF EmptyHeader
<1>5. PICK m \in Nat : m = Base * Base /\ m > 0
  BY Sizes0
<1>6. ASSUME NEW i \in 1 .. Len(f) PROVE q[z + i] = f[i]
  BY <1>2 DEF Holds
<1>7. ASSUME NEW k \in 1 .. n + 1, NEW y, y = z + 2 * k - 1 PROVE Word(q, y) = ws[k] % m
  <2>1. 2 * k \in 1 .. Len(f) /\ 2 * k + 1 \in 1 .. Len(f)
    BY <1>2
  <2>2. q[z + 2 * k] = f[2 * k] /\ q[z + (2 * k + 1)] = f[2 * k + 1]
    BY <1>6, <2>1
  <2>3. y + 1 = z + 2 * k /\ y + 2 = z + (2 * k + 1)
    BY <1>7
  <2>4. q[y + 1] = ws[k] % Base /\ q[y + 2] = (ws[k] \div Base) % Base
    BY <1>3, <2>2, <2>3
  <2>5. ws[k] \in Nat
    BY <1>4
  <2>6. QED
    BY <1>5, <2>4, <2>5, WordModulo
<1>8. 0 % m = 0 /\ num % m \in 0 .. m - 1 /\ space % m \in 0 .. m - 1 /\ space % m <= space
      /\ (num + space) % m \in 0 .. m - 1
  <2>1. 0 % m = 0 /\ num % m \in 0 .. m - 1 /\ space % m \in 0 .. m - 1
        /\ (num + space) % m \in 0 .. m - 1
    BY <1>5
  <2>2. space = m * (space \div m) + (space % m) /\ space \div m \in Nat
    BY <1>5
  <2>3. m * (space \div m) \in Nat
    BY <2>2
  <2>4. QED
    BY <2>1, <2>2, <2>3
<1>9. Length(q, z) = 0
  <2>1. 2 \in 1 .. n + 1 /\ z + 3 = z + 2 * 2 - 1 /\ ws[2] = 0
    BY <1>1, <1>4
  <2>2. Word(q, z + 3) = ws[2] % m
    BY <1>7, <2>1
  <2>3. QED
    BY <1>8, <2>1, <2>2 DEF Length
<1>10. Space(q, z) \in 0 .. space
  <2>1. 4 \in 1 .. n + 1 /\ z + 7 = z + 2 * 4 - 1
    BY <1>1
  <2>2. Word(q, z + 7) = space % m
    BY <1>4, <1>7, <2>1
  <2>3. QED
    BY <1>8, <2>2 DEF Space
<1>11. Word(q, HdrSum(z)) = (num + space) % m
  <2>1. HdrSum(z) = z + 2 * (n + 1) - 1 /\ n + 1 \in 1 .. n + 1
    BY <1>1 DEF HdrSum
  <2>2. Word(q, HdrSum(z)) = ws[n + 1] % m
    BY <1>7, <2>1
  <2>3. PICK t \in 0 .. m - 1 : t = (num + space) % m
    BY <1>8
  <2>4. t % m = t
    BY <1>5
  <2>5. QED
    BY <1>4, <1>5, <2>2, <2>3, <2>4
<1>12. Checksum(q, z + 1, HdrWords) = (num + space) % m
  <2>1. PICK vs : vs = Words(q, z + 1, n)
    OBVIOUS
  <2>2. vs = [k \in 1 .. n |-> Word(q, z + 1 + 2 * (k - 1))]
    BY <2>1 DEF Words
  <2>3. ASSUME NEW k \in 1 .. n PROVE Word(q, z + 1 + 2 * (k - 1)) = ws[k] % m
    <3>1. z + 1 + 2 * (k - 1) = z + 2 * k - 1 /\ k \in 1 .. n + 1
      OBVIOUS
    <3>2. QED
      BY <1>7, <3>1
  <2>4. ASSUME NEW k \in 1 .. n PROVE ws[k] % m \in Nat
    <3>1. ws[k] \in Nat
      BY <1>4
    <3>2. QED
      BY <1>5, <3>1
  <2>5. vs \in Seq(Nat) /\ Len(vs) = n /\ \A k \in 1 .. n : vs[k] = ws[k] % m
    <3>1. vs = [k \in 1 .. n |-> ws[k] % m]
      BY <2>2, <2>3, Zenon
    <3>2. [k \in 1 .. n |-> ws[k] % m] \in Seq(Nat) /\ Len([k \in 1 .. n |-> ws[k] % m]) = n
      BY <2>4
    <3>3. QED
      BY <3>1, <3>2
  <2>6. \A k \in 1 .. Len(vs) : k # 1 /\ k # 4 => vs[k] = 0
    BY <1>4, <1>8, <2>5
  <2>7. Sum(vs) = vs[1] + vs[4]
    BY <1>1, <2>5, <2>6, SumOfTwo
  <2>8. vs[1] = num % m /\ vs[4] = space % m
    BY <1>1, <1>4, <2>5
  <2>9. Sum(vs) % m = (num + space) % m
    <3>1. ((num % m) + (space % m)) % m = (num + space) % m
      BY <1>5, ModuloSum
    <3>2. Sum(vs) = (num % m) + (space % m)
      BY <2>7, <2>8
    <3>3. QED
      BY <3>1, <3>2
  <2>10. QED
    BY <1>1, <1>5, <2>1, <2>9 DEF Checksum
<1>13. Checksum(q, Content(z), Length(q, z)) = 0
  <2>1. Words(q, Content(z), 0) = <<>>
    BY DEF Words
  <2>2. QED
    BY <1>5, <1>8, <1>9, <2>1, SumOfNone DEF Checksum
<1>14. Word(q, ContentSum(q, z)) = 0
  <2>1. PICK x \in Nat : x = 2 * n + 3
    OBVIOUS
  <2>2. ContentSum(q, z) = z + x
    BY <1>1, <1>9, <2>1 DEF ContentSum, Content, HdrSum
  <2>3. x + 1 \in 1 .. Len(f) /\ x + 2 \in 1 .. Len(f) /\ f[x + 1] = 0 /\ f[x + 2] = 0
    BY <1>2, <2>1
  <2>4. q[z + (x + 1)] = 0 /\ q[z + (x + 2)] = 0
    BY <1>6, <2>3
  <2>5. (z + x) + 1 = z + (x + 1) /\ (z + x) + 2 = z + (x + 2)
    OBVIOUS
  <2>6. q[(z + x) + 1] = 0 % Base /\ q[(z + x) + 2] = (0 \div Base) % Base
    <3>1. 0 % Base = 0 /\ 0 \div Base = 0
      BY Sizes0
    <3>2. QED
      BY <2>4, <2>5, <3>1
  <2>7. Word(q, z + x) = 0 % m
    BY <1>5, <2>6, WordModulo
  <2>8. QED
    BY <1>8, <2>2, <2>7
<1>15. QED
  BY <1>9, <1>10, <1>11, <1>12, <1>13, <1>14 DEF SumMatches

LEMMA MarkedBof == Byte(BOF + Ctl) = BOF /\ BOF + Ctl \in Cells
<1>1. BOF + Ctl \in Cells /\ BOF + Ctl >= Base
  BY Sizes0 DEF Cells
<1>2. QED
  BY <1>1, CellsAreNumbers

(* An empty file where nothing is in its way is a file, and the only one as*)
(* far as it goes.                                                         *)
LEMMA EmptyFileThere ==
  ASSUME NEW q \in Seq(Cells), Whole(q), NEW y \in Nat, Free(q, y),
         NEW num \in Nat, NEW space \in Nat, NEW f, f = EmptyFile(num, space),
         Holds(q, y, f), y + Len(f) <= Len(q)
  PROVE  /\ Free(q, y + Len(f)) /\ Len(f) \in Nat /\ Len(f) > 0
         /\ \A bi \in Range(Bofs(q)) : y <= bi /\ bi < y + Len(f) => SumMatches(q, bi)
<1>1. PICK n \in Nat : n = HdrWords /\ n >= 4
  BY Sizes0
<1>2. /\ f \in Seq(Cells) /\ Len(f) \in Nat /\ Len(f) >= 2 * n + 5 + 2 * space /\ f[1] = BOF + Ctl
      /\ \A i \in 2 * n + 4 .. Len(f) : f[i] = 0
  <2>1. /\ f \in Seq(Cells) /\ Len(f) = Content(0) + (space + 1) * 2 + space \div 2
        /\ f[1] = BOF + Ctl /\ \A i \in Content(0) + 1 .. Len(f) : f[i] = 0
    BY EmptyFileCells
  <2>2. Content(0) = 2 * n + 3
    BY <1>1 DEF Content, HdrSum
  <2>3. (space + 1) * 2 = 2 * space + 2 /\ space \div 2 \in Nat
    OBVIOUS
  <2>4. QED
    BY <2>1, <2>2, <2>3
<1>3. SumMatches(q, y) /\ Space(q, y) \in 0 .. space
  BY EmptyFileHeld
<1>4. ASSUME NEW i \in 1 .. Len(f) PROVE q[y + i] = f[i]
  BY DEF Holds
<1>5. Byte(q[y + 1]) = BOF
  <2>1. 1 \in 1 .. Len(f)
    BY <1>2
  <2>2. QED
    BY <1>2, <1>4, <2>1, MarkedBof
<1>6. /\ y \in Range(Bofs(q))
      /\ \A bi \in Range(Bofs(q)) : bi < y \/ bi = y \/ bi >= End(q, y)
  <2>1. y < Len(q)
    BY <1>2
  <2>2. \A i \in y + 1 .. y : Byte(q[i]) # BOF
    OBVIOUS
  <2>3. QED
    BY <1>5, <2>1, <2>2, NextFile
<1>7. End(q, y) \in Nat /\ End(q, y) >= y + 2 * n + 5 /\ End(q, y) <= y + Len(f)
  <2>1. End(q, y) = y + 2 * n + 5 + 2 * Space(q, y)
    BY <1>1, <1>6, FileSet
  <2>2. QED
    BY <1>2, <1>3, <2>1
<1>8. ASSUME NEW bi \in Range(Bofs(q)), y <= bi, bi < y + Len(f) PROVE bi = y
  <2>1. SUFFICES ASSUME bi # y PROVE FALSE
    OBVIOUS
  <2>2. bi \in Nat /\ Byte(q[bi + 1]) = BOF
    BY FileSet
  <2>3. bi >= End(q, y)
    BY <1>6, <1>8, <2>1, <2>2
  <2>4. PICK j \in Nat : j = bi - y + 1 /\ bi + 1 = y + j
    BY <1>8, <2>2
  <2>5. j \in 1 .. Len(f) /\ j \in 2 * n + 4 .. Len(f)
    BY <1>2, <1>7, <1>8, <2>2, <2>3, <2>4
  <2>6. q[bi + 1] = 0
    BY <1>2, <1>4, <2>4, <2>5
  <2>7. QED
    BY <2>2, <2>6, ZeroCells
<1>9. ASSUME NEW bi \in Range(Bofs(q)), bi < y + Len(f) PROVE End(q, bi) <= y + Len(f)
  <2>1. bi \in Nat /\ End(q, bi) \in Nat
    BY FileSet
  <2>2. CASE bi < y
    <3>1. End(q, bi) <= y
      BY <2>2 DEF Free
    <3>2. QED
      BY <1>2, <2>1, <3>1
  <2>3. CASE ~(bi < y)
    BY <1>7, <1>8, <1>9, <2>1, <2>3
  <2>4. QED
    BY <2>2, <2>3
<1>10. ASSUME NEW bi \in Range(Bofs(q)), y <= bi, bi < y + Len(f) PROVE SumMatches(q, bi)
  BY <1>3, <1>8, <1>10
<1>11. QED
  BY <1>2, <1>9, <1>10 DEF Free

(* Of q, what is written from at on has right sums, and the rest is p.     *)
WrittenFrom(p, q, at) ==
  /\ q \in Seq(Cells) /\ at <= Len(q) /\ Same(p, q, 0, at)
  /\ \E e \in Nat :
       /\ \A i \in e + 1 .. Len(q) : i <= Len(p) /\ q[i] = p[i]
       /\ \A bi \in Range(Bofs(q)) : at <= bi /\ bi < e => SumMatches(q, bi)

(* Files marked from a place where no file is cut have right sums, and all *)
(* else stays what it is.                                                  *)
LEMMA MarkedInside ==
  ASSUME NEW p \in Seq(Cells), Whole(p),
         NEW at \in Nat, at <= Len(p), Free(p, at),
         NEW num \in Nat, NEW n \in Nat, NEW fSpace \in Nat,
         NEW q, q = Put(p, at, FlattenSeq(EmptyFiles(num, n, fSpace))), Whole(q)
  PROVE  WrittenFrom(p, q, at)
<1>1. PICK s : s = EmptyFiles(num, n, fSpace)
  OBVIOUS
<1>2. ASSUME NEW i \in 1 .. n + 1
      PROVE  \E a \in Nat, b \in Nat : s[i] = EmptyFile(a, b)
  <2>1. PICK a \in Nat : a = num + i - 1
    OBVIOUS
  <2>2. PICK b \in Nat : b = IF i = n + 1 THEN EotSpace ELSE fSpace
    BY Sizes0
  <2>3. s[i] = EmptyFile(a, b)
    BY <1>1, <2>1, <2>2 DEF EmptyFiles
  <2>4. QED
    BY <2>3
<1>3. s \in Seq(Seq(Cells)) /\ Len(s) = n + 1
  <2>1. ASSUME NEW i \in 1 .. n + 1
        PROVE  EmptyFile(num + i - 1, IF i = n + 1 THEN EotSpace ELSE fSpace) \in Seq(Cells)
    <3>1. num + i - 1 \in Nat /\ (IF i = n + 1 THEN EotSpace ELSE fSpace) \in Nat
      BY Sizes0
    <3>2. QED
      BY <3>1, EmptyFileCells
  <2>2. QED
    BY <1>1, <2>1 DEF EmptyFiles
<1>17. PICK flat \in Seq(Cells) : flat = FlattenSeq(s)
  BY <1>3, Flattening
<1>4. PICK off : flat = FlattenSeq(s) /\ Laid(s, flat, off)
  BY <1>3, <1>17, Flattening
<1>5. /\ off \in [0 .. n + 1 -> Nat] /\ off[0] = 0 /\ Len(flat) = off[n + 1]
      /\ \A k \in 1 .. n + 1 : off[k] = off[k - 1] + Len(s[k])
      /\ \A k \in 1 .. n + 1 : \A j \in 1 .. Len(s[k]) : flat[off[k - 1] + j] = s[k][j]
  BY <1>3, <1>4 DEF Laid
<1>6. \A k \in 1 .. n + 1 : Len(s[k]) \in Nat
  <2>1. \A k \in 1 .. n + 1 : s[k] \in Seq(Cells)
    BY <1>3
  <2>2. QED
    BY <2>1
<1>7. \A k \in 0 .. n + 1 : off[k] \in Nat /\ off[k] <= off[n + 1]
  <2>1. ASSUME NEW k \in 1 .. n + 1 PROVE off[k - 1] <= off[k]
    <3>1. k - 1 \in 0 .. n + 1
      OBVIOUS
    <3>2. off[k - 1] \in Nat
      BY <1>5, <3>1
    <3>3. PICK x \in Nat, l \in Nat : x = off[k - 1] /\ l = Len(s[k])
      BY <1>6, <3>2
    <3>4. off[k] = x + l
      BY <1>5, <3>3
    <3>5. QED
      BY <3>3, <3>4
  <2>2. PICK m \in Nat : m = n + 1
    OBVIOUS
  <2>3. \A k \in 0 .. m : \A l \in k .. m : off[k] <= off[l]
    BY <1>5, <2>1, <2>2, Rising
  <2>4. QED
    BY <1>5, <2>2, <2>3
<1>8. PICK e \in Nat : e = at + Len(flat)
  OBVIOUS
<1>9. /\ q \in Seq(Cells) /\ Len(q) \in Nat /\ Len(p) \in Nat /\ e <= Len(q)
      /\ Len(q) = (IF e <= Len(p) THEN Len(p) ELSE e)
      /\ \A i \in 1 .. at : q[i] = p[i]
      /\ \A i \in 1 .. Len(flat) : q[at + i] = flat[i]
      /\ \A i \in e + 1 .. Len(p) : q[i] = p[i]
  <2>1. q = Put(p, at, flat)
    BY <1>1, <1>4
  <2>2. /\ q \in Seq(Cells) /\ Len(q) = (IF e <= Len(p) THEN Len(p) ELSE e)
        /\ \A i \in 1 .. at : q[i] = p[i]
        /\ \A i \in 1 .. Len(flat) : q[at + i] = flat[i]
        /\ \A i \in e + 1 .. Len(p) : q[i] = p[i]
    BY <1>8, <2>1, PutCells
  <2>3. Len(q) \in Nat /\ Len(p) \in Nat
    BY <2>2
  <2>4. e <= Len(q)
    BY <2>2, <2>3
  <2>5. QED
    BY <2>2, <2>3, <2>4
<1>10. Same(p, q, 0, at) /\ at <= Len(q)
  BY <1>8, <1>9 DEF Same
<1> DEFINE Fine(k) == /\ Free(q, at + off[k])
                      /\ \A bi \in Range(Bofs(q)) :
                           at <= bi /\ bi < at + off[k] => SumMatches(q, bi)
           S == {k \in 0 .. n + 1 : Fine(k)}
<1>11. 0 \in S
  <2>1. Free(q, at)
    BY <1>9, <1>10, SameFiles
  <2>2. at + off[0] = at
    BY <1>5
  <2>3. Range(Bofs(q)) \subseteq Nat
    BY <1>9, FileSet
  <2>4. QED
    BY <2>1, <2>2, <2>3
<1>12. ASSUME NEW k \in 1 .. n + 1, k - 1 \in S PROVE k \in S
  <2>1. k - 1 \in 0 .. n + 1 /\ Fine(k - 1) /\ off[k - 1] \in Nat
    BY <1>7, <1>12
  <2>2. PICK y \in Nat : y = at + off[k - 1]
    BY <2>1
  <2>13. PICK f : f = s[k]
    OBVIOUS
  <2>3. PICK a \in Nat, b \in Nat : f = EmptyFile(a, b)
    BY <1>2, <2>13
  <2>4. Len(f) \in Nat /\ at + off[k] = y + Len(f) /\ y + Len(f) <= e
        /\ off[k] = off[k - 1] + Len(f) /\ off[k] <= Len(flat)
    <3>1. off[k] = off[k - 1] + Len(f) /\ Len(f) \in Nat
      BY <1>5, <1>6, <2>13
    <3>2. off[k] <= Len(flat)
      BY <1>5, <1>7
    <3>3. QED
      BY <1>8, <2>1, <2>2, <3>1, <3>2
  <2>5. Holds(q, y, f)
    <3>1. ASSUME NEW j \in 1 .. Len(f) PROVE q[y + j] = f[j]
      <4>1. off[k - 1] + j \in 1 .. Len(flat) /\ at + (off[k - 1] + j) = y + j
        <5>1. PICK x \in Nat : x = off[k - 1]
          BY <2>1
        <5>2. x + j <= Len(flat)
          <6>1. x + Len(f) <= Len(flat) /\ Len(flat) \in Nat
            BY <2>4, <5>1
          <6>2. QED
            BY <2>4, <6>1
        <5>3. at + x = y
          BY <2>2, <5>1
        <5>4. x + j \in 1 .. Len(flat) /\ at + (x + j) = y + j
          BY <5>2, <5>3
        <5>5. QED
          BY <5>1, <5>4
      <4>2. q[y + j] = flat[off[k - 1] + j]
        BY <1>9, <4>1
      <4>3. flat[off[k - 1] + j] = f[j]
        BY <1>5, <2>13
      <4>4. QED
        BY <4>2, <4>3
    <3>2. QED
      BY <3>1 DEF Holds
  <2>6. y + Len(f) <= Len(q)
    BY <1>9, <2>4
  <2>7. Free(q, y)
    BY <2>1, <2>2
  <2>8. /\ Free(q, y + Len(f))
        /\ \A bi \in Range(Bofs(q)) : y <= bi /\ bi < y + Len(f) => SumMatches(q, bi)
    BY <1>9, <2>3, <2>5, <2>6, <2>7, EmptyFileThere
  <2>9. ASSUME NEW bi \in Range(Bofs(q)), at <= bi, bi < at + off[k] PROVE SumMatches(q, bi)
    <3>1. bi \in Nat
      BY <1>9, FileSet
    <3>2. CASE bi < y
      BY <2>1, <2>2, <2>9, <3>2
    <3>3. CASE y <= bi
      BY <2>4, <2>8, <2>9, <3>3
    <3>4. QED
      BY <3>1, <3>2, <3>3
  <2>10. Fine(k)
    BY <2>4, <2>8, <2>9
  <2>11. QED
    BY <2>10
<1>13. \A k \in 0 .. n + 1 : k \in S
  <2>1. PICK m \in Nat : m = n + 1
    OBVIOUS
  <2> HIDE DEF S
  <2>2. \A k \in 1 .. m : k - 1 \in S => k \in S
    BY <1>12, <2>1
  <2>3. \A k \in 0 .. m : k \in S
    BY <1>11, <2>2, Inductive
  <2>4. QED
    BY <2>1, <2>3
<1>14. \A bi \in Range(Bofs(q)) : at <= bi /\ bi < e => SumMatches(q, bi)
  <2>1. n + 1 \in S
    BY <1>13
  <2>2. Fine(n + 1) /\ at + off[n + 1] = e
    BY <1>5, <1>8, <2>1
  <2>3. QED
    BY <2>2
<1>15. \A i \in e + 1 .. Len(q) : i <= Len(p) /\ q[i] = p[i]
  BY <1>9
<1>16. QED
  BY <1>9, <1>10, <1>14, <1>15 DEF WrittenFrom

-----------------------------------------------------------------------------
(* What mark and load do to the sums.                                      *)

(* An image with the right sums has them, of itself.                       *)
LEMMA SumsStay ==
  ASSUME NEW p, SumsMatch(p) PROVE SumsRightOf(p, p)
BY DEF SumsMatch, SumsRightOf

(* An image without BOF bytes has no files.                                *)
LEMMA NoFiles ==
  ASSUME NEW p \in Seq(Cells), \A i \in 1 .. Len(p) : Byte(p[i]) # BOF
  PROVE  Bofs(p) = <<>> /\ Whole(p) /\ SumsMatch(p) /\ ~Hidden(p)
<1>1. Filing(p, <<>>)
  <2>1. PICK b \in Seq(Nat) : b = <<>> /\ Len(b) = 0
    <3>1. <<>> \in Seq(Nat) /\ Len(<<>>) = 0
      OBVIOUS
    <3>2. QED
      BY <3>1
  <2>2. After(p, b, Len(b)) = 0
    BY <2>1 DEF After
  <2>3. \A i \in After(p, b, Len(b)) + 1 .. Len(p) : Byte(p[i]) # BOF
    BY <2>2
  <2>4. \A k \in 1 .. Len(b) : FALSE
    BY <2>1
  <2>5. Filing(p, b)
    BY <2>3, <2>4 DEF Filing
  <2>6. QED
    BY <2>1, <2>5
<1>2. Bofs(p) = <<>>
  BY <1>1, SeqCells, BofsFiling, FilingUnique
<1>3. \A bi \in Range(Bofs(p)) : FALSE
  BY <1>2 DEF Range
<1>4. ~Hidden(p)
  <2>1. ASSUME NEW i \in DOMAIN p, p[i] >= Ctl PROVE FALSE
    <3>1. p[i] \in Cells /\ i \in 1 .. Len(p)
      OBVIOUS
    <3>2. p[i] >= Base /\ p[i] \in Nat
      <4>1. p[i] \in Nat /\ Base \in Nat /\ Ctl = 8 * Base
        BY <3>1, CellsAreNumbers, Sizes0
      <4>2. QED
        BY <2>1, <4>1
    <3>3. Byte(p[i]) = BOF
      BY <3>1, <3>2, CellsAreNumbers
    <3>4. QED
      BY <3>1, <3>3
  <2>2. QED
    BY <2>1 DEF Hidden
<1>5. QED
  BY <1>2, <1>3, <1>4 DEF Whole, SumsMatch

(* And an image without files has no BOF byte.                             *)
LEMMA NoBofs ==
  ASSUME NEW p \in Seq(Cells), Bofs(p) = <<>>, NEW i \in 1 .. Len(p) PROVE Byte(p[i]) # BOF
<1>1. Filing(p, <<>>)
  BY SeqCells, BofsFiling
<1>2. After(p, <<>>, Len(<<>>)) = 0
  BY DEF After
<1>3. QED
  BY <1>1, <1>2 DEF Filing

(* What mark writes before its first file holds none.                      *)
LEMMA PaddedNoFiles ==
  ASSUME NEW p \in Seq(Cells), Bofs(p) = <<>>, NEW q, q = Put(p, 0, Zeroes(BotPadding))
  PROVE  /\ q \in Seq(Cells) /\ BotPadding \in Nat /\ BotPadding <= Len(q) /\ Len(q) \in Nat
         /\ \A i \in 1 .. Len(q) : Byte(q[i]) # BOF
<1>1. PICK b0 \in Nat : b0 = BotPadding
  BY Sizes0
<1>2. PICK z \in Seq(Cells) : z = Zeroes(b0) /\ Len(z) = b0 /\ \A i \in 1 .. b0 : z[i] = 0
  BY ZeroCells
<1>3. Len(p) \in Nat
  OBVIOUS
<1>4. /\ q \in Seq(Cells)
      /\ Len(q) = (IF 0 + Len(z) <= Len(p) THEN Len(p) ELSE 0 + Len(z))
      /\ \A i \in 1 .. Len(z) : q[0 + i] = z[i]
      /\ \A i \in 0 + Len(z) + 1 .. Len(p) : q[i] = p[i]
  BY <1>1, <1>2, <1>3, PutCells
<1>5. ASSUME NEW i \in 1 .. Len(q) PROVE Byte(q[i]) # BOF
  <2>1. CASE i <= b0
    <3>1. q[i] = 0
      BY <1>2, <1>4, <2>1
    <3>2. QED
      BY <3>1, ZeroCells
  <2>2. CASE ~(i <= b0)
    <3>1. i \in 1 .. Len(p) /\ q[i] = p[i]
      BY <1>2, <1>3, <1>4, <2>2
    <3>2. QED
      BY <3>1, NoBofs
  <2>3. QED
    BY <2>1, <2>2
<1>6. QED
  BY <1>1, <1>2, <1>3, <1>4, <1>5

(* mark keeps the sums right (tpf.c lines 330 to 363).                     *)
LEMMA MarkedSums ==
  ASSUME NEW p \in Seq(Cells), Whole(p), SumsMatch(p), ~Hidden(p),
         NEW numFiles \in Nat \cup {-1}, NEW fSpace \in Nat, NEW fNum \in Int,
         Whole(Marked(p, numFiles, fSpace, fNum))
  PROVE  SumsRightOf(p, Marked(p, numFiles, fSpace, fNum))
<1>1. PICK found : found = FindFile(p, fNum)
  OBVIOUS
<1>2. /\ found = -1 \/ (found \in Nat /\ found \in Range(Bofs(p)) /\ Num(p, found) \in Nat)
      /\ found = -1 => ~(fNum < 0 /\ Bofs(p) # <<>>)
  <2>1. p \in Seq(Nat) /\ Bofs(p) \in Seq(Nat)
    BY SeqCells, WholeFiles
  <2>2. \/ found = -1 /\ ~(fNum < 0 /\ Bofs(p) # <<>>)
        \/ \E k \in 1 .. Len(Bofs(p)) : found = Bofs(p)[k]
    BY <1>1, <2>1, FindFileFinds
  <2>3. ASSUME NEW k \in 1 .. Len(Bofs(p)), found = Bofs(p)[k]
        PROVE  found \in Nat /\ found \in Range(Bofs(p)) /\ found # -1
    BY <2>1, <2>3 DEF Range
  <2>4. found = -1 \/ (found \in Nat /\ Num(p, found) \in Nat)
    BY <1>1, FoundFile
  <2>5. QED
    BY <2>2, <2>3, <2>4
<1>3. CASE found < 0 /\ fNum >= 0
  <2>1. Marked(p, numFiles, fSpace, fNum) = p
    BY <1>1, <1>3 DEF Marked
  <2>2. QED
    BY <2>1, SumsStay
<1>4. CASE ~(found < 0 /\ fNum >= 0)
  <2>1. PICK q : q = IF found < 0 THEN Put(p, 0, Zeroes(BotPadding)) ELSE p
    OBVIOUS
  <2>2. PICK num : num = IF found < 0 THEN 0
                         ELSE Num(p, found) + (IF numFiles < 0 THEN 1 ELSE 0)
    OBVIOUS
  <2>3. PICK at : at = IF numFiles < 0 THEN Len(q)
                       ELSE IF found < 0 THEN BotPadding ELSE found
    OBVIOUS
  <2>4. PICK n : n = IF numFiles < 0 THEN 0 ELSE numFiles
    OBVIOUS
  <2>5. PICK r : r = Marked(p, numFiles, fSpace, fNum)
    OBVIOUS
  <2>6. r = Put(q, at, FlattenSeq(EmptyFiles(num, n, fSpace)))
    BY <1>1, <1>4, <2>1, <2>2, <2>3, <2>4, <2>5, Zenon DEF Marked, EmptyFiles
  <2>7. num \in Nat /\ n \in Nat
    BY <1>2, <2>2, <2>4
  <2>8. CASE found < 0
    <3>1. Bofs(p) = <<>>
      BY <1>2, <1>4, <2>8
    <3>2. /\ q \in Seq(Cells) /\ BotPadding \in Nat /\ BotPadding <= Len(q) /\ Len(q) \in Nat
          /\ \A i \in 1 .. Len(q) : Byte(q[i]) # BOF
      BY <2>1, <2>8, <3>1, PaddedNoFiles
    <3>3. Bofs(q) = <<>> /\ Whole(q) /\ SumsMatch(q) /\ ~Hidden(q)
      BY <3>2, NoFiles
    <3>4. at \in Nat /\ at <= Len(q)
      BY <2>3, <2>8, <3>2
    <3>5. Free(q, at)
      BY <3>3 DEF Free, Range
    <3>6. WrittenFrom(q, r, at)
      BY <2>5, <2>6, <2>7, <3>2, <3>3, <3>4, <3>5, MarkedInside
    <3>7. SumsRightOf(q, r)
      BY <2>5, <3>2, <3>3, <3>4, <3>5, <3>6, Overwritten DEF WrittenFrom
    <3>8. QED
      BY <2>5, <3>1, <3>3, <3>7 DEF SumsRightOf
  <2>9. CASE ~(found < 0)
    <3>1. found \in Nat /\ found \in Range(Bofs(p)) /\ q = p
      BY <1>2, <2>1, <2>9
    <3>2. found <= Len(p) /\ Len(p) \in Nat
      <4>1. found + 13 <= End(p, found) /\ End(p, found) <= Len(p) /\ End(p, found) \in Nat
        BY <3>1, FileSet
      <4>2. QED
        BY <3>1, <4>1
    <3>3. at \in Nat /\ at <= Len(p) /\ (at \in Range(Bofs(p)) \/ at >= Len(p))
      BY <2>3, <2>9, <3>1, <3>2
    <3>4. Free(p, at)
      BY <3>3, FreeAt
    <3>5. WrittenFrom(p, r, at)
      BY <2>5, <2>6, <2>7, <3>1, <3>3, <3>4, MarkedInside
    <3>6. QED
      BY <2>5, <3>3, <3>4, <3>5, Overwritten DEF WrittenFrom
  <2>10. QED
    BY <2>8, <2>9
<1>5. QED
  BY <1>3, <1>4

(* An EOT file more keeps the sums as they are.                            *)
LEMMA AppendedSums ==
  ASSUME NEW p, NEW q \in Seq(Cells), Whole(q), SumsRightOf(p, q), Bofs(q) # <<>>,
         NEW r, r = Marked(q, -1, 0, -1), Whole(r)
  PROVE  SumsRightOf(p, r)
<1>1. PICK found : found = FindFile(q, -1)
  OBVIOUS
<1>2. found \in Nat /\ Num(q, found) \in Nat
  BY <1>1, FoundFile
<1>3. PICK num \in Nat : num = Num(q, found) + 1
  BY <1>2
<1>4. PICK at \in Nat : at = Len(q)
  OBVIOUS
<1>5. r = Put(q, at, FlattenSeq(EmptyFiles(num, 0, 0)))
  <2>1. -1 < 0 /\ ~(found < 0)
    BY <1>2
  <2>2. QED
    BY <1>1, <1>3, <1>4, <2>1, Zenon DEF Marked, EmptyFiles
<1>6. Free(q, at)
  BY <1>4, FreeAt
<1>7. PICK n \in Nat : n = 0
  OBVIOUS
<1>8. WrittenFrom(q, r, at)
  <2>1. r = Put(q, at, FlattenSeq(EmptyFiles(num, n, n)))
    BY <1>5, <1>7
  <2>2. QED
    BY <1>4, <1>6, <2>1, MarkedInside
<1>9. PICK e \in Nat : /\ \A i \in e + 1 .. Len(r) : i <= Len(q) /\ r[i] = q[i]
                       /\ \A bi \in Range(Bofs(r)) : at <= bi /\ bi < e => SumMatches(r, bi)
  BY <1>8 DEF WrittenFrom
<1>15. r \in Seq(Cells) /\ at <= Len(r) /\ Same(q, r, 0, at)
  BY <1>8 DEF WrittenFrom
<1>10. SUFFICES ASSUME NEW bi \in Range(Bofs(r))
                PROVE  SumMatches(r, bi) \/ (r[bi + 1] = BOF /\ bi \notin Range(Bofs(p)))
  BY DEF SumsRightOf
<1>11. bi \in Nat /\ End(r, bi) \in Nat /\ End(r, bi) <= Len(r) /\ bi + 13 <= End(r, bi)
       /\ Len(r) \in Nat
  BY <1>15, FileSet
<1>12. CASE bi < at
  <2>1. bi \in Range(Bofs(q)) /\ Free(r, at)
    <3>1. bi \in 0 .. at - 1
      BY <1>11, <1>12
    <3>2. QED
      BY <1>4, <1>6, <1>15, <3>1, SameFiles
  <2>2. End(r, bi) <= at
    BY <1>12, <2>1 DEF Free
  <2>3. Same(q, r, bi, End(r, bi))
    BY <1>15, <1>11, <2>2 DEF Same
  <2>4. SumMatches(q, bi) <=> SumMatches(r, bi)
    BY <1>15, <2>3, SameSums
  <2>5. q[bi + 1] = r[bi + 1]
    BY <1>11, <2>3 DEF Same
  <2>6. QED
    BY <2>1, <2>4, <2>5 DEF SumsRightOf
<1>13. CASE ~(bi < at)
  <2>1. bi < e
    <3>1. SUFFICES ASSUME ~(bi < e) PROVE FALSE
      OBVIOUS
    <3>2. bi + 1 \in e + 1 .. Len(r)
      BY <1>11, <3>1
    <3>3. QED
      BY <1>4, <1>9, <1>11, <1>13, <3>2
  <2>2. QED
    BY <1>9, <1>11, <1>13, <2>1
<1>14. QED
  BY <1>12, <1>13

(* A file loaded where another one is leaves its own sums right, and those *)
(* of the files before and behind it.                                      *)
LEMMA LoadedSums ==
  ASSUME NEW q \in Seq(Cells), Whole(q), SumsMatch(q), ~Hidden(q), NEW bi \in Range(Bofs(q)),
         NEW words \in Seq(Nat), Len(words) < Base * Base,
         NEW s, s = Loaded(q, bi, words), Whole(s)
  PROVE  s \in Seq(Cells) /\ SumsRightOf(q, s) /\ bi \in Range(Bofs(s))
<1>1. PICK n \in Nat : n = Len(words) /\ n < Base * Base
  OBVIOUS
<1>2. /\ bi \in Nat /\ Content(bi) <= Len(q) /\ Byte(q[bi + 1]) = BOF /\ bi <= Len(q)
      /\ HdrWords \in Nat /\ Content(bi) = bi + 3 + 2 * HdrWords
  <2>1. /\ bi \in Nat /\ WholeFile(q, bi) /\ Byte(q[bi + 1]) = BOF
        /\ bi + 13 <= End(q, bi) /\ End(q, bi) <= Len(q) /\ End(q, bi) \in Nat
    BY FileSet
  <2>2. HdrWords \in Nat /\ Content(bi) = bi + 3 + 2 * HdrWords
    BY <2>1, Sizes0 DEF Content, HdrSum
  <2>3. Len(q) \in Nat
    OBVIOUS
  <2>4. bi <= Len(q)
    BY <2>1, <2>3
  <2>5. QED
    BY <2>1, <2>2, <2>4 DEF WholeFile
<1>3. PICK e : e = Content(bi) + 2 * n + 2
  OBVIOUS
<1>4. /\ s \in Seq(Cells) /\ SumMatches(s, bi) /\ e \in Nat /\ e <= Len(s)
      /\ Length(s, bi) = n
      /\ \A i \in 1 .. bi + 1 : s[i] = q[i]
      /\ \A i \in e + 1 .. Len(s) : i <= Len(q) /\ s[i] = q[i]
  BY <1>1, <1>2, <1>3, LoadedIs
<1>5. /\ Same(q, s, 0, bi) /\ s[bi + 1] = q[bi + 1] /\ bi < Len(s) /\ Len(s) \in Nat
  <2>1. bi + 1 \in 1 .. bi + 1 /\ \A i \in 0 + 1 .. bi : i \in 1 .. bi + 1
    BY <1>2
  <2>2. Len(s) \in Nat
    BY <1>4
  <2>3. bi < Len(s)
    BY <1>2, <1>3, <1>4, <2>2
  <2>4. QED
    BY <1>4, <2>1, <2>2, <2>3 DEF Same
<1>6. Free(q, bi)
  BY <1>2, FreeAt
<1>7. Free(s, bi)
  <2>1. bi <= Len(s)
    BY <1>2, <1>5
  <2>2. QED
    BY <1>2, <1>4, <1>5, <1>6, <2>1, SameFiles
<1>8. /\ bi \in Range(Bofs(s))
      /\ \A bj \in Range(Bofs(s)) : bj < bi \/ bj = bi \/ bj >= End(s, bi)
  <2>1. \A i \in bi + 1 .. bi : Byte(s[i]) # BOF
    BY <1>2
  <2>2. Byte(s[bi + 1]) = BOF
    BY <1>2, <1>5
  <2>3. QED
    BY <1>2, <1>4, <1>5, <1>7, <2>1, <2>2, NextFile, SMTT(20)
<1>9. End(s, bi) \in Nat /\ e <= End(s, bi)
  <2>1. /\ WholeFile(s, bi) /\ Space(s, bi) \in Nat /\ End(s, bi) \in Nat
        /\ End(s, bi) = bi + 2 * HdrWords + 5 + 2 * Space(s, bi)
    BY <1>4, <1>8, FileSet
  <2>2. n <= Space(s, bi)
    BY <1>4, <2>1 DEF WholeFile
  <2>3. QED
    BY <1>2, <1>3, <2>1, <2>2
<1>10. PICK e2 \in Nat : e2 = End(s, bi) /\ e <= e2
  BY <1>9
<1>11. ASSUME NEW i \in e2 + 1 .. Len(s) PROVE i <= Len(q) /\ s[i] = q[i]
  <2>1. i \in e + 1 .. Len(s)
    BY <1>4, <1>10
  <2>2. QED
    BY <1>4, <2>1
<1>12. ASSUME NEW bj \in Range(Bofs(s)), bi <= bj, bj < e2 PROVE SumMatches(s, bj)
  <2>1. bj \in Nat
    BY <1>4, FileSet
  <2>2. bj = bi
    BY <1>2, <1>8, <1>10, <1>12, <2>1
  <2>3. QED
    BY <1>4, <2>2
<1>13. SumsRightOf(q, s)
  <2>1. bi <= Len(s)
    BY <1>2, <1>5
  <2>2. QED
    BY <1>2, <1>4, <1>5, <1>6, <1>11, <1>12, <2>1, Overwritten
<1>14. QED
  BY <1>4, <1>8, <1>13

(* The EOT file that load marks first, on an image without files.          *)
LEMMA FirstMarkedSums ==
  ASSUME NEW p \in Seq(Cells), Bofs(p) = <<>>, NEW q, q = Marked(p, 0, 0, -1)
  PROVE  q \in Seq(Cells) /\ Whole(q) /\ SumsMatch(q) /\ ~Hidden(q)
<1>1. PICK b0 \in Nat : b0 = BotPadding
  BY Sizes0
<1>2. /\ q \in Seq(Cells) /\ Bofs(q) = <<b0>> /\ Content(b0) <= Len(q)
  BY <1>1, FirstMarked
<1>3. Range(Bofs(q)) = {b0}
  BY <1>2 DEF Range
<1>4. PICK q0 : q0 = Put(p, 0, Zeroes(b0))
  OBVIOUS
<1>5. q0 \in Seq(Cells) /\ b0 <= Len(q0) /\ Len(q0) \in Nat
  BY <1>1, <1>4, PaddedNoFiles
<1>6. PICK n \in Nat : n = HdrWords /\ n >= 4
  BY Sizes0
<1>7. PICK t \in Nat : t = EotSpace
  BY Sizes0
<1>8. PICK f \in Seq(Cells) :
        /\ f = EmptyFile(0, t) /\ Len(f) \in Nat /\ Len(f) >= 2 * n + 5 + 2 * t /\ f[1] = BOF + Ctl
        /\ \A i \in 2 * n + 4 .. Len(f) : f[i] = 0
  <2>1. PICK f \in Seq(Cells) :
          /\ f = EmptyFile(0, t) /\ Len(f) = Content(0) + (t + 1) * 2 + t \div 2
          /\ f[1] = BOF + Ctl /\ \A i \in Content(0) + 1 .. Len(f) : f[i] = 0
    BY EmptyFileCells
  <2>2. Content(0) = 2 * n + 3
    BY <1>6 DEF Content, HdrSum
  <2>3. (t + 1) * 2 = 2 * t + 2 /\ t \div 2 \in Nat
    OBVIOUS
  <2>4. QED
    BY <2>1, <2>2, <2>3
<1>9. q = Put(q0, b0, f)
  <2>1. FindFile(p, -1) = -1
    BY SeqCells, FindFileFinds
  <2>2. -1 < 0 /\ ~(-1 >= 0) /\ ~(0 < 0)
    OBVIOUS
  <2>3. Marked(p, 0, 0, -1) = Put(q0, b0, FlattenSeq(EmptyFiles(0, 0, 0)))
    BY <1>1, <1>4, <2>1, <2>2, Zenon DEF Marked, EmptyFiles
  <2>4. FlattenSeq(EmptyFiles(0, 0, 0)) = EmptyFile(0, EotSpace)
    <3>1. PICK z \in Nat : z = 0
      OBVIOUS
    <3>2. FlattenSeq(EmptyFiles(z, z, z)) = EmptyFile(z, EotSpace)
      BY <3>1, EmptyFilesCells
    <3>3. QED
      BY <3>1, <3>2
  <2>5. QED
    BY <1>7, <1>8, <2>3, <2>4
<1>10. /\ \A i \in 1 .. Len(f) : q[b0 + i] = f[i]
       /\ b0 + Len(f) <= Len(q) /\ Len(q) \in Nat
  <2>1. /\ \A i \in 1 .. Len(f) : q[b0 + i] = f[i]
        /\ Len(q) = (IF b0 + Len(f) <= Len(q0) THEN Len(q0) ELSE b0 + Len(f))
    BY <1>5, <1>9, PutCells
  <2>2. Len(q) \in Nat
    BY <1>2
  <2>3. b0 + Len(f) <= Len(q)
    BY <1>5, <1>8, <2>1
  <2>4. QED
    BY <2>1, <2>2, <2>3
<1>11. SumMatches(q, b0) /\ Length(q, b0) = 0 /\ Space(q, b0) \in 0 .. t
  <2>1. Holds(q, b0, EmptyFile(0, t))
    BY <1>8, <1>10 DEF Holds
  <2>2. PICK z \in Nat : z = 0
    OBVIOUS
  <2>3. Holds(q, b0, EmptyFile(z, t))
    BY <2>1, <2>2
  <2>4. QED
    BY <2>3, EmptyFileHeld
<1>12. End(q, b0) = b0 + 2 * n + 5 + 2 * Space(q, b0)
  <2>1. q \in Seq(Nat)
    BY <1>2, SeqCells
  <2>2. /\ HdrSum(b0) = b0 + 1 + 2 * HdrWords /\ Content(b0) = HdrSum(b0) + 2
        /\ End(q, b0) = Content(b0) + 2 * (Space(q, b0) + 1)
    BY <1>2, <2>1, FieldsAreNumbers
  <2>3. QED
    BY <1>6, <1>11, <2>2
<1>13. End(q, b0) <= b0 + Len(f) /\ End(q, b0) \in Nat
  BY <1>8, <1>11, <1>12
<1>14. Whole(q)
  <2>1. End(q, b0) <= Len(q)
    BY <1>8, <1>10, <1>13
  <2>2. Length(q, b0) <= Space(q, b0)
    BY <1>11
  <2>3. QED
    BY <1>2, <1>3, <2>1, <2>2 DEF Whole
<1>15. SumsMatch(q)
  BY <1>3, <1>11 DEF SumsMatch
<1>16. ASSUME NEW j \in 2 .. Len(f) PROVE f[j] < Base
  <2>1. PICK ws : /\ EmptyHeader(ws, 0, t)
                  /\ \A k \in 1 .. n + 1 : /\ f[2 * k] = ws[k] % Base
                                           /\ f[2 * k + 1] = (ws[k] \div Base) % Base
    <3>1. PICK z \in Nat : z = 0
      OBVIOUS
    <3>2. PICK ws : /\ EmptyHeader(ws, z, t)
                    /\ \A k \in 1 .. HdrWords + 1 :
                         /\ EmptyFile(z, t)[2 * k] = ws[k] % Base
                         /\ EmptyFile(z, t)[2 * k + 1] = (ws[k] \div Base) % Base
      BY EmptyFileWords, Zenon
    <3>3. QED
      BY <1>6, <1>8, <3>1, <3>2
  <2>2. \A k \in 1 .. n + 1 : ws[k] \in Nat
    <3>1. ws \in Seq(Nat) /\ Len(ws) = n + 1
      BY <1>6, <2>1 DEF EmptyHeader
    <3>2. QED
      BY <3>1
  <2>3. Base \in Nat /\ Base > 0
    BY Sizes0
  <2>4. CASE j >= 2 * n + 4
    BY <1>8, <2>3, <2>4
  <2>5. CASE ~(j >= 2 * n + 4)
    <3>1. PICK k \in 1 .. n + 1 : j = 2 * k \/ j = 2 * k + 1
      <4>1. PICK k \in Nat : k = j \div 2
        OBVIOUS
      <4>2. (j = 2 * k \/ j = 2 * k + 1) /\ k \in 1 .. n + 1
        BY <2>5, <4>1
      <4>3. QED
        BY <4>2
    <3>2. ws[k] \in Nat
      BY <2>2
    <3>3. ws[k] % Base \in 0 .. Base - 1 /\ (ws[k] \div Base) % Base \in 0 .. Base - 1
      <4>1. PICK w \in Nat : w = ws[k]
        BY <3>2
      <4>2. PICK v \in Nat : v = w \div Base
        BY <2>3
      <4>3. w % Base \in 0 .. Base - 1 /\ v % Base \in 0 .. Base - 1
        BY <2>3
      <4>4. QED
        BY <4>1, <4>2, <4>3
    <3>4. QED
      BY <2>1, <2>3, <3>1, <3>3, SMTT(20)
  <2>6. QED
    BY <2>4, <2>5
<1>17. ASSUME NEW i \in DOMAIN q, q[i] >= Ctl PROVE i - 1 = b0
  <2>1. i \in 1 .. Len(q) /\ q[i] \in Cells
    BY <1>2
  <2>2. q[i] \in Nat /\ Base \in Nat /\ Ctl = 8 * Base
    BY <2>1, CellsAreNumbers, Sizes0
  <2>3. q[i] >= Base
    BY <1>17, <2>2
  <2>4. Byte(q[i]) = BOF
    BY <2>1, <2>3, CellsAreNumbers
  <2>5. PICK bi \in Range(Bofs(q)) : bi < i /\ i <= End(q, bi)
    BY <1>2, <1>14, <2>1, <2>4, FileSet
  <2>6. b0 < i /\ i <= End(q, b0)
    BY <1>3, <2>5
  <2>7. SUFFICES ASSUME i - 1 # b0 PROVE FALSE
    OBVIOUS
  <2>8. PICK j \in Nat : j = i - b0 /\ i = b0 + j
    <3>1. i \in Nat /\ Len(q) \in Nat
      BY <2>1
    <3>2. i - b0 \in Nat /\ i = b0 + (i - b0)
      BY <2>6, <3>1
    <3>3. QED
      BY <3>2
  <2>9. j \in 2 .. Len(f)
    <3>1. b0 + j <= b0 + Len(f)
      BY <1>13, <1>8, <2>6, <2>8
    <3>2. j # 1 /\ j # 0
      BY <2>6, <2>7, <2>8
    <3>3. QED
      BY <1>8, <3>1, <3>2
  <2>10. q[i] = f[j] /\ f[j] < Base
    BY <1>10, <1>16, <2>8, <2>9
  <2>11. QED
    BY <2>2, <2>3, <2>10
<1>18. QED
  BY <1>2, <1>3, <1>14, <1>15, <1>17 DEF Hidden

(* load keeps the sums right (tpf.c lines 366 to 433).                     *)
LEMMA LoadedFileSums ==
  ASSUME NEW p \in Seq(Cells), Whole(p), SumsMatch(p), ~Hidden(p),
         NEW words \in Seq(Nat), Len(words) < Base * Base,
         NEW fNum \in Int, fNum < 0 \/ FindFile(p, fNum) >= 0,
         NEW r, r = LoadedFile(p, fNum, words), Whole(r)
  PROVE  r \in Seq(Cells) /\ SumsRightOf(p, r) /\ Bofs(r) # <<>>
<1>1. PICK q : q = IF fNum < 0 /\ Bofs(p) = <<>> THEN Marked(p, 0, 0, -1) ELSE p
  OBVIOUS
<1>2. PICK bi : bi = FindFile(q, fNum) /\ r = Loaded(q, bi, words)
  BY <1>1, Zenon DEF LoadedFile
<1>3. CASE fNum < 0 /\ Bofs(p) = <<>>
  <2>1. q \in Seq(Cells) /\ Whole(q) /\ SumsMatch(q) /\ ~Hidden(q) /\ Bofs(q) = <<BotPadding>>
    BY <1>1, <1>3, FirstMarked, FirstMarkedSums
  <2>2. Bofs(q) # <<>> /\ Len(Bofs(q)) = 1 /\ Bofs(q)[1] = BotPadding
    BY <2>1
  <2>3. \E k \in 1 .. 1 : FindFile(q, fNum) = Bofs(q)[k]
    BY <1>3, <2>1, <2>2, SeqCells, FindFileFinds
  <2>4. bi \in Range(Bofs(q)) /\ Range(Bofs(q)) = {BotPadding}
    BY <1>2, <2>1, <2>2, <2>3 DEF Range
  <2>5. r \in Seq(Cells) /\ SumsRightOf(q, r) /\ bi \in Range(Bofs(r))
    BY <1>2, <2>1, <2>4, LoadedSums
  <2>6. SumsRightOf(p, r)
    <3>1. \A x : x \notin Range(Bofs(p))
      BY <1>3 DEF Range
    <3>2. QED
      BY <2>5, <3>1 DEF SumsRightOf
  <2>7. QED
    BY <2>5, <2>6 DEF Range
<1>4. CASE ~(fNum < 0 /\ Bofs(p) = <<>>)
  <2>1. q = p
    BY <1>1, <1>4
  <2>2. p \in Seq(Nat) /\ Bofs(p) \in Seq(Nat)
    BY SeqCells, WholeFiles
  <2>3. PICK k \in 1 .. Len(Bofs(p)) : bi = Bofs(p)[k]
    <3>1. \/ bi = -1 /\ ~(fNum < 0 /\ Bofs(p) # <<>>)
          \/ \E k \in 1 .. Len(Bofs(p)) : bi = Bofs(p)[k]
      BY <1>2, <2>1, <2>2, FindFileFinds
    <3>2. ~(bi = -1 /\ ~(fNum < 0 /\ Bofs(p) # <<>>))
      BY <1>2, <1>4, <2>1
    <3>3. QED
      BY <3>1, <3>2
  <2>4. bi \in Range(Bofs(p))
    BY <2>2, <2>3 DEF Range
  <2>5. r \in Seq(Cells) /\ SumsRightOf(p, r) /\ bi \in Range(Bofs(r))
    BY <1>2, <2>1, <2>4, LoadedSums
  <2>6. QED
    BY <2>5 DEF Range
<1>5. QED
  BY <1>3, <1>4

(* So does the whole of load, with the EOT file it may add.                *)
LEMMA LoadFileSums ==
  ASSUME NEW p \in Seq(Cells), Whole(p), SumsMatch(p), ~Hidden(p),
         NEW words \in Seq(Nat), Len(words) < Base * Base, NEW fNum \in Int,
         Whole(LoadedFile(p, fNum, words)), Whole(LoadFile(p, fNum, words))
  PROVE  SumsRightOf(p, LoadFile(p, fNum, words))
<1>1. FindFile(p, fNum) \in Int
  BY FoundFile
<1>2. CASE fNum >= 0 /\ FindFile(p, fNum) < 0
  <2>1. LoadFile(p, fNum, words) = p
    BY <1>2 DEF LoadFile
  <2>2. QED
    BY <2>1, SumsStay
<1>3. CASE ~(fNum >= 0 /\ FindFile(p, fNum) < 0)
  <2>1. PICK q \in Seq(Cells) :
          q = LoadedFile(p, fNum, words) /\ Whole(q) /\ SumsRightOf(p, q) /\ Bofs(q) # <<>>
    BY <1>1, <1>3, LoadedFileSums
  <2>2. CASE fNum < 0
    <3>1. LoadFile(p, fNum, words) = Marked(q, -1, 0, -1)
      BY <1>3, <2>1, <2>2 DEF LoadFile
    <3>2. QED
      BY <2>1, <3>1, AppendedSums
  <2>3. CASE ~(fNum < 0)
    <3>1. LoadFile(p, fNum, words) = q
      BY <1>3, <2>1, <2>3 DEF LoadFile
    <3>2. QED
      BY <2>1, <3>1
  <2>4. QED
    BY <2>2, <2>3
<1>4. QED
  BY <1>2, <1>3

-----------------------------------------------------------------------------
(* What clean, truncate and reading back do to the sums.                   *)

(* The sums of a file are right wherever the same cells follow its BOF.    *)
LEMMA BodySums ==
  ASSUME NEW q \in Seq(Cells), Whole(q), NEW bi \in Range(Bofs(q)), NEW p, NEW bj \in Nat,
         \A i \in 2 .. End(q, bi) - bi : p[bj + i] = q[bi + i]
  PROVE  SumMatches(p, bj) <=> SumMatches(q, bi)
<1>1. /\ bi \in Nat /\ End(q, bi) \in Nat /\ WholeFile(q, bi) /\ Space(q, bi) \in Nat
      /\ End(q, bi) = bi + 2 * HdrWords + 5 + 2 * Space(q, bi) /\ End(q, bi) <= Len(q)
  BY FileSet
<1>2. PICK h \in Nat : h = HdrWords /\ h >= 4
  BY Sizes0
<1>3. PICK n \in Nat : n = Space(q, bi) /\ End(q, bi) - bi = 2 * h + 5 + 2 * n
  BY <1>1, <1>2
<1>4. PICK l \in Nat : l = Length(q, bi) /\ l <= n
  BY <1>1, <1>3, SeqCells, FieldsAreNumbers DEF WholeFile
<1>5. ASSUME NEW i \in 2 .. 2 * h + 5 + 2 * n PROVE p[bj + i] = q[bi + i]
  BY <1>3
<1>6. ASSUME NEW x \in Nat, 1 <= x, x + 2 <= 2 * h + 5 + 2 * n PROVE Word(p, bj + x) = Word(q, bi + x)
  <2>1. x + 1 \in 2 .. 2 * h + 5 + 2 * n /\ x + 2 \in 2 .. 2 * h + 5 + 2 * n
    BY <1>6
  <2>2. p[bj + (x + 1)] = q[bi + (x + 1)] /\ p[bj + (x + 2)] = q[bi + (x + 2)]
    BY <1>5, <2>1
  <2>3. /\ bj + (x + 1) = (bj + x) + 1 /\ bj + (x + 2) = (bj + x) + 2
        /\ bi + (x + 1) = (bi + x) + 1 /\ bi + (x + 2) = (bi + x) + 2
    BY <1>1
  <2>4. p[(bj + x) + 1] = q[(bi + x) + 1] /\ p[(bj + x) + 2] = q[(bi + x) + 2]
    BY <2>2, <2>3
  <2>5. QED
    BY <2>4, Zenon DEF Word
<1>7. ASSUME NEW x \in Nat, 1 <= x, NEW m \in Nat, x + 2 * m <= 2 * h + 5 + 2 * n
      PROVE  Checksum(p, bj + x, m) = Checksum(q, bi + x, m)
  <2>1. ASSUME NEW k \in 1 .. m
        PROVE  Word(p, (bj + x) + 2 * (k - 1)) = Word(q, (bi + x) + 2 * (k - 1))
    <3>1. PICK y \in Nat : y = x + 2 * (k - 1)
      OBVIOUS
    <3>2. 1 <= y /\ y + 2 <= 2 * h + 5 + 2 * n
      BY <1>7, <3>1
    <3>3. (bj + x) + 2 * (k - 1) = bj + y /\ (bi + x) + 2 * (k - 1) = bi + y
      BY <1>1, <3>1
    <3>4. QED
      BY <1>6, <3>2, <3>3
  <2>2. Words(p, bj + x, m) = Words(q, bi + x, m)
    BY <2>1, Zenon DEF Words
  <2>3. QED
    BY <2>2, Zenon DEF Checksum
<1>8. Length(p, bj) = l
  <2>1. 1 <= 3 /\ 3 + 2 <= 2 * h + 5 + 2 * n
    BY <1>2
  <2>2. Word(p, bj + 3) = Word(q, bi + 3)
    BY <1>6, <2>1
  <2>3. QED
    BY <1>4, <2>2 DEF Length
<1>9. PICK s \in Nat : s = 2 * h + 1
  OBVIOUS
<1>10. /\ HdrSum(bj) = bj + s /\ HdrSum(bi) = bi + s
       /\ Content(bj) = bj + (s + 2) /\ Content(bi) = bi + (s + 2)
       /\ ContentSum(p, bj) = bj + (s + 2 + 2 * l) /\ ContentSum(q, bi) = bi + (s + 2 + 2 * l)
  BY <1>1, <1>2, <1>4, <1>8, <1>9 DEF ContentSum, Content, HdrSum
<1>11. /\ Word(p, bj + s) = Word(q, bi + s)
       /\ Word(p, bj + (s + 2 + 2 * l)) = Word(q, bi + (s + 2 + 2 * l))
  <2>1. /\ 1 <= s /\ s + 2 <= 2 * h + 5 + 2 * n
        /\ 1 <= s + 2 + 2 * l /\ s + 2 + 2 * l + 2 <= 2 * h + 5 + 2 * n
    BY <1>4, <1>9
  <2>2. s + 2 + 2 * l \in Nat
    OBVIOUS
  <2>3. QED
    BY <1>6, <2>1, <2>2
<1>12. /\ Checksum(p, bj + 1, h) = Checksum(q, bi + 1, h)
       /\ Checksum(p, bj + (s + 2), l) = Checksum(q, bi + (s + 2), l)
  <2>1. 1 <= 1 /\ 1 + 2 * h <= 2 * h + 5 + 2 * n
    OBVIOUS
  <2>2. s + 2 \in Nat /\ 1 <= s + 2 /\ (s + 2) + 2 * l <= 2 * h + 5 + 2 * n
    BY <1>4, <1>9
  <2>3. QED
    BY <1>7, <2>1, <2>2
<1>13. QED
  BY <1>2, <1>4, <1>8, <1>10, <1>11, <1>12 DEF SumMatches

(* clean keeps the sums right, or makes them right: only new numbers spoil *)
(* them (tpf.c lines 477 to 508).                                          *)
LEMMA CleanupSums ==
  ASSUME NEW p \in Seq(Cells), Whole(p), SumsMatch(p), NEW o, "sums" \in o \/ "seq" \notin o
  PROVE  SumsMatch(Cleaned(p, o))
<1>1. CASE "sums" \in o
  BY <1>1, CleanedSums
<1>2. CASE "sums" \notin o /\ "seq" \notin o
  <2>1. PICK off : Layout(Cleaned(p, o), p, o, off)
    BY CleanedLayout
  <2>2. PICK q : q = Cleaned(p, o) /\ Layout(q, p, o, off) /\ FiledAs(q, p, o, off)
    BY <2>1, CleanedFiles
  <2>3. ASSUME NEW bj \in Range(Bofs(q)) PROVE SumMatches(q, bj)
    <3>1. Bofs(q) \in Seq(Nat) /\ Len(Bofs(q)) = Len(Bofs(p))
      BY <2>2 DEF FiledAs, Filing
    <3>2. PICK k \in 1 .. Len(Bofs(p)) : bj = Bofs(q)[k]
      BY <2>3, <3>1 DEF Range
    <3>3. PICK bi : bi = Bofs(p)[k]
      OBVIOUS
    <3>4. bi \in Range(Bofs(p)) /\ bi \in Nat /\ After(p, Bofs(p), k) = End(p, bi)
      <4>1. Bofs(p) \in Seq(Nat) /\ bi \in Nat /\ After(p, Bofs(p), k) = End(p, bi)
        BY <3>3, WholeFiles
      <4>2. QED
        BY <3>3, <4>1 DEF Range
    <3>5. PICK f : f = FileAt(p, k)
      OBVIOUS
    <3>6. PICK g : g = Clean(p, k, o)
      OBVIOUS
    <3>7. Len(f) = End(p, bi) - bi /\ Holds(p, bi, f) /\ Len(g) = Len(f)
      BY <3>3, <3>4, <3>5, <3>6, FileAtFile, CleanCells
    <3>8. \A i \in 2 .. Len(f) : g[i] = f[i]
      BY <1>2, <3>5, <3>6, CleanCells
    <3>9. bj \in Nat /\ Holds(q, bj, g)
      BY <2>2, <3>2, <3>6 DEF FiledAs, Layout
    <3>10. ASSUME NEW i \in 2 .. End(p, bi) - bi PROVE q[bj + i] = p[bi + i]
      <4>1. i \in 1 .. Len(f) /\ i \in 1 .. Len(g) /\ i \in 2 .. Len(f)
        BY <3>7
      <4>2. QED
        BY <3>7, <3>8, <3>9, <4>1 DEF Holds
    <3>11. SumMatches(p, bi)
      BY <3>4 DEF SumsMatch
    <3>12. QED
      BY <3>4, <3>9, <3>10, <3>11, BodySums
  <2>4. QED
    BY <2>2, <2>3 DEF SumsMatch
<1>3. QED
  BY <1>1, <1>2

(* What is left of an image has the sums it had, when it is cut at the end *)
(* of a file.                                                              *)
LEMMA TruncatedSums ==
  ASSUME NEW p \in Seq(Cells), Whole(p), SumsMatch(p),
         NEW n \in {0} \cup {End(p, bi) : bi \in Range(Bofs(p))}, n < Len(p),
         NEW q, q = SubSeq(p, 1, n), Whole(q)
  PROVE  SumsMatch(q)
<1>1. n \in Nat /\ Free(p, n)
  BY FileSet, FreeAt
<1>2. PICK z \in Nat : z = 0
  OBVIOUS
<1>3. q \in Seq(Cells) /\ Len(q) = n /\ \A i \in 1 .. n : q[i] = p[i]
  <2>1. z <= n /\ n <= Len(p) /\ z + 1 = 1 /\ n - z = n
    BY <1>1, <1>2
  <2>2. /\ SubSeq(p, z + 1, n) \in Seq(Cells) /\ Len(SubSeq(p, z + 1, n)) = n - z
        /\ \A i \in 1 .. n - z : SubSeq(p, z + 1, n)[i] = p[z + i]
    BY <1>1, <2>1, Part
  <2>3. QED
    BY <1>2, <2>1, <2>2
<1>4. Same(p, q, 0, n)
  BY <1>1, <1>3 DEF Same
<1>5. SUFFICES ASSUME NEW bi \in Range(Bofs(q)) PROVE SumMatches(q, bi)
  BY DEF SumsMatch
<1>6. bi \in Nat /\ End(q, bi) \in Nat /\ End(q, bi) <= n /\ bi + 13 <= End(q, bi)
  BY <1>3, FileSet
<1>7. bi \in Range(Bofs(p))
  <2>1. bi \in 0 .. n - 1 /\ n <= Len(p) /\ n <= Len(q)
    BY <1>1, <1>3, <1>6
  <2>2. QED
    BY <1>1, <1>3, <1>4, <2>1, SameFiles
<1>8. Same(p, q, bi, End(q, bi))
  BY <1>1, <1>4, <1>6 DEF Same
<1>9. SumMatches(p, bi)
  BY <1>7 DEF SumsMatch
<1>10. QED
  BY <1>3, <1>8, <1>9, SameSums

(* Bytes that come back from a tape have the sums of the cells written,    *)
(* with another byte before the first file as well.                        *)
LEMMA ReadBackSums ==
  ASSUME NEW p \in Seq(Cells), Whole(p), SumsMatch(p), ~Hidden(p),
         NEW q \in Seq(Cells), Whole(q), Len(q) = Len(p),
         \A i \in 1 .. Len(p) : q[i] < Base,
         \A i \in 2 .. Len(p) : q[i] = Byte(p[i])
  PROVE  SumsRightOf(p, q)
<1>1. SUFFICES ASSUME NEW bi \in Range(Bofs(q))
               PROVE  SumMatches(q, bi) \/ (q[bi + 1] = BOF /\ bi \notin Range(Bofs(p)))
  BY DEF SumsRightOf
<1>2. CASE bi \in Range(Bofs(p))
  <2>1. PICK e : /\ e = End(p, bi) /\ bi \in Nat /\ e \in Nat /\ e <= Len(p) /\ Len(p) \in Nat
    BY <1>2, FileSet
  <2>2. ASSUME NEW i \in 2 .. e - bi PROVE q[bi + i] = p[bi + i]
    <3>1. PICK x \in Nat : x = bi + i /\ x \in 2 .. Len(p) /\ x - 1 \in Nat /\ bi < x - 1 /\ x - 1 < e
      BY <2>1
    <3>2. x \in DOMAIN p /\ p[x] \in Cells
      BY <3>1
    <3>3. x - 1 \notin Range(Bofs(p))
      <4>1. SUFFICES ASSUME x - 1 \in Range(Bofs(p)) PROVE FALSE
        OBVIOUS
      <4>2. e <= x - 1
        BY <1>2, <2>1, <3>1, <4>1, FileSet
      <4>3. QED
        BY <2>1, <3>1, <4>2
    <3>4. ~(p[x] >= Ctl)
      BY <3>2, <3>3 DEF Hidden
    <3>5. p[x] < Base
      BY <3>2, <3>4, Sizes0 DEF Cells
    <3>6. Byte(p[x]) = p[x]
      BY <3>2, <3>5, CellsAreNumbers
    <3>7. QED
      BY <3>1, <3>6
  <2>3. SumMatches(p, bi)
    BY <1>2 DEF SumsMatch
  <2>4. SumMatches(q, bi) <=> SumMatches(p, bi)
    BY <1>2, <2>1, <2>2, BodySums
  <2>5. QED
    BY <2>3, <2>4
<1>3. CASE bi \notin Range(Bofs(p))
  <2>1. bi \in Nat /\ bi + 1 \in 1 .. Len(p) /\ Byte(q[bi + 1]) = BOF
    <3>1. /\ bi \in Nat /\ End(q, bi) \in Nat /\ End(q, bi) <= Len(q) /\ bi + 13 <= End(q, bi)
          /\ Byte(q[bi + 1]) = BOF /\ Len(q) \in Nat
      BY FileSet
    <3>2. QED
      BY <3>1
  <2>2. q[bi + 1] \in Cells /\ q[bi + 1] < Base
    BY <2>1
  <2>3. q[bi + 1] = BOF
    BY <2>1, <2>2, CellsAreNumbers
  <2>4. QED
    BY <1>3, <2>3
<1>4. QED
  BY <1>2, <1>3

(* Nor does reading an image back spoil a sum.                             *)
LEMMA ReadImageSums ==
  ASSUME TypeOK, SumsMatch(image), ~Hidden(image), NEW maxBytes, NEW stray \in {0, 1},
         ReadImage(maxBytes, stray)
  PROVE  SumsRightOf(image, image')
<1>1. image \in Seq(Cells) /\ Whole(image) /\ Len(image) \in Nat
  BY DEF TypeOK
<1>2. PICK r \in Seq(Cells) :
        r = Raw(image) /\ Len(r) = Len(image) /\ \A i \in 1 .. Len(image) : r[i] = Byte(image[i])
  BY <1>1, RawCells
<1>3. PICK strays : strays <=> stray # 0 /\ Bofs(image) # <<>> /\ Bofs(image)[1] > 0
  OBVIOUS
<1>4. PICK q : q = IF strays THEN Put(r, 0, <<stray>>) ELSE r
  OBVIOUS
<1>5. Whole(q) /\ image' = q
  BY <1>2, <1>3, <1>4 DEF ReadImage, Becomes
<1>6. \A i \in 1 .. Len(image) : r[i] < Base
  <2>1. ASSUME NEW i \in 1 .. Len(image) PROVE r[i] < Base
    <3>1. image[i] \in Cells /\ Base \in Nat
      BY <1>1, Sizes0
    <3>2. Byte(image[i]) \in 0 .. Base - 1
      BY <3>1, CellsAreNumbers
    <3>3. QED
      BY <1>2, <3>1, <3>2
  <2>2. QED
    BY <2>1
<1>7. /\ q \in Seq(Cells) /\ Len(q) = Len(image)
      /\ \A i \in 1 .. Len(image) : q[i] < Base
      /\ \A i \in 2 .. Len(image) : q[i] = Byte(image[i])
  <2>1. CASE strays
    <3>1. PICK c \in Seq(Cells) : c = <<stray>> /\ Len(c) = 1 /\ c[1] = stray
      <4>1. stray \in Cells
        BY Sizes0 DEF Cells
      <4>2. <<stray>> \in Seq(Cells) /\ Len(<<stray>>) = 1 /\ <<stray>>[1] = stray
        BY <4>1
      <4>3. QED
        BY <4>2
    <3>2. Len(image) >= 1
      <4>1. Bofs(image) \in Seq(Nat) /\ 1 \in 1 .. Len(Bofs(image))
        BY <1>1, <1>3, <2>1, WholeFiles
      <4>2. Bofs(image)[1] \in Range(Bofs(image))
        BY <4>1 DEF Range
      <4>3. PICK b : b = Bofs(image)[1]
        OBVIOUS
      <4>4. b \in Nat /\ End(image, b) \in Nat /\ b + 13 <= End(image, b) /\ End(image, b) <= Len(image)
        BY <1>1, <4>2, <4>3, FileSet
      <4>5. QED
        BY <1>1, <4>4
    <3>3. PICK z \in Nat : z = 0
      OBVIOUS
    <3>4. z <= Len(r) /\ z + Len(c) <= Len(r) /\ z + Len(c) + 1 = 2 /\ z + 1 = 1
      BY <1>2, <3>1, <3>2, <3>3
    <3>5. /\ Put(r, z, c) \in Seq(Cells)
          /\ Len(Put(r, z, c)) = (IF z + Len(c) <= Len(r) THEN Len(r) ELSE z + Len(c))
          /\ \A i \in 1 .. Len(c) : Put(r, z, c)[z + i] = c[i]
          /\ \A i \in z + Len(c) + 1 .. Len(r) : Put(r, z, c)[i] = r[i]
      BY <3>4, PutCells
    <3>6. q = Put(r, z, c)
      BY <1>4, <2>1, <3>1, <3>3
    <3>7. q[1] = stray /\ stray < Base
      <4>1. 1 \in 1 .. Len(c)
        BY <3>1
      <4>2. q[1] = c[1]
        BY <3>4, <3>5, <3>6, <4>1
      <4>3. QED
        BY <3>1, <4>2, Sizes0
    <3>8. \A i \in 2 .. Len(image) : q[i] = r[i]
      BY <1>2, <3>4, <3>5, <3>6
    <3>9. ASSUME NEW i \in 1 .. Len(image) PROVE q[i] < Base
      BY <1>6, <3>7, <3>8
    <3>10. QED
      BY <1>2, <3>4, <3>5, <3>6, <3>8, <3>9
  <2>2. CASE ~strays
    BY <1>2, <1>4, <1>6, <2>2
  <2>3. QED
    BY <2>1, <2>2
<1>8. QED
  BY <1>1, <1>5, <1>7, ReadBackSums

-----------------------------------------------------------------------------
(* Every command keeps the sums.                                           *)

RightSums == \A bi \in Range(Bofs(image')) : SumMatches(image', bi) \/ LeftOver(bi)

(* From an image with right sums and no hidden mark, every command but     *)
(* renumbering alone leads to one with right sums.                         *)
LEMMA StepSums ==
  ASSUME TypeOK, [Next]_vars, SumsMatch(image), ~Hidden(image)
  PROVE  \/ RightSums
         \/ \E o \in Cleanups : "seq" \in o /\ "sums" \notin o /\ Cleanup(o)
<1>1. image \in Seq(Cells) /\ Whole(image)
  BY DEF TypeOK
<1>2. ASSUME SumsRightOf(image, image') PROVE RightSums
  BY <1>2, Zenon DEF SumsRightOf, RightSums, LeftOver
<1>3. ASSUME SumsMatch(image') PROVE RightSums
  BY <1>3, Zenon DEF SumsMatch, RightSums
<1>4. ASSUME NEW fNum \in Numbers \cup {-1}, NEW n \in Counts \cup {-1}, NEW fSpace \in Spaces,
             Mark(n, fSpace, fNum)
      PROVE  RightSums
  <2>1. fNum \in Int /\ n \in Nat \cup {-1} /\ fSpace \in Nat
    BY NumbersAre, SizesAssumption
  <2>2. Whole(Marked(image, n, fSpace, fNum)) /\ image' = Marked(image, n, fSpace, fNum)
    BY <1>4 DEF Mark, Becomes
  <2>3. QED
    BY <1>1, <1>2, <2>1, <2>2, MarkedSums
<1>5. ASSUME NEW fNum \in Numbers \cup {-1}, NEW words \in Contents, Load(fNum, words)
      PROVE  RightSums
  <2>1. fNum \in Int /\ words \in Seq(Nat) /\ Len(words) < Base * Base
    BY NumbersAre, SizesAssumption
  <2>2. /\ Whole(LoadedFile(image, fNum, words)) /\ Whole(LoadFile(image, fNum, words))
        /\ image' = LoadFile(image, fNum, words)
    BY <1>5 DEF Load, Becomes
  <2>3. QED
    BY <1>1, <1>2, <2>1, <2>2, LoadFileSums
<1>6. ASSUME NEW o \in Cleanups, Cleanup(o), "sums" \in o \/ "seq" \notin o PROVE RightSums
  <2>1. image' = Cleaned(image, o)
    BY <1>6 DEF Cleanup, Becomes
  <2>2. QED
    BY <1>1, <1>3, <1>6, <2>1, CleanupSums
<1>7. ASSUME NEW n \in {0} \cup {End(image, bi) : bi \in Range(Bofs(image))}, Truncate(n)
      PROVE  RightSums
  <2>1. n < Len(image) /\ Whole(SubSeq(image, 1, n)) /\ image' = SubSeq(image, 1, n)
    BY <1>7 DEF Truncate, Becomes
  <2>2. QED
    BY <1>1, <1>3, <2>1, TruncatedSums
<1>8. ASSUME NEW maxBytes \in Sizes, NEW stray \in {0, 1}, ReadImage(maxBytes, stray)
      PROVE  RightSums
  BY <1>2, <1>8, ReadImageSums
<1>9. CASE UNCHANGED vars
  <2>1. image' = image
    BY <1>9 DEF vars
  <2>2. QED
    BY <1>2, <2>1, SumsStay
<1>10. QED
  BY <1>4, <1>5, <1>6, <1>7, <1>8, <1>9 DEF Next

(* Every command leaves right checksums in the file it writes and in those *)
(* around it, whatever lies between them (tpf.c lines 113 to 136), unless  *)
(* one file's mark hides in what is left of another: only renumbering alone*)
(* spoils them.                                                            *)
THEOREM SumsAlways == Spec => SumsRight
<1>1. TypeOK /\ [Next]_vars =>
        [\/ \A bi \in Range(Bofs(image')) : SumMatches(image', bi) \/ LeftOver(bi)
         \/ ~SumsMatch(image) \/ Hidden(image)
         \/ \E o \in Cleanups : "seq" \in o /\ "sums" \notin o /\ Cleanup(o)]_vars
  BY StepSums DEF RightSums
<1>2. QED
  BY <1>1, TypeCorrect, PTL DEF Spec, SumsRight

-----------------------------------------------------------------------------
(* What clean and truncate do to the list of files.                        *)

(* Words that a file holds are words of the image.                         *)
LEMMA HeldWords ==
  ASSUME NEW p, NEW f \in Seq(Nat), NEW bi \in Nat, Holds(p, bi, f), NEW x \in Nat,
         NEW n \in Nat, x + 2 * n <= Len(f)
  PROVE  Words(p, bi + x, n) = Words(f, x, n)
<1>1. ASSUME NEW k \in 1 .. n PROVE Word(p, (bi + x) + 2 * (k - 1)) = Word(f, x + 2 * (k - 1))
  <2>1. PICK y \in Nat : y = x + 2 * (k - 1) /\ (bi + x) + 2 * (k - 1) = bi + y
    OBVIOUS
  <2>2. y + 2 <= Len(f)
    BY <2>1
  <2>3. Word(p, bi + y) = Word(f, y)
    BY <2>2, HeldWord
  <2>4. QED
    BY <2>1, <2>3
<1>2. QED
  BY <1>1, Zenon DEF Words

(* What list shows of a file in the image is what is in the file.          *)
LEMMA HeldList ==
  ASSUME NEW p, NEW f, FileCells(f), NEW bi \in Nat, Holds(p, bi, f)
  PROVE  /\ Num(p, bi) = Num(f, 0) /\ Space(p, bi) = Space(f, 0)
         /\ Words(p, Content(bi), Length(p, bi)) = Words(f, Content(0), Length(f, 0))
<1>1. PICK x \in Nat, n \in Nat :
        /\ x = Content(0) /\ n = Length(f, 0) /\ x + 2 * n <= Len(f) /\ f \in Seq(Nat) /\ x <= Len(f)
  <2>1. /\ f \in Seq(Nat) /\ Len(f) \in Nat /\ Length(f, 0) \in Nat
        /\ ContentSum(f, 0) = Content(0) + 2 * Length(f, 0) /\ ContentSum(f, 0) + 2 <= Len(f)
        /\ Content(0) = HdrSum(0) + 2 /\ HdrSum(0) \in Nat
    BY FileFacts
  <2>2. QED
    BY <2>1
<1>2. /\ Num(p, bi) = Num(f, 0) /\ Length(p, bi) = n /\ Space(p, bi) = Space(f, 0)
      /\ Content(bi) = bi + x
  BY <1>1, HeldFields
<1>3. Words(p, bi + x, n) = Words(f, x, n)
  <2>1. f \in Seq(Nat) /\ x + 2 * n <= Len(f)
    BY <1>1
  <2>2. QED
    BY <2>1, Zenon, HeldWords
<1>4. QED
  BY <1>1, <1>2, <1>3

(* A file is listed after clean as it was, but for its number.             *)
LEMMA CleanedFile ==
  ASSUME NEW p \in Seq(Cells), Whole(p), NEW o, NEW q, NEW off, FiledAs(q, p, o, off),
         NEW k \in 1 .. Len(Bofs(p)), "seq" \in o => k - 1 < Base * Base
  PROVE  /\ Num(q, Bofs(q)[k]) = IF "seq" \in o THEN k - 1 ELSE Num(p, Bofs(p)[k])
         /\ Space(q, Bofs(q)[k]) = Space(p, Bofs(p)[k])
         /\ Words(q, Content(Bofs(q)[k]), Length(q, Bofs(q)[k]))
              = Words(p, Content(Bofs(p)[k]), Length(p, Bofs(p)[k]))
<1>1. PICK f : f = FileAt(p, k)
  OBVIOUS
<1>2. PICK g : g = Clean(p, k, o)
  OBVIOUS
<1>3. PICK bi : bi = Bofs(p)[k]
  OBVIOUS
<1>4. PICK bj : bj = Bofs(q)[k]
  OBVIOUS
<1>5. bi \in Nat /\ FileCells(f) /\ Holds(p, bi, f)
  BY <1>1, <1>3, FileAtFile, WholeFiles
<1>6. bj \in Nat /\ Holds(q, bj, g)
  BY <1>2, <1>4 DEF FiledAs, Layout
<1>7. Resembles(g, f) /\ Renumbers(g, f, k, o)
  BY <1>1, <1>2, CleanCells
<1>8. Words(g, Content(0), Length(g, 0)) = Words(f, Content(0), Length(f, 0))
  <2>1. PICK x \in Nat, n \in Nat :
          x = Content(0) /\ n = Length(f, 0) /\ n = Length(g, 0) /\ x + 2 * n = ContentSum(f, 0)
    <3>1. /\ Length(f, 0) \in Nat /\ Content(0) = HdrSum(0) + 2 /\ HdrSum(0) \in Nat
          /\ ContentSum(f, 0) = Content(0) + 2 * Length(f, 0)
      BY <1>5, FileFacts
    <3>2. QED
      BY <1>7, <3>1 DEF Resembles
  <2>2. \A i \in x + 1 .. x + 2 * n : g[i] = f[i]
    BY <1>7, <2>1 DEF Renumbers
  <2>3. ASSUME NEW i \in 1 .. n PROVE Word(g, x + 2 * (i - 1)) = Word(f, x + 2 * (i - 1))
    <3>1. PICK y \in Nat : y = x + 2 * (i - 1)
      OBVIOUS
    <3>2. y + 1 \in x + 1 .. x + 2 * n /\ y + 2 \in x + 1 .. x + 2 * n
      BY <3>1
    <3>3. g[y + 1] = f[y + 1] /\ g[y + 2] = f[y + 2]
      BY <2>2, <3>2
    <3>4. QED
      BY <3>1, <3>3, Zenon DEF Word
  <2>4. Words(g, x, n) = Words(f, x, n)
    BY <2>3, Zenon DEF Words
  <2>5. QED
    BY <2>1, <2>4
<1>9. /\ Num(g, 0) = (IF "seq" \in o THEN k - 1 ELSE Num(f, 0)) /\ Space(g, 0) = Space(f, 0)
      /\ FileCells(g)
  BY <1>7 DEF Renumbers, Resembles
<1>10. /\ Num(p, bi) = Num(f, 0) /\ Space(p, bi) = Space(f, 0)
       /\ Words(p, Content(bi), Length(p, bi)) = Words(f, Content(0), Length(f, 0))
  BY <1>5, HeldList
<1>11. /\ Num(q, bj) = Num(g, 0) /\ Space(q, bj) = Space(g, 0)
       /\ Words(q, Content(bj), Length(q, bj)) = Words(g, Content(0), Length(g, 0))
  BY <1>6, <1>9, HeldList
<1>12. QED
  BY <1>3, <1>4, <1>8, <1>9, <1>10, <1>11

(* Clean changes nothing of the list but the numbers, which it makes 0, 1, *)
(* 2 and so on (tpf.c lines 477 to 508).                                   *)
LEMMA CleanedListed ==
  ASSUME NEW p \in Seq(Cells), Whole(p), NEW o, "seq" \in o => Len(Listed(p)) <= Base * Base
  PROVE  Listed(Cleaned(p, o)) =
           IF "seq" \in o
             THEN [k \in DOMAIN Listed(p) |-> [Listed(p)[k] EXCEPT !.num = k - 1]]
             ELSE Listed(p)
<1>1. PICK off : Layout(Cleaned(p, o), p, o, off)
  BY CleanedLayout
<1>2. PICK q : q = Cleaned(p, o) /\ FiledAs(q, p, o, off)
  BY <1>1, CleanedFiles
<1>3. PICK n \in Nat : /\ n = Len(Bofs(p)) /\ DOMAIN Bofs(p) = 1 .. n /\ DOMAIN Bofs(q) = 1 .. n
  <2>1. Bofs(p) \in Seq(Nat) /\ Len(Bofs(p)) \in Nat
    BY WholeFiles
  <2>2. Bofs(q) \in Seq(Nat) /\ Len(Bofs(q)) = Len(Bofs(p))
    BY <1>2 DEF FiledAs, Filing
  <2>3. QED
    BY <2>1, <2>2
<1> DEFINE Entry(r, bi) == [num   |-> Num(r, bi), space |-> Space(r, bi),
                            words |-> Words(r, Content(bi), Length(r, bi))]
<1>4. Listed(p) = [k \in 1 .. n |-> Entry(p, Bofs(p)[k])]
  BY <1>3, Zenon DEF Listed
<1>5. Listed(q) = [k \in 1 .. n |-> Entry(q, Bofs(q)[k])]
  BY <1>3, Zenon DEF Listed
<1>6. "seq" \in o => n <= Base * Base
  <2>1. Len(Listed(p)) = n
    BY <1>4
  <2>2. QED
    BY <2>1
<1>7. ASSUME NEW k \in 1 .. n
      PROVE  Entry(q, Bofs(q)[k]) = IF "seq" \in o THEN [Entry(p, Bofs(p)[k]) EXCEPT !.num = k - 1]
                                    ELSE Entry(p, Bofs(p)[k])
  <2>1. k \in 1 .. Len(Bofs(p)) /\ ("seq" \in o => k - 1 < Base * Base)
    BY <1>3, <1>6, Sizes0
  <2>2. /\ Num(q, Bofs(q)[k]) = IF "seq" \in o THEN k - 1 ELSE Num(p, Bofs(p)[k])
        /\ Space(q, Bofs(q)[k]) = Space(p, Bofs(p)[k])
        /\ Words(q, Content(Bofs(q)[k]), Length(q, Bofs(q)[k]))
             = Words(p, Content(Bofs(p)[k]), Length(p, Bofs(p)[k]))
    BY <1>2, <2>1, CleanedFile
  <2>3. QED
    BY <2>2
<1> HIDE DEF Entry
<1>8. CASE "seq" \in o
  <2>1. Listed(q) = [k \in 1 .. n |-> [Entry(p, Bofs(p)[k]) EXCEPT !.num = k - 1]]
    BY <1>5, <1>7, <1>8
  <2>2. DOMAIN Listed(p) = 1 .. n /\ \A k \in 1 .. n : Listed(p)[k] = Entry(p, Bofs(p)[k])
    BY <1>4
  <2>3. Listed(q) = [k \in DOMAIN Listed(p) |-> [Listed(p)[k] EXCEPT !.num = k - 1]]
    BY <2>1, <2>2
  <2>4. QED
    BY <1>2, <1>8, <2>3
<1>9. CASE "seq" \notin o
  <2>1. Listed(q) = Listed(p)
    BY <1>4, <1>5, <1>7, <1>9
  <2>2. QED
    BY <1>2, <1>9, <2>1
<1>10. QED
  BY <1>8, <1>9

(* The files before a place where one of them ends are those of the image  *)
(* cut there.                                                              *)
LEMMA TruncatedFiles ==
  ASSUME NEW p \in Seq(Cells), Whole(p), NEW m \in 1 .. Len(Bofs(p)),
         NEW q \in Seq(Cells), Len(q) = End(p, Bofs(p)[m]),
         \A i \in 1 .. Len(q) : q[i] = p[i]
  PROVE  Bofs(q) = SubSeq(Bofs(p), 1, m)
<1>0. PICK n : n = End(p, Bofs(p)[m]) /\ n = Len(q) /\ \A i \in 1 .. n : q[i] = p[i]
  OBVIOUS
<1>1. PICK b : b = Bofs(p)
  OBVIOUS
<1>2. /\ b \in Seq(Nat) /\ Len(b) \in Nat /\ Len(p) \in Nat /\ m \in Nat /\ m <= Len(b)
      /\ \A k \in 1 .. Len(b) : After(p, b, k) = End(p, b[k]) /\ b[k] \in Nat
      /\ \A k \in 0 .. Len(b) : After(p, b, k) \in 0 .. Len(p)
  BY <1>1, WholeFiles
<1>3. n \in Nat /\ n <= Len(p) /\ n = After(p, b, m)
  <2>1. m \in 0 .. Len(b) /\ After(p, b, m) = n
    BY <1>0, <1>1, <1>2
  <2>2. QED
    BY <1>2, <2>1
<1>4. PICK c : c = SubSeq(b, 1, m)
  OBVIOUS
<1>5. c \in Seq(Nat) /\ Len(c) = m /\ \A k \in 1 .. m : c[k] = b[k]
  BY <1>2, <1>4
<1>6. ASSUME NEW k \in 1 .. Len(b)
      PROVE  /\ b[k] \in Range(b) /\ After(p, b, k - 1) <= b[k] /\ b[k] < Len(p)
             /\ Byte(p[b[k] + 1]) = BOF /\ \A i \in After(p, b, k - 1) + 1 .. b[k] : Byte(p[i]) # BOF
  BY <1>1, <1>2, WholeFiles, FilesApart, SMTT(20) DEF Range
<1>7. ASSUME NEW k \in 1 .. m PROVE After(p, b, k) <= n
  <2>1. PICK l \in Nat : l = Len(b)
    BY <1>2
  <2>2. PICK off : off = [i \in 0 .. l |-> After(p, b, i)]
    OBVIOUS
  <2>3. off \in [0 .. l -> Nat]
    BY <1>2, <2>1, <2>2
  <2>4. ASSUME NEW i \in 1 .. l PROVE off[i - 1] <= off[i]
    <3>1. i \in 1 .. Len(b) /\ i - 1 \in 0 .. l /\ i \in 0 .. l
      BY <2>1
    <3>2. After(p, b, i - 1) <= b[i] /\ b[i] \in Nat /\ b[i] + 13 <= After(p, b, i)
      <4>1. PICK x \in Nat : x = b[i] /\ After(p, b, i) = End(p, x) /\ x \in Range(Bofs(p))
        BY <1>1, <1>2, <1>6, <3>1
      <4>2. x + 13 <= End(p, x)
        BY <4>1, FileSet
      <4>3. QED
        BY <1>6, <3>1, <4>1, <4>2
    <3>3. After(p, b, i - 1) \in Nat /\ After(p, b, i) \in Nat
      BY <1>2, <2>1, <3>1
    <3>4. QED
      BY <2>2, <3>1, <3>2, <3>3
  <2>5. k \in 0 .. l /\ m \in k .. l
    BY <1>2, <2>1
  <2>6. off[k] <= off[m]
    BY <2>3, <2>4, <2>5, Rising
  <2>7. QED
    BY <1>2, <1>3, <2>1, <2>2, <2>5, <2>6
<1>8. ASSUME NEW k \in 1 .. m PROVE After(q, c, k) = After(p, b, k)
  <2>1. k \in 1 .. Len(b) /\ k # 0
    BY <1>2
  <2>2. PICK x \in Nat : x = b[k] /\ x = c[k]
    BY <1>2, <1>5, <2>1
  <2>3. PICK e \in Nat : /\ e = After(p, b, k) /\ e = End(p, x) /\ e <= n /\ x + 13 <= e
                         /\ Content(x) <= e
    <3>1. x \in Range(Bofs(p)) /\ After(p, b, k) = End(p, x)
      BY <1>1, <1>2, <1>6, <2>1, <2>2
    <3>2. /\ End(p, x) \in Nat /\ x + 13 <= End(p, x) /\ Space(p, x) \in Nat
          /\ End(p, x) = x + 2 * HdrWords + 5 + 2 * Space(p, x)
      BY <3>1, FileSet
    <3>3. Content(x) <= End(p, x)
      BY <3>2, Sizes0 DEF Content, HdrSum
    <3>4. QED
      BY <1>7, <3>1, <3>2, <3>3
  <2>4. Same(q, p, x, e)
    BY <1>0, <1>3, <2>3 DEF Same
  <2>5. End(q, x) = e
    BY <2>3, <2>4, SameEnd
  <2>6. ~(Content(x) > Len(q))
    BY <1>0, <1>3, <2>3, Sizes0 DEF Content, HdrSum
  <2>7. After(q, c, k) = e
    BY <2>1, <2>2, <2>5, <2>6 DEF After, Behind
  <2>8. QED
    BY <2>3, <2>7
<1>9. ASSUME NEW k \in 1 .. m PROVE After(q, c, k - 1) = After(p, b, k - 1)
  <2>1. CASE k = 1
    BY <2>1 DEF After
  <2>2. CASE k # 1
    <3>1. k - 1 \in 1 .. m
      BY <1>2, <2>2
    <3>2. QED
      BY <1>8, <3>1
  <2>3. QED
    BY <2>1, <2>2
<1>10. ASSUME NEW k \in 1 .. m
       PROVE  /\ After(q, c, k - 1) <= c[k] /\ c[k] < Len(q) /\ Byte(q[c[k] + 1]) = BOF
              /\ \A i \in After(q, c, k - 1) + 1 .. c[k] : Byte(q[i]) # BOF
  <2>1. k \in 1 .. Len(b) /\ k - 1 \in 0 .. Len(b)
    BY <1>2
  <2>2. PICK x \in Nat : x = b[k] /\ x = c[k]
    BY <1>2, <1>5, <2>1
  <2>3. PICK y \in Nat : y = After(p, b, k - 1) /\ y = After(q, c, k - 1)
    <3>1. After(p, b, k - 1) \in 0 .. Len(p)
      BY <1>2, <2>1
    <3>2. QED
      BY <1>2, <1>9, <3>1
  <2>4. x + 13 <= n
    <3>1. x \in Range(Bofs(p)) /\ After(p, b, k) = End(p, x)
      BY <1>1, <1>2, <1>6, <2>1, <2>2
    <3>2. End(p, x) \in Nat /\ x + 13 <= End(p, x) /\ End(p, x) <= n
      BY <1>7, <3>1, FileSet
    <3>3. QED
      BY <1>3, <3>2
  <2>5. /\ y <= x /\ Byte(p[x + 1]) = BOF /\ \A i \in y + 1 .. x : Byte(p[i]) # BOF
    BY <1>6, <2>1, <2>2, <2>3
  <2>6. x + 1 \in 1 .. n /\ \A i \in y + 1 .. x : i \in 1 .. n
    BY <1>3, <2>4
  <2>7. Byte(q[x + 1]) = BOF /\ \A i \in y + 1 .. x : Byte(q[i]) # BOF
    BY <1>0, <2>5, <2>6
  <2>8. x < Len(q)
    BY <1>0, <1>3, <2>4
  <2>9. QED
    BY <2>2, <2>3, <2>5, <2>7, <2>8
<1>11. After(q, c, m) = n
  <2>1. m \in 1 .. m
    BY <1>2
  <2>2. QED
    BY <1>3, <1>8, <2>1
<1>12. Filing(q, c)
  BY <1>0, <1>3, <1>5, <1>10, <1>11 DEF Filing
<1>13. QED
  BY <1>1, <1>4, <1>12, SeqCells, BofsFiling, FilingUnique

(* Truncate cuts the list (tpf.c line 442, main.c lines 180 to 188).       *)
LEMMA TruncatedListed ==
  ASSUME NEW p \in Seq(Cells), Whole(p),
         NEW n \in {0} \cup {End(p, bi) : bi \in Range(Bofs(p))}, n < Len(p),
         NEW q, q = SubSeq(p, 1, n)
  PROVE  IsPrefix(Listed(q), Listed(p))
<1>1. n \in Nat
  BY FileSet
<1>2. PICK z \in Nat : z = 0
  OBVIOUS
<1>3. q \in Seq(Cells) /\ Len(q) = n /\ \A i \in 1 .. n : q[i] = p[i]
  <2>1. z <= n /\ n <= Len(p) /\ z + 1 = 1 /\ n - z = n
    BY <1>1, <1>2
  <2>2. /\ SubSeq(p, z + 1, n) \in Seq(Cells) /\ Len(SubSeq(p, z + 1, n)) = n - z
        /\ \A i \in 1 .. n - z : SubSeq(p, z + 1, n)[i] = p[z + i]
    BY <1>1, <2>1, Part
  <2>3. QED
    BY <1>2, <2>1, <2>2
<1>4. PICK b : b = Bofs(p) /\ b \in Seq(Nat) /\ Len(b) \in Nat
  BY WholeFiles
<1>5. PICK m \in 0 .. Len(b) : Bofs(q) = SubSeq(b, 1, m) /\ (m # 0 => n = End(p, b[m]))
  <2>1. CASE n = 0
    <3>1. \A i \in 1 .. Len(q) : Byte(q[i]) # BOF
      BY <1>3, <2>1
    <3>2. Bofs(q) = <<>>
      BY <1>3, <3>1, NoFiles
    <3>3. SubSeq(b, 1, z) = <<>>
      BY <1>2, <1>4
    <3>4. z \in 0 .. Len(b) /\ Bofs(q) = SubSeq(b, 1, z)
      <4>1. z \in 0 .. Len(b)
        BY <1>2, <1>4
      <4>2. QED
        BY <3>2, <3>3, <4>1
    <3>5. QED
      BY <1>2, <3>4
  <2>2. ASSUME NEW bi \in Range(b), n = End(p, bi) 
        PROVE  \E m \in 0 .. Len(b) : Bofs(q) = SubSeq(b, 1, m) /\ (m # 0 => n = End(p, b[m]))
    <3>1. PICK m \in 1 .. Len(b) : bi = b[m]
      BY <1>4, <2>2 DEF Range
    <3>2. Bofs(q) = SubSeq(b, 1, m)
      <4>1. m \in 1 .. Len(Bofs(p)) /\ n = End(p, Bofs(p)[m])
        BY <1>4, <2>2, <3>1
      <4>2. Bofs(q) = SubSeq(Bofs(p), 1, m)
        BY <1>3, <4>1, TruncatedFiles
      <4>3. QED
        BY <1>4, <4>2
    <3>3. m \in 0 .. Len(b)
      BY <1>4
    <3>4. QED
      BY <2>2, <3>1, <3>2, <3>3
  <2>3. QED
    BY <1>4, <2>1, <2>2
<1>6. m \in Nat /\ m <= Len(b) /\ Len(Bofs(q)) = m /\ \A k \in 1 .. m : Bofs(q)[k] = b[k]
  BY <1>4, <1>5
<1> DEFINE Entry(r, bi) == [num   |-> Num(r, bi), space |-> Space(r, bi),
                            words |-> Words(r, Content(bi), Length(r, bi))]
<1>7. Listed(p) = [k \in 1 .. Len(b) |-> Entry(p, b[k])]
  <2>1. DOMAIN Bofs(p) = 1 .. Len(b)
    BY <1>4
  <2>2. QED
    BY <1>4, <2>1, Zenon DEF Listed
<1>8. Listed(q) = [k \in 1 .. m |-> Entry(q, Bofs(q)[k])]
  <2>1. DOMAIN Bofs(q) = 1 .. m
    BY <1>4, <1>5, <1>6
  <2>2. QED
    BY <2>1, Zenon DEF Listed
<1>9. ASSUME NEW k \in 1 .. m PROVE Entry(q, Bofs(q)[k]) = Entry(p, b[k])
  <2>1. PICK x : x = b[k]
    OBVIOUS
  <2>2. /\ x \in Nat /\ x \in Range(Bofs(q)) /\ Bofs(q)[k] = x /\ k \in 1 .. Len(b)
    <3>1. k \in 1 .. Len(b) /\ Bofs(q)[k] = x /\ x \in Nat
      BY <1>4, <1>6, <2>1
    <3>2. k \in DOMAIN Bofs(q)
      BY <1>4, <1>5, <1>6
    <3>3. QED
      BY <3>1, <3>2 DEF Range
  <2>3. PICK f : f = FileAt(p, k)
    OBVIOUS
  <2>4. FileCells(f) /\ Holds(p, x, f) /\ Len(f) = After(p, b, k) - x /\ After(p, b, k) = End(p, x)
    BY <1>4, <2>1, <2>2, <2>3, FileAtFile, WholeFiles
  <2>5. End(p, x) <= n /\ End(p, x) \in Nat
    <3>1. x \in Range(Bofs(p)) /\ b[m] \in Range(Bofs(p)) /\ m # 0 /\ n = End(p, b[m])
      <4>1. m \in 1 .. Len(b) /\ k \in 1 .. Len(b) /\ m # 0
        BY <1>6
      <4>2. QED
        BY <1>4, <1>5, <2>1, <4>1 DEF Range
    <3>2. Free(p, n)
      BY <1>1, <3>1, FreeAt
    <3>3. x < n
      <4>1. CASE x = b[m]
        <5>1. x + 13 <= n
          BY <3>1, <4>1, FileSet
        <5>2. QED
          BY <1>1, <2>2, <5>1
      <4>2. CASE ~(x < n)
        <5>1. x + 1 <= Len(q)
          <6>1. Filing(q, Bofs(q)) 
            BY <1>3, SeqCells, BofsFiling
          <6>2. x < Len(q)
            BY <1>6, <2>2, <6>1 DEF Filing
          <6>3. QED
            BY <1>1, <1>3, <2>2, <6>2
        <5>2. QED
          BY <1>1, <1>3, <2>2, <4>2, <5>1
      <4>3. QED
        BY <4>2
    <3>4. QED
      BY <3>1, <3>2, <3>3, FileSet DEF Free
  <2>6. Holds(q, x, f)
    <3>1. ASSUME NEW i \in 1 .. Len(f) PROVE q[x + i] = f[i]
      <4>1. x + i \in 1 .. n
        BY <1>1, <2>2, <2>4, <2>5
      <4>2. QED
        BY <1>3, <2>4, <4>1 DEF Holds
    <3>2. QED
      BY <3>1 DEF Holds
  <2>7. /\ Num(q, x) = Num(p, x) /\ Space(q, x) = Space(p, x)
        /\ Words(q, Content(x), Length(q, x)) = Words(p, Content(x), Length(p, x))
    BY <2>2, <2>4, <2>6, HeldList
  <2>8. QED
    BY <2>1, <2>2, <2>7
<1> HIDE DEF Entry
<1>10. PICK s : s = Listed(p)
  OBVIOUS
<1>11. PICK t : t = Listed(q)
  OBVIOUS
<1>12. /\ t = [k \in 1 .. m |-> Entry(p, b[k])] /\ s = [k \in 1 .. Len(b) |-> Entry(p, b[k])]
  BY <1>7, <1>8, <1>9, <1>10, <1>11
<1>13. PICK l \in Nat : l = Len(b) /\ m <= l
  BY <1>4, <1>6
<1>14. Len(t) = m /\ Len(s) = l
  BY <1>6, <1>12, <1>13
<1>15. SubSeq(t, 1, m) = SubSeq(s, 1, m)
  <2>1. SubSeq(t, 1, m) = [k \in 1 .. m |-> t[k]]
    BY <1>6, <1>12
  <2>2. SubSeq(s, 1, m) = [k \in 1 .. m |-> s[k]]
    BY <1>6, <1>12, <1>13
  <2>3. \A k \in 1 .. m : t[k] = s[k]
    BY <1>6, <1>12, <1>13
  <2>4. QED
    BY <2>1, <2>2, <2>3
<1>16. QED
  BY <1>6, <1>10, <1>11, <1>13, <1>14, <1>15 DEF IsPrefix

(* What list shows is always that of the image.                            *)
Shown == files = Listed(image)

(* Nothing is shown of a new image, which is empty.                        *)
LEMMA InitShown == Init => Shown
<1>1. SUFFICES ASSUME Init PROVE files = Listed(image)
  BY DEF Shown
<1>2. PICK p \in Seq(Cells) : p = <<>> /\ image = p /\ Len(p) = 0
  <2>1. <<>> \in Seq(Cells) /\ Len(<<>>) = 0
    OBVIOUS
  <2>2. QED
    BY <1>1, <2>1 DEF Init
<1>3. Bofs(p) = <<>>
  <2>1. \A i \in 1 .. Len(p) : Byte(p[i]) # BOF
    BY <1>2
  <2>2. QED
    BY <2>1, NoFiles
<1>4. Listed(p) = <<>>
  BY <1>3 DEF Listed
<1>5. QED
  BY <1>1, <1>2, <1>4 DEF Init

(* Every command shows the list of the image it leaves.                    *)
LEMMA StepShown == Shown /\ [Next]_vars => Shown'
<1>1. SUFFICES ASSUME [Next]_vars, files = Listed(image) PROVE files' = Listed(image')
  BY DEF Shown
<1>2. ASSUME NEW p, Becomes(p) PROVE files' = Listed(image')
  BY <1>2, Zenon DEF Becomes
<1>3. CASE UNCHANGED vars
  <2>1. image' = image /\ files' = files
    BY <1>3 DEF vars
  <2>2. QED
    BY <1>1, <2>1, Zenon
<1>4. CASE Next
  BY <1>2, <1>4, Zenon DEF Next, Mark, Load, Cleanup, Truncate, ReadImage
<1>5. QED
  BY <1>1, <1>3, <1>4

(* clean changes nothing list shows, or the numbers alone, counted from 0; *)
(* a word wraps where the list would be longer than that.  What truncate   *)
(* leaves is the start of the list.                                        *)
ListKept ==
  /\ \A o \in Cleanups : Cleanup(o) =>
       /\ "seq" \notin o => files' = files
       /\ "seq" \in o /\ Len(files) <= Base * Base => Catalog!Renumber(files, files')
  /\ \A n \in {0} \cup {End(image, bi) : bi \in Range(Bofs(image))} :
       Truncate(n) => Catalog!Truncate(files, files')

(* From any image that is whole and shown, clean and truncate do so.  *)
LEMMA StepKeepsList == ASSUME TypeOK, files = Listed(image) PROVE ListKept
<1>1. image \in Seq(Cells) /\ Whole(image)
  BY DEF TypeOK
<1>2. ASSUME NEW o, Cleanup(o)
      PROVE  /\ "seq" \notin o => files' = files
             /\ "seq" \in o /\ Len(files) <= Base * Base => Catalog!Renumber(files, files')
  <2>1. files' = Listed(Cleaned(image, o))
    BY <1>2, Zenon DEF Cleanup, Becomes
  <2>2. CASE "seq" \notin o
    <3>1. Listed(Cleaned(image, o)) = Listed(image)
      BY <1>1, <2>2, CleanedListed
    <3>2. QED
      BY <2>1, <2>2, <3>1
  <2>3. CASE "seq" \in o /\ Len(files) <= Base * Base
    <3>1. files' = [k \in DOMAIN files |-> [files[k] EXCEPT !.num = k - 1]]
      BY <1>1, <2>1, <2>3, CleanedListed
    <3>2. QED
      BY <2>3, <3>1 DEF Catalog!Renumber
  <2>4. QED
    BY <2>2, <2>3
<1>3. ASSUME NEW n \in {0} \cup {End(image, bi) : bi \in Range(Bofs(image))}, Truncate(n)
      PROVE  Catalog!Truncate(files, files')
  <2>1. n < Len(image) /\ files' = Listed(SubSeq(image, 1, n))
    BY <1>3, Zenon DEF Truncate, Becomes
  <2>2. IsPrefix(Listed(SubSeq(image, 1, n)), Listed(image))
    BY <1>1, <2>1, TruncatedListed
  <2>3. QED
    BY <1>3, <2>1, <2>2, Zenon DEF Catalog!Truncate, Catalog!IsPrefix, IsPrefix
<1>4. QED
  BY <1>2, <1>3 DEF ListKept

(* Two commands do to the list what the catalog promises, for every image: *)
(* clean, whatever it repairs, changes no more of it than the numbers, and *)
(* truncate leaves what is before the cut (tpf.c lines 442 to 509).        *)
THEOREM ListKeptAlways == Spec => [][ListKept]_vars
<1>1. TypeOK /\ Shown => ListKept
  BY StepKeepsList DEF Shown
<1>2. Spec => []Shown
  BY InitShown, StepShown, PTL DEF Spec
<1>3. QED
  BY <1>1, <1>2, TypeCorrect, PTL DEF Spec

==================================================================================
