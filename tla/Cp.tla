----------------------------------- MODULE Cp -----------------------------------
(***************************************************************************)
(* The command line of tp9830: the keyword matching and argument routines  *)
(* of software/util/cp.c and util.c, and how main.c reads each command's   *)
(* arguments with them.                                                    *)
(*                                                                         *)
(* A line is a sequence of words.  What comes of it is the command, its    *)
(* numbers (a keyword counts as 1 or 0) and its file name.  A keyword      *)
(* routine takes a word only if it is the next one, so options come in the *)
(* order in which the code asks for them.                                  *)
(***************************************************************************)
EXTENDS Integers, SequencesExt

CONSTANTS Numeral   \* words that are numbers, with their values

(* "q*uit" of the source is Kw("q", "quit").                               *)
Kw(min, all) == [min |-> min, all |-> all]
Full(word)   == Kw(word, word)

Begins(a, b) == Len(a) <= Len(b) /\ SubSeq(b, 1, Len(a)) = a

KwMatch(kw, word)    == Begins(kw.min, word) /\ Begins(word, kw.all)

-----------------------------------------------------------------------------
(* The tables; the user's commands go before the built-in ones.            *)

Entry(kw, code) == [kw |-> kw, code |-> code]

cmdTbl ==
  <<Entry(Kw("o", "open"), "open"), Entry(Kw("sa", "save"), "save"),
    Entry(Kw("b", "buf"), "buf"), Entry(Kw("l", "list"), "list"),
    Entry(Full("mark"), "mark"), Entry(Full("load"), "load"),
    Entry(Full("store"), "store"), Entry(Kw("clean", "cleanup"), "cleanup"),
    Entry(Kw("tr", "truncate"), "truncate"), Entry(Kw("z", "zeroes"), "zeroes"),
    Entry(Kw("bs", "bset"), "bset"), Entry(Kw("rim", "rimage"), "rimage"),
    Entry(Full("wimage"), "wimage"), Entry(Kw("sta", "status"), "status"),
    Entry(Kw("rew", "rewind"), "rewind"), Entry(Kw("sto", "stop"), "stop"),
    Entry(Kw("dr", "drive"), "drive")>>

Cp__predefTbl ==
  <<Entry(Kw("q", "quit"), "quit"), Entry(Kw("h", "help"), "help"),
    Entry(Full("?"), "?"), Entry(Kw("n", "number"), "number"), Entry(Full("."), "number")>>

Lookup(word) ==
  LET table == cmdTbl \o Cp__predefTbl
      found == SelectInSeq(table, LAMBDA entry : KwMatch(entry.kw, word))
  IN IF found = 0 THEN "unknown" ELSE table[found].code

-----------------------------------------------------------------------------
(* The argument routines, on what is left of the line.                     *)

Args(words) == [left |-> words, nums |-> <<>>, file |-> "", bad |-> FALSE]

Num(n, p) == [p EXCEPT !.nums = Append(@, n)]
Shift(p)  == [p EXCEPT !.left = Tail(@)]
Refuse(wrong, p) == [p EXCEPT !.bad = @ \/ wrong]

Cp_Num(deflt, p) ==
  IF p.left # <<>> /\ Head(p.left) \in DOMAIN Numeral
    THEN Num(Numeral[Head(p.left)], Shift(p)) ELSE Num(deflt, p)

Cp_Kw(kw, p) ==
  IF p.left # <<>> /\ KwMatch(kw, Head(p.left)) THEN Num(1, Shift(p)) ELSE Num(0, p)

Cp_Str(p) ==
  IF p.left # <<>> THEN [Shift(p) EXCEPT !.file = Head(p.left)] ELSE p

Cp_File(p) == Refuse(p.left = <<>>, Cp_Str(p))

Cp_Check(p) == p.left = <<>> /\ ~p.bad

(* A number that has to be given is asked for with the default -1.         *)
Needed(p) == LET q == Cp_Num(-1, p) IN Refuse(q.nums[Len(q.nums)] < 0, q)

(* The first of some keywords that matches, by its place.                  *)
Choice(kws, p) ==
  LET found == IF p.left = <<>> THEN 0
               ELSE SelectInSeq(kws, LAMBDA kw : KwMatch(kw, Head(p.left)))
  IN IF found = 0 THEN Refuse(TRUE, Num(0, p)) ELSE Num(found, Shift(p))

Options  == <<Kw("z", "zeros"), Kw("bof", "bofs"), Kw("seq", "sequence"),
              Kw("ch", "checksums"), Kw("pad", "padding"), Kw("tr", "truncate")>>
Motions  == <<Full("rfn"), Full("rfh"), Full("rrn"), Full("rrh"), Full("wfn"),
              Full("stop"), Kw("cont", "continue")>>

(* What Interactive and Cp__predefCmds ask for; len is the image's length. *)
Parse(code, p, len) ==
  CASE code = "open"     -> Cp_Kw(Full("dbb"), Cp_File(p))
    [] code = "save"     -> Cp_File(p)
    [] code = "buf"      -> Cp_Num(len, Cp_Num(0, p))
    [] code = "list"     -> Cp_Num(-1, p)
    [] code = "mark"     -> Cp_Num(-1, Cp_Num(1000, Cp_Num(-1, p)))
    [] code = "load"     -> Cp_Num(-1, Cp_File(p))
    [] code = "store"    -> Cp_File(Needed(p))
    [] code = "cleanup"  -> FoldLeft(LAMBDA q, kw : Cp_Kw(kw, q), p, Options)
    [] code = "truncate" -> Cp_Num(0, p)
    [] code = "zeroes"   -> Needed(Needed(p))
    [] code = "bset"     -> Cp_Num(-1, Needed(Needed(p)))
    [] code = "rimage"   -> Cp_Num(90000, Cp_Kw(Full("full"), Cp_Kw(Full("fast"), p)))
    [] code = "drive"    -> Cp_Kw(Full("control"), Choice(Motions, p))
    [] code = "help"     -> Cp_Str(p)
    [] code = "number"   -> Cp_Num(0, p)
    [] OTHER             -> p

(* Cp_Cmd, with what follows; quit and ? do not look at the rest.          *)
Does(cmd, nums, file) == [cmd |-> cmd, nums |-> nums, file |-> file]
Refused == Does("refused", <<>>, "")

Cp_Cmd(line, len) ==
  LET code == Lookup(Head(line))
      p    == Parse(code, Args(Tail(line)), len)
  IN IF code = "unknown" THEN Refused
     ELSE IF code \in {"quit", "?"} THEN Does(code, <<>>, "")
     ELSE IF ~Cp_Check(p) THEN Refused
     ELSE Does(code, p.nums, p.file)

-----------------------------------------------------------------------------
(* A reference to compare with: the forms of the help text, generated.     *)

Option(kw)    == [kind |-> "option", kws |-> <<kw>>, deflt |-> 0]
OneOf(kws)    == [kind |-> "one", kws |-> kws, deflt |-> 0]
Number(deflt) == [kind |-> "number", kws |-> <<>>, deflt |-> deflt]
Count         == [kind |-> "count", kws |-> <<>>, deflt |-> 0]
Name          == [kind |-> "name", kws |-> <<>>, deflt |-> 0]
Topic         == [kind |-> "topic", kws |-> <<>>, deflt |-> 0]

(* The forms as the help text has them.                                    *)
Told(code, len) ==
  CASE code = "open"     -> <<Name, Option(Full("dbb"))>>
    [] code = "save"     -> <<Name>>
    [] code = "buf"      -> <<Number(0), Number(len)>>
    [] code = "list"     -> <<Number(-1)>>
    [] code = "mark"     -> <<Number(-1), Number(1000), Number(-1)>>
    [] code = "load"     -> <<Name, Number(-1)>>
    [] code = "store"    -> <<Count, Name>>
    [] code = "cleanup"  -> <<Option(Kw("z", "zeroes"))>>
                              \o [k \in 1 .. 5 |-> Option(Options[k + 1])]
    [] code = "truncate" -> <<Number(0)>>
    [] code = "zeroes"   -> <<Count, Count>>
    [] code = "bset"     -> <<Count, Count, Number(-1)>>
    [] code = "rimage"   -> <<Option(Full("full")), Option(Full("fast")), Number(90000)>>
    [] code = "drive"    -> <<OneOf(Motions), Option(Full("control"))>>
    [] code = "help"     -> <<Topic>>
    [] code = "number"   -> <<Number(0)>>
    [] OTHER             -> <<>>

(* The forms the code takes where it refuses those of the help text: fast  *)
(* comes before full, and the keyword is zeros.                            *)
Taken(code, len) ==
  LET told == Told(code, len) IN
    CASE code = "rimage"  -> <<told[2], told[1], told[3]>>
      [] code = "cleanup" -> <<Option(Options[1])>> \o Tail(told)
      [] OTHER            -> told

Spell(kw, long) == IF long THEN kw.all ELSE kw.min

(* One more part of a form, in every way: with "numbers" no number follows *)
(* one that was left out.                                                  *)
With(u, word, n) ==
  [u EXCEPT !.line = Append(@, word), !.nums = Append(@, n)]
Without(u, n) == [u EXCEPT !.nums = Append(@, n)]
Extend(u, part, long, files) ==
  CASE part.kind = "option" ->
         {Without(u, 0), With(u, Spell(part.kws[1], long), 1)}
    [] part.kind = "one" ->
         {With(u, Spell(part.kws[k], long), k) : k \in DOMAIN part.kws}
    [] part.kind = "number" ->
         {[Without(u, part.deflt) EXCEPT !.numbers = FALSE]}
           \cup {With(u, w, Numeral[w]) : w \in {x \in DOMAIN Numeral : u.numbers}}
    [] part.kind = "count" ->
         {With(u, w, Numeral[w]) : w \in {x \in DOMAIN Numeral : Numeral[x] >= 0}}
    [] part.kind = "topic" ->
         {u} \cup {[u EXCEPT !.line = Append(@, f), !.file = f] : f \in files}
    [] OTHER ->
         {[u EXCEPT !.line = Append(@, f), !.file = f] : f \in files}

Uses(forms(_, _), len, files) ==
  UNION {
    LET begin == [line |-> <<Spell(entry.kw, long)>>, nums |-> <<>>, file |-> "",
                  numbers |-> TRUE]
        all   == FoldLeft(LAMBDA us, part : UNION {Extend(u, part, long, files) : u \in us},
                          {begin}, forms(entry.code, len))
    IN {[line |-> u.line, does |-> Does(entry.code, u.nums, u.file)] : u \in all}
    : entry \in Range(cmdTbl \o Cp__predefTbl), long \in BOOLEAN}

(* The lines of the help text the code refuses (helpdoc.txt lines 151 and  *)
(* 203, main.c lines 61 and 64, against lines 212, 263 and 264).           *)
ToldOnly(line) ==
  \/ Lookup(Head(line)) = "cleanup" /\ "zeroes" \in Range(line)
  \/ Lookup(Head(line)) = "rimage" /\ {"full", "fast"} \subseteq Range(line)

(* Every line of some forms does what it says; with a word too many or too *)
(* few, or a command word that is too short, it is refused.                *)
Shortened(line) == <<SubSeq(Head(line), 1, Len(Head(line)) - 1)>> \o Tail(line)

UnderstoodBy(uses, len) ==
  LET lines == {u.line : u \in uses}
      wrong == {Append(u.line, "x") : u \in {v \in uses : v.does.cmd \notin {"quit", "?", "help"}}}
                 \cup {Front(l) : l \in {m \in lines : Len(m) > 1}}
                 \cup {Shortened(u.line) :
                         u \in {v \in uses : \E k \in DOMAIN cmdTbl :
                                  cmdTbl[k].kw.min = Head(v.line) /\ Len(Head(v.line)) > 1}}
  IN /\ \A u \in uses : Cp_Cmd(u.line, len) = u.does
     /\ \A l \in wrong \ lines : Cp_Cmd(l, len) = Refused

(* The numbers of the told form of rimage come as full, fast; the code's   *)
(* as fast, full.                                                          *)
InCodeOrder(u) ==
  IF u.does.cmd = "rimage"
    THEN [u EXCEPT !.does.nums = <<@[2], @[1], @[3]>>] ELSE u

AsTold(len, files) == {InCodeOrder(u) : u \in Uses(Told, len, files)}

(* The help text is right but for those lines, and those are refused.      *)
ToldHolds(len, files) ==
  /\ UnderstoodBy({u \in AsTold(len, files) : ~ToldOnly(u.line)}, len)
  /\ \A u \in AsTold(len, files) : ToldOnly(u.line) => Cp_Cmd(u.line, len) = Refused

TakenHolds(len, files) == UnderstoodBy(Uses(Taken, len, files), len)

=============================================================================
