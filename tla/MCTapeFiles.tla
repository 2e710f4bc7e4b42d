------------------------------ MODULE MCTapeFiles -----------------------------
(***************************************************************************)
(* TLC instance of TapeFiles, scaled down: words of two base-4 bytes, four *)
(* words of header, EOT files of one word of space.  A file is marked with *)
(* two words of space or loaded with one or four, so content is shorter    *)
(* and longer than its space; the longer one has the byte of a BOF in both *)
(* halves of a word and makes the checksum overflow.                       *)
(***************************************************************************)
EXTENDS TapeFiles

MCSpaces   == {2}
MCCounts   == {1}
MCContents == {<<3>>, <<15, 3, 0, 2>>}
MCCleanups ==
  {{"zeroes", "bofs", "seq", "sums", "pad", "trunc"}, {"bofs"}, {"seq"}, {"pad", "trunc"}}
MCSizes    == {40}

(* Buffers that an image fits in just so, as one read from tape may.       *)
MCTightSizes == 30 .. 45

=============================================================================
