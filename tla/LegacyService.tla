----------------------------- MODULE LegacyService -----------------------------
(***************************************************************************)
(* What the first server promises the HP, without the link: an operation   *)
(* is performed on the devices once, before the next one begins, and it    *)
(* ends with the word the device gave for it.  Only a stop that the HP     *)
(* sends instead of waiting may come to nothing; the command it gives up   *)
(* is performed still.                                                     *)
(***************************************************************************)
EXTENDS LegacyDevices

CONSTANT Cassettes  \* image file (its cells, or None) and write permit

VARIABLES
  asked,      \* the HP's operation, or None
  answer,     \* the word for it, once it is performed, or None
  giving_up,  \* the operation is a stop instead of waiting
  late,       \* the command given up, until it is performed, or None
  taken,      \* the word of the last operation, as far as the HP looks at it
  drive, paper

vars == <<asked, answer, giving_up, late, taken, drive, paper>>

Init ==
  /\ asked = None /\ answer = None /\ taken = None
  /\ giving_up = FALSE /\ late = None
  /\ \E c \in Cassettes : drive \in Opened(c.file, c.permit)
  /\ paper \in Seq(Bytes) \cup {None}

Ask ==
  /\ asked = None
  /\ asked' \in Requests
  /\ taken' = None
  /\ UNCHANGED <<answer, giving_up, late, drive, paper>>

On(r) ==
  LET served == Serve(drive, paper, r) IN
    /\ drive' = served.drive /\ paper' = served.paper

Perform ==
  /\ asked # None /\ answer = None /\ ~giving_up
  /\ On(asked)
  /\ answer' = Serve(drive, paper, asked).word
  /\ UNCHANGED <<asked, giving_up, late, taken>>

GiveUp ==
  /\ asked # None /\ asked.dev = "tape" /\ ~giving_up
  /\ giving_up' = TRUE
  /\ asked' = [dev |-> "tape", code |-> 5, so3 |-> FALSE, byte |-> 0]
  /\ late' = IF answer = None THEN asked ELSE None
  /\ answer' = None
  /\ UNCHANGED <<taken, drive, paper>>

PerformLate ==
  /\ late # None
  /\ On(late)
  /\ late' = None
  /\ UNCHANGED <<asked, answer, giving_up, taken>>

PerformStop ==
  /\ giving_up /\ late = None
  /\ On(asked)
  /\ UNCHANGED <<asked, answer, giving_up, late, taken>>

Finish ==
  /\ asked # None /\ (answer # None \/ giving_up) /\ late = None
  /\ asked' = None /\ answer' = None /\ giving_up' = FALSE
  /\ taken' = IF giving_up \/ (asked.dev = "tape" /\ "CFI" \notin answer.flags)
                THEN taken ELSE answer
  /\ UNCHANGED <<late, drive, paper>>

Next == Ask \/ Perform \/ GiveUp \/ PerformLate \/ PerformStop \/ Finish

Spec == Init /\ [][Next]_vars

=============================================================================
