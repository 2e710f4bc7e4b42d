----------------------------- MODULE LegacyServer ------------------------------
(***************************************************************************)
(* The first generation: the interface (MpsiPld), the driver (software/    *)
(* mpsiServer/mpsi.c) and the loop of the server (main.c), with the        *)
(* devices of LegacyDevices.  The HP is outside the repository.            *)
(*                                                                         *)
(* A transfer is two steps, CTL low and CTL high again, so the HP may act  *)
(* in between.  In General Mode the HP waits for ready, gives a short CEO  *)
(* and comes back when ready is up again; in Fast Mode it holds CEO until  *)
(* CFI.  Stop and rewind are Fast Mode commands that nothing acknowledges: *)
(* the HP lets CEO go at once and leaves the drive time to act.            *)
(***************************************************************************)
EXTENDS LegacyDevices, MpsiPld

CONSTANTS
  Cassettes,  \* image file (its cells, or None for no file) and write permit
  Papers,     \* what may be on the paper tape, or None for no file
  Asks,       \* the operations the HP may ask for
  MaxCells    \* bound on the length of a tape, for the HP's writes

VARIABLES
  hp,        \* the HP's operation, or None
  moving,    \* its last tape command was a read or a write
  giving_up, \* it has stopped the drive instead of waiting for CFI
  taken,     \* the last answer the HP took, or None
  pc,        \* where the server is
  req,       \* the word it has received or works on, or None
  queued_req, last_send,  \* MPSI
  drive, paper,
  file,      \* the image file on disk, or None for no file
  Attn

hpVars   == <<hp, ceo, moving, giving_up, taken>>
linkVars == <<queued_req, last_send>>
devVars  == <<drive, paper, file>>
vars     == <<pldVars, hpVars, pc, req, linkVars, devVars, Attn>>

Stop  == [dev |-> "tape", code |-> 5, so3 |-> FALSE, byte |-> 0]
Flags == {"INT", "CFI", "ACK", "nCIN", "LDR", "nWPT"}
Words == [flags : SUBSET Flags, byte : Bytes]

ASSUME LegacyAssumption ==
  /\ 0 \in Bytes
  /\ None \notin Requests \cup Words
  /\ Asks \subseteq Requests
  /\ Papers \subseteq Seq(Bytes) \cup {None}
  /\ \A c \in Cassettes : c.file \in Seq(Cell) \cup {None} /\ c.permit \in BOOLEAN

(* Everything is opened, and the drive has shown where it stands.          *)
Init ==
  /\ \E c \in Cassettes : file = c.file /\ drive \in Opened(c.file, c.permit)
  /\ paper \in Papers
  /\ last_send = Word({"ACK", "LDR"} \cup Status(drive), 0) /\ out = last_send
  /\ queued_req = None
  /\ PldInit /\ ack = 1
  /\ hp = None /\ moving = FALSE /\ giving_up = FALSE /\ taken = None
  /\ pc = "wait" /\ req = None
  /\ Attn = FALSE

-----------------------------------------------------------------------------
(* The word a transfer clocks in, if there is a request.                   *)

Captured == IF data_av THEN ir ELSE None

-----------------------------------------------------------------------------
(* The HP.                                                                 *)

HpKeeps == UNCHANGED <<pc, req, linkVars, devVars, Attn>>

(* Stop and rewind; the HP goes on with reads and writes only.             *)
IsPosted(r) == r.dev = "tape" /\ (r.code = 5 \/ (r.code = 3 /\ ~r.so3))
Goes(r)     == r.code > 5 => moving

(* The drive has had the time to stop or to rewind.                        *)
TimePassed == pc = "wait" /\ queued_req = None /\ ~data_av

HpGeneral(r) ==
  /\ hp = None /\ r.dev # "tape" /\ ack = 1
  /\ hp' = r /\ taken' = None
  /\ CeoRises(r)
  /\ HpKeeps /\ UNCHANGED <<ceo, moving, giving_up, cfi>>

HpFast(r) ==
  /\ hp = None /\ r.dev = "tape" /\ ~IsPosted(r) /\ Goes(r)
  /\ Latch(drive, r).cmd = 4 => WriteAt(drive) < MaxCells
  /\ hp' = r /\ taken' = None
  /\ moving' = TRUE
  /\ ceo' = TRUE
  /\ CeoRises(r)
  /\ HpKeeps /\ UNCHANGED <<giving_up, cfi>>

HpPost(r) ==
  /\ hp = None /\ IsPosted(r)
  /\ hp' = r /\ taken' = None
  /\ moving' = FALSE
  /\ CeoRises(r)
  /\ HpKeeps /\ UNCHANGED <<ceo, giving_up, cfi>>

(* The user stops the HP while it waits for CFI: it lets CEO go and stops  *)
(* the drive.                                                              *)
HpGivesUp ==
  /\ ceo
  /\ hp' = Stop
  /\ moving' = FALSE /\ giving_up' = TRUE
  /\ ceo' = FALSE /\ cfi' = 0
  /\ CeoRises(Stop)
  /\ HpKeeps /\ UNCHANGED taken

HpFinishGeneral ==
  /\ hp # None /\ hp.dev # "tape" /\ ack = 1
  /\ hp' = None /\ taken' = out
  /\ HpKeeps /\ UNCHANGED <<pldVars, ceo, moving, giving_up>>

HpFinishFast ==
  /\ ceo /\ cfi = 1
  /\ hp' = None /\ taken' = out
  /\ ceo' = FALSE /\ cfi' = 0
  /\ HpKeeps /\ UNCHANGED <<moving, giving_up, ctl, data_av, ack, ssi, ir, out>>

HpGoesOn ==
  /\ hp # None /\ IsPosted(hp)
  /\ TimePassed
  /\ hp' = None /\ giving_up' = FALSE
  /\ HpKeeps /\ UNCHANGED <<pldVars, ceo, moving, taken>>

HpFinish == HpFinishGeneral \/ HpFinishFast \/ HpGoesOn

HpNext ==
  \/ \E r \in Asks : HpGeneral(r) \/ HpFast(r) \/ HpPost(r)
  \/ HpGivesUp
  \/ HpFinish

-----------------------------------------------------------------------------
(* The driver and the loop.                                                *)

ServerKeeps == UNCHANGED <<hpVars, Attn>>

(* MPSI_WaitForRequest: a request that came with the last transfer ...     *)
TakeQueued ==
  /\ pc = "wait" /\ queued_req # None
  /\ req' = queued_req /\ queued_req' = None
  /\ pc' = "check"
  /\ ServerKeeps /\ UNCHANGED <<pldVars, last_send, devVars>>

(* ... or, once there is one, ...                                          *)
BeginFetch ==
  /\ pc = "wait" /\ queued_req = None /\ data_av
  /\ req' = Captured
  /\ CtlFalls
  /\ pc' = "fetch"
  /\ ServerKeeps /\ UNCHANGED <<linkVars, devVars>>

(* ... unless the user ends the wait.                                      *)
WaitInterrupted ==
  /\ pc = "wait" /\ queued_req = None /\ ~data_av
  /\ Attn
  /\ pc' = "check"
  /\ ServerKeeps /\ UNCHANGED <<pldVars, req, linkVars, devVars>>

(* Mutant: the flags of the last answer go out again with the fetch.       *)
EndFetchFlags ==
  /\ pc = "fetch"
  /\ CtlRises(last_send)
  /\ pc' = "check"
  /\ ServerKeeps /\ UNCHANGED <<req, linkVars, devVars>>

(* The last answer goes out again, with its flags clear.                   *)
EndFetch ==
  /\ pc = "fetch"
  /\ CtlRises([last_send EXCEPT !.flags = @ \ {"INT", "CFI", "ACK"}])
  /\ pc' = "check"
  /\ ServerKeeps /\ UNCHANGED <<req, linkVars, devVars>>

(* One turn of the loop: the device serves the request and MPSI_Exec sends *)
(* its word, taking what the HP may have asked by now.                     *)
Dispatch ==
  /\ pc = "check" /\ ~Attn
  /\ LET served == Serve(drive, paper, req) IN
       /\ drive' = served.drive /\ paper' = served.paper
       /\ last_send' = served.word
  /\ req' = Captured
  /\ CtlFalls
  /\ pc' = "exec"
  /\ ServerKeeps /\ UNCHANGED <<queued_req, file>>

(* Mutant: the user ends the server in the middle of a transfer.           *)
EndExecBrokenOff ==
  /\ pc = "exec"
  /\ IF Attn
       THEN pc' = "check" /\ UNCHANGED <<pldVars, req, queued_req>>
       ELSE CtlRises(last_send) /\ queued_req' = req /\ req' = None /\ pc' = "wait"
  /\ ServerKeeps /\ UNCHANGED <<last_send, devVars>>

EndExec ==
  /\ pc = "exec"
  /\ CtlRises(last_send)
  /\ queued_req' = req /\ req' = None
  /\ pc' = "wait"
  /\ ServerKeeps /\ UNCHANGED <<last_send, devVars>>

(* The user has ended the server: TP_Close writes the image, if it was     *)
(* modified.  A request in hand stays unserved.                            *)
Close ==
  /\ pc = "check" /\ Attn
  /\ file' = IF drive.modified THEN drive.image ELSE file
  /\ drive.modified => drive.mounted
  /\ pc' = "closed"
  /\ ServerKeeps /\ UNCHANGED <<pldVars, req, linkVars, drive, paper>>

(* The image file cannot be opened, or there is none.                      *)
CloseUnsaved ==
  /\ pc = "check" /\ Attn
  /\ drive.modified
  /\ pc' = "unsaved"
  /\ ServerKeeps /\ UNCHANGED <<pldVars, req, linkVars, devVars>>

ServerNext ==
  \/ TakeQueued \/ BeginFetch \/ WaitInterrupted \/ EndFetch
  \/ Dispatch \/ EndExec \/ Close \/ CloseUnsaved

(* SIGINT; the handler sets Attn and the call it interrupts goes on.       *)
Attn__handler ==
  /\ Attn' = TRUE
  /\ UNCHANGED <<pldVars, hpVars, pc, req, linkVars, devVars>>

Next == HpNext \/ ServerNext \/ Attn__handler

(* The server runs on, and the HP looks for the end of what it asked.      *)
Spec == Init /\ [][Next]_vars /\ WF_vars(ServerNext) /\ WF_vars(HpFinish)

-----------------------------------------------------------------------------
(* Properties.                                                             *)

(* Values have their types; in particular the head stays on the tape or    *)
(* one cell off it, so that no index of tp.c leaves the buffer.            *)
TypeOK ==
  /\ ctl \in {0, 1} /\ ack \in {0, 1} /\ cfi \in {0, 1} /\ ssi \in {0, 1}
  /\ {data_av, ceo, moving, giving_up, Attn} \subseteq BOOLEAN
  /\ ir \in Requests \cup {NoWord} /\ {hp, req, queued_req} \subseteq Requests \cup {None}
  /\ out \in Words \cup {NoWord} /\ taken \in Words \cup {None} /\ last_send \in Words
  /\ pc \in {"wait", "fetch", "check", "exec", "closed", "unsaved"}
  /\ Len(drive.image) \in 1 .. MaxCells /\ drive.idx \in -1 .. Len(drive.image)
  /\ \A i \in DOMAIN drive.image : drive.image[i] \in Cell
  /\ drive.cmd \in 0 .. 5 /\ {drive.cmode, drive.modified} \subseteq BOOLEAN

(* Every operation of the HP is performed once and in its turn, and ends   *)
(* with the word made for it: queued_req (mpsi.c lines 133 to 137 and 155) *)
(* and the flags sent with a fetch (line 143) lose nothing, double nothing *)
(* and acknowledge nothing before its time, even when the HP gives up.     *)
InHand == {IF data_av THEN ir ELSE None, req, queued_req} \ {None}

Service == INSTANCE LegacyService WITH
  asked  <- hp,
  late   <- IF InHand \subseteq {hp} THEN None ELSE CHOOSE r \in InHand : r # hp,
  answer <- IF hp = None \/ hp \in InHand \/ giving_up THEN None ELSE last_send
IsService == Service!Spec

(* The HP is not kept waiting for ever.  When the user ends the server     *)
(* (main.c line 151) every operation that was performed is answered still; *)
(* what stays unanswered is one that nothing was done for, and a stop or a *)
(* rewind, which nothing answers anyway.                                   *)
OperationEnds ==
  hp # None ~> \/ hp = None
               \/ pc \in {"closed", "unsaved"} /\ (hp \in InHand \/ IsPosted(hp))

(* What the HP was told is written is on disk after a clean end            *)
(* (tp.c lines 229 to 238): the file is the tape, or there was nothing in  *)
(* it and nothing was written over the cell TP_Open put there.             *)
SavedOnExit ==
  pc = "closed" =>
    \/ file = drive.image
    \/ file \in {None, <<>>} /\ Len(drive.image) = 1 /\ ~drive.modified

(* Where both generations have an answer it is the same: with a cassette   *)
(* in the drive and no write at the end of the tape, TP_Op (tp.c lines 248 *)
(* to 338) leaves head, tape and answer as the drive does that the rev2    *)
(* firmware implements.                                                    *)
InRev2 == [ACK |-> "ACK", CFI |-> "CFI", INT |-> "SSI",
           nCIN |-> "NO_CASSETTE", LDR |-> "LEADER", nWPT |-> "WRITE_PROTECTED"]
Latched == IF pc = "check" THEN Latch(drive, req) ELSE drive

Rev2(data) == INSTANCE CassetteDrive WITH
  position <- drive.idx,
  command  <- Latched.cmd,
  control  <- Latched.cmode,
  byte     <- data,
  active   <- pc = "check",
  response <- [flags |-> {InRev2[f] : f \in last_send.flags}, byte |-> last_send.byte],
  cells    <- Len(drive.image),
  tape     <- [p \in Cells(drive) |-> drive.image[p + 1]],
  present  <- drive.mounted,
  writable <- drive.permit

Rev2Answers(data) ==
  \/ Rev2(data)!Stop \/ Rev2(data)!Rewind
  \/ Rev2(data)!Write \/ Rev2(data)!WriteRefused
  \/ Rev2(data)!ReadForward \/ Rev2(data)!ReadReverse \/ Rev2(data)!ReadOff

CommonGround ==
  /\ req.dev = "tape" /\ drive.mounted
  /\ Latched.cmd = 4 => WriteAt(drive) < Len(drive.image)

AgreesWithRev2 ==
  [][\A data \in Bytes :
       Dispatch /\ CommonGround /\ req.byte = data => Rev2Answers(data)]_vars

=============================================================================
