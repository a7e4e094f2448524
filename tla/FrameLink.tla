----------------------------- MODULE FrameLink ------------------------------
(***************************************************************************)
(* What a frame generator promises the MAC: frames leave one after the     *)
(* other, each word of a frame in order and once, possibly with pauses,    *)
(* start of packet on the first word only and end of packet on the last    *)
(* only.  A reset may cut a frame short, and only a reset.                 *)
(***************************************************************************)
EXTENDS Naturals, Sequences

CONSTANT Frames(_)   \* Frames(f): f is a frame that may be sent

VARIABLES
  line,      \* [valid, sop, eop, word] presented to the MAC
  frame,     \* the frame being sent, all its words
  sent       \* how many of them have been presented

Quiet(l) == ~l.valid /\ ~l.eop

LinkInit ==
  /\ Quiet(line)
  /\ frame = <<>>
  /\ sent = 0

\* The next frame begins once all of the last one is out.
NewFrame ==
  /\ sent = Len(frame)
  /\ Frames(frame')
  /\ sent' = 0
  /\ Quiet(line')

SendWord ==
  /\ sent < Len(frame)
  /\ sent' = sent + 1
  /\ line'.valid
  /\ line'.word = frame[sent + 1]
  /\ line'.sop = (sent = 0)
  /\ line'.eop = (sent' = Len(frame))
  /\ UNCHANGED frame

Pause == Quiet(line') /\ UNCHANGED <<frame, sent>>

CutShort == Quiet(line') /\ frame' = <<>> /\ sent' = 0

LinkNext == NewFrame \/ SendWord \/ Pause \/ CutShort
LinkSpec == LinkInit /\ [][LinkNext]_<<line, frame, sent>>
=============================================================================
