---------------------------- MODULE FrameStream -----------------------------
(***************************************************************************)
(* Frame generator and header generator fed by an arbitrary FIFO: at any   *)
(* clock a payload of any length may be ready.  Words of the FIFO are      *)
(* numbered in the order they went in.                                     *)
(***************************************************************************)
EXTENDS FrameGenerator

CONSTANTS
  MaxUsed,         \* bound: words the FIFO offers at once
  MaxTaken         \* bound: words taken from the FIFO between two resets

ASSUME StreamAssumption ==
  MaxUsed \in Nat /\ MaxTaken \in Nat

VARIABLE taken     \* words read from the FIFO
streamVars == <<hgVars, fgVars, taken>>

StreamInit == HgInit /\ FgInit /\ taken = 0

StreamTick ==
  \E payload_rdy \in BOOLEAN, usedw \in 0 .. MaxUsed :
    /\ payload_rdy => taken + usedw <= MaxTaken
    /\ FgClock(payload_rdy, usedw, 0, taken + 1, rdreq)
    /\ taken' = IF rdreq THEN taken + 1 ELSE taken

\* A reset of the block, which empties the FIFO too.  header_start has no
\* reset: in the clock in which it is high a reset starts a header without a
\* frame, and the next frame gets the rest of it.  That clock is left out.
StreamReset ==
  /\ ~header_start
  /\ FgReset /\ HgReset
  /\ taken' = 0

StreamNext == StreamTick \/ StreamReset
StreamSpec == StreamInit /\ [][StreamNext]_streamVars
FairStreamSpec == StreamSpec /\ WF_streamVars(StreamTick)

-----------------------------------------------------------------------------
(***************************************************************************)
(* A frame that was started ends (the code has no timeout for a header     *)
(* that never comes).                                                      *)
(***************************************************************************)
FrameEnds == (fg_state # "IDLE") ~> (fg_state = "IDLE")
=============================================================================
