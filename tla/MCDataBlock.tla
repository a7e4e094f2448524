---------------------------- MODULE MCDataBlock -----------------------------
(***************************************************************************)
(* Five FIFOs as on the board, of which two are written, without end.      *)
(* Writes are dropped from the first word on; with those under way a FIFO  *)
(* may hold three, one more than a frame takes.                            *)
(***************************************************************************)
EXTENDS DataBlock

\* Stream 1 has priority.
BoardFlags ==
  [i \in 0 .. 4 |-> CASE i = 1 -> {"INFIFO_PRIORITY"}
                      [] i = 4 -> {"INFIFO_ENABLE"}
                      [] OTHER -> {"INFIFO_DISABLE"}]

\* Stream 1 is written on the read clock, stream 4 on a slower one.
SlowFourth == {{1}, {1, 4}}
=============================================================================
