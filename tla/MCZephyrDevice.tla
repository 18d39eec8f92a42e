--------------------------- MODULE MCZephyrDevice ---------------------------
(* Values for TLC: a walk of two notes, an inquiry answered by a run of  *)
(* two packets, a Discovery answered by one message, two attempts.         *)
EXTENDS ZephyrDevice

MCReply == [inquiry |-> <<Packet("start"), Packet("end")>>, discovery |-> <<Other>>]

MCWakeTimes == {400, 6500, 7000, 7500, 8000, 14800, 16500, 17200, 26500}
=============================================================================
