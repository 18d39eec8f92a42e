------------------------------- MODULE MCConv -------------------------------
(* The small instance of Conv: every class of byte, short packets. *)
EXTENDS Conv
=============================================================================
