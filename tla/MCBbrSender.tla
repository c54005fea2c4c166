---------------------------- MODULE MCBbrSender -----------------------------
(***************************************************************************)
(* The sender with trunks of two cells.  Every insertion lengthens the     *)
(* first trunk by a cell, so that numbers from FirstPacket = 1 on stay in  *)
(* it, although they soon pass its first length.                           *)
(***************************************************************************)
EXTENDS BbrSender
=============================================================================
