--------------------------- MODULE MCAsyncLogging ---------------------------
(***************************************************************************)
(* The asynchronous log with buffers of a few bytes.                       *)
(***************************************************************************)
EXTENDS AsyncLogging
=============================================================================
