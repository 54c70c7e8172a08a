--------------------------- MODULE MCAsyncLogging ---------------------------
(* AsyncLogging on small buffers. *)
EXTENDS AsyncLogging
=============================================================================
