--------------------------- MODULE MCClientStream ---------------------------
(***************************************************************************)
(* One client over a process transport that never fails, with one prompt    *)
(* and one read-only request.                                               *)
(***************************************************************************)
EXTENDS ClientEvents
=============================================================================
