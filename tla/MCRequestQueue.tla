--------------------------- MODULE MCRequestQueue ---------------------------
(***************************************************************************)
(* RequestQueue on a small instance: two workers, a queue of two requests  *)
(* and four requests, so that the queue is full while both workers are     *)
(* busy and a fourth request is refused.                                   *)
(***************************************************************************)
EXTENDS RequestQueue
=============================================================================
