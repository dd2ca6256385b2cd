------------------------------- MODULE MCLog -------------------------------
(* Log with two writers, files of two lines and a queue of one line.       *)
EXTENDS Log

=============================================================================
