------------------------------ MODULE MCWorkers ------------------------------
(* Workers on a few messages. *)
EXTENDS Workers
=============================================================================
