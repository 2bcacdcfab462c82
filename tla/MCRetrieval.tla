---------------------------- MODULE MCRetrieval ----------------------------
(* The instance of Retrieval that TLC checks; the bounds are in retrieval.cfg. *)
EXTENDS Retrieval
=============================================================================
