------------------------------- MODULE MCRoom -------------------------------
(* Rooms with two or three people and bots. *)
EXTENDS Room
=============================================================================
