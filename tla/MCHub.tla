------------------------------- MODULE MCHub -------------------------------
(* Two users; the first one may open two connections. *)
EXTENDS Hub

CONSTANTS u1, u2, c1, c2, c3, r1, r2
MCUserOf(c) == IF c = c3 THEN u2 ELSE u1
=============================================================================
