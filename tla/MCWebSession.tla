---------------------------- MODULE MCWebSession ----------------------------
(* Two workers start on an empty database; the administrator and one user. *)
EXTENDS WebSession

CONSTANTS adm, bob, r1, w1, w2, c1, c2
=============================================================================
