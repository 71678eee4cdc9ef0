------------------------------ MODULE MCSeeding -------------------------------
(* Instances of Seeding for TLC.                                             *)
EXTENDS Seeding

CONSTANTS d1, o1, w1, w2

MCListed == {d1}
MCUnlisted == {o1}
MCWorker == {w1, w2}
=============================================================================
