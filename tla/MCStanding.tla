---------------------------- MODULE MCStanding ----------------------------
(* An instance of Standing for TLC: keys do not depend on each other, so one *)
(* key with several tasks shows what can go wrong.                           *)
EXTENDS Standing

CONSTANT k1

=============================================================================
