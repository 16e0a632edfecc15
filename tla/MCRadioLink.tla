---------------------------- MODULE MCRadioLink -----------------------------
(* Instances of RadioLink for TLC.                                         *)
EXTENDS RadioLink
=============================================================================
