------------------------- MODULE MCLeaseMembership -------------------------
(* Two sessions taking one folder over from one another.                   *)
EXTENDS LeaseMembership
CONSTANTS s1, s2
=============================================================================
