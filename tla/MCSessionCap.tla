---------------------------- MODULE MCSessionCap ----------------------------
(* Three requests race for one place, with one id more than the overshoot  *)
(* can use, so that the bound limits the map and not the ids.              *)
EXTENDS SessionCap

CONSTANTS a, b, c, s1, s2, s3, s4

MCCallers == {a, b, c}
MCIds == {s1, s2, s3, s4}
=============================================================================
