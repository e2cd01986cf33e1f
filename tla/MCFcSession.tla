----------------------------- MODULE MCFcSession -----------------------------
(* The flows, builds and sizes of the instances of FcSession that TLC checks. *)
EXTENDS FcSession

CONSTANTS c1, c2, r1, p1, p2, b1, b2
==============================================================================
