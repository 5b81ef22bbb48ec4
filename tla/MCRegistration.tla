---------------------------- MODULE MCRegistration ----------------------------
(* Registration for TLC: two processes with two connections each, or one   *)
(* process with three.                                                     *)
EXTENDS Registration, TLC

CONSTANTS p1, p2, s1, s2, s3, s4

TwoEach == (s1 :> p1) @@ (s2 :> p1) @@ (s3 :> p2) @@ (s4 :> p2)
OneEach == (s1 :> p1) @@ (s2 :> p1) @@ (s3 :> p1)
=============================================================================
