----------------------------- MODULE MCUserPool -----------------------------
(***************************************************************************)
(* UserPool with two users.                                                *)
(***************************************************************************)
EXTENDS UserPool

CONSTANTS r1, r2, k1, k2, u1, u2
=============================================================================
