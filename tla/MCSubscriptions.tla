-------------------------- MODULE MCSubscriptions --------------------------
(***************************************************************************)
(* Subscriptions on small sets of requests.                                *)
(***************************************************************************)
EXTENDS Subscriptions

CONSTANTS s1, s2, a1, c1, c2, u1

=============================================================================
