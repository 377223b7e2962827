------------------------ MODULE MCNotificationQueue ------------------------
(***************************************************************************)
(* NotificationQueue on small instances.                                   *)
(***************************************************************************)
EXTENDS NotificationOutbox, TLC

CONSTANTS n1, n2, n3, w1, w2, pA, pB

\* Two processes with one worker goroutine each.
OneEach == w1 :> pA @@ w2 :> pB

\* Two worker goroutines of one process.
BothInA == w1 :> pA @@ w2 :> pA
=============================================================================
