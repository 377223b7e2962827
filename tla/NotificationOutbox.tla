------------------------- MODULE NotificationOutbox -------------------------
(***************************************************************************)
(* The notification queue as an implementation of Outbox: the stage of a   *)
(* message is the status of its row, and its archive the email_log.        *)
(***************************************************************************)
EXTENDS NotificationQueue

ArchiveMap == {p \in Notifs \X Terminal : emailLog[p[1]][p[2]] > 0}

O == INSTANCE Outbox WITH
        Messages <- Notifs, Budget <- MaxAttempts,
        stage <- status, spent <- attempts, mail <- accepted,
        archive <- ArchiveMap

\* Whatever crashes, stops and failed writes do to the workers, the table and
\* the mail go through the steps of an outbox and no others.
ImplementsOutbox == O!Spec

\* Without faults the claim, backoff and cap of the workers also deliver the
\* progress an outbox promises: waiting messages are taken, tries end.
ImplementsFairOutbox == O!FairSpec
=============================================================================
