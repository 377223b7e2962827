------------------------- MODULE NotificationQueue -------------------------
(***************************************************************************)
(* The outbound notification queue: the public.notifications table, the    *)
(* worker goroutines that drain it and the mail provider they call.        *)
(*                                                                         *)
(* A step of a worker is one database transaction, or one call to the      *)
(* provider: whatever happens to the other workers, to the process or to   *)
(* the clock happens between two of them.  Time is kept only as what the   *)
(* queries compare with now(): whether next_attempt_at has come (due),     *)
(* whether locked_until is unset, ahead or past (lock), and whether a sent *)
(* row was updated within the last day (recent).                           *)
(***************************************************************************)
EXTENDS Integers, FiniteSets

CONSTANTS
    Notifs,       \* rows the API may ever enqueue
    Malformed,    \* the rows whose kind or payload buildMessage rejects
    Procs,        \* server processes that share the database
    Workers,      \* all the worker goroutines, of all the processes
    ProcOf,       \* the process a worker goroutine runs in
    BatchLimit,   \* the LIMIT of the claim query (5 in the code)
    MaxAttempts,  \* WorkerConfig.MaxAttempts (6 in main.go)
    MaxDaily,     \* WorkerConfig.MaxDailyEmails; 0 disables the cap
    MaxTries,     \* the attempts of withRetry (3 in the code)
    Provider,     \* what a call to the provider may come to
    Faults,       \* what may go wrong around the workers
    NoRow         \* "no row in hand"

ASSUME RowAssumption      == NoRow \notin Notifs /\ Malformed \subseteq Notifs
ASSUME ProcAssumption     == ProcOf \in [Workers -> Procs]
ASSUME WorkersAssumption  == IsFiniteSet(Workers)
ASSUME BoundAssumption    == /\ BatchLimit \in Nat \ {0}
                             /\ MaxAttempts \in Nat \ {0}
                             /\ MaxDaily \in Nat
                             /\ MaxTries \in Nat \ {0}
ASSUME ProviderAssumption == Provider \subseteq {"ok", "busy", "timeout", "rejected"}
ASSUME FaultsAssumption   == Faults \subseteq {"crash", "stop", "dbfail", "acklost"}

VARIABLES
    status,     \* notifications.status, "absent" before the INSERT of the row
    attempts,   \* notifications.attempts
    due,        \* next_attempt_at <= now()
    lock,       \* locked_until: NULL, in the future, or in the past
    recent,     \* status = 'sent' and updated_at within the last day
    emailLog,   \* email_log rows per notification and status
    accepted,   \* times the provider accepted the message of a row
    up,         \* the root context of a process is not cancelled
    pc,         \* where a worker stands
    batch,      \* the rows a worker still has to finish, each with the
                \* attempts number its claim returned; 0 for the other rows
    cur,        \* the row whose outcome the worker is writing
    verdict,    \* the outcome it is writing
    tries       \* attempts of withRetry that failed so far

rowVars    == <<status, attempts, due, lock, recent, emailLog>>
workerVars == <<pc, batch, cur, verdict, tries>>
vars       == <<rowVars, accepted, up, workerVars>>

Terminal == {"sent", "failed", "dead"}
Statuses == {"absent", "pending", "sending"} \cup Terminal
Verdicts == Terminal \cup {"retry"}
NoBatch  == [n \in Notifs |-> 0]

TypeOK ==
    /\ status   \in [Notifs -> Statuses]
    /\ attempts \in [Notifs -> Nat]
    /\ due      \in [Notifs -> BOOLEAN]
    /\ lock     \in [Notifs -> {"none", "held", "expired"}]
    /\ recent   \in [Notifs -> BOOLEAN]
    /\ emailLog \in [Notifs -> [Terminal -> Nat]]
    /\ accepted \in [Notifs -> Nat]
    /\ up       \in [Procs -> BOOLEAN]
    /\ pc       \in [Workers -> {"top", "claim", "batch", "write", "exit"}]
    /\ batch    \in [Workers -> [Notifs -> Nat]]
    /\ cur      \in [Workers -> Notifs \cup {NoRow}]
    /\ verdict  \in [Workers -> Verdicts \cup {"none"}]
    /\ tries    \in [Workers -> Nat]

Init ==
    /\ status   = [n \in Notifs |-> "absent"]
    /\ attempts = [n \in Notifs |-> 0]
    /\ due      = [n \in Notifs |-> FALSE]
    /\ lock     = [n \in Notifs |-> "none"]
    /\ recent   = [n \in Notifs |-> FALSE]
    /\ emailLog = [n \in Notifs |-> [s \in Terminal |-> 0]]
    /\ accepted = [n \in Notifs |-> 0]
    /\ up       = [p \in Procs |-> TRUE]
    /\ pc       = [w \in Workers |-> "top"]
    /\ batch    = [w \in Workers |-> NoBatch]
    /\ cur      = [w \in Workers |-> NoRow]
    /\ verdict  = [w \in Workers |-> "none"]
    /\ tries    = [w \in Workers |-> 0]

-----------------------------------------------------------------------------
(* Reading the table.                                                      *)

\* Variant: a count without the one-day window.
SentEver == {n \in Notifs : status[n] = "sent"}

SentLastDay == {n \in Notifs : status[n] = "sent" /\ recent[n]}

\* Variant: stops only above the cap.
UnderOrAtCap == MaxDaily = 0 \/ Cardinality(SentLastDay) <= MaxDaily

UnderCap == MaxDaily = 0 \/ Cardinality(SentLastDay) < MaxDaily

\* Variant: also takes the rows whose worker let the lease expire.
ClaimableByLease ==
    {n \in Notifs : due[n] /\ \/ status[n] = "pending"
                              \/ status[n] = "sending" /\ lock[n] = "expired"}

Claimable == {n \in Notifs : status[n] = "pending" /\ due[n] /\ lock[n] # "held"}

Alive(w) == up[ProcOf[w]]

InHand(w) == {n \in Notifs : batch[w][n] > 0}

\* A commit can succeed in the database and still be reported as an error: the
\* connection breaks, or the context is cancelled while COMMIT is on its way.
AckMayBeLost(w) == "acklost" \in Faults \/ ~Alive(w)

WriteMayFail(w) == "dbfail" \in Faults \/ ~Alive(w)

-----------------------------------------------------------------------------
(* The API side.                                                           *)

\* Queue.Enqueue: one INSERT; the defaults make the row pending and due.
Enqueue(n) ==
    /\ status[n] = "absent"
    /\ status' = [status EXCEPT ![n] = "pending"]
    /\ due'    = [due EXCEPT ![n] = TRUE]
    /\ UNCHANGED <<attempts, lock, recent, emailLog, accepted, up, workerVars>>

-----------------------------------------------------------------------------
(* A worker: loop, tick, dispatch and the write of the outcome.            *)

\* loop and the first half of tick.  At the cap, or when the count fails, tick
\* returns 0 and the loop comes back here after its sleep.
CheckCap(w) ==
    /\ pc[w] = "top" /\ Alive(w)
    /\ UnderCap
    /\ pc' = [pc EXCEPT ![w] = "claim"]
    /\ UNCHANGED <<rowVars, accepted, up, batch, cur, verdict, tries>>

\* The UPDATE of ClaimDueNotifications on the rows S.
ClaimRows(S) ==
    /\ status'   = [n \in Notifs |-> IF n \in S THEN "sending" ELSE status[n]]
    /\ attempts' = [n \in Notifs |-> IF n \in S THEN attempts[n] + 1 ELSE attempts[n]]
    /\ lock'     = [n \in Notifs |-> IF n \in S THEN "held" ELSE lock[n]]
    /\ UNCHANGED <<due, recent, emailLog>>

\* What one claim may take: at most BatchLimit rows, and fewer than it could
\* when it skips rows that another transaction has locked.
Claims == {S \in SUBSET Claimable : S # {} /\ Cardinality(S) <= BatchLimit}

Claim(w) ==
    /\ pc[w] = "claim" /\ Alive(w)
    /\ \E S \in Claims :
         /\ ClaimRows(S)
         /\ batch' = [batch EXCEPT ![w] =
                        [n \in Notifs |-> IF n \in S THEN attempts[n] + 1 ELSE 0]]
    /\ pc' = [pc EXCEPT ![w] = "batch"]
    /\ UNCHANGED <<accepted, up, cur, verdict, tries>>

ClaimNothing(w) ==
    /\ pc[w] = "claim" /\ Alive(w)
    /\ Claimable = {}
    /\ pc' = [pc EXCEPT ![w] = "top"]
    /\ UNCHANGED <<rowVars, accepted, up, batch, cur, verdict, tries>>

\* The claim commits, WithTx returns an error and tick forgets the rows.
ClaimAckLost(w) ==
    /\ pc[w] = "claim" /\ AckMayBeLost(w)
    /\ \E S \in Claims : ClaimRows(S)
    /\ pc' = [pc EXCEPT ![w] = "top"]
    /\ UNCHANGED <<accepted, up, batch, cur, verdict, tries>>

\* "malformed" is buildMessage's error; the others are Sender.Send: a 2xx, a
\* 429 or 5xx, a transport error after the provider took the message, any
\* other status.
Responses(n) == IF n \in Malformed THEN {"malformed"} ELSE Provider
Retryable    == {"busy", "timeout"}
Accepts(r)   == r \in {"ok", "timeout"}

\* Variants of Outcome: one try too many; the exhaustion test first; the last
\* branch forgotten.
OutcomeOneMore(a, r) ==
    IF r = "malformed" THEN "failed"
    ELSE IF r = "ok" THEN "sent"
    ELSE IF a > MaxAttempts THEN "dead"
    ELSE IF r \in Retryable THEN "retry" ELSE "failed"
OutcomeExhaustedFirst(a, r) ==
    IF a >= MaxAttempts THEN "dead"
    ELSE IF r = "ok" THEN "sent"
    ELSE IF r \in Retryable THEN "retry" ELSE "failed"
OutcomeUnset(a, r) ==
    IF r = "malformed" THEN "failed"
    ELSE IF r = "ok" THEN "sent"
    ELSE IF a >= MaxAttempts THEN "dead"
    ELSE IF r \in Retryable THEN "retry" ELSE "none"

\* The branches of dispatch, for a row whose claim returned attempts = a.
Outcome(a, r) ==
    IF r = "malformed" THEN "failed"
    ELSE IF r = "ok" THEN "sent"
    ELSE IF a >= MaxAttempts THEN "dead"
    ELSE IF r \in Retryable THEN "retry"
    ELSE "failed"

\* limiter.Wait lets the next row through, dispatch builds the message, calls
\* the provider and chooses the outcome to write.  The rows of a batch come in
\* no particular order.
Dispatch(w) ==
    /\ pc[w] = "batch" /\ Alive(w)
    /\ \E n \in InHand(w), r \in UNION {Responses(m) : m \in InHand(w)} :
         /\ r \in Responses(n)
         /\ accepted' = [accepted EXCEPT ![n] = IF Accepts(r) THEN @ + 1 ELSE @]
         /\ cur'      = [cur EXCEPT ![w] = n]
         /\ verdict'  = [verdict EXCEPT ![w] = Outcome(batch[w][n], r)]
    /\ pc' = [pc EXCEPT ![w] = "write"]
    /\ UNCHANGED <<rowVars, up, batch, tries>>

\* markSent, markFailed, markDead and scheduleRetry: one transaction that sets
\* outcome v on row n, selected by id alone, and logs v if it is final.
SetOutcome(n, v) ==
    /\ status' = [status EXCEPT ![n] = IF v = "retry" THEN "pending" ELSE v]
    /\ due'    = [due EXCEPT ![n] = v # "retry" /\ @]
    /\ lock'   = [lock EXCEPT ![n] = "none"]
    /\ recent' = [recent EXCEPT ![n] = v = "sent"]
    /\ UNCHANGED attempts

LogOutcome(n, v) ==
    emailLog' = IF v = "retry" THEN emailLog
                ELSE [emailLog EXCEPT ![n][v] = @ + 1]

Record(n, v) == SetOutcome(n, v) /\ LogOutcome(n, v)

\* Variant: the rest of the batch is dropped.
RowDoneDropsRest(w) ==
    /\ batch'   = [batch EXCEPT ![w] = NoBatch]
    /\ pc'      = [pc EXCEPT ![w] = "top"]
    /\ cur'     = [cur EXCEPT ![w] = NoRow]
    /\ verdict' = [verdict EXCEPT ![w] = "none"]
    /\ tries'   = [tries EXCEPT ![w] = 0]

\* dispatch returns; tick turns to the next row, or ends.
RowDone(w) ==
    /\ batch'   = [batch EXCEPT ![w][cur[w]] = 0]
    /\ pc'      = [pc EXCEPT ![w] = IF InHand(w) = {cur[w]} THEN "top" ELSE "batch"]
    /\ cur'     = [cur EXCEPT ![w] = NoRow]
    /\ verdict' = [verdict EXCEPT ![w] = "none"]
    /\ tries'   = [tries EXCEPT ![w] = 0]

\* withRetry after a failed attempt: wait and try again, or give up after the
\* last attempt or at once when the context is cancelled.
TryFailed(w) ==
    IF tries[w] + 1 < MaxTries /\ Alive(w)
    THEN /\ tries' = [tries EXCEPT ![w] = @ + 1]
         /\ UNCHANGED <<pc, batch, cur, verdict>>
    ELSE RowDone(w)

Write(w) ==
    /\ pc[w] = "write"
    /\ Record(cur[w], verdict[w])
    /\ RowDone(w)
    /\ UNCHANGED <<accepted, up>>

\* Variant: the UPDATE and the INSERT are not one transaction.
WriteFailsHalfway(w) ==
    /\ pc[w] = "write" /\ WriteMayFail(w)
    /\ SetOutcome(cur[w], verdict[w])
    /\ TryFailed(w)
    /\ UNCHANGED <<emailLog, accepted, up>>

WriteFails(w) ==
    /\ pc[w] = "write" /\ WriteMayFail(w)
    /\ TryFailed(w)
    /\ UNCHANGED <<rowVars, accepted, up>>

WriteAckLost(w) ==
    /\ pc[w] = "write" /\ AckMayBeLost(w)
    /\ Record(cur[w], verdict[w])
    /\ TryFailed(w)
    /\ UNCHANGED <<accepted, up>>

\* The context is cancelled: loop returns; a claim fails; limiter.Wait fails
\* and tick returns without the rest of its batch.
Leave(w) ==
    /\ pc[w] \in {"top", "claim", "batch"} /\ ~Alive(w)
    /\ pc'    = [pc EXCEPT ![w] = "exit"]
    /\ batch' = [batch EXCEPT ![w] = NoBatch]
    /\ UNCHANGED <<rowVars, accepted, up, cur, verdict, tries>>

-----------------------------------------------------------------------------
(* Processes.                                                              *)

WorkersOf(p) == {w \in Workers : ProcOf[w] = p}

\* SIGTERM: run cancels the root context, then waits for the workers.
Stop(p) ==
    /\ "stop" \in Faults
    /\ up[p]
    /\ up' = [up EXCEPT ![p] = FALSE]
    /\ UNCHANGED <<rowVars, accepted, workerVars>>

\* The process dies with whatever its goroutines had in hand.
Crash(p) ==
    /\ "crash" \in Faults
    /\ \E w \in WorkersOf(p) : pc[w] # "exit"
    /\ up' = [up EXCEPT ![p] = FALSE]
    /\ pc'      = [w \in Workers |-> IF ProcOf[w] = p THEN "exit" ELSE pc[w]]
    /\ batch'   = [w \in Workers |-> IF ProcOf[w] = p THEN NoBatch ELSE batch[w]]
    /\ cur'     = [w \in Workers |-> IF ProcOf[w] = p THEN NoRow ELSE cur[w]]
    /\ verdict' = [w \in Workers |-> IF ProcOf[w] = p THEN "none" ELSE verdict[w]]
    /\ tries'   = [w \in Workers |-> IF ProcOf[w] = p THEN 0 ELSE tries[w]]
    /\ UNCHANGED <<rowVars, accepted>>

\* The platform starts the process again; Run spawns its workers.
Restart(p) ==
    /\ ~up[p]
    /\ \A w \in WorkersOf(p) : pc[w] = "exit"
    /\ up' = [up EXCEPT ![p] = TRUE]
    /\ pc' = [w \in Workers |-> IF ProcOf[w] = p THEN "top" ELSE pc[w]]
    /\ UNCHANGED <<rowVars, accepted, batch, cur, verdict, tries>>

-----------------------------------------------------------------------------
(* The clock.                                                              *)

BackoffElapses(n) ==
    /\ status[n] # "absent" /\ ~due[n]
    /\ due' = [due EXCEPT ![n] = TRUE]
    /\ UNCHANGED <<status, attempts, lock, recent, emailLog, accepted, up, workerVars>>

LeaseExpires(n) ==
    /\ lock[n] = "held"
    /\ lock' = [lock EXCEPT ![n] = "expired"]
    /\ UNCHANGED <<status, attempts, due, recent, emailLog, accepted, up, workerVars>>

DayPasses(n) ==
    /\ recent[n]
    /\ recent' = [recent EXCEPT ![n] = FALSE]
    /\ UNCHANGED <<status, attempts, due, lock, emailLog, accepted, up, workerVars>>

-----------------------------------------------------------------------------

Work(w) ==
    \/ CheckCap(w) \/ Claim(w) \/ ClaimNothing(w)
    \/ Dispatch(w) \/ Write(w) \/ Leave(w)

WorkerFault(w) == ClaimAckLost(w) \/ WriteFails(w) \/ WriteAckLost(w)

Clock(n) == BackoffElapses(n) \/ LeaseExpires(n) \/ DayPasses(n)

Next ==
    \/ \E n \in Notifs : Enqueue(n) \/ Clock(n)
    \/ \E w \in Workers : Work(w) \/ WorkerFault(w)
    \/ \E p \in Procs : Stop(p) \/ Crash(p) \/ Restart(p)

Spec == Init /\ [][Next]_vars

(***************************************************************************)
(* A goroutine that can run does run, the platform restarts a process that *)
(* is down, and the clock does not stop.  Nothing makes the API enqueue,   *)
(* and no fault has to happen.                                             *)
(***************************************************************************)
Fairness ==
    /\ \A w \in Workers : WF_vars(Work(w))
    /\ \A p \in Procs : WF_vars(Restart(p))
    /\ \A n \in Notifs : /\ WF_vars(BackoffElapses(n))
                         /\ WF_vars(LeaseExpires(n))
                         /\ WF_vars(DayPasses(n))

FairSpec == Spec /\ Fairness

-----------------------------------------------------------------------------
(* What the queue promises.                                                *)

\* ClaimDueNotifications hands a row to one worker only, and until that worker
\* has written its outcome the row stays as the claim left it: nobody else
\* claims it again, reschedules it or settles it.
ExclusiveClaim ==
    \A w \in Workers : \A n \in InHand(w) :
        /\ status[n] = "sending"
        /\ attempts[n] = batch[w][n]
        /\ \A v \in Workers \ {w} : n \notin InHand(v)

\* Unless a call can fail after the provider took the message, the message of
\* a row is submitted successfully at most once: not again after a crash
\* between Send and markSent, a shutdown, or a markSent that gave up.
AcceptedOnce == "timeout" \notin Provider => \A n \in Notifs : accepted[n] <= 1

\* dispatch and scheduleRetry keep to MaxAttempts: a row waiting for another
\* try has one left, and 'dead' means that every one of them was used.
AttemptBudget ==
    \A n \in Notifs :
        /\ attempts[n] <= MaxAttempts
        /\ status[n] = "pending" => attempts[n] < MaxAttempts
        /\ status[n] = "dead" => attempts[n] = MaxAttempts

\* The email_log is the audit trail of the table: a settled row has exactly
\* one log row, of the status it settled with, and an unsettled row has none.
AuditTrail ==
    \A n \in Notifs, s \in Terminal :
        emailLog[n][s] = IF status[n] = s THEN 1 ELSE 0

\* The status tells what happened to the mail.  A 'sent' row was accepted; when
\* every answer reaches the worker, a row that is 'failed', 'dead' or to be
\* tried again was not.
StatusHonest ==
    \A n \in Notifs :
        /\ status[n] = "sent" => accepted[n] > 0
        /\ "timeout" \notin Provider /\ status[n] \in {"pending", "failed", "dead"}
             => accepted[n] = 0

\* The rows whose mail left within the last day, as far as the table dates it.
MailsLastDay == {n \in Notifs : accepted[n] > 0 /\ (status[n] = "sent" => recent[n])}

\* Mails that tick's count does not see and no worker is about to add to it: the
\* write of 'sent' never committed, or the provider's answer was lost.
MissedByCount ==
    {n \in Notifs : /\ accepted[n] > 0 /\ status[n] # "sent"
                    /\ \A w \in Workers : n \notin InHand(w)}

\* How far the daily cap is kept, of the mails that are counted in the end.  tick
\* counts before it claims and sees only rows already 'sent', so every worker may
\* add a whole batch to a count that was below the cap.  Of the mails that are
\* missed by the count nothing bounds the number.
CapOvershoot ==
    MaxDaily > 0 =>
        Cardinality(MailsLastDay \ MissedByCount)
            <= MaxDaily - 1 + BatchLimit * Cardinality(Workers)

\* No worker, however late, moves a row out of a terminal status.
TerminalStays ==
    [][\A n \in Notifs : status[n] \in Terminal => status'[n] = status[n]]_vars

\* Without faults every row that is enqueued is settled, whatever the provider
\* answers and however often the cap stops the workers.
Settles == \A n \in Notifs : status[n] # "absent" ~> status[n] \in Terminal

\* Once the crashes and restarts are over, no row is left waiting to be claimed.
Drains ==
    (\A p \in Procs : <>[]up[p]) =>
        \A n \in Notifs : status[n] = "pending" ~> status[n] # "pending"

-----------------------------------------------------------------------------
(* What comments and documents say of the queue, and the code does not do. *)

\* queries/notifications.sql: "a short lease so a crashed worker's row becomes
\* available again".  The claim takes 'pending' rows only.
LeaseRecovers ==
    \A n \in Notifs : lock[n] = "expired" ~> lock[n] = "none"

\* queries/notifications.sql: the claim works "so multiple workers do not claim the
\* same row".  A worker writes by id alone: does a late write change a row that
\* another worker has claimed since and still has in hand?  (A step of w that is no
\* write of w leaves cur and tries alone.)
WritesKeepToClaim ==
    [][\A v, w \in Workers : \A n \in InHand(v) :
          v # w /\ cur[w] = n /\ status'[n] # status[n]
             => cur'[w] = n /\ tries'[w] = tries[w]]_vars
=============================================================================
