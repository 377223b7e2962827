---------------------- MODULE NotificationQueueProofs ----------------------
(***************************************************************************)
(* Proofs about the notification queue, for every number of rows, workers  *)
(* and processes, and every BatchLimit, MaxAttempts, MaxTries and Provider *)
(***************************************************************************)
EXTENDS NotificationOutbox, FiniteSetTheorems, TLAPS

-----------------------------------------------------------------------------
(* Type correctness.                                                       *)

\* A worker that writes has a row of its batch in hand and an outcome for it.
WriterOK ==
    \A w \in Workers : pc[w] = "write" =>
        /\ cur[w] \in Notifs /\ batch[w][cur[w]] > 0
        /\ verdict[w] \in Verdicts

TInv == TypeOK /\ WriterOK

\* dispatch always chooses one of the four outcomes.
LEMMA OutcomeType ==
    ASSUME NEW a \in Nat, NEW n \in Notifs, NEW r \in Responses(n)
    PROVE  Outcome(a, r) \in Verdicts
  BY DEF Outcome, Verdicts, Terminal

\* What claiming a set of rows does to the types.
LEMMA ClaimRowsType ==
    ASSUME TypeOK, NEW S \in SUBSET Notifs, ClaimRows(S)
    PROVE  /\ status'   \in [Notifs -> Statuses]
           /\ attempts' \in [Notifs -> Nat]
           /\ lock'     \in [Notifs -> {"none", "held", "expired"}]
           /\ UNCHANGED <<due, recent, emailLog>>
  BY DEF TypeOK, ClaimRows, Statuses

\* What recording an outcome does to the types.
LEMMA RecordType ==
    ASSUME TypeOK, NEW n \in Notifs, NEW v \in Verdicts, Record(n, v)
    PROVE  /\ status'   \in [Notifs -> Statuses]
           /\ attempts' \in [Notifs -> Nat]
           /\ due'      \in [Notifs -> BOOLEAN]
           /\ lock'     \in [Notifs -> {"none", "held", "expired"}]
           /\ recent'   \in [Notifs -> BOOLEAN]
           /\ emailLog' \in [Notifs -> [Terminal -> Nat]]
<1> USE DEF TypeOK, Record, SetOutcome, LogOutcome, Statuses, Verdicts
<1>1. status' \in [Notifs -> Statuses]
  BY DEF Terminal
<1>2. due' \in [Notifs -> BOOLEAN]
  BY Zenon
<1>3. recent' \in [Notifs -> BOOLEAN]
  BY Zenon
<1>4. emailLog' \in [Notifs -> [Terminal -> Nat]]
  <2>1. CASE v = "retry"
    BY <2>1
  <2>2. CASE v # "retry"
    <3>1. v \in Terminal
      BY <2>2
    <3>2. [emailLog[n] EXCEPT ![v] = @ + 1] \in [Terminal -> Nat]
      BY <3>1
    <3>3. emailLog' = [emailLog EXCEPT ![n] = [emailLog[n] EXCEPT ![v] = @ + 1]]
      BY <2>2
    <3> QED  BY <3>2, <3>3
  <2> QED  BY <2>1, <2>2
<1>5. attempts' \in [Notifs -> Nat] /\ lock' \in [Notifs -> {"none", "held", "expired"}]
  OBVIOUS
<1> QED  BY <1>1, <1>2, <1>3, <1>4, <1>5

\* Finishing a row, or trying its write again, leaves the worker well formed.
LEMMA TryFailedType ==
    ASSUME TInv, NEW w \in Workers, pc[w] = "write", RowDone(w) \/ TryFailed(w)
    PROVE  /\ pc'      \in [Workers -> {"top", "claim", "batch", "write", "exit"}]
           /\ batch'   \in [Workers -> [Notifs -> Nat]]
           /\ cur'     \in [Workers -> Notifs \cup {NoRow}]
           /\ verdict' \in [Workers -> Verdicts \cup {"none"}]
           /\ tries'   \in [Workers -> Nat]
           /\ WriterOK'
<1> USE DEF TInv, TypeOK, WriterOK
<1>1. CASE RowDone(w)
  BY <1>1 DEF RowDone
<1>2. CASE tries' = [tries EXCEPT ![w] = @ + 1] /\ UNCHANGED <<pc, batch, cur, verdict>>
  BY <1>2
<1> QED  BY <1>1, <1>2 DEF TryFailed

LEMMA TypeInit == Init => TInv
  BY DEF Init, TInv, TypeOK, WriterOK, Statuses, NoBatch

LEMMA TypeStep == TInv /\ [Next]_vars => TInv'
<1> SUFFICES ASSUME TInv, [Next]_vars PROVE TInv'
  OBVIOUS
<1> USE DEF TInv, TypeOK, WriterOK
<1>1. ASSUME NEW n \in Notifs, Enqueue(n) PROVE TInv'
  BY <1>1 DEF Enqueue, Statuses, workerVars
<1>2. ASSUME NEW n \in Notifs, Clock(n) PROVE TInv'
  BY <1>2 DEF Clock, BackoffElapses, LeaseExpires, DayPasses, workerVars
<1>3. ASSUME NEW w \in Workers, CheckCap(w) \/ ClaimNothing(w) PROVE TInv'
  BY <1>3 DEF CheckCap, ClaimNothing, rowVars
<1>4. ASSUME NEW w \in Workers, Claim(w) PROVE TInv'
  <2>1. PICK S \in Claims : /\ ClaimRows(S)
                            /\ batch' = [batch EXCEPT ![w] =
                                 [n \in Notifs |-> IF n \in S THEN attempts[n] + 1 ELSE 0]]
    BY <1>4 DEF Claim
  <2>2. S \in SUBSET Notifs
    BY DEF Claims, Claimable
  <2>3. batch' \in [Workers -> [Notifs -> Nat]]
    BY <2>1
  <2> QED  BY <1>4, <2>1, <2>2, <2>3, ClaimRowsType DEF Claim
<1>5. ASSUME NEW w \in Workers, ClaimAckLost(w) PROVE TInv'
  <2>1. PICK S \in Claims : ClaimRows(S)
    BY <1>5 DEF ClaimAckLost
  <2>2. S \in SUBSET Notifs
    BY DEF Claims, Claimable
  <2> QED  BY <1>5, <2>1, <2>2, ClaimRowsType DEF ClaimAckLost
<1>6. ASSUME NEW w \in Workers, Dispatch(w) PROVE TInv'
  <2>1. PICK n \in InHand(w), r \in UNION {Responses(m) : m \in InHand(w)} :
           /\ r \in Responses(n)
           /\ accepted' = [accepted EXCEPT ![n] = IF Accepts(r) THEN @ + 1 ELSE @]
           /\ cur'      = [cur EXCEPT ![w] = n]
           /\ verdict'  = [verdict EXCEPT ![w] = Outcome(batch[w][n], r)]
    BY <1>6 DEF Dispatch
  <2>2. n \in Notifs /\ batch[w][n] > 0
    BY DEF InHand
  <2>3. Outcome(batch[w][n], r) \in Verdicts
    BY <2>1, <2>2, OutcomeType
  <2>4. accepted' \in [Notifs -> Nat]
    BY <2>1, <2>2
  <2> QED  BY <1>6, <2>1, <2>2, <2>3, <2>4 DEF Dispatch, rowVars
<1>7. ASSUME NEW w \in Workers, Write(w) \/ WriteAckLost(w) PROVE TInv'
  <2>1. Record(cur[w], verdict[w]) /\ (RowDone(w) \/ TryFailed(w)) /\ pc[w] = "write"
    BY <1>7 DEF Write, WriteAckLost
  <2>2. UNCHANGED <<accepted, up>>
    BY <1>7 DEF Write, WriteAckLost
  <2>3. cur[w] \in Notifs /\ verdict[w] \in Verdicts
    BY <2>1
  <2> QED  BY <2>1, <2>2, <2>3, RecordType, TryFailedType
<1>8. ASSUME NEW w \in Workers, WriteFails(w) PROVE TInv'
  BY <1>8, TryFailedType DEF WriteFails, rowVars
<1>9. ASSUME NEW w \in Workers, Leave(w) PROVE TInv'
  BY <1>9 DEF Leave, rowVars, NoBatch
<1>10. ASSUME NEW p \in Procs, Stop(p) \/ Restart(p) PROVE TInv'
  BY <1>10 DEF Stop, Restart, rowVars, workerVars
<1>11. ASSUME NEW p \in Procs, Crash(p) PROVE TInv'
  BY <1>11 DEF Crash, rowVars, NoBatch
<1>12. CASE UNCHANGED vars
  BY <1>12 DEF vars, rowVars, workerVars
<1> QED
  BY <1>1, <1>2, <1>3, <1>4, <1>5, <1>6, <1>7, <1>8, <1>9, <1>10, <1>11, <1>12
  DEF Next, Work, WorkerFault

\* Every variable keeps its type, under every fault.
THEOREM TypeCorrect == Spec => []TypeOK
<1>1. Spec => []TInv
  BY TypeInit, TypeStep, PTL DEF Spec
<1> QED  BY <1>1, PTL DEF TInv

-----------------------------------------------------------------------------
(* Safety, when no acknowledgement is lost while a process is up.  The     *)
(* invariants of the queue are not inductive alone: they hold because of   *)
(* what a worker knows of the rows in its hands.                           *)

\* Between two batches a worker has nothing in hand.
IdleEmpty ==
    \A w \in Workers : pc[w] \in {"top", "claim", "exit"} => \A n \in Notifs : batch[w][n] = 0

\* A row nobody has enqueued has no history.
Fresh == \A n \in Notifs : status[n] = "absent" => attempts[n] = 0 /\ accepted[n] = 0

\* The outcome a worker is about to write is one the row's history allows.
VerdictOK ==
    \A w \in Workers : pc[w] = "write" =>
        /\ verdict[w] = "retry" => batch[w][cur[w]] < MaxAttempts
        /\ verdict[w] = "dead" => batch[w][cur[w]] = MaxAttempts
        /\ verdict[w] = "sent" => accepted[cur[w]] > 0

\* The worker has called the provider for row n and has not written the outcome.
Called(w, n) == pc[w] = "write" /\ cur[w] = n

\* A claim allows one submission.
OnePostPerClaim ==
    \A n \in Notifs :
        /\ accepted[n] <= attempts[n]
        /\ \A w \in Workers : n \in InHand(w) /\ ~Called(w, n) => accepted[n] < attempts[n]

SentPosted == \A n \in Notifs : status[n] = "sent" => accepted[n] > 0

\* When every answer arrives, a submission is followed by 'sent' or by nothing.
AnswersArrive ==
    "timeout" \notin Provider =>
        \A n \in Notifs :
            /\ accepted[n] <= 1
            /\ status[n] \in {"absent", "pending", "failed", "dead"} => accepted[n] = 0
            /\ \A w \in Workers :
                 n \in InHand(w) /\ ~(Called(w, n) /\ verdict[w] = "sent") => accepted[n] = 0

IInv ==
    /\ TInv
    /\ IdleEmpty
    /\ ExclusiveClaim
    /\ AttemptBudget
    /\ AuditTrail
    /\ Fresh
    /\ VerdictOK
    /\ OnePostPerClaim
    /\ SentPosted
    /\ AnswersArrive

LEMMA InvInit == Init => IInv
<1> SUFFICES ASSUME Init PROVE IInv
  OBVIOUS
<1>1. TInv
  BY TypeInit
<1>2. IdleEmpty /\ ExclusiveClaim /\ VerdictOK /\ OnePostPerClaim /\ SentPosted
  BY DEF Init, IdleEmpty, ExclusiveClaim, VerdictOK, OnePostPerClaim, SentPosted,
         InHand, NoBatch
<1>3. AttemptBudget /\ Fresh /\ AnswersArrive
  BY BoundAssumption DEF Init, AttemptBudget, Fresh, AnswersArrive, InHand, NoBatch
<1>4. AuditTrail
  BY DEF Init, AuditTrail, Terminal
<1> QED  BY <1>1, <1>2, <1>3, <1>4 DEF IInv

\* Row by row, what recording an outcome changes.
LEMMA RecordEffect ==
    ASSUME TypeOK, NEW n \in Notifs, NEW v \in Verdicts, Record(n, v)
    PROVE  /\ status'[n] = IF v = "retry" THEN "pending" ELSE v
           /\ \A m \in Notifs \ {n} : status'[m] = status[m]
           /\ attempts' = attempts
           /\ \A m \in Notifs, s \in Terminal :
                emailLog'[m][s] = emailLog[m][s] + IF m = n /\ s = v THEN 1 ELSE 0
<1>1. /\ status'[n] = IF v = "retry" THEN "pending" ELSE v
      /\ \A m \in Notifs \ {n} : status'[m] = status[m]
      /\ attempts' = attempts
  BY DEF TypeOK, Record, SetOutcome
<1>2. ASSUME NEW m \in Notifs, NEW s \in Terminal
      PROVE  emailLog'[m][s] = emailLog[m][s] + IF m = n /\ s = v THEN 1 ELSE 0
  BY <1>2 DEF TypeOK, Record, LogOutcome, Verdicts, Terminal
<1> QED  BY <1>1, <1>2

\* Row by row, what finishing a row changes in the hands of a worker.
LEMMA RowDoneEffect ==
    ASSUME TInv, NEW w \in Workers, pc[w] = "write", RowDone(w)
    PROVE  /\ \A v \in Workers \ {w} : /\ batch'[v] = batch[v] /\ pc'[v] = pc[v]
                                       /\ cur'[v] = cur[v] /\ verdict'[v] = verdict[v]
           /\ \A m \in Notifs : batch'[w][m] = IF m = cur[w] THEN 0 ELSE batch[w][m]
           /\ pc'[w] \in {"top", "batch"}
           /\ pc'[w] = "top" => \A m \in Notifs : batch'[w][m] = 0
<1> USE DEF TInv, TypeOK, WriterOK, RowDone
<1>1. \A m \in Notifs : batch'[w][m] = IF m = cur[w] THEN 0 ELSE batch[w][m]
  OBVIOUS
<1>2. ASSUME pc'[w] = "top", NEW m \in Notifs PROVE batch'[w][m] = 0
  <2>1. InHand(w) = {cur[w]}
    BY <1>2
  <2> QED  BY <1>1, <2>1 DEF InHand
<1> QED  BY <1>1, <1>2

\* The outcome of a row is written and the row leaves the worker's hands.
LEMMA WriteStep ==
    ASSUME IInv, NEW w \in Workers, pc[w] = "write", TInv',
           Record(cur[w], verdict[w]), RowDone(w), UNCHANGED accepted
    PROVE  IInv'
<1> DEFINE n == cur[w]
           v == verdict[w]
<1>1. n \in Notifs /\ v \in Verdicts /\ n \in InHand(w)
  BY DEF IInv, TInv, WriterOK, InHand
<1>2. /\ status'[n] = IF v = "retry" THEN "pending" ELSE v
      /\ \A m \in Notifs \ {n} : status'[m] = status[m]
      /\ attempts' = attempts
      /\ \A m \in Notifs, s \in Terminal :
           emailLog'[m][s] = emailLog[m][s] + IF m = n /\ s = v THEN 1 ELSE 0
  BY <1>1, RecordEffect DEF IInv, TInv
<1>3. /\ \A u \in Workers \ {w} : /\ batch'[u] = batch[u] /\ pc'[u] = pc[u]
                                  /\ cur'[u] = cur[u] /\ verdict'[u] = verdict[u]
      /\ \A m \in Notifs : batch'[w][m] = IF m = n THEN 0 ELSE batch[w][m]
      /\ pc'[w] \in {"top", "batch"}
      /\ pc'[w] = "top" => \A m \in Notifs : batch'[w][m] = 0
  BY RowDoneEffect DEF IInv
<1>4. status[n] = "sending" /\ attempts[n] = batch[w][n]
  BY <1>1 DEF IInv, ExclusiveClaim
<1>5. \A u \in Workers \ {w} : n \notin InHand(u)
  BY <1>1 DEF IInv, ExclusiveClaim
<1>6. ASSUME NEW u \in Workers, NEW m \in InHand(u)'
      PROVE  m \in InHand(u) /\ m # n
  <2>1. m \in Notifs /\ batch'[u][m] > 0
    BY <1>6 DEF InHand
  <2>2. CASE u = w
    BY <1>3, <2>1, <2>2 DEF InHand
  <2>3. CASE u # w
    BY <1>3, <1>5, <2>1, <2>3 DEF InHand
  <2> QED  BY <2>2, <2>3
<1>7. ExclusiveClaim'
  <2> SUFFICES ASSUME NEW u \in Workers, NEW m \in InHand(u)'
               PROVE  /\ status'[m] = "sending" /\ attempts'[m] = batch'[u][m]
                      /\ \A x \in Workers \ {u} : m \notin InHand(x)'
    BY DEF ExclusiveClaim
  <2>1. m \in InHand(u) /\ m # n /\ m \in Notifs
    BY <1>6 DEF InHand
  <2>2. batch'[u][m] = batch[u][m]
    BY <1>3, <2>1
  <2> QED  BY <1>2, <1>6, <2>1, <2>2 DEF IInv, ExclusiveClaim
<1>8. AttemptBudget' /\ Fresh'
  BY <1>1, <1>2, <1>4 DEF IInv, TInv, TypeOK, AttemptBudget, Fresh, VerdictOK, Verdicts, Terminal
<1>9. AuditTrail'
  BY <1>1, <1>2, <1>4 DEF IInv, AuditTrail, Verdicts, Terminal, TInv, TypeOK
<1>10. IdleEmpty' /\ VerdictOK'
  BY <1>3 DEF IInv, IdleEmpty, VerdictOK
<1>11. OnePostPerClaim' /\ SentPosted'
  BY <1>1, <1>2, <1>3, <1>6 DEF IInv, OnePostPerClaim, SentPosted, Called, VerdictOK
<1>12. AnswersArrive'
  BY <1>1, <1>2, <1>3, <1>6 DEF IInv, AnswersArrive, Called, Verdicts, Terminal
<1> QED  BY <1>7, <1>8, <1>9, <1>10, <1>11, <1>12 DEF IInv

\* A worker gives a row up without writing its outcome, or will try again.
LEMMA GiveUpStep ==
    ASSUME IInv, NEW w \in Workers, pc[w] = "write", TInv',
           TryFailed(w), UNCHANGED <<rowVars, accepted>>
    PROVE  IInv'
<1>1. CASE UNCHANGED <<pc, batch, cur, verdict>>
  BY <1>1 DEF IInv, IdleEmpty, ExclusiveClaim, AttemptBudget, AuditTrail, Fresh, VerdictOK,
              OnePostPerClaim, SentPosted, AnswersArrive, Called, InHand, rowVars
<1>2. CASE RowDone(w)
  <2>1. /\ \A u \in Workers \ {w} : /\ batch'[u] = batch[u] /\ pc'[u] = pc[u]
                                    /\ cur'[u] = cur[u] /\ verdict'[u] = verdict[u]
        /\ \A m \in Notifs : batch'[w][m] = IF m = cur[w] THEN 0 ELSE batch[w][m]
        /\ pc'[w] \in {"top", "batch"}
        /\ pc'[w] = "top" => \A m \in Notifs : batch'[w][m] = 0
    BY <1>2, RowDoneEffect DEF IInv
  <2>2. ASSUME NEW u \in Workers, NEW m \in InHand(u)'
        PROVE  m \in InHand(u) /\ batch'[u][m] = batch[u][m] /\ (u = w => m # cur[w])
    <3>1. m \in Notifs /\ batch'[u][m] > 0
      BY <2>2 DEF InHand
    <3>2. CASE u = w
      BY <2>1, <3>1, <3>2 DEF InHand
    <3>3. CASE u # w
      BY <2>1, <3>1, <3>3 DEF InHand
    <3> QED  BY <3>2, <3>3
  <2>4. ExclusiveClaim'
    BY <2>2 DEF IInv, ExclusiveClaim, rowVars
  <2>5. IdleEmpty' /\ VerdictOK' /\ AttemptBudget' /\ AuditTrail' /\ Fresh' /\ SentPosted'
    BY <2>1 DEF IInv, IdleEmpty, VerdictOK, AttemptBudget, AuditTrail, Fresh, SentPosted, rowVars
  <2>6. OnePostPerClaim' /\ AnswersArrive'
    BY <2>1, <2>2 DEF IInv, OnePostPerClaim, AnswersArrive, Called, rowVars
  <2> QED  BY <2>4, <2>5, <2>6 DEF IInv
<1> QED  BY <1>1, <1>2 DEF TryFailed

\* The effect of a claim on the rows, whether the worker learns of it or not.
LEMMA ClaimRowsStep ==
    ASSUME IInv, NEW S \in Claims, ClaimRows(S), UNCHANGED accepted
    PROVE  /\ AttemptBudget' /\ AuditTrail' /\ Fresh' /\ SentPosted'
           /\ \A m \in Notifs : accepted[m] <= attempts'[m]
           /\ \A m \in S : /\ status[m] = "pending" /\ status'[m] = "sending"
                           /\ attempts'[m] = attempts[m] + 1
           /\ \A m \in Notifs \ S : status'[m] = status[m] /\ attempts'[m] = attempts[m]
           /\ S \in SUBSET Notifs /\ S # {}
<1>1. S \in SUBSET Notifs /\ S # {} /\ \A m \in S : status[m] = "pending"
  BY DEF Claims, Claimable
<1>2. /\ \A m \in S : status'[m] = "sending" /\ attempts'[m] = attempts[m] + 1
      /\ \A m \in Notifs \ S : status'[m] = status[m] /\ attempts'[m] = attempts[m]
      /\ emailLog' = emailLog
  BY <1>1 DEF ClaimRows
<1>3. Fresh' /\ SentPosted'
  BY <1>1, <1>2 DEF IInv, Fresh, SentPosted
<1>6. AttemptBudget'
  <2> SUFFICES ASSUME NEW m \in Notifs
               PROVE  /\ attempts'[m] <= MaxAttempts
                      /\ status'[m] = "pending" => attempts'[m] < MaxAttempts
                      /\ status'[m] = "dead" => attempts'[m] = MaxAttempts
    BY DEF AttemptBudget
  <2>1. attempts[m] \in Nat /\ MaxAttempts \in Nat
    BY BoundAssumption DEF IInv, TInv, TypeOK
  <2>2. CASE m \in S
    BY <1>1, <1>2, <2>1, <2>2 DEF IInv, AttemptBudget
  <2>3. CASE m \notin S
    BY <1>2, <2>3 DEF IInv, AttemptBudget
  <2> QED  BY <2>2, <2>3
<1>4. AuditTrail'
  BY <1>1, <1>2 DEF IInv, AuditTrail, Terminal
<1>5. \A m \in Notifs : accepted[m] <= attempts'[m]
  BY <1>1, <1>2 DEF IInv, TInv, TypeOK, OnePostPerClaim
<1> QED  BY <1>1, <1>2, <1>3, <1>4, <1>5, <1>6

\* Workers that leave or die drop the rows in their hands; the rows stay.
LEMMA DroppedStep ==
    ASSUME IInv, TInv', UNCHANGED <<status, attempts, emailLog, accepted>>,
           \A u \in Workers :
             \/ /\ batch'[u] = batch[u] /\ pc'[u] = pc[u]
                /\ cur'[u] = cur[u] /\ verdict'[u] = verdict[u]
             \/ pc'[u] = "exit" /\ \A m \in Notifs : batch'[u][m] = 0
    PROVE  IInv'
<1>1. ASSUME NEW u \in Workers, NEW m \in InHand(u)'
      PROVE  /\ m \in InHand(u) /\ m \in Notifs /\ batch'[u][m] = batch[u][m]
             /\ pc'[u] = pc[u] /\ cur'[u] = cur[u] /\ verdict'[u] = verdict[u]
  BY <1>1 DEF InHand
<1>2. ExclusiveClaim'
  BY <1>1 DEF IInv, ExclusiveClaim
<1>3. IdleEmpty' /\ VerdictOK'
  BY DEF IInv, IdleEmpty, VerdictOK
<1>4. AttemptBudget' /\ AuditTrail' /\ Fresh' /\ SentPosted'
  BY DEF IInv, AttemptBudget, AuditTrail, Fresh, SentPosted
<1>5. OnePostPerClaim' /\ AnswersArrive'
  BY <1>1 DEF IInv, OnePostPerClaim, AnswersArrive, Called
<1> QED  BY <1>2, <1>3, <1>4, <1>5 DEF IInv

\* A call to the provider, and the outcome dispatch draws from its answer.
LEMMA DispatchStep ==
    ASSUME IInv, TInv', NEW w \in Workers, Dispatch(w)
    PROVE  IInv'
<1>1. PICK n \in InHand(w), r \in UNION {Responses(m) : m \in InHand(w)} :
         /\ r \in Responses(n)
         /\ accepted' = [accepted EXCEPT ![n] = IF Accepts(r) THEN @ + 1 ELSE @]
         /\ cur'      = [cur EXCEPT ![w] = n]
         /\ verdict'  = [verdict EXCEPT ![w] = Outcome(batch[w][n], r)]
  BY DEF Dispatch
<1>2. n \in Notifs /\ TypeOK
  BY DEF InHand, IInv, TInv
<1>3. /\ pc[w] = "batch" /\ pc'[w] = "write"
      /\ cur'[w] = n /\ verdict'[w] = Outcome(batch[w][n], r)
      /\ UNCHANGED <<status, attempts, emailLog, batch>>
      /\ \A u \in Workers \ {w} : /\ pc'[u] = pc[u] /\ cur'[u] = cur[u]
                                  /\ verdict'[u] = verdict[u]
      /\ accepted'[n] = IF Accepts(r) THEN accepted[n] + 1 ELSE accepted[n]
      /\ \A m \in Notifs \ {n} : accepted'[m] = accepted[m]
  BY <1>1, <1>2 DEF Dispatch, rowVars, TypeOK
<1>4. /\ status[n] = "sending" /\ attempts[n] = batch[w][n]
      /\ \A u \in Workers \ {w} : n \notin InHand(u)
      /\ accepted[n] < attempts[n] /\ ~Called(w, n)
  BY <1>2, <1>3 DEF IInv, ExclusiveClaim, OnePostPerClaim, Called
<1>5. \A m \in Notifs : accepted[m] \in Nat /\ attempts[m] \in Nat
  BY <1>2 DEF TypeOK
<1>6. attempts[n] <= MaxAttempts
  BY <1>2 DEF IInv, AttemptBudget
<1>7. /\ verdict'[w] = "retry" => attempts[n] < MaxAttempts
      /\ verdict'[w] = "dead" => attempts[n] = MaxAttempts
      /\ verdict'[w] = "sent" <=> r = "ok"
  BY <1>2, <1>3, <1>4, <1>5, <1>6, BoundAssumption DEF Outcome
<1>8. \A u \in Workers : InHand(u)' = InHand(u)
  BY <1>3 DEF InHand
<1>9. ExclusiveClaim' /\ IdleEmpty'
  BY <1>3, <1>8 DEF IInv, ExclusiveClaim, IdleEmpty
<1>10. AttemptBudget' /\ AuditTrail'
  BY <1>3 DEF IInv, AttemptBudget, AuditTrail
<1>11. Fresh'
  BY <1>2, <1>3, <1>4 DEF IInv, Fresh
<1>12. \A m \in Notifs : accepted[m] > 0 => accepted'[m] > 0
  BY <1>2, <1>3, <1>5
<1>13. SentPosted'
  BY <1>3, <1>12 DEF IInv, SentPosted
<1>14. VerdictOK'
  <2> SUFFICES ASSUME NEW u \in Workers, pc'[u] = "write"
               PROVE  /\ verdict'[u] = "retry" => batch'[u][cur'[u]] < MaxAttempts
                      /\ verdict'[u] = "dead" => batch'[u][cur'[u]] = MaxAttempts
                      /\ verdict'[u] = "sent" => accepted'[cur'[u]] > 0
    BY DEF VerdictOK
  <2>1. CASE u = w
    BY <1>2, <1>3, <1>4, <1>5, <1>7, <2>1 DEF Accepts
  <2>2. CASE u # w
    <3>1. cur[u] \in Notifs
      BY <1>3, <2>2 DEF IInv, TInv, WriterOK
    <3> QED  BY <1>3, <1>12, <2>2, <3>1 DEF IInv, VerdictOK
  <2> QED  BY <2>1, <2>2
<1>15. OnePostPerClaim'
  <2>1. ASSUME NEW m \in Notifs PROVE accepted'[m] <= attempts'[m]
    BY <1>2, <1>3, <1>4, <1>5, <2>1 DEF IInv, OnePostPerClaim
  <2>2. ASSUME NEW m \in Notifs, NEW u \in Workers, m \in InHand(u)', ~Called(u, m)'
        PROVE  accepted'[m] < attempts'[m]
    <3>1. m # n
      BY <1>3, <1>4, <1>8, <2>2 DEF Called
    <3>2. m \in InHand(u) /\ ~Called(u, m)
      BY <1>3, <1>8, <2>2 DEF Called
    <3> QED  BY <1>3, <3>1, <3>2 DEF IInv, OnePostPerClaim
  <2> QED  BY <2>1, <2>2 DEF OnePostPerClaim
<1>16. AnswersArrive'
  <2> SUFFICES ASSUME "timeout" \notin Provider, NEW m \in Notifs
               PROVE  /\ accepted'[m] <= 1
                      /\ status'[m] \in {"absent", "pending", "failed", "dead"} => accepted'[m] = 0
                      /\ \A u \in Workers :
                           m \in InHand(u)' /\ ~(Called(u, m)' /\ verdict'[u] = "sent")
                             => accepted'[m] = 0
    BY DEF AnswersArrive
  <2>1. CASE m = n
    <3>1. accepted[n] = 0
      BY <1>2, <1>4 DEF IInv, AnswersArrive
    <3>2. Accepts(r) <=> r = "ok"
      BY <1>1 DEF Accepts, Responses
    <3> QED  BY <1>3, <1>4, <1>7, <1>8, <2>1, <3>1, <3>2 DEF Called
  <2>2. CASE m # n
    <3>1. ASSUME NEW u \in Workers, m \in InHand(u)', ~(Called(u, m)' /\ verdict'[u] = "sent")
          PROVE  accepted'[m] = 0
      BY <1>3, <1>8, <2>2, <3>1 DEF IInv, AnswersArrive, Called
    <3> QED  BY <1>3, <2>2, <3>1 DEF IInv, AnswersArrive
  <2> QED  BY <2>1, <2>2
<1> QED  BY <1>9, <1>10, <1>11, <1>13, <1>14, <1>15, <1>16 DEF IInv

LEMMA InvStep == "acklost" \notin Faults /\ IInv /\ [Next]_vars => IInv'
<1> SUFFICES ASSUME "acklost" \notin Faults, IInv, [Next]_vars PROVE IInv'
  OBVIOUS
<1>0. TInv' /\ TInv /\ TypeOK
  BY TypeStep DEF IInv, TInv
<1>1. ASSUME NEW n \in Notifs, Enqueue(n) PROVE IInv'
  <2>1. /\ status[n] = "absent" /\ status'[n] = "pending"
        /\ \A m \in Notifs \ {n} : status'[m] = status[m]
        /\ UNCHANGED <<attempts, emailLog, accepted, pc, batch, cur, verdict>>
    BY <1>0, <1>1 DEF Enqueue, workerVars, TypeOK
  <2>2. ExclusiveClaim' /\ IdleEmpty' /\ VerdictOK' /\ OnePostPerClaim'
    BY <2>1 DEF IInv, ExclusiveClaim, IdleEmpty, VerdictOK, OnePostPerClaim, Called, InHand
  <2>3. AttemptBudget' /\ Fresh' /\ SentPosted'
    BY <2>1, BoundAssumption DEF IInv, AttemptBudget, Fresh, SentPosted
  <2>4. AuditTrail' /\ AnswersArrive'
    BY <2>1 DEF IInv, AuditTrail, AnswersArrive, Terminal, Called, InHand
  <2> QED  BY <1>0, <2>2, <2>3, <2>4 DEF IInv
<1>2. CASE UNCHANGED <<status, attempts, emailLog, accepted, pc, batch, cur, verdict>>
  BY <1>0, <1>2 DEF IInv, ExclusiveClaim, IdleEmpty, VerdictOK, OnePostPerClaim, Called, InHand,
                    AttemptBudget, Fresh, SentPosted, AuditTrail, AnswersArrive
<1>3. ASSUME NEW n \in Notifs, Clock(n) PROVE IInv'
  BY <1>2, <1>3 DEF Clock, BackoffElapses, LeaseExpires, DayPasses, workerVars
<1>4. ASSUME NEW w \in Workers, CheckCap(w) \/ ClaimNothing(w) PROVE IInv'
  <2>1. /\ pc[w] \in {"top", "claim"} /\ pc' = [pc EXCEPT ![w] = pc'[w]]
        /\ pc'[w] \in {"top", "claim"}
        /\ UNCHANGED <<status, attempts, emailLog, accepted, batch, cur, verdict>>
    BY <1>0, <1>4 DEF CheckCap, ClaimNothing, rowVars, TypeOK
  <2> QED
    BY <1>0, <2>1 DEF IInv, TypeOK, ExclusiveClaim, IdleEmpty, VerdictOK, OnePostPerClaim, Called,
                      InHand, AttemptBudget, Fresh, SentPosted, AuditTrail, AnswersArrive
<1>5. ASSUME NEW w \in Workers, Claim(w) PROVE IInv'
  <2>1. PICK S \in Claims : /\ ClaimRows(S)
                            /\ batch' = [batch EXCEPT ![w] =
                                 [n \in Notifs |-> IF n \in S THEN attempts[n] + 1 ELSE 0]]
    BY <1>5 DEF Claim
  <2>2. /\ AttemptBudget' /\ AuditTrail' /\ Fresh' /\ SentPosted'
        /\ \A m \in Notifs : accepted[m] <= attempts'[m]
        /\ \A m \in S : /\ status[m] = "pending" /\ status'[m] = "sending"
                        /\ attempts'[m] = attempts[m] + 1
        /\ \A m \in Notifs \ S : status'[m] = status[m] /\ attempts'[m] = attempts[m]
        /\ S \in SUBSET Notifs /\ S # {}
    BY <1>5, <2>1, ClaimRowsStep DEF Claim
  <2>3. /\ pc[w] = "claim" /\ pc'[w] = "batch"
        /\ UNCHANGED <<accepted, cur, verdict>>
        /\ \A u \in Workers \ {w} : batch'[u] = batch[u] /\ pc'[u] = pc[u]
        /\ \A m \in Notifs : batch'[w][m] = IF m \in S THEN attempts[m] + 1 ELSE 0
    BY <1>0, <1>5, <2>1 DEF Claim, TypeOK
  <2>4. InHand(w)' = S
    BY <1>0, <2>2, <2>3 DEF InHand, TypeOK
  <2>5. \A u \in Workers \ {w} : InHand(u)' = InHand(u) /\ InHand(u) \cap S = {}
    BY <2>2, <2>3 DEF InHand, IInv, ExclusiveClaim
  <2>6. ExclusiveClaim'
    <3> SUFFICES ASSUME NEW u \in Workers, NEW m \in InHand(u)'
                 PROVE  /\ status'[m] = "sending" /\ attempts'[m] = batch'[u][m]
                        /\ \A x \in Workers \ {u} : m \notin InHand(x)'
      BY DEF ExclusiveClaim
    <3>1. CASE u = w
      BY <2>2, <2>3, <2>4, <2>5, <3>1
    <3>2. CASE u # w
      <4>1. m \in InHand(u) /\ m \notin S /\ m \in Notifs
        BY <2>5, <3>2 DEF InHand
      <4> QED  BY <2>2, <2>3, <2>4, <2>5, <3>2, <4>1 DEF IInv, ExclusiveClaim
    <3> QED  BY <3>1, <3>2
  <2>7. IdleEmpty' /\ VerdictOK'
    BY <2>3 DEF IInv, IdleEmpty, VerdictOK
  <2>8. OnePostPerClaim'
    <3>1. ASSUME NEW m \in Notifs, NEW u \in Workers, m \in InHand(u)', ~Called(u, m)'
          PROVE  accepted[m] < attempts'[m]
      <4>1. CASE u = w
        BY <1>0, <2>2, <2>4, <3>1, <4>1 DEF IInv, OnePostPerClaim, TypeOK
      <4>2. CASE u # w
        BY <2>2, <2>3, <2>5, <3>1, <4>2 DEF IInv, OnePostPerClaim, Called
      <4> QED  BY <4>1, <4>2
    <3> QED  BY <2>2, <2>3, <3>1 DEF OnePostPerClaim
  <2>9. AnswersArrive'
    BY <2>2, <2>3, <2>4, <2>5 DEF IInv, AnswersArrive, Called
  <2> QED  BY <1>0, <2>2, <2>6, <2>7, <2>8, <2>9 DEF IInv
<1>6. ASSUME NEW w \in Workers, ClaimAckLost(w) PROVE IInv'
  <2>1. PICK S \in Claims : ClaimRows(S)
    BY <1>6 DEF ClaimAckLost
  <2>2. /\ AttemptBudget' /\ AuditTrail' /\ Fresh' /\ SentPosted'
        /\ \A m \in Notifs : accepted[m] <= attempts'[m]
        /\ \A m \in S : /\ status[m] = "pending" /\ status'[m] = "sending"
                        /\ attempts'[m] = attempts[m] + 1
        /\ \A m \in Notifs \ S : status'[m] = status[m] /\ attempts'[m] = attempts[m]
        /\ S \in SUBSET Notifs /\ S # {}
    BY <1>6, <2>1, ClaimRowsStep DEF ClaimAckLost
  <2>3. /\ pc[w] = "claim" /\ pc'[w] = "top"
        /\ UNCHANGED <<accepted, batch, cur, verdict>>
        /\ \A u \in Workers \ {w} : pc'[u] = pc[u]
    BY <1>0, <1>6 DEF ClaimAckLost, TypeOK
  <2>4. \A u \in Workers : InHand(u)' = InHand(u) /\ InHand(u) \cap S = {}
    BY <2>2, <2>3 DEF InHand, IInv, ExclusiveClaim
  <2>5. \A u \in Workers : \A m \in InHand(u) :
           m \in Notifs /\ m \notin S /\ status'[m] = status[m] /\ attempts'[m] = attempts[m]
    BY <2>2, <2>4 DEF InHand
  <2>6. ExclusiveClaim'
    BY <2>3, <2>4, <2>5 DEF IInv, ExclusiveClaim
  <2>7. IdleEmpty' /\ VerdictOK'
    BY <2>3 DEF IInv, IdleEmpty, VerdictOK
  <2>8. \A u \in Workers : pc'[u] = "write" <=> pc[u] = "write"
    BY <2>3
  <2>9. OnePostPerClaim' /\ AnswersArrive'
    BY <2>2, <2>3, <2>4, <2>5, <2>8 DEF IInv, OnePostPerClaim, AnswersArrive, Called
  <2> QED  BY <1>0, <2>2, <2>6, <2>7, <2>9 DEF IInv
<1>7. ASSUME NEW w \in Workers, Write(w) PROVE IInv'
  BY <1>0, <1>7, WriteStep DEF Write
<1>8. ASSUME NEW w \in Workers, WriteAckLost(w) PROVE IInv'
  BY <1>0, <1>8, WriteStep DEF WriteAckLost, AckMayBeLost, TryFailed
<1>9. ASSUME NEW w \in Workers, WriteFails(w) PROVE IInv'
  BY <1>0, <1>9, GiveUpStep DEF WriteFails
<1>10. ASSUME NEW w \in Workers, Leave(w) PROVE IInv'
  <2>1. /\ pc[w] # "write" /\ pc'[w] = "exit"
        /\ UNCHANGED <<status, attempts, emailLog, accepted, cur, verdict>>
        /\ \A u \in Workers \ {w} : batch'[u] = batch[u] /\ pc'[u] = pc[u]
        /\ \A m \in Notifs : batch'[w][m] = 0
    BY <1>0, <1>10 DEF Leave, rowVars, NoBatch, TypeOK
  <2> QED  BY <1>0, <2>1, DroppedStep
<1>11. ASSUME NEW p \in Procs, Stop(p) PROVE IInv'
  BY <1>2, <1>11 DEF Stop, rowVars, workerVars
<1>12. ASSUME NEW p \in Procs, Crash(p) PROVE IInv'
  <2>1. /\ UNCHANGED <<status, attempts, emailLog, accepted>>
        /\ \A u \in Workers :
             \/ /\ batch'[u] = batch[u] /\ pc'[u] = pc[u]
                /\ cur'[u] = cur[u] /\ verdict'[u] = verdict[u]
             \/ pc'[u] = "exit" /\ \A m \in Notifs : batch'[u][m] = 0
    BY <1>12 DEF Crash, rowVars, NoBatch
  <2> QED  BY <1>0, <2>1, DroppedStep
<1>13. ASSUME NEW p \in Procs, Restart(p) PROVE IInv'
  <2>1. /\ UNCHANGED <<status, attempts, emailLog, accepted, batch, cur, verdict>>
        /\ \A u \in Workers :
             pc'[u] = pc[u] \/ (pc[u] = "exit" /\ pc'[u] = "top")
    BY <1>13 DEF Restart, rowVars, WorkersOf
  <2> QED
    BY <1>0, <2>1 DEF IInv, ExclusiveClaim, IdleEmpty, VerdictOK, OnePostPerClaim, Called, InHand,
                      AttemptBudget, Fresh, SentPosted, AuditTrail, AnswersArrive
<1>14. ASSUME NEW w \in Workers, Dispatch(w) PROVE IInv'
  BY <1>0, <1>14, DispatchStep
<1>15. CASE UNCHANGED vars
  BY <1>2, <1>15 DEF vars, rowVars, workerVars
<1> QED
  BY <1>1, <1>3, <1>4, <1>5, <1>6, <1>7, <1>8, <1>9, <1>10, <1>11, <1>12, <1>13, <1>14, <1>15
  DEF Next, Work, WorkerFault

\* The safety of the queue, as one inductive invariant.
THEOREM QueueSafe == "acklost" \notin Faults => (Spec => []IInv)
<1> SUFFICES ASSUME "acklost" \notin Faults PROVE Spec => []IInv
  OBVIOUS
<1>1. IInv /\ [Next]_vars => IInv'
  BY InvStep
<1> QED  BY InvInit, <1>1, PTL DEF Spec

\* No two workers ever hold a row, and a held row stays as its claim left it.
THEOREM ClaimsExclusive == "acklost" \notin Faults => (Spec => []ExclusiveClaim)
<1>1. IInv => ExclusiveClaim
  BY DEF IInv
<1> QED  BY <1>1, QueueSafe, PTL

\* When every answer of the provider arrives, a row's mail is accepted at most
\* once, whatever crashes and fails between the call and the write.
THEOREM MailAcceptedOnce == "acklost" \notin Faults => (Spec => []AcceptedOnce)
<1>1. IInv => AcceptedOnce
  BY DEF IInv, AnswersArrive, AcceptedOnce
<1> QED  BY <1>1, QueueSafe, PTL

\* The number of attempts stays within MaxAttempts.
THEOREM AttemptsBounded == "acklost" \notin Faults => (Spec => []AttemptBudget)
<1>1. IInv => AttemptBudget
  BY DEF IInv
<1> QED  BY <1>1, QueueSafe, PTL

\* Settled rows and log rows correspond one to one.
THEOREM LogMatchesTable == "acklost" \notin Faults => (Spec => []AuditTrail)
<1>1. IInv => AuditTrail
  BY DEF IInv
<1> QED  BY <1>1, QueueSafe, PTL

\* A status never claims more, or less, than what happened to the mail.
THEOREM StatusTellsTruth == "acklost" \notin Faults => (Spec => []StatusHonest)
<1>1. IInv => StatusHonest
  BY DEF IInv, StatusHonest, SentPosted, AnswersArrive
<1> QED  BY <1>1, QueueSafe, PTL

\* Terminal statuses are final: a worker writes only rows it holds, and those
\* are 'sending'.
THEOREM TerminalFinal == "acklost" \notin Faults => (Spec => TerminalStays)
<1> SUFFICES ASSUME "acklost" \notin Faults PROVE Spec => TerminalStays
  OBVIOUS
<1>1. IInv /\ [Next]_vars =>
        [\A n \in Notifs : status[n] \in Terminal => status'[n] = status[n]]_vars
  <2> SUFFICES ASSUME IInv, Next, NEW n \in Notifs, status[n] \in Terminal
               PROVE  status'[n] = status[n]
    OBVIOUS
  <2>1. ASSUME NEW m \in Notifs, Enqueue(m) PROVE status'[n] = status[n]
    BY <2>1 DEF Enqueue, Terminal, IInv, TInv, TypeOK
  <2>2. ASSUME NEW m \in Notifs, Clock(m) PROVE status'[n] = status[n]
    BY <2>2 DEF Clock, BackoffElapses, LeaseExpires, DayPasses
  <2>3. ASSUME NEW w \in Workers, Claim(w) \/ ClaimAckLost(w) PROVE status'[n] = status[n]
    <3>1. PICK S \in Claims : ClaimRows(S)
      BY <2>3 DEF Claim, ClaimAckLost
    <3> QED  BY <3>1 DEF Claims, Claimable, ClaimRows, Terminal
  <2>4. ASSUME NEW w \in Workers, Write(w) \/ WriteAckLost(w) PROVE status'[n] = status[n]
    <3>1. pc[w] = "write" /\ SetOutcome(cur[w], verdict[w])
      BY <2>4 DEF Write, WriteAckLost, Record
    <3>2. cur[w] \in InHand(w)
      BY <3>1 DEF IInv, TInv, WriterOK, InHand
    <3>3. status[cur[w]] = "sending"
      BY <3>2 DEF IInv, ExclusiveClaim
    <3> QED  BY <3>1, <3>3 DEF SetOutcome, Terminal, IInv, TInv, TypeOK
  <2>5. ASSUME NEW w \in Workers,
               \/ CheckCap(w) \/ ClaimNothing(w) \/ Dispatch(w) \/ Leave(w) \/ WriteFails(w)
        PROVE  status'[n] = status[n]
    BY <2>5 DEF CheckCap, ClaimNothing, Dispatch, Leave, WriteFails, rowVars
  <2>6. ASSUME NEW p \in Procs, Stop(p) \/ Crash(p) \/ Restart(p) PROVE status'[n] = status[n]
    BY <2>6 DEF Stop, Crash, Restart, rowVars
  <2> QED  BY <2>1, <2>2, <2>3, <2>4, <2>5, <2>6 DEF Next, Work, WorkerFault
<1> QED  BY <1>1, QueueSafe, PTL DEF Spec, TerminalStays

-----------------------------------------------------------------------------
(* The queue implements an outbox.                                         *)

LEMMA OutboxInit == Init => O!Init
<1>1. Init => ArchiveMap = {}
  BY DEF Init, ArchiveMap, Terminal
<1> QED  BY <1>1 DEF Init, O!Init

\* Writing an outcome is settling the message, or taking it back for a retry.
LEMMA RecordIsOutboxStep ==
    ASSUME IInv, NEW w \in Workers, pc[w] = "write",
           Record(cur[w], verdict[w]), UNCHANGED accepted
    PROVE  O!Next
<1> DEFINE n == cur[w]
           v == verdict[w]
<1>1. n \in Notifs /\ v \in Verdicts /\ TypeOK
  BY DEF IInv, TInv, WriterOK
<1>2. status[n] = "sending" /\ attempts[n] = batch[w][n]
  BY <1>1 DEF IInv, TInv, WriterOK, ExclusiveClaim, InHand
<1>3. /\ v = "retry" => attempts[n] < MaxAttempts
      /\ v = "dead" => attempts[n] = MaxAttempts
      /\ v = "sent" => accepted[n] > 0
  BY <1>2 DEF IInv, VerdictOK
<1>4. /\ status' = [status EXCEPT ![n] = IF v = "retry" THEN "pending" ELSE v]
      /\ UNCHANGED <<attempts, accepted>>
  BY DEF Record, SetOutcome
<1>5. CASE v = "retry"
  <2>1. ArchiveMap' = ArchiveMap
    BY <1>5 DEF Record, LogOutcome, ArchiveMap
  <2>2. O!TryAgain(n)
    BY <1>2, <1>3, <1>4, <1>5, <2>1 DEF O!TryAgain
  <2> QED  BY <1>1, <2>2 DEF O!Next
<1>6. CASE v # "retry"
  <2>1. v \in Terminal
    BY <1>1, <1>6 DEF Verdicts
  <2>2. ASSUME NEW p \in Notifs \X Terminal
        PROVE  emailLog'[p[1]][p[2]] > 0 <=> (emailLog[p[1]][p[2]] > 0 \/ p = <<n, v>>)
    <3>1. PICK m \in Notifs, s \in Terminal : p = <<m, s>>
      BY <2>2
    <3>2. emailLog'[m][s] = emailLog[m][s] + IF m = n /\ s = v THEN 1 ELSE 0
      BY <1>1, RecordEffect
    <3>3. emailLog[m][s] \in Nat
      BY <1>1 DEF TypeOK
    <3> QED  BY <3>1, <3>2, <3>3
  <2>3. ArchiveMap' = ArchiveMap \cup {<<n, v>>}
    BY <1>1, <2>1, <2>2 DEF ArchiveMap
  <2>4. O!Settle(n, v)
    BY <1>2, <1>3, <1>4, <1>6, <2>3 DEF O!Settle
  <2> QED  BY <1>1, <2>1, <2>4 DEF O!Next, O!Verdict, Terminal
<1> QED  BY <1>5, <1>6

\* Claiming rows is taking the messages, whether the worker learns of it or not.
LEMMA ClaimIsOutboxStep ==
    ASSUME IInv, NEW S \in Claims, ClaimRows(S), UNCHANGED accepted
    PROVE  O!Next
<1>1. S \in SUBSET Notifs /\ \A m \in S : status[m] = "pending" /\ attempts[m] < MaxAttempts
  BY DEF Claims, Claimable, IInv, AttemptBudget
<1>2. ArchiveMap' = ArchiveMap
  BY DEF ClaimRows, ArchiveMap
<1>3. O!Take(S)
  BY <1>1, <1>2 DEF ClaimRows, O!Take
<1> QED  BY <1>1, <1>3 DEF O!Next

LEMMA OutboxStep ==
    IInv /\ [Next]_vars => [O!Next]_(O!vars)
<1> SUFFICES ASSUME IInv, [Next]_vars
             PROVE  O!Next \/ UNCHANGED <<status, attempts, accepted, ArchiveMap>>
  BY DEF O!vars
<1>1. ASSUME UNCHANGED <<status, attempts, accepted, emailLog>>
      PROVE  UNCHANGED <<status, attempts, accepted, ArchiveMap>>
  BY <1>1 DEF ArchiveMap
<1>2. ASSUME NEW n \in Notifs, Enqueue(n) PROVE O!Next
  <2>1. ArchiveMap' = ArchiveMap
    BY <1>2 DEF Enqueue, ArchiveMap
  <2>2. O!Submit(n)
    BY <1>2, <2>1 DEF Enqueue, O!Submit
  <2> QED  BY <2>2 DEF O!Next
<1>3. ASSUME NEW w \in Workers, Claim(w) \/ ClaimAckLost(w) PROVE O!Next
  <2>1. PICK S \in Claims : ClaimRows(S) /\ UNCHANGED accepted
    BY <1>3 DEF Claim, ClaimAckLost
  <2> QED  BY <2>1, ClaimIsOutboxStep
<1>4. ASSUME NEW w \in Workers, Write(w) \/ WriteAckLost(w) PROVE O!Next
  BY <1>4, RecordIsOutboxStep DEF Write, WriteAckLost
<1>5. ASSUME NEW w \in Workers, Dispatch(w)
      PROVE  O!Next \/ UNCHANGED <<status, attempts, accepted, ArchiveMap>>
  <2>1. PICK n \in InHand(w), r \in UNION {Responses(m) : m \in InHand(w)} :
           accepted' = [accepted EXCEPT ![n] = IF Accepts(r) THEN @ + 1 ELSE @]
    BY <1>5 DEF Dispatch
  <2>2. /\ pc[w] = "batch" /\ n \in Notifs
        /\ UNCHANGED <<status, attempts, emailLog>> /\ ArchiveMap' = ArchiveMap
    BY <1>5 DEF Dispatch, rowVars, InHand, ArchiveMap
  <2>3. status[n] = "sending" /\ accepted[n] < attempts[n]
    BY <2>2 DEF IInv, ExclusiveClaim, OnePostPerClaim, Called
  <2>4. CASE Accepts(r)
    <3>1. O!Post(n)
      BY <2>1, <2>2, <2>3, <2>4 DEF O!Post
    <3> QED  BY <2>2, <3>1 DEF O!Next
  <2>5. CASE ~Accepts(r)
    <3>1. accepted' = accepted
      BY <2>1, <2>2, <2>5 DEF IInv, TInv, TypeOK
    <3> QED  BY <2>2, <3>1
  <2> QED  BY <2>4, <2>5
<1>6. ASSUME NEW n \in Notifs, Clock(n) PROVE UNCHANGED <<status, attempts, accepted, emailLog>>
  BY <1>6 DEF Clock, BackoffElapses, LeaseExpires, DayPasses
<1>7. ASSUME NEW w \in Workers, \/ CheckCap(w) \/ ClaimNothing(w) \/ Leave(w) \/ WriteFails(w)
      PROVE UNCHANGED <<status, attempts, accepted, emailLog>>
  BY <1>7 DEF CheckCap, ClaimNothing, Leave, WriteFails, rowVars
<1>8. ASSUME NEW p \in Procs, Stop(p) \/ Crash(p) \/ Restart(p)
      PROVE UNCHANGED <<status, attempts, accepted, emailLog>>
  BY <1>8 DEF Stop, Crash, Restart, rowVars
<1>9. CASE UNCHANGED vars
  BY <1>1, <1>9 DEF vars, rowVars
<1> QED
  BY <1>1, <1>2, <1>3, <1>4, <1>5, <1>6, <1>7, <1>8, <1>9 DEF Next, Work, WorkerFault

\* Every behaviour of the queue, crashes, shutdowns and failed writes included,
\* is one of an outbox whose budget is MaxAttempts.
THEOREM QueueIsOutbox == "acklost" \notin Faults => (Spec => ImplementsOutbox)
<1> SUFFICES ASSUME "acklost" \notin Faults PROVE Spec => O!Spec
  BY DEF ImplementsOutbox
<1>1. IInv /\ [Next]_vars => [O!Next]_(O!vars)
  BY OutboxStep
<1> QED  BY <1>1, OutboxInit, QueueSafe, PTL DEF Spec, O!Spec

OP == INSTANCE OutboxProofs WITH
         Messages <- Notifs, Budget <- MaxAttempts,
         stage <- status, spent <- attempts, mail <- accepted,
         archive <- ArchiveMap

\* What every outbox promises the queue promises: of each row, its claims, its
\* submissions, its status and its log rows agree, and the mail of a settled row is
\* never submitted again.
THEOREM QueueKeepsAccounts ==
    "acklost" \notin Faults => (Spec => []OP!Promise /\ OP!SettledStays)
<1> SUFFICES ASSUME "acklost" \notin Faults PROVE Spec => []OP!Promise /\ OP!SettledStays
  OBVIOUS
<1>1. Spec => OP!Spec
  <2>1. O!Init => OP!Init
    BY DEF O!Init, OP!Init
  <2>2. [O!Next]_(O!vars) => [OP!Next]_(OP!vars)
    BY DEF O!Next, OP!Next, O!vars, OP!vars, O!Submit, OP!Submit, O!Take, OP!Take,
           O!Post, OP!Post, O!TryAgain, OP!TryAgain, O!Settle, OP!Settle, O!Verdict, OP!Verdict
  <2> QED  BY <2>1, <2>2, QueueIsOutbox, PTL DEF ImplementsOutbox, O!Spec, OP!Spec
<1>2. MaxAttempts \in Nat
  BY BoundAssumption
<1>3. (OP!Spec => []OP!Promise) /\ (OP!Spec => OP!SettledStays)
  BY <1>2, OP!OutboxKeepsAccounts, OP!OutboxSettlesForGood
<1> QED  BY <1>1, <1>3, PTL

-----------------------------------------------------------------------------
(* The daily cap, under every fault.  A worker that has passed the check   *)
(* may still add a whole batch: the batches that are allowed are counted   *)
(* before they are claimed, and the rows in hand as if they were sent.     *)

\* The rows in the hands of some workers.
Hands(V) == {n \in Notifs : \E w \in V : batch[w][n] > 0}

\* The rows there are; finite, however many the API may ever enqueue.
Enqueued == {n \in Notifs : status[n] # "absent"}

\* The workers that have passed the check of the cap and not claimed.
Claiming == {w \in Workers : pc[w] = "claim"}

\* What the count of the next check may come to without another claim.
Promised == SentLastDay \cup Hands(Workers)

\* No workers together hold more than a batch each.
BatchesBounded ==
    \A V \in SUBSET Workers : Cardinality(Hands(V)) <= BatchLimit * Cardinality(V)

PromiseBounded ==
    MaxDaily > 0 =>
        Cardinality(Promised) + BatchLimit * Cardinality(Claiming)
            <= MaxDaily - 1 + BatchLimit * Cardinality(Workers)

HandsEnqueued == Hands(Workers) \subseteq Enqueued

CapInv ==
    /\ TInv
    /\ IdleEmpty
    /\ IsFiniteSet(Enqueued)
    /\ HandsEnqueued
    /\ BatchesBounded
    /\ PromiseBounded

\* The two facts of arithmetic that the bounds need.
LEMMA ProductSteps ==
    ASSUME NEW b \in Nat, NEW k \in Nat
    PROVE  /\ b * (k + 1) = b * k + b
           /\ \A j \in Nat : j <= k => b * j <= b * k
<1>1. b * (k + 1) = b * k + b
  OBVIOUS
<1>2. ASSUME NEW j \in Nat, j <= k PROVE b * j <= b * k
  <2>1. PICK d \in Nat : k = j + d
    <3>1. k - j \in Nat /\ k = j + (k - j)
      BY <1>2
    <3> QED  BY <3>1
  <2>2. b * k = b * j + b * d /\ b * d \in Nat /\ b * j \in Nat
    BY <2>1
  <2> QED  BY <2>2
<1> QED  BY <1>1, <1>2

\* A union is no larger than its parts together.
LEMMA UnionBound ==
    ASSUME NEW A, NEW B, IsFiniteSet(A), IsFiniteSet(B)
    PROVE  /\ IsFiniteSet(A \cup B)
           /\ Cardinality(A \cup B) <= Cardinality(A) + Cardinality(B)
<1>1. IsFiniteSet(A \cap B) /\ Cardinality(A \cap B) \in Nat
  <2>1. A \cap B \in SUBSET A
    OBVIOUS
  <2>2. IsFiniteSet(A \cap B)
    BY <2>1, FS_Subset
  <2> QED  BY <2>2, FS_CardinalityType
<1>2. Cardinality(A) \in Nat /\ Cardinality(B) \in Nat
  BY FS_CardinalityType
<1>3. /\ IsFiniteSet(A \cup B)
      /\ Cardinality(A \cup B) = Cardinality(A) + Cardinality(B) - Cardinality(A \cap B)
  BY FS_Union
<1> QED  BY <1>1, <1>2, <1>3

\* The rows in hand are finitely many.
LEMMA HandsFinite ==
    ASSUME IsFiniteSet(Enqueued), HandsEnqueued, NEW V \in SUBSET Workers
    PROVE  /\ IsFiniteSet(Hands(V)) /\ Cardinality(Hands(V)) \in Nat
           /\ IsFiniteSet(Promised) /\ Cardinality(Promised) \in Nat
<1>1. Hands(V) \in SUBSET Enqueued
  BY DEF HandsEnqueued, Hands
<1>2. Promised \in SUBSET Enqueued
  BY DEF HandsEnqueued, Promised, SentLastDay, Enqueued
<1>3. IsFiniteSet(Hands(V)) /\ IsFiniteSet(Promised)
  BY <1>1, <1>2, FS_Subset
<1> QED  BY <1>3, FS_CardinalityType

LEMMA WorkersFinite ==
    ASSUME NEW V \in SUBSET Workers
    PROVE  /\ IsFiniteSet(V) /\ Cardinality(V) \in Nat
           /\ \A T \in SUBSET V : Cardinality(T) <= Cardinality(V)
<1>1. IsFiniteSet(V)
  BY WorkersAssumption, FS_Subset
<1>2. \A T \in SUBSET V : Cardinality(T) <= Cardinality(V)
  BY <1>1, FS_Subset
<1> QED  BY <1>1, <1>2, FS_CardinalityType

LEMMA CapInit == Init => CapInv
<1> SUFFICES ASSUME Init PROVE CapInv
  OBVIOUS
<1>1. TInv /\ IdleEmpty
  BY TypeInit DEF Init, IdleEmpty, NoBatch
<1>2. Enqueued = {} /\ SentLastDay = {} /\ Claiming = {} /\ \A V \in SUBSET Workers : Hands(V) = {}
  BY DEF Init, Enqueued, SentLastDay, Claiming, Hands, NoBatch
<1>3. Promised = {}
  BY <1>2 DEF Promised
<1>4. \A V \in SUBSET Workers : BatchLimit * Cardinality(V) \in Nat
  BY BoundAssumption, WorkersFinite
<1>5. IsFiniteSet(Enqueued) /\ HandsEnqueued
  BY <1>2, FS_EmptySet DEF HandsEnqueued
<1>6. BatchesBounded
  BY <1>2, <1>4, FS_EmptySet DEF BatchesBounded
<1>7. PromiseBounded
  <2>1. Cardinality(Promised) = 0 /\ BatchLimit * Cardinality(Claiming) = 0
    BY <1>2, <1>3, FS_EmptySet, BoundAssumption
  <2>2. BatchLimit * Cardinality(Workers) \in Nat
    BY <1>4
  <2> QED  BY <2>1, <2>2, BoundAssumption DEF PromiseBounded
<1> QED  BY <1>1, <1>5, <1>6, <1>7 DEF CapInv

\* A step after which nobody holds more, no further worker has passed the check
\* and only rows in hand have become sent keeps the bounds.
LEMMA NothingPromised ==
    ASSUME CapInv, TInv', IdleEmpty', IsFiniteSet(Enqueued)', Enqueued \subseteq Enqueued',
           \A u \in Workers : \A n \in Notifs : batch'[u][n] > 0 => batch[u][n] > 0,
           \A u \in Workers : pc'[u] = "claim" => pc[u] = "claim",
           SentLastDay' \subseteq Promised
    PROVE  CapInv'
<1>1. \A V \in SUBSET Workers : Hands(V)' \in SUBSET Hands(V)
  BY DEF Hands
<1>2. HandsEnqueued'
  <2>1. Hands(Workers)' \subseteq Hands(Workers)
    BY <1>1
  <2> QED  BY <2>1 DEF CapInv, HandsEnqueued
<1>3. BatchesBounded'
  <2> SUFFICES ASSUME NEW V \in SUBSET Workers
               PROVE  Cardinality(Hands(V)') <= BatchLimit * Cardinality(V)
    BY DEF BatchesBounded
  <2>1. IsFiniteSet(Hands(V)) /\ Cardinality(Hands(V)) \in Nat
    BY HandsFinite DEF CapInv
  <2>2. IsFiniteSet(Hands(V)') /\ Cardinality(Hands(V)') <= Cardinality(Hands(V))
    BY <1>1, <2>1, FS_Subset
  <2>3. Cardinality(Hands(V)') \in Nat
    BY <2>2, FS_CardinalityType
  <2>4. Cardinality(Hands(V)) <= BatchLimit * Cardinality(V)
    BY DEF CapInv, BatchesBounded
  <2>5. BatchLimit * Cardinality(V) \in Nat
    BY BoundAssumption, WorkersFinite
  <2> QED  BY <2>1, <2>2, <2>3, <2>4, <2>5
<1>4. PromiseBounded'
  <2> SUFFICES ASSUME MaxDaily > 0
               PROVE  Cardinality(Promised') + BatchLimit * Cardinality(Claiming')
                        <= MaxDaily - 1 + BatchLimit * Cardinality(Workers)
    BY DEF PromiseBounded
  <2>1. Promised' \in SUBSET Promised
    <3>1. Hands(Workers)' \subseteq Hands(Workers)
      BY <1>1
    <3> QED  BY <3>1 DEF Promised
  <2>2. IsFiniteSet(Promised) /\ Cardinality(Promised) \in Nat
    BY HandsFinite DEF CapInv
  <2>3. IsFiniteSet(Promised') /\ Cardinality(Promised') <= Cardinality(Promised)
    BY <2>1, <2>2, FS_Subset
  <2>4. Cardinality(Promised') \in Nat
    BY <2>3, FS_CardinalityType
  <2>5. Claiming \in SUBSET Workers /\ Claiming' \in SUBSET Claiming /\ Claiming' \in SUBSET Workers
    BY DEF Claiming
  <2>6. /\ Cardinality(Claiming) \in Nat /\ Cardinality(Claiming') \in Nat
        /\ Cardinality(Claiming') <= Cardinality(Claiming)
    BY <2>5, WorkersFinite
  <2>7. BatchLimit * Cardinality(Claiming') <= BatchLimit * Cardinality(Claiming)
    BY <2>6, ProductSteps, BoundAssumption
  <2>8. Cardinality(Promised) + BatchLimit * Cardinality(Claiming)
          <= MaxDaily - 1 + BatchLimit * Cardinality(Workers)
    BY DEF CapInv, PromiseBounded
  <2>9. /\ BatchLimit * Cardinality(Claiming') \in Nat /\ BatchLimit * Cardinality(Claiming) \in Nat
        /\ BatchLimit * Cardinality(Workers) \in Nat /\ MaxDaily \in Nat
    BY <2>6, BoundAssumption, WorkersFinite
  <2> QED  BY <2>2, <2>3, <2>4, <2>7, <2>8, <2>9
<1> QED  BY <1>2, <1>3, <1>4 DEF CapInv

\* A worker passes the check: it is allowed a batch, and those who hold rows
\* are the others.
LEMMA CheckStep ==
    ASSUME CapInv, TInv', NEW w \in Workers, CheckCap(w)
    PROVE  CapInv'
<1> DEFINE V == Workers \ (Claiming \cup {w})
<1>1. /\ pc[w] = "top" /\ UnderCap
      /\ UNCHANGED <<status, recent, batch>>
      /\ pc' = [pc EXCEPT ![w] = "claim"]
  BY DEF CheckCap, rowVars
<1>2. Enqueued' = Enqueued /\ SentLastDay' = SentLastDay /\ \A T \in SUBSET Workers : Hands(T)' = Hands(T)
  BY <1>1 DEF Enqueued, SentLastDay, Hands
<1>3. IdleEmpty' /\ HandsEnqueued' /\ BatchesBounded'
  <2>1. IdleEmpty'
    BY <1>1 DEF CapInv, IdleEmpty, TInv, TypeOK
  <2>2. Hands(Workers)' = Hands(Workers)
    BY <1>2
  <2>3. HandsEnqueued'
    BY <1>2, <2>2 DEF CapInv, HandsEnqueued
  <2>4. BatchesBounded'
    BY <1>2 DEF CapInv, BatchesBounded
  <2> QED  BY <2>1, <2>3, <2>4
<1>4. PromiseBounded'
  <2> SUFFICES ASSUME MaxDaily > 0
               PROVE  Cardinality(Promised') + BatchLimit * Cardinality(Claiming')
                        <= MaxDaily - 1 + BatchLimit * Cardinality(Workers)
    BY DEF PromiseBounded
  <2>1. Claiming' = Claiming \cup {w} /\ Claiming' \in SUBSET Workers
    BY <1>1 DEF Claiming, CapInv, TInv, TypeOK
  <2>2. Promised' = SentLastDay \cup Hands(V)
    <3>1. Hands(Workers) = Hands(V)
      <4>1. ASSUME NEW u \in Workers, NEW n \in Notifs, batch[u][n] > 0 PROVE u \in V
        BY <1>1, <4>1 DEF Claiming, CapInv, IdleEmpty
      <4> QED  BY <4>1 DEF Hands
    <3>2. Hands(Workers)' = Hands(Workers)
      BY <1>2
    <3> QED  BY <1>2, <3>1, <3>2 DEF Promised
  <2>3. IsFiniteSet(SentLastDay) /\ IsFiniteSet(Hands(V))
    <3>1. SentLastDay \in SUBSET Enqueued
      BY DEF SentLastDay, Enqueued
    <3>2. IsFiniteSet(SentLastDay)
      BY <3>1, FS_Subset DEF CapInv
    <3>3. V \in SUBSET Workers
      OBVIOUS
    <3> QED  BY <3>2, <3>3, HandsFinite DEF CapInv
  <2>4. Cardinality(Promised') <= Cardinality(SentLastDay) + Cardinality(Hands(V))
    BY <2>2, <2>3, UnionBound
  <2>5. /\ Cardinality(SentLastDay) \in Nat /\ Cardinality(Hands(V)) \in Nat
        /\ Cardinality(Promised') \in Nat
    BY <2>2, <2>3, UnionBound, FS_CardinalityType
  <2>6. MaxDaily \in Nat /\ Cardinality(SentLastDay) <= MaxDaily - 1
    BY <1>1, <2>5, BoundAssumption DEF UnderCap
  <2>7. V \in SUBSET Workers /\ Cardinality(Hands(V)) <= BatchLimit * Cardinality(V)
    BY DEF CapInv, BatchesBounded
  <2>8. Cardinality(Workers) = Cardinality(V) + Cardinality(Claiming')
    <3>1. V = Workers \ Claiming'
      BY <2>1
    <3>2. IsFiniteSet(V) /\ IsFiniteSet(Claiming') /\ Cardinality(V) \in Nat /\ Cardinality(Claiming') \in Nat
      BY <2>1, <2>7, WorkersFinite
    <3>3. V \cap Claiming' = {} /\ V \cup Claiming' = Workers
      BY <2>1, <3>1
    <3>4. Cardinality(V \cup Claiming') =
            Cardinality(V) + Cardinality(Claiming') - Cardinality(V \cap Claiming')
      BY <3>2, FS_Union
    <3> HIDE DEF V
    <3>5. Cardinality(V \cap Claiming') = 0 /\ Cardinality(V \cup Claiming') = Cardinality(Workers)
      BY <3>3, FS_EmptySet, Zenon
    <3> QED  BY <3>2, <3>4, <3>5
  <2>9. /\ Cardinality(V) \in Nat /\ Cardinality(Claiming') \in Nat
        /\ BatchLimit * Cardinality(V) \in Nat /\ BatchLimit * Cardinality(Claiming') \in Nat
    BY <2>1, <2>7, WorkersFinite, BoundAssumption
  <2> HIDE DEF V
  <2>10. BatchLimit * Cardinality(Workers)
           = BatchLimit * Cardinality(V) + BatchLimit * Cardinality(Claiming')
    BY <2>8, <2>9, BoundAssumption
  <2> QED  BY <2>4, <2>5, <2>6, <2>7, <2>9, <2>10
<1> QED  BY <1>2, <1>3, <1>4 DEF CapInv

\* A worker claims the batch it was allowed.
LEMMA ClaimStep ==
    ASSUME CapInv, TInv', NEW w \in Workers, Claim(w)
    PROVE  CapInv'
<1>0. TypeOK
  BY DEF CapInv, TInv
<1>1. PICK S \in Claims : /\ ClaimRows(S)
                          /\ batch' = [batch EXCEPT ![w] =
                               [n \in Notifs |-> IF n \in S THEN attempts[n] + 1 ELSE 0]]
  BY DEF Claim
<1>2. S \in SUBSET Notifs /\ Cardinality(S) <= BatchLimit /\ \A n \in S : status[n] = "pending"
  BY DEF Claims, Claimable
<1>3. Enqueued' = Enqueued /\ SentLastDay' = SentLastDay /\ S \in SUBSET Enqueued
  BY <1>1, <1>2 DEF ClaimRows, Enqueued, SentLastDay
<1>4. IsFiniteSet(S) /\ Cardinality(S) \in Nat
  <2>1. IsFiniteSet(S)
    BY <1>3, FS_Subset DEF CapInv
  <2> QED  BY <2>1, FS_CardinalityType
<1>5. /\ \A T \in SUBSET Workers : Hands(T)' \subseteq Hands(T \ {w}) \cup S
      /\ \A T \in SUBSET Workers : w \notin T => Hands(T)' = Hands(T)
  BY <1>0, <1>1 DEF Hands, TypeOK
<1>6. pc[w] = "claim" /\ pc' = [pc EXCEPT ![w] = "batch"]
  BY DEF Claim
<1>7. IdleEmpty'
  BY <1>0, <1>1, <1>6 DEF CapInv, IdleEmpty, TypeOK
<1>8. HandsEnqueued'
  <2>1. Hands(Workers)' \subseteq Hands(Workers \ {w}) \cup S
    BY <1>5
  <2>2. Hands(Workers \ {w}) \subseteq Hands(Workers)
    BY DEF Hands
  <2> QED  BY <1>3, <2>1, <2>2 DEF CapInv, HandsEnqueued
<1>9. BatchesBounded'
  <2> SUFFICES ASSUME NEW T \in SUBSET Workers
               PROVE  Cardinality(Hands(T)') <= BatchLimit * Cardinality(T)
    BY DEF BatchesBounded
  <2>1. CASE w \notin T
    <3>1. Hands(T)' = Hands(T)
      BY <1>5, <2>1
    <3> QED  BY <3>1 DEF CapInv, BatchesBounded
  <2>2. CASE w \in T
    <3> DEFINE R == T \ {w}
    <3>1. R \in SUBSET Workers
      OBVIOUS
    <3>2. IsFiniteSet(Hands(R)) /\ Cardinality(Hands(R)) \in Nat
      BY <3>1, HandsFinite DEF CapInv
    <3>3. Hands(T)' \in SUBSET (Hands(R) \cup S)
      BY <1>5
    <3>4. /\ IsFiniteSet(Hands(R) \cup S)
          /\ Cardinality(Hands(R) \cup S) <= Cardinality(Hands(R)) + Cardinality(S)
      BY <1>4, <3>2, UnionBound
    <3>5. IsFiniteSet(Hands(T)') /\ Cardinality(Hands(T)') <= Cardinality(Hands(R) \cup S)
      BY <3>3, <3>4, FS_Subset
    <3>6. Cardinality(Hands(T)') \in Nat /\ Cardinality(Hands(R) \cup S) \in Nat
      BY <3>4, <3>5, FS_CardinalityType
    <3>7. Cardinality(Hands(R)) <= BatchLimit * Cardinality(R)
      BY <3>1 DEF CapInv, BatchesBounded
    <3>8. IsFiniteSet(T) /\ Cardinality(T) \in Nat /\ Cardinality(R) \in Nat
      BY <3>1, WorkersFinite
    <3>9. Cardinality(T) = Cardinality(R) + 1
      <4>1. Cardinality(R) = Cardinality(T) - 1
        BY <2>2, <3>8, FS_RemoveElement
      <4> HIDE DEF R
      <4> QED  BY <3>8, <4>1
    <3> HIDE DEF R
    <3>10. /\ BatchLimit * Cardinality(T) = BatchLimit * Cardinality(R) + BatchLimit
           /\ BatchLimit * Cardinality(R) \in Nat
      BY <3>8, <3>9, ProductSteps, BoundAssumption
    <3> QED  BY <1>2, <1>4, <3>2, <3>4, <3>5, <3>6, <3>7, <3>10, BoundAssumption
  <2> QED  BY <2>1, <2>2
<1>10. PromiseBounded'
  <2> SUFFICES ASSUME MaxDaily > 0
               PROVE  Cardinality(Promised') + BatchLimit * Cardinality(Claiming')
                        <= MaxDaily - 1 + BatchLimit * Cardinality(Workers)
    BY DEF PromiseBounded
  <2>1. Claiming' = Claiming \ {w} /\ w \in Claiming /\ Claiming \in SUBSET Workers
    BY <1>0, <1>6 DEF Claiming, TypeOK
  <2>2. Promised' \in SUBSET (Promised \cup S)
    <3>1. Hands(Workers)' \subseteq Hands(Workers \ {w}) \cup S
      BY <1>5
    <3>2. Hands(Workers \ {w}) \subseteq Hands(Workers)
      BY DEF Hands
    <3> QED  BY <1>3, <3>1, <3>2 DEF Promised
  <2>3. IsFiniteSet(Promised) /\ Cardinality(Promised) \in Nat
    BY HandsFinite DEF CapInv
  <2>4. /\ IsFiniteSet(Promised \cup S)
        /\ Cardinality(Promised \cup S) <= Cardinality(Promised) + Cardinality(S)
    BY <1>4, <2>3, UnionBound
  <2>5. IsFiniteSet(Promised') /\ Cardinality(Promised') <= Cardinality(Promised \cup S)
    BY <2>2, <2>4, FS_Subset
  <2>6. Cardinality(Promised') \in Nat /\ Cardinality(Promised \cup S) \in Nat
    BY <2>4, <2>5, FS_CardinalityType
  <2>7. /\ Cardinality(Claiming) \in Nat /\ Cardinality(Claiming') \in Nat
        /\ Cardinality(Claiming) = Cardinality(Claiming') + 1
    <3>1. IsFiniteSet(Claiming) /\ Cardinality(Claiming) \in Nat
      BY <2>1, WorkersFinite
    <3>2. Cardinality(Claiming') = Cardinality(Claiming) - 1
      BY <2>1, <3>1, FS_RemoveElement
    <3>3. Claiming' \in SUBSET Workers
      BY <2>1
    <3>4. Cardinality(Claiming') \in Nat
      BY <3>3, WorkersFinite
    <3> QED  BY <3>1, <3>2, <3>4
  <2>8. /\ BatchLimit * Cardinality(Claiming) = BatchLimit * Cardinality(Claiming') + BatchLimit
        /\ BatchLimit * Cardinality(Claiming') \in Nat
    BY <2>7, ProductSteps, BoundAssumption
  <2>9. Cardinality(Promised) + BatchLimit * Cardinality(Claiming)
          <= MaxDaily - 1 + BatchLimit * Cardinality(Workers)
    BY DEF CapInv, PromiseBounded
  <2>10. BatchLimit * Cardinality(Workers) \in Nat /\ MaxDaily \in Nat
    BY BoundAssumption, WorkersFinite
  <2> QED  BY <1>2, <1>4, <2>3, <2>4, <2>5, <2>6, <2>8, <2>9, <2>10, BoundAssumption
<1> QED  BY <1>3, <1>7, <1>8, <1>9, <1>10 DEF CapInv

\* Only the rows a worker writes become sent: they are in its hands.
LEMMA RecordPromised ==
    ASSUME TInv, NEW w \in Workers, pc[w] = "write", Record(cur[w], verdict[w])
    PROVE  /\ SentLastDay' \subseteq Promised
           /\ Enqueued \subseteq Enqueued'
           /\ Enqueued' \subseteq Enqueued \cup {cur[w]}
<1>1. cur[w] \in Notifs /\ batch[w][cur[w]] > 0 /\ verdict[w] \in Verdicts
  BY DEF TInv, WriterOK
<1>2. /\ status' = [status EXCEPT ![cur[w]] = IF verdict[w] = "retry" THEN "pending" ELSE verdict[w]]
      /\ recent' = [recent EXCEPT ![cur[w]] = verdict[w] = "sent"]
  BY DEF Record, SetOutcome
<1>3. cur[w] \in Hands(Workers)
  BY <1>1 DEF Hands
<1>4. SentLastDay' \subseteq SentLastDay \cup {cur[w]}
  BY <1>1, <1>2 DEF SentLastDay, TInv, TypeOK
<1>5. Enqueued \subseteq Enqueued' /\ Enqueued' \subseteq Enqueued \cup {cur[w]}
  BY <1>1, <1>2 DEF Enqueued, TInv, TypeOK, Verdicts, Terminal
<1> QED  BY <1>3, <1>4, <1>5 DEF Promised

\* The rows grow by at most one.
LEMMA EnqueuedFinite ==
    ASSUME IsFiniteSet(Enqueued), NEW n, Enqueued \subseteq Enqueued',
           Enqueued' \subseteq Enqueued \cup {n}
    PROVE  IsFiniteSet(Enqueued)'
<1>1. IsFiniteSet(Enqueued \cup {n})
  BY FS_AddElement
<1>2. Enqueued' \in SUBSET (Enqueued \cup {n})
  OBVIOUS
<1>3. IsFiniteSet(Enqueued')
  BY <1>1, <1>2, FS_Subset
<1> QED  BY <1>3

LEMMA CapStep == CapInv /\ [Next]_vars => CapInv'
<1> SUFFICES ASSUME CapInv, [Next]_vars PROVE CapInv'
  OBVIOUS
<1>1. TInv /\ TInv' /\ TypeOK
  BY TypeStep DEF CapInv, TInv
<1>2. ASSUME UNCHANGED <<status, recent, batch, pc>> PROVE CapInv'
  <2>1. Enqueued' = Enqueued /\ SentLastDay' = SentLastDay /\ IdleEmpty'
    BY <1>2 DEF Enqueued, SentLastDay, CapInv, IdleEmpty
  <2>2. IsFiniteSet(Enqueued)'
    BY <2>1 DEF CapInv
  <2> QED  BY <1>1, <1>2, <2>1, <2>2, NothingPromised DEF Promised
<1>3. ASSUME NEW n \in Notifs, Enqueue(n) PROVE CapInv'
  <2>1. status' = [status EXCEPT ![n] = "pending"] /\ UNCHANGED <<recent, batch, pc>>
    BY <1>3 DEF Enqueue, workerVars
  <2>2. /\ Enqueued \subseteq Enqueued' /\ Enqueued' \subseteq Enqueued \cup {n}
        /\ SentLastDay' \subseteq SentLastDay /\ IdleEmpty'
    BY <1>1, <2>1 DEF Enqueued, SentLastDay, TypeOK, CapInv, IdleEmpty
  <2>3. IsFiniteSet(Enqueued)'
    BY <2>2, EnqueuedFinite DEF CapInv
  <2> QED  BY <1>1, <2>1, <2>2, <2>3, NothingPromised DEF Promised
<1>4. ASSUME NEW n \in Notifs, DayPasses(n) PROVE CapInv'
  <2>1. recent' = [recent EXCEPT ![n] = FALSE] /\ UNCHANGED <<status, batch, pc>>
    BY <1>4 DEF DayPasses, workerVars
  <2>2. Enqueued' = Enqueued /\ SentLastDay' \subseteq SentLastDay /\ IdleEmpty'
    BY <1>1, <2>1 DEF Enqueued, SentLastDay, TypeOK, CapInv, IdleEmpty
  <2>3. IsFiniteSet(Enqueued)'
    BY <2>2 DEF CapInv
  <2> QED  BY <1>1, <2>1, <2>2, <2>3, NothingPromised DEF Promised
<1>5. ASSUME NEW n \in Notifs, BackoffElapses(n) \/ LeaseExpires(n) PROVE CapInv'
  BY <1>2, <1>5 DEF BackoffElapses, LeaseExpires, workerVars
<1>6. ASSUME NEW w \in Workers, CheckCap(w) PROVE CapInv'
  BY <1>1, <1>6, CheckStep
<1>7. ASSUME NEW w \in Workers, Claim(w) PROVE CapInv'
  BY <1>1, <1>7, ClaimStep
<1>8. ASSUME NEW w \in Workers, ClaimAckLost(w) PROVE CapInv'
  <2>1. PICK S \in Claims : ClaimRows(S)
    BY <1>8 DEF ClaimAckLost
  <2>2. \A n \in S : n \in Notifs /\ status[n] = "pending"
    BY DEF Claims, Claimable
  <2>3. Enqueued' = Enqueued /\ SentLastDay' = SentLastDay
    BY <2>1, <2>2 DEF ClaimRows, Enqueued, SentLastDay
  <2>4. IsFiniteSet(Enqueued)'
    BY <2>3 DEF CapInv
  <2>5. /\ pc[w] = "claim" /\ pc' = [pc EXCEPT ![w] = "top"] /\ batch' = batch
        /\ \A u \in Workers : pc'[u] = "claim" => pc[u] = "claim"
    BY <1>1, <1>8 DEF ClaimAckLost, TypeOK
  <2>6. IdleEmpty'
    BY <1>1, <2>5 DEF CapInv, IdleEmpty, TypeOK
  <2> QED  BY <1>1, <2>3, <2>4, <2>5, <2>6, NothingPromised DEF Promised
<1>9. ASSUME NEW w \in Workers, ClaimNothing(w) \/ Dispatch(w) PROVE CapInv'
  <2>1. UNCHANGED <<status, recent, batch>>
    BY <1>9 DEF ClaimNothing, Dispatch, rowVars
  <2>2. /\ \A u \in Workers : pc'[u] = "claim" => pc[u] = "claim"
        /\ IdleEmpty'
    BY <1>1, <1>9, <2>1 DEF ClaimNothing, Dispatch, CapInv, IdleEmpty, TypeOK
  <2>3. Enqueued' = Enqueued /\ SentLastDay' = SentLastDay
    BY <2>1 DEF Enqueued, SentLastDay
  <2>4. IsFiniteSet(Enqueued)'
    BY <2>3 DEF CapInv
  <2> QED  BY <1>1, <2>1, <2>2, <2>3, <2>4, NothingPromised DEF Promised
<1>10. ASSUME NEW w \in Workers, Write(w) \/ WriteAckLost(w) \/ WriteFails(w) PROVE CapInv'
  <2>1. pc[w] = "write" /\ (RowDone(w) \/ UNCHANGED <<pc, batch>>)
    BY <1>10 DEF Write, WriteAckLost, WriteFails, TryFailed
  <2>2. /\ \A u \in Workers : \A n \in Notifs : batch'[u][n] > 0 => batch[u][n] > 0
        /\ \A u \in Workers : pc'[u] = "claim" => pc[u] = "claim"
        /\ IdleEmpty'
    <3>1. CASE UNCHANGED <<pc, batch>>
      BY <3>1 DEF CapInv, IdleEmpty
    <3>2. CASE RowDone(w)
      <4>1. /\ \A v \in Workers \ {w} : batch'[v] = batch[v] /\ pc'[v] = pc[v]
            /\ \A m \in Notifs : batch'[w][m] = IF m = cur[w] THEN 0 ELSE batch[w][m]
            /\ pc'[w] \in {"top", "batch"}
            /\ pc'[w] = "top" => \A m \in Notifs : batch'[w][m] = 0
        BY <1>1, <2>1, <3>2, RowDoneEffect
      <4> QED  BY <4>1 DEF CapInv, IdleEmpty
    <3> QED  BY <2>1, <3>1, <3>2
  <2>3. CASE WriteFails(w)
    <3>1. Enqueued' = Enqueued /\ SentLastDay' = SentLastDay
      BY <2>3 DEF WriteFails, rowVars, Enqueued, SentLastDay
    <3>2. IsFiniteSet(Enqueued)'
      BY <3>1 DEF CapInv
    <3> QED  BY <1>1, <2>2, <3>1, <3>2, NothingPromised DEF Promised
  <2>4. CASE Write(w) \/ WriteAckLost(w)
    <3>1. /\ SentLastDay' \subseteq Promised
          /\ Enqueued \subseteq Enqueued'
          /\ Enqueued' \subseteq Enqueued \cup {cur[w]}
      BY <1>1, <2>1, <2>4, RecordPromised DEF Write, WriteAckLost
    <3>2. IsFiniteSet(Enqueued)'
      BY <3>1, EnqueuedFinite DEF CapInv
    <3> QED  BY <1>1, <2>2, <3>1, <3>2, NothingPromised
  <2> QED  BY <1>10, <2>3, <2>4
<1>11. ASSUME UNCHANGED <<status, recent>>,
              \A u \in Workers :
                 \/ batch'[u] = batch[u] /\ pc'[u] = pc[u]
                 \/ /\ pc'[u] \in {"top", "exit"}
                    /\ \A n \in Notifs : batch'[u][n] = 0
       PROVE  CapInv'
  <2>1. Enqueued' = Enqueued /\ SentLastDay' = SentLastDay
    BY <1>11 DEF Enqueued, SentLastDay
  <2>2. IsFiniteSet(Enqueued)'
    BY <2>1 DEF CapInv
  <2>3. /\ \A u \in Workers : \A n \in Notifs : batch'[u][n] > 0 => batch[u][n] > 0
        /\ \A u \in Workers : pc'[u] = "claim" => pc[u] = "claim"
        /\ IdleEmpty'
    BY <1>11 DEF CapInv, IdleEmpty
  <2> QED  BY <1>1, <2>1, <2>2, <2>3, NothingPromised DEF Promised
<1>12. ASSUME NEW w \in Workers, Leave(w) PROVE CapInv'
  BY <1>1, <1>11, <1>12 DEF Leave, rowVars, NoBatch, TypeOK
<1>13. ASSUME NEW p \in Procs, Stop(p) PROVE CapInv'
  BY <1>2, <1>13 DEF Stop, rowVars, workerVars
<1>14. ASSUME NEW p \in Procs, Crash(p) PROVE CapInv'
  BY <1>11, <1>14 DEF Crash, rowVars, NoBatch
<1>15. ASSUME NEW p \in Procs, Restart(p) PROVE CapInv'
  <2>1. /\ UNCHANGED <<status, recent, batch>>
        /\ \A u \in Workers : pc'[u] = pc[u] \/ (pc[u] = "exit" /\ pc'[u] = "top")
    BY <1>15 DEF Restart, rowVars, WorkersOf
  <2> QED  BY <1>11, <2>1 DEF CapInv, IdleEmpty
<1>16. CASE UNCHANGED vars
  BY <1>2, <1>16 DEF vars, rowVars, workerVars
<1> QED
  BY <1>3, <1>4, <1>5, <1>6, <1>7, <1>8, <1>9, <1>10, <1>12, <1>13, <1>14, <1>15, <1>16
  DEF Next, Work, WorkerFault, Clock

\* Of the mails that tick's count sees in the end, the daily cap is overshot by less
\* than a batch for every worker there is, whatever crashes, is lost or is retried.
\* The mails in MissedByCount are in no bound, of this model or of the code.
THEOREM CapOvershootBounded == Spec => []CapOvershoot
<1>1. Spec => []CapInv
  BY CapInit, CapStep, PTL DEF Spec
<1>2. CapInv => CapOvershoot
  <2> DEFINE Mails == MailsLastDay \ MissedByCount
  <2> SUFFICES ASSUME CapInv, MaxDaily > 0
               PROVE  Cardinality(Mails) <= MaxDaily - 1 + BatchLimit * Cardinality(Workers)
    BY DEF CapOvershoot
  <2>1. IsFiniteSet(Promised) /\ Cardinality(Promised) \in Nat
    BY HandsFinite DEF CapInv
  <2>2. Mails \in SUBSET Promised
    BY DEF Promised, MailsLastDay, MissedByCount, SentLastDay, Hands, InHand
  <2> HIDE DEF Mails
  <2>3. IsFiniteSet(Mails) /\ Cardinality(Mails) <= Cardinality(Promised)
    BY <2>1, <2>2, FS_Subset
  <2>4. Cardinality(Mails) \in Nat
    BY <2>3, FS_CardinalityType
  <2>5. Claiming \in SUBSET Workers
    BY DEF Claiming
  <2>6. /\ BatchLimit * Cardinality(Claiming) \in Nat /\ BatchLimit * Cardinality(Workers) \in Nat
        /\ MaxDaily \in Nat
    BY <2>5, WorkersFinite, BoundAssumption
  <2>7. Cardinality(Promised) + BatchLimit * Cardinality(Claiming)
          <= MaxDaily - 1 + BatchLimit * Cardinality(Workers)
    BY DEF CapInv, PromiseBounded
  <2> QED  BY <2>1, <2>3, <2>4, <2>6, <2>7
<1> QED  BY <1>1, <1>2, PTL

-----------------------------------------------------------------------------
(* Submissions and attempts, under every fault.  When a commit succeeds    *)
(* unnoticed several workers may hold one row; each still owes it a claim. *)

\* The workers that hold row n and have not called the provider for it.
Uncalled(n) == {w \in Workers : batch[w][n] > 0 /\ ~Called(w, n)}

\* A row was claimed at least once for every submission that was accepted.
SubmissionsClaimed == \A n \in Notifs : accepted[n] <= attempts[n]

\* The claims of a row also pay for the calls that are still to come.
ClaimsPay ==
    \A n \in Notifs : accepted[n] + Cardinality(Uncalled(n)) <= attempts[n]

PayInv == TInv /\ IdleEmpty /\ ClaimsPay

LEMMA UncalledFinite ==
    ASSUME NEW n \in Notifs
    PROVE  IsFiniteSet(Uncalled(n)) /\ Cardinality(Uncalled(n)) \in Nat
<1>1. Uncalled(n) \in SUBSET Workers
  BY DEF Uncalled
<1> QED  BY <1>1, WorkersFinite

\* A step that makes no call and adds no holder.
LEMMA NobodyCalls ==
    ASSUME PayInv, TInv', NEW n \in Notifs, accepted'[n] = accepted[n],
           attempts'[n] >= attempts[n], Uncalled(n)' \subseteq Uncalled(n)
    PROVE  (accepted[n] + Cardinality(Uncalled(n)) <= attempts[n])'
<1>1. IsFiniteSet(Uncalled(n)) /\ Cardinality(Uncalled(n)) \in Nat
  BY UncalledFinite
<1>2. Uncalled(n)' \in SUBSET Uncalled(n)
  OBVIOUS
<1>3. IsFiniteSet(Uncalled(n)') /\ Cardinality(Uncalled(n)') <= Cardinality(Uncalled(n))
  BY <1>1, <1>2, FS_Subset
<1>4. Cardinality(Uncalled(n)') \in Nat
  BY <1>3, FS_CardinalityType
<1>5. /\ accepted[n] \in Nat /\ attempts[n] \in Nat /\ attempts'[n] \in Nat
      /\ accepted[n] + Cardinality(Uncalled(n)) <= attempts[n]
  BY DEF PayInv, TInv, TypeOK, ClaimsPay
<1> QED  BY <1>1, <1>3, <1>4, <1>5

\* The same for a whole step.
LEMMA NoRowCalled ==
    ASSUME PayInv, TInv', IdleEmpty', UNCHANGED accepted,
           \A n \in Notifs : attempts'[n] >= attempts[n] /\ Uncalled(n)' \subseteq Uncalled(n)
    PROVE  PayInv'
<1>1. ASSUME NEW n \in Notifs PROVE (accepted[n] + Cardinality(Uncalled(n)) <= attempts[n])'
  BY NobodyCalls
<1> QED  BY <1>1 DEF PayInv, ClaimsPay

\* A claim is another attempt of every row it takes.
LEMMA ClaimPays ==
    ASSUME PayInv, TInv', IdleEmpty', NEW w \in Workers, Claim(w)
    PROVE  PayInv'
<1>0. TypeOK
  BY DEF PayInv, TInv
<1>1. PICK S \in Claims : /\ ClaimRows(S)
                          /\ batch' = [batch EXCEPT ![w] =
                               [n \in Notifs |-> IF n \in S THEN attempts[n] + 1 ELSE 0]]
  BY DEF Claim
<1>2. /\ pc[w] = "claim" /\ pc' = [pc EXCEPT ![w] = "batch"] /\ UNCHANGED <<cur, accepted>>
      /\ \A n \in Notifs : batch[w][n] = 0
  BY DEF Claim, PayInv, IdleEmpty
<1>3. /\ \A n \in Notifs : attempts'[n] = IF n \in S THEN attempts[n] + 1 ELSE attempts[n]
      /\ \A v \in Workers \ {w} : batch'[v] = batch[v] /\ pc'[v] = pc[v]
      /\ pc'[w] = "batch"
      /\ \A n \in Notifs : batch'[w][n] > 0 <=> n \in S
  BY <1>0, <1>1, <1>2 DEF ClaimRows, TypeOK
<1>4. ASSUME NEW n \in Notifs PROVE (accepted[n] + Cardinality(Uncalled(n)) <= attempts[n])'
  <2>1. CASE n \notin S
    <3>1. Uncalled(n)' \subseteq Uncalled(n)
      BY <1>2, <1>3, <2>1 DEF Uncalled, Called
    <3>2. attempts'[n] >= attempts[n]
      BY <1>0, <1>3, <2>1 DEF TypeOK
    <3> QED  BY <1>2, <3>1, <3>2, NobodyCalls
  <2>2. CASE n \in S
    <3>1. Uncalled(n)' = Uncalled(n) \cup {w} /\ w \notin Uncalled(n)
      BY <1>2, <1>3, <2>2 DEF Uncalled, Called
    <3>2. IsFiniteSet(Uncalled(n)) /\ Cardinality(Uncalled(n)) \in Nat
      BY UncalledFinite
    <3>3. Cardinality(Uncalled(n)') = Cardinality(Uncalled(n)) + 1
      BY <3>1, <3>2, FS_AddElement
    <3>4. /\ accepted[n] \in Nat /\ attempts[n] \in Nat
          /\ accepted[n] + Cardinality(Uncalled(n)) <= attempts[n]
      BY DEF PayInv, TInv, TypeOK, ClaimsPay
    <3> QED  BY <1>2, <1>3, <2>2, <3>2, <3>3, <3>4
  <2> QED  BY <2>1, <2>2
<1> QED  BY <1>4 DEF PayInv, ClaimsPay

\* A call is one a claim has paid for.
LEMMA CallIsPaid ==
    ASSUME PayInv, TInv', IdleEmpty', NEW w \in Workers, Dispatch(w)
    PROVE  PayInv'
<1>0. TypeOK
  BY DEF PayInv, TInv
<1>1. PICK n \in InHand(w), r \in UNION {Responses(m) : m \in InHand(w)} :
         /\ accepted' = [accepted EXCEPT ![n] = IF Accepts(r) THEN @ + 1 ELSE @]
         /\ cur'      = [cur EXCEPT ![w] = n]
  BY DEF Dispatch
<1>2. /\ n \in Notifs /\ batch[w][n] > 0 /\ pc[w] = "batch"
      /\ UNCHANGED <<attempts, batch>> /\ pc' = [pc EXCEPT ![w] = "write"]
  BY DEF Dispatch, InHand, rowVars
<1>3. /\ \A v \in Workers \ {w} : pc'[v] = pc[v] /\ cur'[v] = cur[v]
      /\ pc'[w] = "write" /\ cur'[w] = n
  BY <1>0, <1>1, <1>2 DEF TypeOK
<1>4. ASSUME NEW m \in Notifs PROVE (accepted[m] + Cardinality(Uncalled(m)) <= attempts[m])'
  <2>1. CASE m # n
    <3>1. Uncalled(m)' \subseteq Uncalled(m)
      BY <1>2, <1>3, <2>1 DEF Uncalled, Called
    <3>2. accepted'[m] = accepted[m] /\ attempts'[m] >= attempts[m]
      BY <1>0, <1>1, <1>2, <2>1 DEF TypeOK
    <3> QED  BY <3>1, <3>2, NobodyCalls
  <2>2. CASE m = n
    <3>1. Uncalled(n)' = Uncalled(n) \ {w} /\ w \in Uncalled(n)
      BY <1>2, <1>3 DEF Uncalled, Called
    <3>2. IsFiniteSet(Uncalled(n)) /\ Cardinality(Uncalled(n)) \in Nat
      BY <1>2, UncalledFinite
    <3>3. Cardinality(Uncalled(n)') = Cardinality(Uncalled(n)) - 1
      BY <3>1, <3>2, FS_RemoveElement
    <3>4. /\ accepted[n] \in Nat /\ attempts[n] \in Nat
          /\ accepted[n] + Cardinality(Uncalled(n)) <= attempts[n]
      BY <1>2 DEF PayInv, TInv, TypeOK, ClaimsPay
    <3>5. accepted'[n] \in Nat /\ accepted'[n] <= accepted[n] + 1
      BY <1>0, <1>1, <1>2, <3>4 DEF TypeOK
    <3> QED  BY <1>2, <2>2, <3>2, <3>3, <3>4, <3>5
  <2> QED  BY <2>1, <2>2
<1> QED  BY <1>4 DEF PayInv, ClaimsPay

\* Of CapInv only the types and the empty hands of idle workers are used.
LEMMA PayStep == CapInv /\ CapInv' /\ ClaimsPay /\ [Next]_vars => ClaimsPay'
<1> SUFFICES ASSUME CapInv, CapInv', ClaimsPay, [Next]_vars PROVE PayInv'
  BY DEF PayInv
<1>1. TypeOK /\ PayInv /\ TInv' /\ IdleEmpty'
  BY DEF CapInv, TInv, PayInv
<1>2. ASSUME UNCHANGED <<accepted, batch, pc, cur>>,
             \A n \in Notifs : attempts'[n] >= attempts[n]
      PROVE  PayInv'
  <2>1. \A n \in Notifs : Uncalled(n)' \subseteq Uncalled(n)
    BY <1>2 DEF Uncalled, Called
  <2> QED  BY <1>1, <1>2, <2>1, NoRowCalled
<1>3. ASSUME UNCHANGED <<attempts, accepted, batch, pc, cur>> PROVE PayInv'
  BY <1>1, <1>2, <1>3 DEF TypeOK
<1>4. ASSUME NEW n \in Notifs, Enqueue(n) \/ Clock(n) PROVE PayInv'
  BY <1>3, <1>4 DEF Enqueue, Clock, BackoffElapses, LeaseExpires, DayPasses, workerVars
<1>5. ASSUME NEW w \in Workers, Claim(w) PROVE PayInv'
  BY <1>1, <1>5, ClaimPays
<1>6. ASSUME NEW w \in Workers, Dispatch(w) PROVE PayInv'
  BY <1>1, <1>6, CallIsPaid
<1>7. ASSUME NEW w \in Workers, CheckCap(w) \/ ClaimNothing(w) \/ ClaimAckLost(w) PROVE PayInv'
  <2>1. /\ pc[w] \in {"top", "claim"} /\ pc'[w] \in {"top", "claim"}
        /\ UNCHANGED <<accepted, batch, cur>>
        /\ \A v \in Workers \ {w} : pc'[v] = pc[v]
    BY <1>1, <1>7 DEF CheckCap, ClaimNothing, ClaimAckLost, TypeOK
  <2>2. \A n \in Notifs : attempts'[n] >= attempts[n]
    <3>1. CASE ClaimAckLost(w)
      <4>1. PICK S \in Claims : ClaimRows(S)
        BY <3>1 DEF ClaimAckLost
      <4> QED  BY <1>1, <4>1 DEF ClaimRows, TypeOK
    <3>2. CASE CheckCap(w) \/ ClaimNothing(w)
      BY <1>1, <3>2 DEF CheckCap, ClaimNothing, rowVars, TypeOK
    <3> QED  BY <1>7, <3>1, <3>2
  <2>3. \A n \in Notifs : Uncalled(n)' \subseteq Uncalled(n)
    BY <2>1 DEF Uncalled, Called
  <2> QED  BY <1>1, <2>1, <2>2, <2>3, NoRowCalled
<1>8. ASSUME NEW w \in Workers, Write(w) \/ WriteAckLost(w) \/ WriteFails(w) PROVE PayInv'
  <2>1. /\ pc[w] = "write" /\ accepted' = accepted /\ attempts' = attempts
        /\ RowDone(w) \/ UNCHANGED <<pc, batch, cur>>
    BY <1>8 DEF Write, WriteAckLost, WriteFails, TryFailed, Record, SetOutcome, rowVars
  <2>2. CASE UNCHANGED <<pc, batch, cur>>
    BY <1>3, <2>1, <2>2
  <2>3. CASE RowDone(w)
    <3>1. /\ \A v \in Workers \ {w} : batch'[v] = batch[v] /\ pc'[v] = pc[v] /\ cur'[v] = cur[v]
          /\ \A m \in Notifs : batch'[w][m] = IF m = cur[w] THEN 0 ELSE batch[w][m]
      BY <1>1, <2>1, <2>3, RowDoneEffect DEF PayInv
    <3>2. \A n \in Notifs : Uncalled(n)' \subseteq Uncalled(n)
      <4> SUFFICES ASSUME NEW n \in Notifs, NEW v \in Uncalled(n)' PROVE v \in Uncalled(n)
        OBVIOUS
      <4>1. v \in Workers /\ batch'[v][n] > 0 /\ ~(pc'[v] = "write" /\ cur'[v] = n)
        BY DEF Uncalled, Called
      <4>2. CASE v = w
        BY <3>1, <4>1, <4>2 DEF Uncalled, Called
      <4>3. CASE v # w
        BY <3>1, <4>1, <4>3 DEF Uncalled, Called
      <4> QED  BY <4>2, <4>3
    <3>3. \A n \in Notifs : attempts'[n] >= attempts[n]
      BY <1>1, <2>1 DEF TypeOK
    <3> QED  BY <1>1, <2>1, <3>2, <3>3, NoRowCalled
  <2> QED  BY <2>1, <2>2, <2>3
<1>9. ASSUME UNCHANGED <<attempts, accepted>>,
             \A u \in Workers :
                \/ batch'[u] = batch[u] /\ pc'[u] = pc[u] /\ cur'[u] = cur[u]
                \/ \A n \in Notifs : batch'[u][n] = 0
      PROVE  PayInv'
  <2>1. \A n \in Notifs : Uncalled(n)' \subseteq Uncalled(n)
    BY <1>9 DEF Uncalled, Called
  <2>2. \A n \in Notifs : attempts'[n] >= attempts[n]
    BY <1>1, <1>9 DEF TypeOK
  <2> QED  BY <1>1, <1>9, <2>1, <2>2, NoRowCalled
<1>10. ASSUME NEW w \in Workers, Leave(w) PROVE PayInv'
  BY <1>1, <1>9, <1>10 DEF Leave, rowVars, NoBatch, TypeOK
<1>11. ASSUME NEW p \in Procs, Stop(p) PROVE PayInv'
  BY <1>3, <1>11 DEF Stop, rowVars, workerVars
<1>12. ASSUME NEW p \in Procs, Crash(p) PROVE PayInv'
  BY <1>9, <1>12 DEF Crash, rowVars, NoBatch
<1>13. ASSUME NEW p \in Procs, Restart(p) PROVE PayInv'
  <2>1. /\ UNCHANGED <<attempts, accepted, batch, cur>>
        /\ \A u \in Workers : pc'[u] = pc[u] \/ pc[u] = "exit"
    BY <1>13 DEF Restart, rowVars, WorkersOf
  <2>2. \A u \in Workers : pc[u] = "exit" => \A n \in Notifs : batch'[u][n] = 0
    BY <1>1, <2>1 DEF PayInv, IdleEmpty
  <2> QED  BY <1>9, <2>1, <2>2
<1>14. CASE UNCHANGED vars
  BY <1>3, <1>14 DEF vars, rowVars, workerVars
<1> QED
  BY <1>4, <1>5, <1>6, <1>7, <1>8, <1>10, <1>11, <1>12, <1>13, <1>14
  DEF Next, Work, WorkerFault

\* Under every fault, lost acknowledgements and rows in several hands included,
\* attempts counts at least the submissions the provider accepted.
THEOREM SubmissionsAreCounted == Spec => []SubmissionsClaimed
<1>1. Init => ClaimsPay
  <2>1. ASSUME Init, NEW n \in Notifs PROVE accepted[n] + Cardinality(Uncalled(n)) <= attempts[n]
    <3>1. Uncalled(n) = {}
      BY <2>1 DEF Init, NoBatch, Uncalled
    <3> QED  BY <2>1, <3>1, FS_EmptySet DEF Init
  <2> QED  BY <2>1 DEF ClaimsPay
<1>2. Spec => [](CapInv /\ ClaimsPay)
  BY <1>1, CapInit, CapStep, PayStep, PTL DEF Spec
<1>3. CapInv /\ ClaimsPay => SubmissionsClaimed
  <2> SUFFICES ASSUME CapInv, ClaimsPay, NEW n \in Notifs PROVE accepted[n] <= attempts[n]
    BY DEF SubmissionsClaimed
  <2>1. accepted[n] \in Nat /\ attempts[n] \in Nat /\ Cardinality(Uncalled(n)) \in Nat
    BY UncalledFinite DEF CapInv, TInv, TypeOK
  <2> QED  BY <2>1 DEF ClaimsPay
<1> QED  BY <1>2, <1>3, PTL

-----------------------------------------------------------------------------
(* Rows that nobody will send, under every fault.  A row is left 'sending' *)
(* by these causes and no others, and then for good: the lease that the    *)
(* claim writes gives it to no other worker.                               *)

\* A row in progress that no worker has in hand.
Stranded(n) == status[n] = "sending" /\ \A w \in Workers : n \notin InHand(w)

\* The worker of the row is cancelled or dies, its last write fails, or a claim
\* commits without its worker learning of it.
LosesRow(w, n) ==
    \/ n \in InHand(w) /\ (~Alive(w) \/ ~Alive(w)')
    \/ pc[w] = "write" /\ cur[w] = n /\ WriteMayFail(w) /\ tries[w] + 1 >= MaxTries
    \/ pc[w] = "claim" /\ AckMayBeLost(w)

\* A row is stranded by a step that loses it and by no other.
StrandedByFault ==
    [][\A n \in Notifs : Stranded(n)' /\ ~Stranded(n) => \E w \in Workers : LosesRow(w, n)]_vars

\* Nothing but its worker moves a row out of 'sending'.
StrandedForGood == [][\A n \in Notifs : Stranded(n) => Stranded(n)']_vars

\* Every row in progress has a worker.
NothingStranded == \A n \in Notifs : ~Stranded(n)

\* What recording an outcome does to the rows in progress.
LEMMA RecordEndsSending ==
    ASSUME TInv, NEW w \in Workers, pc[w] = "write", Record(cur[w], verdict[w])
    PROVE  /\ cur[w] \in Notifs /\ cur[w] \in InHand(w)
           /\ \A n \in Notifs : status'[n] = "sending" <=> status[n] = "sending" /\ n # cur[w]
<1>1. cur[w] \in Notifs /\ cur[w] \in InHand(w) /\ verdict[w] \in Verdicts
  BY DEF TInv, WriterOK, InHand
<1>2. /\ status'[cur[w]] = IF verdict[w] = "retry" THEN "pending" ELSE verdict[w]
      /\ \A m \in Notifs \ {cur[w]} : status'[m] = status[m]
  BY <1>1, RecordEffect DEF TInv
<1> QED  BY <1>1, <1>2 DEF Verdicts, Terminal

\* After a write the worker has in hand what it had, or all of that but the row.
LEMMA HandAfterWrite ==
    ASSUME TInv, NEW w \in Workers, pc[w] = "write", RowDone(w) \/ TryFailed(w),
           NEW u \in Workers
    PROVE  /\ InHand(u)' \subseteq InHand(u)
           /\ InHand(u) \ {cur[w]} \subseteq InHand(u)'
           /\ u # w => InHand(u)' = InHand(u)
<1>1. CASE batch' = batch
  BY <1>1 DEF InHand
<1>2. CASE RowDone(w)
  <2>1. /\ \A v \in Workers \ {w} : batch'[v] = batch[v]
        /\ \A m \in Notifs : batch'[w][m] = IF m = cur[w] THEN 0 ELSE batch[w][m]
    BY <1>2, RowDoneEffect
  <2> QED  BY <2>1 DEF InHand
<1> QED  BY <1>1, <1>2 DEF TryFailed

\* Claiming rows puts only waiting rows in progress.
LEMMA ClaimStartsSending ==
    ASSUME TInv, NEW S \in Claims, ClaimRows(S)
    PROVE  \A n \in Notifs : status'[n] = "sending" <=> status[n] = "sending" \/ n \in S
  BY DEF TInv, TypeOK, ClaimRows, Claims, Claimable

\* A claim puts the rows it takes in the hands of its worker, which had none.
LEMMA HandAfterClaim ==
    ASSUME TInv, IdleEmpty, NEW w \in Workers, pc[w] = "claim", NEW S \in Claims,
           batch' = [batch EXCEPT ![w] =
                       [n \in Notifs |-> IF n \in S THEN attempts[n] + 1 ELSE 0]]
    PROVE  /\ InHand(w) = {} /\ InHand(w)' = S
           /\ \A u \in Workers \ {w} : InHand(u)' = InHand(u)
<1>1. InHand(w) = {}
  BY DEF IdleEmpty, InHand
<1>2. \A n \in Notifs : batch'[w][n] = IF n \in S THEN attempts[n] + 1 ELSE 0
  BY DEF TInv, TypeOK
<1>3. S \subseteq Notifs /\ \A n \in Notifs : attempts[n] \in Nat
  BY DEF TInv, TypeOK, Claims, Claimable
<1>4. InHand(w)' = S
  BY <1>2, <1>3 DEF InHand
<1>5. \A u \in Workers \ {w} : InHand(u)' = InHand(u)
  BY DEF InHand, TInv, TypeOK
<1> QED  BY <1>1, <1>4, <1>5

LEMMA StrandingStep ==
    ASSUME TInv, IdleEmpty, [Next]_vars, NEW n \in Notifs
    PROVE  /\ Stranded(n)' /\ ~Stranded(n) => \E w \in Workers : LosesRow(w, n)
           /\ Stranded(n) => Stranded(n)'
<1> DEFINE Goal == /\ Stranded(n)' /\ ~Stranded(n) => \E w \in Workers : LosesRow(w, n)
                   /\ Stranded(n) => Stranded(n)'
<1> SUFFICES Goal
  OBVIOUS
<1>1. ASSUME status'[n] = status[n], \A w \in Workers : InHand(w)' = InHand(w) PROVE Goal
  BY <1>1 DEF Stranded
<1>2. ASSUME NEW m \in Notifs, Enqueue(m) PROVE Goal
  <2>1. \A w \in Workers : InHand(w)' = InHand(w)
    BY <1>2 DEF Enqueue, workerVars, InHand
  <2>2. status'[n] = "sending" <=> status[n] = "sending"
    BY <1>2 DEF Enqueue, TInv, TypeOK
  <2> QED  BY <2>1, <2>2 DEF Stranded
<1>3. ASSUME NEW m \in Notifs, Clock(m) PROVE Goal
  BY <1>1, <1>3 DEF Clock, BackoffElapses, LeaseExpires, DayPasses, workerVars, InHand
<1>4. ASSUME NEW w \in Workers, CheckCap(w) \/ ClaimNothing(w) \/ Dispatch(w) PROVE Goal
  BY <1>1, <1>4 DEF CheckCap, ClaimNothing, Dispatch, rowVars, InHand
<1>5. ASSUME NEW w \in Workers, Claim(w) PROVE Goal
  <2>1. PICK S \in Claims : /\ ClaimRows(S)
                            /\ batch' = [batch EXCEPT ![w] =
                                 [m \in Notifs |-> IF m \in S THEN attempts[m] + 1 ELSE 0]]
    BY <1>5 DEF Claim
  <2>2. /\ InHand(w) = {} /\ InHand(w)' = S
        /\ \A u \in Workers \ {w} : InHand(u)' = InHand(u)
    BY <1>5, <2>1, HandAfterClaim DEF Claim
  <2>3. status'[n] = "sending" <=> status[n] = "sending" \/ n \in S
    BY <2>1, ClaimStartsSending
  <2>4. n \in S => status[n] = "pending"
    BY DEF Claims, Claimable
  <2> QED  BY <2>2, <2>3, <2>4 DEF Stranded
<1>6. ASSUME NEW w \in Workers, ClaimAckLost(w) PROVE Goal
  <2>1. PICK S \in Claims : ClaimRows(S)
    BY <1>6 DEF ClaimAckLost
  <2>2. \A u \in Workers : InHand(u)' = InHand(u)
    BY <1>6 DEF ClaimAckLost, InHand
  <2>3. status'[n] = "sending" <=> status[n] = "sending" \/ n \in S
    BY <2>1, ClaimStartsSending
  <2>4. LosesRow(w, n)
    BY <1>6 DEF ClaimAckLost, LosesRow
  <2> QED  BY <2>2, <2>3, <2>4 DEF Stranded
<1>7. ASSUME NEW w \in Workers, Write(w) \/ WriteAckLost(w) PROVE Goal
  <2>1. pc[w] = "write" /\ Record(cur[w], verdict[w]) /\ (RowDone(w) \/ TryFailed(w))
    BY <1>7 DEF Write, WriteAckLost
  <2>2. /\ cur[w] \in Notifs /\ cur[w] \in InHand(w)
        /\ status'[n] = "sending" <=> status[n] = "sending" /\ n # cur[w]
    BY <2>1, RecordEndsSending
  <2>3. \A u \in Workers : /\ InHand(u)' \subseteq InHand(u)
                           /\ InHand(u) \ {cur[w]} \subseteq InHand(u)'
    BY <2>1, HandAfterWrite
  <2> QED  BY <2>2, <2>3 DEF Stranded
<1>8. ASSUME NEW w \in Workers, WriteFails(w) PROVE Goal
  <2>1. pc[w] = "write" /\ WriteMayFail(w) /\ TryFailed(w) /\ status' = status
    BY <1>8 DEF WriteFails, rowVars
  <2>2. \A u \in Workers : /\ InHand(u)' \subseteq InHand(u)
                           /\ InHand(u) \ {cur[w]} \subseteq InHand(u)'
    BY <2>1, HandAfterWrite
  <2>3. CASE tries[w] + 1 < MaxTries /\ Alive(w)
    BY <1>1, <2>1, <2>3 DEF TryFailed, InHand
  <2>4. CASE ~Alive(w) \/ tries[w] + 1 >= MaxTries
    <3>1. n = cur[w] => LosesRow(w, n)
      BY <2>1, <2>4 DEF LosesRow, TInv, WriterOK, InHand
    <3> QED  BY <2>1, <2>2, <3>1 DEF Stranded
  <2>5. tries[w] + 1 < MaxTries \/ tries[w] + 1 >= MaxTries
    BY BoundAssumption DEF TInv, TypeOK
  <2> QED  BY <2>3, <2>4, <2>5
<1>9. ASSUME NEW w \in Workers, Leave(w) PROVE Goal
  <2>1. /\ ~Alive(w) /\ status' = status
        /\ \A u \in Workers : InHand(u)' = IF u = w THEN {} ELSE InHand(u)
    BY <1>9 DEF Leave, rowVars, NoBatch, InHand, TInv, TypeOK
  <2>2. n \in InHand(w) => LosesRow(w, n)
    BY <2>1 DEF LosesRow
  <2> QED  BY <2>1, <2>2 DEF Stranded
<1>10. ASSUME NEW p \in Procs, Stop(p) \/ Restart(p) PROVE Goal
  BY <1>1, <1>10 DEF Stop, Restart, rowVars, workerVars, InHand
<1>11. ASSUME NEW p \in Procs, Crash(p) PROVE Goal
  <2>1. /\ status' = status
        /\ \A u \in Workers : InHand(u)' = IF ProcOf[u] = p THEN {} ELSE InHand(u)
        /\ ~up'[p]
    BY <1>11 DEF Crash, rowVars, NoBatch, InHand, TInv, TypeOK
  <2>2. ASSUME NEW u \in Workers, n \in InHand(u), ProcOf[u] = p PROVE LosesRow(u, n)
    BY <2>1, <2>2 DEF LosesRow, Alive
  <2> QED  BY <2>1, <2>2 DEF Stranded
<1>12. CASE UNCHANGED vars
  BY <1>1, <1>12 DEF vars, rowVars, workerVars, InHand
<1> QED
  BY <1>2, <1>3, <1>4, <1>5, <1>6, <1>7, <1>8, <1>9, <1>10, <1>11, <1>12
  DEF Next, Work, WorkerFault

\* Under every fault a row without a worker stays without one: what the run
\* queue_lease shows of one row on one instance holds of every row left behind.
THEOREM StrandedRowsStay == Spec => StrandedForGood
<1>1. CapInv /\ [Next]_vars => [\A n \in Notifs : Stranded(n) => Stranded(n)']_vars
  BY StrandingStep DEF CapInv
<1> QED  BY <1>1, CapInit, CapStep, PTL DEF Spec, StrandedForGood

\* Under every fault: only a cancelled or dying worker, a last write that fails or a
\* claim reported as failed leaves a row behind.
THEOREM OnlyFaultsStrand == Spec => StrandedByFault
<1>1. CapInv /\ [Next]_vars =>
        [\A n \in Notifs : Stranded(n)' /\ ~Stranded(n) => \E w \in Workers : LosesRow(w, n)]_vars
  BY StrandingStep DEF CapInv
<1> QED  BY <1>1, CapInit, CapStep, PTL DEF Spec, StrandedByFault

\* So without those faults every row in progress is in somebody's hands.
THEOREM RowsHaveWorkers == Faults = {} => (Spec => []NothingStranded)
<1> SUFFICES ASSUME Faults = {} PROVE Spec => []NothingStranded
  OBVIOUS
<1> DEFINE Up == \A w \in Workers : Alive(w)
<1>1. Init => Up /\ NothingStranded
  BY ProcAssumption DEF Init, Alive, NothingStranded, Stranded
<1>2. CapInv /\ Up /\ [Next]_vars => Up'
  <2> SUFFICES ASSUME CapInv, Up, [Next]_vars PROVE Up'
    OBVIOUS
  <2>1. CASE up' = up
    BY <2>1 DEF Alive
  <2>2. ASSUME NEW p \in Procs, Restart(p) PROVE Up'
    BY <2>2 DEF Restart, Alive, CapInv, TInv, TypeOK
  <2>3. ASSUME NEW p \in Procs, Stop(p) \/ Crash(p) PROVE FALSE
    BY <2>3 DEF Stop, Crash
  <2>4. ASSUME NEW n \in Notifs, Enqueue(n) \/ Clock(n) PROVE up' = up
    BY <2>4 DEF Enqueue, Clock, BackoffElapses, LeaseExpires, DayPasses
  <2>5. ASSUME NEW w \in Workers, Work(w) \/ WorkerFault(w) PROVE up' = up
    BY <2>5 DEF Work, WorkerFault, CheckCap, Claim, ClaimNothing, Dispatch, Write, Leave,
                ClaimAckLost, WriteFails, WriteAckLost
  <2>6. CASE UNCHANGED vars
    BY <2>1, <2>6 DEF vars
  <2> QED  BY <2>1, <2>2, <2>3, <2>4, <2>5, <2>6 DEF Next
<1>3. CapInv /\ Up /\ Up' /\ NothingStranded /\ [Next]_vars => NothingStranded'
  <2> SUFFICES ASSUME CapInv, Up, Up', [Next]_vars, NEW n \in Notifs, ~Stranded(n), Stranded(n)'
               PROVE  FALSE
    BY DEF NothingStranded
  <2>1. PICK w \in Workers : LosesRow(w, n)
    BY StrandingStep DEF CapInv
  <2> QED  BY <2>1 DEF LosesRow, WriteMayFail, AckMayBeLost
<1>4. Spec => [](CapInv /\ Up /\ NothingStranded)
  <2> HIDE DEF Up
  <2> QED  BY <1>1, <1>2, <1>3, CapInit, CapStep, PTL DEF Spec
<1> QED  BY <1>4, PTL

\* No mail is lost to the count of the daily cap: its row is 'sent', or a worker
\* has the row in hand and is going to write it.
MailsAreCounted == MissedByCount = {}

\* The daily cap as a bound on mails.
MailsBounded ==
    MaxDaily > 0 =>
        Cardinality(MailsLastDay) <= MaxDaily - 1 + BatchLimit * Cardinality(Workers)

\* Without faults, and when every answer of the provider arrives, all mails are
\* counted, and the bound is one on the mails of a day.  A write that never commits
\* or an answer that is lost takes both away.
THEOREM DailyMailsBounded ==
    Faults = {} /\ "timeout" \notin Provider => (Spec => [](MailsAreCounted /\ MailsBounded))
<1> SUFFICES ASSUME Faults = {}, "timeout" \notin Provider
             PROVE  Spec => [](MailsAreCounted /\ MailsBounded)
  OBVIOUS
<1>1. IInv /\ NothingStranded => MailsAreCounted
  <2> SUFFICES ASSUME IInv, NothingStranded, NEW n \in Notifs, accepted[n] > 0,
                      \A w \in Workers : n \notin InHand(w)
               PROVE  status[n] = "sent"
    BY DEF MailsAreCounted, MissedByCount
  <2>1. status[n] \in Statuses /\ accepted[n] # 0
    BY DEF IInv, TInv, TypeOK
  <2>2. status[n] \notin {"absent", "pending", "failed", "dead"}
    BY <2>1 DEF IInv, Fresh, AnswersArrive
  <2>3. status[n] # "sending"
    BY DEF NothingStranded, Stranded
  <2> QED  BY <2>1, <2>2, <2>3 DEF Statuses, Terminal
<1>2. MailsAreCounted /\ CapOvershoot => MailsBounded
  <2>1. MailsAreCounted => MailsLastDay \ MissedByCount = MailsLastDay
    BY DEF MailsAreCounted
  <2> QED  BY <2>1 DEF CapOvershoot, MailsBounded
<1>3. Faults = {} /\ "acklost" \notin Faults
  OBVIOUS
<1> QED  BY <1>1, <1>2, <1>3, QueueSafe, RowsHaveWorkers, CapOvershootBounded, PTL

-----------------------------------------------------------------------------
(* What the table and the log say of the mail, under every fault.  A late  *)
(* write may settle a row a second time, but never against the facts.      *)

\* 'sent', in the table or in the log, is said only of mail that was accepted.
SentIsTrue ==
    \A n \in Notifs : status[n] = "sent" \/ emailLog[n]["sent"] > 0 => accepted[n] > 0

\* A settled row is in the log with its status.
SettledIsLogged == \A n \in Notifs : status[n] \in Terminal => emailLog[n][status[n]] > 0

\* A worker writes 'sent' only after the provider said so.
SaysSentTruly ==
    \A w \in Workers : pc[w] = "write" /\ verdict[w] = "sent" => accepted[cur[w]] > 0

FactsInv == TInv /\ SentIsTrue /\ SettledIsLogged /\ SaysSentTruly

LEMMA RecordKeepsFacts ==
    ASSUME FactsInv, NEW w \in Workers, pc[w] = "write", Record(cur[w], verdict[w]),
           UNCHANGED accepted
    PROVE  SentIsTrue' /\ SettledIsLogged'
<1> DEFINE n == cur[w]
           v == verdict[w]
<1>1. n \in Notifs /\ v \in Verdicts
  BY DEF FactsInv, TInv, WriterOK
<1>2. /\ status'[n] = IF v = "retry" THEN "pending" ELSE v
      /\ \A m \in Notifs \ {n} : status'[m] = status[m]
      /\ \A m \in Notifs, s \in Terminal :
           emailLog'[m][s] = emailLog[m][s] + IF m = n /\ s = v THEN 1 ELSE 0
  BY <1>1, RecordEffect DEF FactsInv, TInv
<1>3. \A m \in Notifs, s \in Terminal : emailLog[m][s] \in Nat
  BY DEF FactsInv, TInv, TypeOK
<1>4. v = "sent" => accepted[n] > 0
  BY DEF FactsInv, SaysSentTruly
<1>5. ASSUME NEW m \in Notifs, status'[m] = "sent" \/ emailLog'[m]["sent"] > 0
      PROVE  accepted'[m] > 0
  <2>1. "sent" \in Terminal
    BY DEF Terminal
  <2>2. emailLog'[m]["sent"] = emailLog[m]["sent"] + IF m = n /\ "sent" = v THEN 1 ELSE 0
    BY <1>2, <2>1
  <2>3. CASE m = n /\ v = "sent"
    BY <1>4, <2>3
  <2>4. CASE ~(m = n /\ v = "sent")
    <3>1. status'[m] = "sent" => status[m] = "sent"
      BY <1>2, <2>4
    <3>2. emailLog'[m]["sent"] > 0 => emailLog[m]["sent"] > 0
      BY <1>3, <2>1, <2>2, <2>4
    <3> QED  BY <1>5, <3>1, <3>2 DEF FactsInv, SentIsTrue
  <2> QED  BY <2>3, <2>4
<1>6. ASSUME NEW m \in Notifs, status'[m] \in Terminal PROVE emailLog'[m][status'[m]] > 0
  <2>1. CASE m = n
    <3>1. v \in Terminal /\ status'[m] = v
      BY <1>1, <1>2, <1>6, <2>1 DEF Terminal, Verdicts
    <3> QED  BY <1>1, <1>2, <1>3, <2>1, <3>1
  <2>2. CASE m # n
    <3>1. status'[m] = status[m] /\ emailLog[m][status[m]] > 0
      BY <1>2, <1>6, <2>2 DEF FactsInv, SettledIsLogged
    <3> QED  BY <1>2, <1>3, <1>6, <2>2, <3>1
  <2> QED  BY <2>1, <2>2
<1> QED  BY <1>5, <1>6 DEF SentIsTrue, SettledIsLogged

LEMMA FactsStep == FactsInv /\ [Next]_vars => FactsInv'
<1> SUFFICES ASSUME FactsInv, [Next]_vars PROVE FactsInv'
  OBVIOUS
<1>1. TInv'
  BY TypeStep DEF FactsInv
<1>2. ASSUME UNCHANGED <<status, emailLog, accepted>> PROVE SentIsTrue' /\ SettledIsLogged'
  BY <1>2 DEF FactsInv, SentIsTrue, SettledIsLogged
<1>3. ASSUME UNCHANGED accepted,
             \A u \in Workers : pc'[u] = "write" =>
                 pc[u] = "write" /\ verdict'[u] = verdict[u] /\ cur'[u] = cur[u]
      PROVE  SaysSentTruly'
  BY <1>3 DEF FactsInv, SaysSentTruly
<1>4. ASSUME NEW w \in Workers, Claim(w) \/ ClaimAckLost(w) PROVE FactsInv'
  <2>1. PICK S \in Claims : ClaimRows(S) /\ UNCHANGED <<accepted, cur, verdict>>
    BY <1>4 DEF Claim, ClaimAckLost
  <2>2. \A n \in Notifs : status'[n] \in {"sending", status[n]} /\ emailLog' = emailLog
    BY <2>1 DEF ClaimRows
  <2>3. SentIsTrue' /\ SettledIsLogged'
    BY <2>1, <2>2 DEF FactsInv, SentIsTrue, SettledIsLogged, Terminal
  <2>4. SaysSentTruly'
    BY <1>3, <1>4, <2>1 DEF Claim, ClaimAckLost, FactsInv, TInv, TypeOK
  <2> QED  BY <1>1, <2>3, <2>4 DEF FactsInv
<1>5. ASSUME NEW w \in Workers, Dispatch(w) PROVE FactsInv'
  <2>1. PICK n \in InHand(w), r \in UNION {Responses(m) : m \in InHand(w)} :
           /\ r \in Responses(n)
           /\ accepted' = [accepted EXCEPT ![n] = IF Accepts(r) THEN @ + 1 ELSE @]
           /\ cur'      = [cur EXCEPT ![w] = n]
           /\ verdict'  = [verdict EXCEPT ![w] = Outcome(batch[w][n], r)]
    BY <1>5 DEF Dispatch
  <2>2. n \in Notifs /\ UNCHANGED <<status, emailLog>> /\ pc' = [pc EXCEPT ![w] = "write"]
    BY <1>5 DEF Dispatch, rowVars, InHand
  <2>3. \A m \in Notifs : accepted[m] > 0 => accepted'[m] > 0
    BY <2>1, <2>2 DEF FactsInv, TInv, TypeOK
  <2>4. SentIsTrue' /\ SettledIsLogged'
    BY <2>2, <2>3 DEF FactsInv, SentIsTrue, SettledIsLogged
  <2>5. Outcome(batch[w][n], r) = "sent" => accepted'[n] > 0
    BY <2>1, <2>2 DEF Outcome, Accepts, FactsInv, TInv, TypeOK
  <2>6. SaysSentTruly'
    <3> SUFFICES ASSUME NEW u \in Workers, pc'[u] = "write", verdict'[u] = "sent"
                 PROVE  accepted'[cur'[u]] > 0
      BY DEF SaysSentTruly
    <3>1. CASE u = w
      BY <2>1, <2>5, <3>1 DEF FactsInv, TInv, TypeOK
    <3>2. CASE u # w
      <4>1. pc[u] = "write" /\ verdict[u] = "sent" /\ cur'[u] = cur[u]
        BY <2>1, <2>2, <3>2
      <4>2. cur[u] \in Notifs /\ accepted[cur[u]] > 0
        BY <4>1 DEF FactsInv, SaysSentTruly, TInv, WriterOK
      <4> QED  BY <2>3, <4>1, <4>2
    <3> QED  BY <3>1, <3>2
  <2> QED  BY <1>1, <2>4, <2>6 DEF FactsInv
<1>6. ASSUME NEW w \in Workers, Write(w) \/ WriteAckLost(w) \/ WriteFails(w) PROVE FactsInv'
  <2>1. /\ pc[w] = "write" /\ (RowDone(w) \/ TryFailed(w)) /\ UNCHANGED accepted
        /\ Record(cur[w], verdict[w]) \/ UNCHANGED rowVars
    BY <1>6 DEF Write, WriteAckLost, WriteFails
  <2>2. SentIsTrue' /\ SettledIsLogged'
    BY <1>2, <2>1, RecordKeepsFacts DEF rowVars
  <2>3. \A u \in Workers : pc'[u] = "write" =>
                 pc[u] = "write" /\ verdict'[u] = verdict[u] /\ cur'[u] = cur[u]
    <3>1. CASE RowDone(w)
      BY <2>1, <3>1, RowDoneEffect DEF FactsInv
    <3>2. CASE UNCHANGED <<pc, verdict, cur>>
      BY <3>2
    <3> QED  BY <2>1, <3>1, <3>2 DEF TryFailed
  <2> QED  BY <1>1, <1>3, <2>1, <2>2, <2>3 DEF FactsInv
<1>7. ASSUME NEW n \in Notifs, Enqueue(n) PROVE FactsInv'
  <2>1. SentIsTrue' /\ SettledIsLogged'
    BY <1>7 DEF Enqueue, FactsInv, SentIsTrue, SettledIsLogged, TInv, TypeOK, Terminal
  <2>2. SaysSentTruly'
    BY <1>3, <1>7 DEF Enqueue, workerVars
  <2> QED  BY <1>1, <2>1, <2>2 DEF FactsInv
<1>8. ASSUME \/ \E n \in Notifs : Clock(n)
             \/ \E w \in Workers : CheckCap(w) \/ ClaimNothing(w) \/ Leave(w)
             \/ \E p \in Procs : Stop(p) \/ Crash(p) \/ Restart(p)
             \/ UNCHANGED vars
      PROVE  FactsInv'
  <2>1. UNCHANGED <<status, emailLog, accepted>>
    BY <1>8 DEF Clock, BackoffElapses, LeaseExpires, DayPasses, CheckCap, ClaimNothing, Leave,
                Stop, Crash, Restart, rowVars, vars
  <2>2. \A u \in Workers : pc'[u] = "write" =>
            pc[u] = "write" /\ verdict'[u] = verdict[u] /\ cur'[u] = cur[u]
    BY <1>8 DEF Clock, BackoffElapses, LeaseExpires, DayPasses, CheckCap, ClaimNothing, Leave,
                Stop, Crash, Restart, workerVars, vars, FactsInv, TInv, TypeOK
  <2> QED  BY <1>1, <1>2, <1>3, <2>1, <2>2 DEF FactsInv
<1> QED
  BY <1>4, <1>5, <1>6, <1>7, <1>8 DEF Next, Work, WorkerFault

\* Also when a commit succeeds unnoticed and a row is written twice: whatever is
\* called sent was accepted, and no settled row is missing from the log.
THEOREM FactsUnderEveryFault == Spec => [](SentIsTrue /\ SettledIsLogged)
<1>1. Init => FactsInv
  BY TypeInit DEF Init, FactsInv, SentIsTrue, SettledIsLogged, SaysSentTruly, Terminal
<1>2. Spec => []FactsInv
  BY <1>1, FactsStep, PTL DEF Spec
<1> QED  BY <1>2, PTL DEF FactsInv
=============================================================================
