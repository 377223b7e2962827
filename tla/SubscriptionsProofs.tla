------------------------ MODULE SubscriptionsProofs ------------------------
(***************************************************************************)
(* Proofs about the double opt-in, for every set of requests, with and     *)
(* without the throttle, and under every fault.                            *)
(***************************************************************************)
EXTENDS Subscriptions, TLAPS

\* The part of the outbox the proofs look at.
MailTypeOK ==
    /\ stage \in [Issuers -> {"absent", "pending", "sending", "sent", "failed", "dead"}]
    /\ mail \in [Issuers -> Nat]
    /\ spent \in [Issuers -> Nat]

\* Only submitted mail is posted.
PostedIsSubmitted == \A t \in Issuers : mail[t] > 0 => stage[t] # "absent"

\* Mail, and a request past its upsert or its lookup, mean that the row exists.
RowExists ==
    /\ \A t \in Issuers : stage[t] # "absent" => status # "none"
    /\ \A r \in Requests : pc[r] \in {"enqueue", "update"} => status # "none"

IInv ==
    /\ TypeOK
    /\ MailTypeOK
    /\ TokenIffPending
    /\ PostedIsSubmitted
    /\ RowExists
    /\ AnsweredIsResolved

USE DEF Requests, ConfirmRow, UnsubscribeRow

LEMMA InvInit == Init => IInv
  BY TokenAssumption
  DEF Init, IInv, TypeOK, MailTypeOK, TokenIffPending, PostedIsSubmitted, RowExists,
      AnsweredIsResolved, Mail!Init

\* Steps that leave the row alone and mail nothing.
LEMMA QuietStep ==
    ASSUME IInv, NEW r \in Requests, NEW a, NEW at,
           UNCHANGED <<rowVars, age, mailVars>>, link' = link,
           at \in {"upsert", "enqueue", "update", "done"},
           at \in {"enqueue", "update"} => status # "none",
           r \in Clicks => at \in {"update", "done"} /\ a = "bad",
           r \in Unsubs => at = "done",
           pc' = [pc EXCEPT ![r] = at],
           \/ reply' = reply
           \/ /\ r \notin Issuers /\ a \in {"bad", "error"}
              /\ reply' = [reply EXCEPT ![r] = a]
    PROVE  IInv'
<1>1. TypeOK' /\ MailTypeOK' /\ TokenIffPending' /\ PostedIsSubmitted'
  BY DEF IInv, TypeOK, MailTypeOK, TokenIffPending, PostedIsSubmitted, rowVars, mailVars
<1>2. RowExists'
  BY DEF IInv, TypeOK, RowExists, rowVars, mailVars
<1>3. AnsweredIsResolved'
  BY DEF IInv, TypeOK, AnsweredIsResolved, rowVars
<1> QED  BY <1>1, <1>2, <1>3 DEF IInv

\* The upsert of a pending row: what was answered before still stands, since
\* an answered row is not upsertable.
LEMMA UpsertStep ==
    ASSUME IInv, NEW r \in Issuers, NEW at,
           Upsertable, SetPending(r), UNCHANGED <<age, link, mailVars>>,
           at \in {"enqueue", "done"}, pc' = [pc EXCEPT ![r] = at], reply' = reply
    PROVE  IInv'
<1>1. TypeOK' /\ MailTypeOK' /\ PostedIsSubmitted'
  BY KindAssumption DEF IInv, TypeOK, MailTypeOK, PostedIsSubmitted, SetPending, mailVars
<1>2. TokenIffPending'
  BY TokenAssumption DEF TokenIffPending, SetPending
<1>3. RowExists'
  BY DEF IInv, TypeOK, RowExists, SetPending, mailVars
<1>4. AnsweredIsResolved'
  BY DEF IInv, TypeOK, AnsweredIsResolved, SetPending, Upsertable
<1> QED  BY <1>1, <1>2, <1>3, <1>4 DEF IInv

\* The row leaves 'pending', or stays where it was resolved.
LEMMA ResolveStep ==
    ASSUME IInv, NEW r \in Requests, NEW a, NEW s,
           status # "none", UNCHANGED <<age, link, mailVars>>,
           status' = s, token' = NoToken,
           \/ /\ s = "unsubscribed" /\ r \in Unsubs
              /\ a \in {"unsubscribed", "error", "bad"}
           \/ /\ s = "confirmed" /\ status \in {"pending", "confirmed"} /\ r \in Clicks
              /\ a \in {"confirmed", "bad"},
           Answer(r, a)
    PROVE  IInv'
<1>1. TypeOK' /\ MailTypeOK' /\ PostedIsSubmitted' /\ TokenIffPending'
  BY KindAssumption
  DEF IInv, TypeOK, MailTypeOK, PostedIsSubmitted, TokenIffPending, mailVars, Answer
<1>2. RowExists'
  BY DEF IInv, TypeOK, RowExists, mailVars, Answer
<1>3. AnsweredIsResolved'
  BY KindAssumption DEF IInv, TypeOK, AnsweredIsResolved, Answer
<1> QED  BY <1>1, <1>2, <1>3 DEF IInv

\* A commit whose acknowledgement is lost moves the row and answers a failure.
LEMMA AckLostStep == ASSUME IInv, NEW r \in Requests, AckLost(r) PROVE IInv'
<1>1. PICK a \in {"bad", "error"} : Answer(r, a) /\ (a = "bad" <=> r \in Clicks)
  BY DEF AckLost, Failure
<1>2. UNCHANGED <<age, link, mailVars>>
  BY DEF AckLost
<1>3. CASE r \in Issuers /\ pc[r] = "upsert" /\ Upsertable /\ SetPending(r)
  BY <1>1, <1>2, <1>3, UpsertStep, KindAssumption DEF Answer
<1>4. CASE r \in Clicks /\ ConfirmRow
  <2>1. CASE status \in {"pending", "confirmed"}
    BY <1>1, <1>2, <1>4, <2>1, ResolveStep
  <2>2. CASE status \notin {"pending", "confirmed"}
    BY <1>1, <1>2, <1>4, <2>2, QuietStep DEF Answer
  <2> QED  BY <2>1, <2>2
<1>5. CASE r \in Unsubs /\ (\E t \in Mailed : UnsubLive(t)) /\ UnsubscribeRow
  <2>1. status # "none"
    BY <1>5 DEF Mailed, IInv, PostedIsSubmitted, RowExists
  <2> QED  BY <1>1, <1>2, <1>5, <2>1, ResolveStep
<1> QED  BY <1>3, <1>4, <1>5 DEF AckLost

\* What a step of the queue does not undo.
MailKept ==
    /\ MailTypeOK'
    /\ \A t \in Issuers : /\ stage'[t] = "absent" <=> stage[t] = "absent"
                          /\ mail'[t] # mail[t] => stage[t] # "absent"

\* The queue never forgets a mail, and posts only what was submitted.
LEMMA QueueKeepsMail == ASSUME MailTypeOK, QueueStep PROVE MailKept
<1>1. ASSUME NEW S \in SUBSET Issuers, Mail!Take(S) PROVE MailKept
  BY <1>1 DEF MailKept, MailTypeOK, Mail!Take
<1>2. ASSUME NEW t \in Issuers, Mail!Post(t) PROVE MailKept
  BY <1>2 DEF MailKept, MailTypeOK, Mail!Post
<1>3. ASSUME NEW t \in Issuers, Mail!TryAgain(t) PROVE MailKept
  BY <1>3 DEF MailKept, MailTypeOK, Mail!TryAgain
<1>4. ASSUME NEW t \in Issuers, NEW v \in Mail!Verdict, Mail!Settle(t, v) PROVE MailKept
  BY <1>4 DEF MailKept, MailTypeOK, Mail!Settle, Mail!Verdict
<1> QED  BY <1>1, <1>2, <1>3, <1>4 DEF QueueStep

LEMMA QueueStepKeeps == ASSUME IInv, QueueStep PROVE IInv'
<1>1. MailKept
  BY QueueKeepsMail DEF IInv
<1>2. UNCHANGED <<rowVars, age, reqVars>>
  BY DEF QueueStep
<1>3. PostedIsSubmitted'
  BY <1>1 DEF MailKept, IInv, MailTypeOK, PostedIsSubmitted
<1>4. TypeOK' /\ TokenIffPending' /\ RowExists' /\ AnsweredIsResolved'
  BY <1>1, <1>2
  DEF MailKept, IInv, TypeOK, TokenIffPending, RowExists, AnsweredIsResolved, rowVars, reqVars
<1> QED  BY <1>1, <1>3, <1>4 DEF MailKept, IInv

\* The invariant is inductive.
LEMMA InvStep == IInv /\ [Next]_vars => IInv'
<1> SUFFICES ASSUME IInv, [Next]_vars PROVE IInv'
  OBVIOUS
<1>1. ASSUME NEW r \in Requests, Reject(r) \/ CheckThrottle(r) \/ ResendRead(r) PROVE IInv'
  <2>1. r \in Issuers
    BY <1>1 DEF Reject, CheckThrottle, ResendRead, Issuers
  <2>2. PICK at \in {"upsert", "done"} : pc' = [pc EXCEPT ![r] = at] /\ reply' = reply
    BY <1>1, <2>1 DEF Reject, CheckThrottle, ResendRead, Answer, Goto
  <2> QED  BY <1>1, <2>1, <2>2, QuietStep, KindAssumption DEF Reject, CheckThrottle, ResendRead
<1>2. ASSUME NEW r \in Requests, Upsert(r) \/ ResendUpsert(r) PROVE IInv'
  <2>1. r \in Issuers /\ UNCHANGED <<age, link, mailVars>>
    BY <1>2 DEF Upsert, ResendUpsert, Issuers
  <2>2. CASE Upsertable
    <3>1. SetPending(r) /\ pc' = [pc EXCEPT ![r] = "enqueue"] /\ reply' = reply
      BY <1>2, <2>2 DEF Upsert, ResendUpsert, Goto
    <3> QED  BY <2>1, <2>2, <3>1, UpsertStep
  <2>3. CASE ~Upsertable
    <3>1. PICK a \in {"accepted", "conflict"} : Answer(r, a) /\ UNCHANGED rowVars
      BY <1>2, <2>3 DEF Upsert, ResendUpsert
    <3> QED  BY <2>1, <3>1, QuietStep, KindAssumption DEF Answer
  <2> QED  BY <2>2, <2>3
<1>3. ASSUME NEW r \in Requests, Enqueue(r) \/ EnqueueAckLost(r) PROVE IInv'
  <2>1. PICK a \in {"accepted", "queued", "error"} : Answer(r, a)
    BY <1>3 DEF Enqueue, EnqueueAckLost, EnqueueError
  <2>2. /\ pc[r] = "enqueue" /\ UNCHANGED <<rowVars, age, link>>
        /\ stage[r] = "absent" /\ stage' = [stage EXCEPT ![r] = "pending"]
        /\ UNCHANGED <<spent, mail>>
    BY <1>3 DEF Enqueue, EnqueueAckLost, Mail!Submit
  <2>3. TypeOK' /\ MailTypeOK' /\ TokenIffPending' /\ PostedIsSubmitted'
    <3>1. r \in Issuers /\ r \notin Clicks
      BY <2>2, KindAssumption DEF IInv, TypeOK
    <3> QED
      BY <2>1, <2>2, <3>1, KindAssumption
      DEF IInv, TypeOK, MailTypeOK, TokenIffPending, PostedIsSubmitted, rowVars, Answer
  <2>4. RowExists'
    BY <2>1, <2>2 DEF IInv, TypeOK, MailTypeOK, RowExists, rowVars, Answer
  <2>5. AnsweredIsResolved'
    BY <2>1, <2>2 DEF IInv, TypeOK, AnsweredIsResolved, rowVars, Answer
  <2> QED  BY <2>3, <2>4, <2>5 DEF IInv
<1>4. ASSUME NEW r \in Requests, Click(r) PROVE IInv'
  <2>1. PICK t \in Mailed : /\ link' = [link EXCEPT ![r] = t]
                            /\ IF ConfirmLive(t) /\ TokenMatches(t)
                               THEN Goto(r, "update") ELSE Answer(r, "bad")
    BY <1>4 DEF Click
  <2>2. r \in Clicks /\ t \in Issuers /\ UNCHANGED <<rowVars, age, mailVars>>
    BY <1>4 DEF Click, Mailed
  <2>3. link' \in [Clicks -> Issuers \cup {NoToken}]
    BY <2>1, <2>2 DEF IInv, TypeOK
  <2>4. \/ pc' = [pc EXCEPT ![r] = "update"] /\ reply' = reply /\ status = "pending"
        \/ pc' = [pc EXCEPT ![r] = "done"] /\ reply' = [reply EXCEPT ![r] = "bad"]
    BY <2>1, <2>2, KindAssumption DEF Goto, Answer, TokenMatches
  <2>5. TypeOK' /\ MailTypeOK' /\ TokenIffPending' /\ PostedIsSubmitted'
    BY <2>2, <2>3, <2>4, KindAssumption
    DEF IInv, TypeOK, MailTypeOK, TokenIffPending, PostedIsSubmitted, rowVars, mailVars
  <2>6. RowExists' /\ AnsweredIsResolved'
    BY <2>2, <2>4 DEF IInv, TypeOK, RowExists, AnsweredIsResolved, rowVars, mailVars
  <2> QED  BY <2>5, <2>6 DEF IInv
<1>5. ASSUME NEW r \in Requests, Confirm(r) PROVE IInv'
  <2>1. r \in Clicks /\ pc[r] = "update" /\ status # "none" /\ Answer(r, "confirmed")
        /\ UNCHANGED <<age, link, mailVars>>
    BY <1>5 DEF Confirm, IInv, RowExists
  <2>2. CASE status \in {"pending", "confirmed"}
    BY <1>5, <2>1, <2>2, ResolveStep DEF Confirm
  <2>3. CASE status \notin {"pending", "confirmed"}
    <3>1. status = "unsubscribed" /\ UNCHANGED rowVars
      BY <1>5, <2>1, <2>3 DEF Confirm, IInv, TypeOK
    <3>2. TypeOK' /\ MailTypeOK' /\ TokenIffPending' /\ PostedIsSubmitted'
      BY <2>1, <3>1
      DEF IInv, TypeOK, MailTypeOK, TokenIffPending, PostedIsSubmitted, rowVars, mailVars, Answer
    <3>3. RowExists' /\ AnsweredIsResolved'
      BY <2>1, <3>1 DEF IInv, TypeOK, RowExists, AnsweredIsResolved, rowVars, mailVars, Answer
    <3> QED  BY <3>2, <3>3 DEF IInv
  <2> QED  BY <2>2, <2>3
<1>6. ASSUME NEW r \in Requests, Unsubscribe(r) PROVE IInv'
  <2>1. status # "none"
    BY <1>6 DEF Unsubscribe, Mailed, IInv, PostedIsSubmitted, RowExists
  <2>2. UNCHANGED <<age, link, mailVars>>
    BY <1>6 DEF Unsubscribe
  <2>3. CASE status' = "unsubscribed" /\ token' = NoToken /\ Answer(r, "unsubscribed")
    BY <1>6, <2>1, <2>2, <2>3, ResolveStep DEF Unsubscribe
  <2>4. CASE Answer(r, "bad") /\ UNCHANGED rowVars
    BY <2>2, <2>4, QuietStep DEF Answer
  <2> QED  BY <1>6, <2>3, <2>4 DEF Unsubscribe
<1>7. ASSUME NEW r \in Requests, TxFails(r) \/ EnqueueFails(r) PROVE IInv'
  <2>1. CASE r \in Issuers
    <3>1. pc' = [pc EXCEPT ![r] = "done"] /\ reply' = reply
      BY <1>7, <2>1 DEF TxFails, EnqueueFails, EnqueueError, Answer
    <3> QED  BY <1>7, <2>1, <3>1, QuietStep, KindAssumption DEF TxFails, EnqueueFails
  <2>2. CASE r \notin Issuers
    <3>1. TxFails(r)
      BY <1>7, <2>2 DEF EnqueueFails, IInv, TypeOK
    <3>2. PICK a \in {"bad", "error"} : Answer(r, a) /\ (r \in Clicks => a = "bad")
      BY <3>1 DEF TxFails, Failure
    <3> QED  BY <2>2, <3>1, <3>2, QuietStep DEF TxFails, Answer
  <2> QED  BY <2>1, <2>2
<1>8. ASSUME NEW r \in Requests, AckLost(r) PROVE IInv'
  BY <1>8, AckLostStep
<1>9. CASE QueueStep
  BY <1>9, QueueStepKeeps
<1>10. ASSUME NEW t \in Issuers, Ages(t) PROVE IInv'
  <2>1. age' \in [Issuers -> 0..3]
    BY <1>10, HorizonAssumption DEF Ages, IInv, TypeOK
  <2> QED
    BY <1>10, <2>1 DEF Ages, IInv, TypeOK, MailTypeOK, TokenIffPending, PostedIsSubmitted,
                       RowExists, AnsweredIsResolved, rowVars, reqVars, mailVars
<1>11. CASE UNCHANGED vars
  BY <1>11 DEF vars, IInv, TypeOK, MailTypeOK, TokenIffPending, PostedIsSubmitted,
               RowExists, AnsweredIsResolved, rowVars, reqVars, mailVars
<1> QED
  BY <1>1, <1>2, <1>3, <1>4, <1>5, <1>6, <1>7, <1>8, <1>9, <1>10, <1>11
  DEF Next, Handle, RequestFault

\* The row, the requests and the outbox stay in their types, under all faults.
THEOREM SubscriptionSafe == Spec => []IInv
  BY InvInit, InvStep, PTL DEF Spec

THEOREM SubscriptionTypeCorrect == Spec => []TypeOK
<1>1. IInv => TypeOK
  BY DEF IInv
<1> QED  BY <1>1, SubscriptionSafe, PTL

\* What a confirmation or an unsubscription was answered stays true, however
\* many requests, old links, resends and faults follow.
THEOREM AnswersHold == Spec => []AnsweredIsResolved
<1>1. IInv => AnsweredIsResolved
  BY DEF IInv
<1> QED  BY <1>1, SubscriptionSafe, PTL

\* The row carries a confirm token exactly while it is pending.
THEOREM TokenWhilePending == Spec => []TokenIffPending
<1>1. IInv => TokenIffPending
  BY DEF IInv
<1> QED  BY <1>1, SubscriptionSafe, PTL

\* The row only moves along the life cycle of the double opt-in.  The
\* invariant rules out a row that a link or a lookup found and that is absent.
THEOREM LifecycleHolds == Spec => Lifecycle
<1>1. IInv /\ [Next]_vars => [status' # status => <<status, status'>> \in Transitions]_vars
  <2> SUFFICES ASSUME IInv, Next, status' # status
               PROVE  <<status, status'>> \in Transitions
    BY DEF vars, rowVars
  <2>1. status \in {"none", "pending", "confirmed", "unsubscribed"}
    BY DEF IInv, TypeOK
  <2>2. ASSUME Mailed # {} PROVE status # "none"
    BY <2>2 DEF Mailed, IInv, PostedIsSubmitted, RowExists
  <2>3. ASSUME NEW r \in Requests, Upsert(r) \/ ResendUpsert(r) PROVE <<status, status'>> \in Transitions
    BY <2>3 DEF Upsert, ResendUpsert, Upsertable, SetPending, Transitions, rowVars
  <2>4. ASSUME NEW r \in Requests, Confirm(r) PROVE <<status, status'>> \in Transitions
    BY <2>4 DEF Confirm, Transitions, rowVars
  <2>5. ASSUME NEW r \in Requests, Unsubscribe(r) PROVE <<status, status'>> \in Transitions
    <3>1. Mailed # {} /\ status' = "unsubscribed"
      BY <2>5 DEF Unsubscribe, rowVars
    <3> QED  BY <2>1, <2>2, <3>1 DEF Transitions
  <2>6. ASSUME NEW r \in Requests, AckLost(r) PROVE <<status, status'>> \in Transitions
    <3>1. CASE Upsertable /\ SetPending(r)
      BY <3>1 DEF Upsertable, SetPending, Transitions
    <3>2. CASE ConfirmRow
      BY <3>2 DEF Transitions, rowVars
    <3>3. CASE Mailed # {} /\ status' = "unsubscribed"
      BY <3>3, <2>1, <2>2 DEF Transitions
    <3> QED  BY <2>6, <3>1, <3>2, <3>3 DEF AckLost
  <2>7. ASSUME NEW r \in Requests,
               \/ Reject(r) \/ CheckThrottle(r) \/ Enqueue(r) \/ ResendRead(r) \/ Click(r)
               \/ TxFails(r) \/ EnqueueFails(r) \/ EnqueueAckLost(r)
        PROVE  FALSE
    BY <2>7 DEF Reject, CheckThrottle, Enqueue, ResendRead, Click, TxFails, EnqueueFails, EnqueueAckLost,
                rowVars
  <2>8. ASSUME QueueStep \/ \E t \in Issuers : Ages(t) PROVE FALSE
    BY <2>8 DEF QueueStep, Ages, rowVars
  <2> QED  BY <2>3, <2>4, <2>5, <2>6, <2>7, <2>8 DEF Next, Handle, RequestFault
<1> QED  BY <1>1, SubscriptionSafe, PTL DEF Spec, Lifecycle

-----------------------------------------------------------------------------
(* The mail of a pending row.                                              *)

\* Only requests that issue a token enqueue a mail.
IssuersEnqueue == \A r \in Requests : pc[r] = "enqueue" => r \in Issuers

\* What a step may do to the mail of an issuer, and to its place in the handler.
\* A request is at "enqueue" from its upsert on, until it queues its mail or is cut.
MailMoves(t) ==
    \/ /\ stage'[t] = "absent" <=> stage[t] = "absent"
       /\ pc'[t] = "enqueue" <=> pc[t] = "enqueue"
    \/ /\ Upsertable /\ SetPending(t)
       /\ pc'[t] = "enqueue" /\ stage' = stage
    \/ /\ pc[t] = "enqueue" /\ pc'[t] # "enqueue"
       /\ \/ stage'[t] # "absent"
          \/ EnqueueFails(t) /\ stage' = stage

LEMMA MailStep ==
    ASSUME IInv, [Next]_vars, NEW t \in Issuers
    PROVE  MailMoves(t)
<1> USE DEF IInv, TypeOK, MailTypeOK, MailMoves
<1>1. ASSUME NEW r \in Requests, Enqueue(r) \/ EnqueueAckLost(r) PROVE MailMoves(t)
  BY <1>1 DEF Enqueue, EnqueueAckLost, EnqueueError, Answer, Mail!Submit
<1>2. ASSUME NEW r \in Requests, Upsert(r) \/ ResendUpsert(r) PROVE MailMoves(t)
  BY <1>2 DEF Upsert, ResendUpsert, Answer, Goto, mailVars
<1>3. ASSUME NEW r \in Requests, EnqueueFails(r) PROVE MailMoves(t)
  BY <1>3 DEF EnqueueFails, EnqueueError, Answer, mailVars
<1>4. ASSUME NEW r \in Requests, AckLost(r) PROVE MailMoves(t)
  BY <1>4, KindAssumption DEF AckLost, Answer, mailVars
<1>5. ASSUME NEW r \in Requests,
             \/ Reject(r) \/ CheckThrottle(r) \/ ResendRead(r)
             \/ Click(r) \/ Confirm(r) \/ Unsubscribe(r) \/ TxFails(r)
      PROVE  MailMoves(t)
  <2>1. PICK at \in {"upsert", "update", "done"} :
           pc' = [pc EXCEPT ![r] = at] /\ pc[r] # "enqueue" /\ stage' = stage
    BY <1>5 DEF Reject, CheckThrottle, ResendRead, Click, Confirm, Unsubscribe, TxFails,
                Answer, Goto, mailVars
  <2> QED  BY <2>1
<1>6. CASE QueueStep
  BY <1>6, QueueKeepsMail DEF QueueStep, MailKept, reqVars
<1>7. CASE UNCHANGED vars \/ \E u \in Issuers : Ages(u)
  BY <1>7 DEF Ages, vars, reqVars, mailVars
<1> QED
  BY <1>1, <1>2, <1>3, <1>4, <1>5, <1>6, <1>7 DEF Next, Handle, RequestFault

\* A resolved address is mailed only by requests whose upsert came before.
THEOREM NoMailIsAddedLater == Spec => LateMailOnly
<1>1. IInv /\ [Next]_vars =>
        [\A t \in Issuers :
          (/\ status \in {"confirmed", "unsubscribed"}
           /\ stage[t] = "absent" /\ pc[t] # "enqueue")
          => stage'[t] = "absent" /\ pc'[t] # "enqueue"]_vars
  BY MailStep DEF MailMoves, Upsertable
<1> QED  BY <1>1, SubscriptionSafe, PTL DEF Spec, LateMailOnly

\* The issuer of the token is past its upsert.
TokenIssued == token \in Issuers => pc[token] \in {"enqueue", "done"}

\* Steps that change the row: an upsert, noticed or not, or the end of 'pending'.
LEMMA RowMoves ==
    ASSUME IInv, [Next]_vars, status' = "pending", rowVars' # rowVars
    PROVE  \E r \in Issuers :
             /\ token' = r
             /\ \/ pc' = [pc EXCEPT ![r] = "enqueue"]
                \/ pc' = [pc EXCEPT ![r] = "done"] /\ AckLost(r)
<1> DEFINE Moves == \E r \in Issuers :
                      /\ token' = r
                      /\ \/ pc' = [pc EXCEPT ![r] = "enqueue"]
                         \/ pc' = [pc EXCEPT ![r] = "done"] /\ AckLost(r)
<1>1. ASSUME NEW r \in Requests, Upsert(r) \/ ResendUpsert(r) PROVE Moves
  BY <1>1 DEF Upsert, ResendUpsert, SetPending, Goto, Issuers
<1>2. ASSUME NEW r \in Requests, AckLost(r) PROVE Moves
  <2>1. r \in Issuers /\ SetPending(r)
    BY <1>2 DEF AckLost
  <2> QED  BY <1>2, <2>1 DEF AckLost, SetPending, Answer
<1>3. \A r \in Requests : ~Confirm(r) /\ ~Unsubscribe(r)
  BY DEF Confirm, Unsubscribe
<1>4. ASSUME NEW r \in Requests,
             \/ Reject(r) \/ CheckThrottle(r) \/ Enqueue(r) \/ ResendRead(r) \/ Click(r)
             \/ TxFails(r) \/ EnqueueFails(r) \/ EnqueueAckLost(r)
      PROVE  UNCHANGED rowVars
  BY <1>4 DEF Reject, CheckThrottle, Enqueue, ResendRead, Click, TxFails, EnqueueFails,
              EnqueueAckLost
<1>5. ASSUME QueueStep \/ UNCHANGED vars \/ \E t \in Issuers : Ages(t)
      PROVE  UNCHANGED rowVars
  BY <1>5 DEF QueueStep, Ages, vars
<1> QED  BY <1>1, <1>2, <1>3, <1>4, <1>5 DEF Next, Handle, RequestFault

LEMMA TokenIssuedStep == IInv /\ TokenIssued /\ [Next]_vars => TokenIssued'
<1> SUFFICES ASSUME IInv, TokenIssued, [Next]_vars, token' \in Issuers
             PROVE  pc'[token'] \in {"enqueue", "done"}
  BY DEF TokenIssued
<1> USE DEF IInv, TypeOK
<1>1. status' = "pending"
  BY InvStep, TokenAssumption DEF TokenIffPending
<1>2. CASE rowVars' # rowVars
  BY <1>1, <1>2, RowMoves
<1>3. CASE UNCHANGED rowVars
  <2>1. token' = token /\ pc[token] \in {"enqueue", "done"}
    BY <1>3 DEF rowVars, TokenIssued
  <2>2. ASSUME NEW r \in Requests, Handle(r) \/ RequestFault(r)
        PROVE  /\ pc[r] # "done"
               /\ \E at : pc' = [pc EXCEPT ![r] = at] /\ (pc[r] = "enqueue" => at = "done")
    BY <2>2 DEF Handle, RequestFault, Reject, CheckThrottle, Upsert, Enqueue, ResendRead,
                ResendUpsert, Click, Confirm, Unsubscribe, TxFails, AckLost, EnqueueFails,
                EnqueueAckLost, EnqueueError, Answer, Goto
  <2>3. ASSUME NEW r \in Requests, Handle(r) \/ RequestFault(r)
        PROVE  pc'[token'] \in {"enqueue", "done"}
    BY <2>1, <2>2, <2>3
  <2>4. ASSUME QueueStep \/ UNCHANGED vars \/ \E t \in Issuers : Ages(t)
        PROVE  pc' = pc
    BY <2>4 DEF QueueStep, Ages, vars, reqVars
  <2> QED  BY <2>1, <2>3, <2>4 DEF Next
<1> QED  BY <1>2, <1>3

\* A pending row is left without its mail by a fault of the issuer of its token,
\* and by nothing else.
THEOREM PendingRowsHaveMail == Spec => PendingHasMail
<1> DEFINE Cause == \E t \in Issuers : token' = t /\ (AckLost(t) \/ EnqueueFails(t))
<1>1. Init => TokenIssued
  BY TokenAssumption DEF Init, TokenIssued
<1>2. IInv /\ TokenIssued /\ [Next]_vars => TokenIssued'
  BY TokenIssuedStep
<1>3. IInv /\ TokenIssued /\ [Next]_vars => [~Unmailed /\ Unmailed' => Cause]_vars
  <2> SUFFICES ASSUME IInv, TokenIssued, [Next]_vars, ~Unmailed, Unmailed' PROVE Cause
    OBVIOUS
  <2>1. /\ token' \in Issuers /\ status' = "pending"
        /\ pc'[token'] = "done" /\ stage'[token'] = "absent"
    BY InvStep DEF IInv, TypeOK, TokenIffPending, Unmailed
  <2>2. CASE rowVars' # rowVars
    BY <2>1, <2>2, RowMoves DEF IInv, TypeOK
  <2>3. CASE UNCHANGED rowVars
    <3>1. token' = token /\ token \in Issuers /\ status = "pending"
      BY <2>1, <2>3 DEF rowVars
    <3>2. MailMoves(token)
      BY <3>1, MailStep
    <3> QED  BY <2>1, <3>1, <3>2 DEF MailMoves, Unmailed, TokenIssued
  <2> QED  BY <2>2, <2>3
<1> QED  BY <1>1, <1>2, <1>3, SubscriptionSafe, PTL DEF Spec, PendingHasMail

-----------------------------------------------------------------------------
(* The requests use the outbox as it is meant to be used.                  *)

LEMMA IssuersEnqueueStep == IInv /\ IssuersEnqueue /\ [Next]_vars => IssuersEnqueue'
<1> SUFFICES ASSUME IInv, IssuersEnqueue, [Next]_vars PROVE IssuersEnqueue'
  OBVIOUS
<1> USE DEF IInv, TypeOK, IssuersEnqueue
<1>1. ASSUME NEW r \in Requests, Handle(r) \/ RequestFault(r) PROVE IssuersEnqueue'
  <2>1. PICK at : pc' = [pc EXCEPT ![r] = at] /\ (at = "enqueue" => r \in Issuers)
    BY <1>1 DEF Handle, RequestFault, Reject, CheckThrottle, Upsert, Enqueue, ResendRead,
                ResendUpsert, Click, Confirm, Unsubscribe, TxFails, AckLost, EnqueueFails,
                EnqueueAckLost, EnqueueError, Answer, Goto, Issuers
  <2> QED  BY <2>1
<1>2. CASE QueueStep \/ UNCHANGED vars \/ \E t \in Issuers : Ages(t)
  BY <1>2 DEF QueueStep, Ages, vars, reqVars
<1> QED  BY <1>1, <1>2 DEF Next

\* Whatever the requests do, the mails go the way of Outbox: what it is shown to
\* promise, it promises here.
THEOREM MailsGoThroughOutbox == Spec => Mail!Spec
<1>1. Init => Mail!Init /\ IssuersEnqueue
  BY DEF Init, IssuersEnqueue
<1>2. IInv /\ IssuersEnqueue /\ [Next]_vars => [Mail!Next]_(Mail!vars)
  <2> SUFFICES ASSUME IInv, IssuersEnqueue, [Next]_vars
               PROVE  Mail!Next \/ UNCHANGED mailVars
    BY DEF mailVars, Mail!vars
  <2>1. ASSUME NEW r \in Requests, Enqueue(r) \/ EnqueueAckLost(r) PROVE Mail!Next
    BY <2>1 DEF Enqueue, EnqueueAckLost, Mail!Next, IssuersEnqueue
  <2>2. ASSUME NEW r \in Requests,
               \/ Reject(r) \/ CheckThrottle(r) \/ Upsert(r) \/ ResendRead(r)
               \/ ResendUpsert(r) \/ Click(r) \/ Confirm(r) \/ Unsubscribe(r)
               \/ TxFails(r) \/ AckLost(r) \/ EnqueueFails(r)
        PROVE  UNCHANGED mailVars
    BY <2>2 DEF Reject, CheckThrottle, Upsert, ResendRead, ResendUpsert, Click, Confirm,
                Unsubscribe, TxFails, AckLost, EnqueueFails
  <2>3. CASE QueueStep
    BY <2>3 DEF QueueStep, Mail!Next
  <2>4. CASE UNCHANGED vars \/ \E t \in Issuers : Ages(t)
    BY <2>4 DEF Ages, vars
  <2> QED  BY <2>1, <2>2, <2>3, <2>4 DEF Next, Handle, RequestFault
<1>3. IInv /\ IssuersEnqueue /\ [Next]_vars => IssuersEnqueue'
  BY IssuersEnqueueStep
<1> QED  BY <1>1, <1>2, <1>3, SubscriptionSafe, PTL DEF Spec, Mail!Spec

MP == INSTANCE OutboxProofs WITH Messages <- Issuers

\* So the accounts of the mails agree behind the subscriptions too: a mail that is
\* 'sent' was posted, one that is settled is never posted again, and no mail is
\* posted before its request submitted it.
THEOREM MailsKeepAccounts == Spec => []MP!Promise /\ MP!SettledStays
<1>1. Spec => MP!Spec
  <2>1. Mail!Init => MP!Init
    BY DEF Mail!Init, MP!Init
  <2>2. [Mail!Next]_(Mail!vars) => [MP!Next]_(MP!vars)
    BY DEF Mail!Next, MP!Next, Mail!vars, MP!vars, Mail!Submit, MP!Submit, Mail!Take, MP!Take,
           Mail!Post, MP!Post, Mail!TryAgain, MP!TryAgain, Mail!Settle, MP!Settle,
           Mail!Verdict, MP!Verdict
  <2> QED  BY <2>1, <2>2, MailsGoThroughOutbox, PTL DEF Mail!Spec, MP!Spec
<1>2. Budget \in Nat
  BY BudgetAssumption
<1>3. (MP!Spec => []MP!Promise) /\ (MP!Spec => MP!SettledStays)
  BY <1>2, MP!OutboxKeepsAccounts, MP!OutboxSettlesForGood
<1> QED  BY <1>1, <1>3, PTL
=============================================================================
