--------------------------- MODULE Subscriptions ---------------------------
(***************************************************************************)
(* The double opt-in of one e-mail address: its row in public.subscribers  *)
(* and the HTTP requests that work on it.  Addresses share nothing but the *)
(* rate limits, so one of them is enough.                                  *)
(*                                                                         *)
(* A step of a request is one SQL statement or transaction.  Statements of *)
(* one READ COMMITTED transaction are steps of their own when the second   *)
(* relies on what the first one read without a lock.  The confirmation     *)
(* mails go through Outbox, which NotificationQueue implements.  Which     *)
(* callers' upserts row level security lets through is in RowAccess.       *)
(***************************************************************************)
EXTENDS Integers

CONSTANTS
    Subscribes,   \* POST /v1/subscribers requests for the address
    Resends,      \* POST /v1/admin/subscribers/{id}/resend-confirm requests
    Clicks,       \* POST /v1/subscribers/confirm requests
    Unsubs,       \* POST /v1/subscribers/unsubscribe requests
    Throttle,     \* EmailThrottleWindow > 0
    Budget,       \* tries the queue makes for one mail
    Faults,       \* what may fail under a request
    Horizon,      \* the oldest age a mail is followed to; 3 cuts nothing off
    NoToken       \* confirm_token_hash IS NULL

\* A request that issues a token stands for the token, its mail and its links.
Issuers  == Subscribes \cup Resends
Requests == Issuers \cup Clicks \cup Unsubs

ASSUME ThrottleAssumption == Throttle \in BOOLEAN
ASSUME BudgetAssumption   == Budget \in Nat \ {0}
ASSUME HorizonAssumption  == Horizon \in 0..3
ASSUME TokenAssumption    == NoToken \notin Issuers
ASSUME KindAssumption     == /\ Subscribes \cap Resends = {} /\ Issuers \cap Clicks = {}
                             /\ Requests \ Unsubs = Issuers \cup Clicks
ASSUME FaultAssumption    == Faults \subseteq {"txfail", "acklost", "enqueuefail"}

VARIABLES
    status,    \* subscribers.status, "none" before the row exists
    token,     \* the issuer of confirm_token_hash, or NoToken
    age,       \* of a mail: 0 in the throttle window, 1 past it, 2 past the
               \* confirm link's expiry, 3 past the unsubscribe link's too
    pc,        \* where a request stands
    link,      \* the issuer of the link a click carries
    reply,     \* what a click or an unsubscription was answered
    stage, spent, mail, archive    \* the outbox

rowVars  == <<status, token>>
reqVars  == <<pc, link, reply>>
mailVars == <<stage, spent, mail, archive>>
vars     == <<rowVars, age, reqVars, mailVars>>

Mail == INSTANCE Outbox WITH Messages <- Issuers

TypeOK ==
    /\ status \in {"none", "pending", "confirmed", "unsubscribed"}
    /\ token \in Issuers \cup {NoToken}
    /\ age \in [Issuers -> 0..3]
    /\ pc \in [Requests -> {"start", "upsert", "enqueue", "update", "done"}]
    /\ link \in [Clicks -> Issuers \cup {NoToken}]
    /\ reply \in [Clicks \cup Unsubs -> {"none", "confirmed", "unsubscribed", "bad", "error"}]
    /\ \A u \in Unsubs : pc[u] \in {"start", "done"}
    \* A click learns that it confirmed, or nothing.
    /\ \A c \in Clicks : /\ pc[c] \in {"start", "update", "done"}
                         /\ reply[c] \in {"none", "confirmed", "bad"}

Init ==
    /\ status = "none"
    /\ token = NoToken
    /\ age = [t \in Issuers |-> 0]
    /\ pc = [r \in Requests |-> "start"]
    /\ link = [c \in Clicks |-> NoToken]
    /\ reply = [r \in Clicks \cup Unsubs |-> "none"]
    /\ Mail!Init

Goto(r, at) == pc' = [pc EXCEPT ![r] = at] /\ UNCHANGED reply

\* Of the answers those are kept that tell a person what became of the row.
Answer(r, a) ==
    /\ pc' = [pc EXCEPT ![r] = "done"]
    /\ reply' = IF r \in Issuers THEN reply ELSE [reply EXCEPT ![r] = a]

-----------------------------------------------------------------------------
(* Subscribing.                                                            *)

\* HasRecentNotificationForEmail: 'failed' and 'dead' mails do not count.
RecentlyNotified ==
    \E t \in Issuers : stage[t] \in {"pending", "sending", "sent"} /\ age[t] = 0

\* The body is not JSON, or normalizeEmail rejects the address.
Reject(r) ==
    /\ r \in Subscribes /\ pc[r] = "start"
    /\ Answer(r, "bad")
    /\ UNCHANGED <<rowVars, age, link, mailVars>>

\* Variant: the upsert without its WHERE.
UpsertableAny == TRUE

\* The ON CONFLICT clause of UpsertPendingSubscriber spares a resolved row.
Upsertable == status \in {"none", "pending"}

SetPending(r) == status' = "pending" /\ token' = r

\* Variant: the throttle is looked at only once the row is written.
UpsertThenThrottle(r) ==
    /\ r \in Subscribes /\ pc[r] = "start" /\ Upsertable
    /\ SetPending(r)
    /\ IF Throttle /\ RecentlyNotified THEN Answer(r, "accepted") ELSE Goto(r, "enqueue")
    /\ UNCHANGED <<age, link, mailVars>>

\* HandleSubscribe up to the upsert: the throttle has a transaction of its own.
CheckThrottle(r) ==
    /\ r \in Subscribes /\ pc[r] = "start"
    /\ IF Throttle /\ RecentlyNotified THEN Answer(r, "accepted") ELSE Goto(r, "upsert")
    /\ UNCHANGED <<rowVars, age, link, mailVars>>

Upsert(r) ==
    /\ r \in Subscribes /\ pc[r] = "upsert"
    /\ IF Upsertable
       THEN SetPending(r) /\ Goto(r, "enqueue")
       ELSE Answer(r, "accepted") /\ UNCHANGED rowVars
    /\ UNCHANGED <<age, link, mailVars>>

\* Queue.Enqueue, in a transaction of its own after the upsert has committed.
Enqueue(r) ==
    /\ pc[r] = "enqueue"
    /\ Mail!Submit(r)
    /\ Answer(r, IF r \in Subscribes THEN "accepted" ELSE "queued")
    /\ UNCHANGED <<rowVars, age, link>>

-----------------------------------------------------------------------------
(* An admin sends the confirmation again: EnqueueConfirm.                  *)

ResendRead(r) ==
    /\ r \in Resends /\ pc[r] = "start"
    /\ CASE status = "pending" -> Goto(r, "upsert")
         [] status = "none"    -> Answer(r, "error")
         [] OTHER              -> Answer(r, "conflict")
    /\ UNCHANGED <<rowVars, age, link, mailVars>>

ResendUpsert(r) ==
    /\ r \in Resends /\ pc[r] = "upsert"
    /\ IF Upsertable
       THEN SetPending(r) /\ Goto(r, "enqueue")
       ELSE Answer(r, "conflict") /\ UNCHANGED rowVars
    /\ UNCHANGED <<age, link, mailVars>>

-----------------------------------------------------------------------------
(* The links of a mail.                                                    *)

\* The provider accepted a copy of the mail: its links may be in a mailbox.
Mailed == {t \in Issuers : mail[t] > 0}

\* Signer.Verify, for a link of the mail t: ConfirmTokenTTL is much shorter than
\* UnsubscribeTokenTTL.
ConfirmLive(t) == age[t] <= 1
UnsubLive(t) == age[t] <= 2

\* GetSubscriberByConfirmTokenHash.
TokenMatches(t) == status = "pending" /\ token = t

\* ConfirmSubscriberByID.
ConfirmRow ==
    IF status \in {"pending", "confirmed"}
    THEN status' = "confirmed" /\ token' = NoToken
    ELSE UNCHANGED rowVars

\* UnsubscribeByID.
UnsubscribeRow == status' = "unsubscribed" /\ token' = NoToken

\* HandleConfirmPOST: Verify, then GetSubscriberByConfirmTokenHash.
Click(c) ==
    /\ c \in Clicks /\ pc[c] = "start"
    /\ \E t \in Mailed :
         /\ link' = [link EXCEPT ![c] = t]
         /\ IF ConfirmLive(t) /\ TokenMatches(t)
            THEN Goto(c, "update") ELSE Answer(c, "bad")
    /\ UNCHANGED <<rowVars, age, mailVars>>

\* Variant: ConfirmSubscriberByID without its WHERE on the status.
ConfirmAny(c) ==
    /\ c \in Clicks /\ pc[c] = "update"
    /\ status' = "confirmed" /\ token' = NoToken
    /\ Answer(c, "confirmed")
    /\ UNCHANGED <<age, link, mailVars>>

\* The number of rows ConfirmSubscriberByID changed is not looked at.
Confirm(c) ==
    /\ c \in Clicks /\ pc[c] = "update"
    /\ ConfirmRow
    /\ Answer(c, "confirmed")
    /\ UNCHANGED <<age, link, mailVars>>

\* Variant: the confirm token survives.
UnsubscribeKeepsToken(u) ==
    /\ u \in Unsubs /\ pc[u] = "start"
    /\ \E t \in Mailed : UnsubLive(t)
    /\ status' = "unsubscribed" /\ UNCHANGED token
    /\ Answer(u, "unsubscribed")
    /\ UNCHANGED <<age, link, mailVars>>

\* HandleUnsubscribePOST: Verify and UnsubscribeByID.
Unsubscribe(u) ==
    /\ u \in Unsubs /\ pc[u] = "start"
    /\ \E t \in Mailed :
         IF UnsubLive(t)
         THEN UnsubscribeRow /\ Answer(u, "unsubscribed")
         ELSE Answer(u, "bad") /\ UNCHANGED rowVars
    /\ UNCHANGED <<age, link, mailVars>>

-----------------------------------------------------------------------------
(* What may go wrong under a request.  A client that disconnects and a     *)
(* process that dies end a request as a failure of its next transaction    *)
(* does, except that nobody reads the answer.                              *)

\* Variant: a click is told a failure of the database from a bad token.
FailureOfAll(r) == "error"

\* The answer a handler gives to a failed transaction.
Failure(r) == IF r \in Clicks THEN "bad" ELSE "error"

\* A transaction fails and leaves the row alone.
TxFails(r) ==
    /\ "txfail" \in Faults
    /\ pc[r] \in {"start", "upsert", "update"}
    /\ r \in Clicks \cup Unsubs => Mailed # {}
    /\ Answer(r, Failure(r))
    /\ UNCHANGED <<rowVars, age, link, mailVars>>

\* A commit on the row takes effect, but the handler gets an error.
AckLost(r) ==
    /\ "acklost" \in Faults
    /\ \/ r \in Issuers /\ pc[r] = "upsert" /\ Upsertable /\ SetPending(r)
       \/ r \in Clicks /\ pc[r] = "update" /\ ConfirmRow
       \/ r \in Unsubs /\ pc[r] = "start" /\ (\E t \in Mailed : UnsubLive(t)) /\ UnsubscribeRow
    /\ Answer(r, Failure(r))
    /\ UNCHANGED <<age, link, mailVars>>

\* HandleSubscribe only logs an error of Enqueue, EnqueueConfirm returns it.
EnqueueError(r) == Answer(r, IF r \in Subscribes THEN "accepted" ELSE "error")

\* Variant: a request whose Enqueue failed starts again with its upsert.
EnqueueFailsAgain(r) ==
    /\ "enqueuefail" \in Faults
    /\ pc[r] = "enqueue"
    /\ Goto(r, "upsert")
    /\ UNCHANGED <<rowVars, age, link, mailVars>>

\* The upsert stays, and there is no mail.
EnqueueFails(r) ==
    /\ "enqueuefail" \in Faults
    /\ pc[r] = "enqueue"
    /\ EnqueueError(r)
    /\ UNCHANGED <<rowVars, age, link, mailVars>>

\* The mail is queued, and the commit reported as failed.
EnqueueAckLost(r) ==
    /\ "acklost" \in Faults
    /\ pc[r] = "enqueue"
    /\ Mail!Submit(r)
    /\ EnqueueError(r)
    /\ UNCHANGED <<rowVars, age, link>>

-----------------------------------------------------------------------------
(* The queue and the clock.                                                *)

QueueStep ==
    /\ \/ \E S \in SUBSET Issuers : Mail!Take(S)
       \/ \E t \in Issuers : \/ Mail!Post(t) \/ Mail!TryAgain(t)
                             \/ \E v \in Mail!Verdict : Mail!Settle(t, v)
    /\ UNCHANGED <<rowVars, age, reqVars>>

Ages(t) ==
    /\ stage[t] # "absent" /\ age[t] < Horizon
    /\ age' = [age EXCEPT ![t] = @ + 1]
    /\ UNCHANGED <<rowVars, reqVars, mailVars>>

-----------------------------------------------------------------------------

Handle(r) ==
    \/ Reject(r) \/ CheckThrottle(r) \/ Upsert(r) \/ Enqueue(r)
    \/ ResendRead(r) \/ ResendUpsert(r)
    \/ Click(r) \/ Confirm(r) \/ Unsubscribe(r)

RequestFault(r) ==
    TxFails(r) \/ AckLost(r) \/ EnqueueFails(r) \/ EnqueueAckLost(r)

Next ==
    \/ \E r \in Requests : Handle(r) \/ RequestFault(r)
    \/ \E t \in Issuers : Ages(t)
    \/ QueueStep

Spec == Init /\ [][Next]_vars

(***************************************************************************)
(* The server finishes what it has begun for a request that issues a       *)
(* token, and the queue makes the progress an outbox promises.  Nobody has *)
(* to click a link.                                                        *)
(***************************************************************************)
FairSpec == Spec /\ (\A r \in Issuers : WF_vars(Handle(r))) /\ Mail!Fairness

-----------------------------------------------------------------------------
(* What the double opt-in promises.                                        *)

Transitions ==
    {<<"none", "pending">>, <<"pending", "confirmed">>,
     <<"pending", "unsubscribed">>, <<"confirmed", "unsubscribed">>}

\* The CHECK and the WHERE clauses of the queries leave a row one way to go,
\* whatever requests, old links and resends cross each other: a confirmed
\* address is never asked again and an unsubscribed one never comes back.
Lifecycle == [][status' # status => <<status, status'>> \in Transitions]_vars

\* What a person was told binds the row for good: an address that was answered
\* "unsubscribed" stays so, and one that was answered "confirmed" is resolved, so
\* that no request on its way, old link or resend makes it pending again.
AnsweredIsResolved ==
    /\ \A u \in Unsubs : reply[u] = "unsubscribed" => status = "unsubscribed"
    /\ \A c \in Clicks : reply[c] = "confirmed" => status \in {"confirmed", "unsubscribed"}

\* migrations/0006: "only pending rows ever carry a token", and they all do.
TokenIffPending == token # NoToken <=> status = "pending"

\* A pending row waits for a link that nobody was or will be sent.
Unmailed == status = "pending" /\ stage[token] = "absent" /\ pc[token] = "done"

\* A pending row loses its mail in one way only: the very request that wrote its
\* token is told that the upsert failed although it did not, or its Queue.Enqueue
\* fails.  No rotation, throttle, old link, resend or failure of another request
\* does it.
PendingHasMail ==
    [][~Unmailed /\ Unmailed' =>
          \E t \in Issuers : token' = t /\ (AckLost(t) \/ EnqueueFails(t))]_vars

\* service.go: an address that was confirmed or unsubscribed is mailed a
\* confirmation only by a request whose upsert came before: no request that is
\* still on its way will enqueue one.
LateMailOnly ==
    [][\A t \in Issuers :
          (/\ status \in {"confirmed", "unsubscribed"}
           /\ stage[t] = "absent" /\ pc[t] # "enqueue")
          => stage'[t] = "absent" /\ pc'[t] # "enqueue"]_vars

\* The mail with the token of a pending row is in the end sent, or given up by the
\* queue, unless a fault left the row without one.
PendingIsSettled ==
    status = "pending" ~>
        status # "pending" \/ Unmailed \/ stage[token] \in {"sent", "failed", "dead"}

-----------------------------------------------------------------------------
(* What comments and documents say, and the code does not do.              *)

\* service.go: inside the throttle window nobody can "rotate the confirm token
\* away from a URL the victim is mid-clicking".
ThrottleProtectsLink ==
    Throttle /\ status = "pending" =>
        \A t \in Subscribes :
            stage[t] \in {"pending", "sending", "sent"} /\ age[t] = 0 => token = t

\* ENDPOINTS.md: 200 {"status":"confirmed"} on success.
ConfirmedIsTrue ==
    [][\A c \in Clicks :
          reply[c] # "confirmed" /\ reply'[c] = "confirmed" => status' = "confirmed"]_vars
=============================================================================
