----------------------------- MODULE RowAccess -----------------------------
(***************************************************************************)
(* What the user pool promises of the row of one e-mail address: requests  *)
(* that are judged, each in one piece and as its own caller, by the row    *)
(* level security of the migrations.  There are no connections here.       *)
(*                                                                         *)
(* The requests are POST /v1/subscribers from the upsert on, and           *)
(* GET /v1/me/subscription.  RequireAdmin and the admin lists are in       *)
(* AdminAccess; what the upsert and its mail mean for the double opt-in is *)
(* in Subscriptions.                                                       *)
(***************************************************************************)
EXTENDS Naturals, FiniteSets

CONSTANTS
    Requests,     \* the requests that come
    Users,        \* the users that may sign in
    Faults,       \* what may fail under a request
    NoUser, NoToken

VARIABLES
    status,    \* subscribers.status, "absent" before the row exists
    owner,     \* subscribers.user_id
    token,     \* the request that wrote confirm_token_hash
    users,     \* auth.users
    admins,    \* public.admins
    route,     \* what a request asks for, "none" before it comes
    caller,    \* the claims of a request
    outcome,   \* what its statement came to, and so what is answered
    step       \* where it stands

rowVars    == <<status, owner, token>>
tableVars  == <<rowVars, users, admins>>
vars       == <<tableVars, route, caller, outcome, step>>

\* A caller has no token, or one whose e-mail claim is the address or another.
Nobody   == [uid |-> NoUser, email |-> "none"]
SignedIn == [uid : Users, email : {"address", "other"}]
Callers  == SignedIn \cup {Nobody}

Statuses == {"absent", "pending", "confirmed", "unsubscribed"}
Outcomes == Statuses \cup {"none", "written", "resolved", "denied", "elsewhere", "failed"}

\* The tables, with the foreign keys of user_id and of public.admins.
TablesOK ==
    /\ status \in Statuses
    /\ owner  \in users \cup {NoUser}
    /\ token  \in Requests \cup {NoToken}
    /\ users  \in SUBSET Users
    /\ admins \in SUBSET users

RequestsOK ==
    /\ route   \in [Requests -> {"none", "subscribe", "me"}]
    /\ caller  \in [Requests -> Callers]
    /\ outcome \in [Requests -> Outcomes]

StartEmpty ==
    /\ status = "absent" /\ owner = NoUser /\ token = NoToken
    /\ users = Users /\ admins \in SUBSET Users
    /\ route   = [r \in Requests |-> "none"]
    /\ caller  = [r \in Requests |-> Nobody]
    /\ outcome = [r \in Requests |-> "none"]

Init == StartEmpty /\ step = [r \in Requests |-> "start"]

-----------------------------------------------------------------------------
(* Who a statement runs as, and the policies on public.subscribers.        *)

RoleOf(c) == IF c.uid = NoUser THEN "anon" ELSE "authenticated"

Identity(r) == [role |-> RoleOf(caller[r]), uid |-> caller[r].uid, email |-> caller[r].email]

\* Variant: the owner policy of 0006 without its fallback to the e-mail.
VisibleByLink(s, o) ==
    /\ s.role = "authenticated"
    /\ (o # NoUser /\ o = s.uid) \/ s.uid \in admins

\* subscribers_select_owner and subscribers_select_admin, for the row of the
\* address linked to o.  There is no SELECT policy for anon.
Visible(s, o) ==
    /\ s.role = "authenticated"
    /\ \/ o # NoUser /\ o = s.uid
       \/ s.email = "address"
       \/ s.uid \in admins

\* subscribers_insert_pending; RETURNING makes PostgreSQL require, with an
\* error, that the proposed row also pass the SELECT policies.
MayInsert(s, o) == s.role \in {"anon", "authenticated"} /\ Visible(s, o)

\* Variant: the SELECT policies are only asked for the row after.
MayUpdateUnseen(s, o) ==
    /\ s.role \in {"anon", "authenticated"}
    /\ status = "pending"
    /\ Visible(s, o)

\* subscribers_update_pending, and the SELECT policies on the row before and
\* after, since ON CONFLICT DO UPDATE reads it.
MayUpdate(s, o) ==
    /\ s.role \in {"anon", "authenticated"}
    /\ status = "pending"
    /\ Visible(s, owner) /\ Visible(s, o)

-----------------------------------------------------------------------------
(* UpsertPendingSubscriber and GetSubscriberByEmail, run as s.             *)

\* COALESCE(subscribers.user_id, EXCLUDED.user_id).
Link(u) == IF owner # NoUser THEN owner ELSE u

\* Variant: ON CONFLICT without its WHERE, so that the policy answers.
UpsertWithoutWhere(s, u) ==
    IF /\ MayInsert(s, u)
       /\ status = "absent" \/ MayUpdate(s, Link(u))
       /\ Link(u) \in users \cup {NoUser}
    THEN "written" ELSE "denied"

\* The proposed row is judged first; a resolved row then fails the WHERE of ON
\* CONFLICT and nothing comes back; the foreign key is checked on what is written.
UpsertOutcome(s, u) ==
    IF ~MayInsert(s, u) THEN "denied"
    ELSE IF status \in {"confirmed", "unsubscribed"} THEN "resolved"
    ELSE IF /\ status = "absent" \/ MayUpdate(s, Link(u))
            /\ Link(u) \in users \cup {NoUser}
    THEN "written"
    ELSE "denied"

\* HandleMySubscription asks for the row of the e-mail it was called with.
ViewOutcome(s, email) ==
    IF email # "address" THEN "elsewhere"
    ELSE IF Visible(s, owner) THEN status
    ELSE "absent"

OutcomeAs(s, r) ==
    IF route[r] = "subscribe"
    THEN UpsertOutcome(s, caller[r].uid)
    ELSE ViewOutcome(s, caller[r].email)

-----------------------------------------------------------------------------
(* What steps do to the tables; UserPool uses these too.                   *)

\* The handler up to WithUser: OptionalUser or RequireUser attach the claims.
TakeIn(r) ==
    \E c \in Callers, h \in {"subscribe", "me"} :
        /\ h = "me" => c \in SignedIn
        /\ caller' = [caller EXCEPT ![r] = c]
        /\ route' = [route EXCEPT ![r] = h]

Keep(r) ==
    IF outcome[r] = "written"
    THEN status' = "pending" /\ owner' = Link(caller[r].uid) /\ token' = r
    ELSE UNCHANGED rowVars

\* HandleConfirmPOST, through the service pool.
ConfirmRow ==
    /\ status = "pending" /\ token # NoToken
    /\ status' = "confirmed" /\ token' = NoToken
    /\ UNCHANGED <<owner, users, admins>>

\* HandleUnsubscribePOST, through the service pool.
UnsubscribeRow ==
    /\ status \in {"pending", "confirmed"}
    /\ status' = "unsubscribed" /\ token' = NoToken
    /\ UNCHANGED <<owner, users, admins>>

\* A deleted account: user_id is SET NULL and the admin row goes with it, while
\* tokens issued to it live on.
DeleteUser(u) ==
    /\ u \in users
    /\ users'  = users \ {u}
    /\ admins' = admins \ {u}
    /\ owner'  = IF owner = u THEN NoUser ELSE owner
    /\ UNCHANGED <<status, token>>

OthersWrite == ConfirmRow \/ UnsubscribeRow \/ \E u \in Users : DeleteUser(u)

-----------------------------------------------------------------------------
(* The requests.                                                           *)

Goto(r, at) == step' = [step EXCEPT ![r] = at]

\* An upsert that was not refused holds the lock of the row.
Locks(r) == route[r] = "subscribe" /\ outcome[r] \in {"written", "resolved"}

RowLocked == \E r \in Requests : step[r] = "judged" /\ Locks(r)

Ask(r) ==
    /\ step[r] = "start"
    /\ TakeIn(r)
    /\ Goto(r, "open")
    /\ UNCHANGED <<tableVars, outcome>>

Judge(r) ==
    /\ step[r] = "open"
    /\ route[r] = "subscribe" => ~RowLocked
    /\ outcome' = [outcome EXCEPT ![r] = OutcomeAs(Identity(r), r)]
    /\ Goto(r, "judged")
    /\ UNCHANGED <<tableVars, route, caller>>

Settle(r) ==
    /\ step[r] = "judged"
    /\ Keep(r)
    /\ Goto(r, "done")
    /\ UNCHANGED <<users, admins, route, caller, outcome>>

Abort(r) ==
    /\ "fail" \in Faults
    /\ step[r] \in {"open", "judged"}
    /\ outcome' = [outcome EXCEPT ![r] = "failed"]
    /\ Goto(r, "done")
    /\ UNCHANGED <<tableVars, route, caller>>

\* What was judged takes effect, and the handler is told that it failed.
SettleUnheard(r) ==
    /\ "fail" \in Faults
    /\ step[r] = "judged"
    /\ Keep(r)
    /\ outcome' = [outcome EXCEPT ![r] = "failed"]
    /\ Goto(r, "done")
    /\ UNCHANGED <<users, admins, route, caller>>

Others == ~RowLocked /\ OthersWrite /\ UNCHANGED <<route, caller, outcome, step>>

Next ==
    \/ \E r \in Requests :
         Ask(r) \/ Judge(r) \/ Settle(r) \/ Abort(r) \/ SettleUnheard(r)
    \/ Others

Spec == Init /\ [][Next]_vars
=============================================================================
