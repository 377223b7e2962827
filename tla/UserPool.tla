------------------------------ MODULE UserPool ------------------------------
(***************************************************************************)
(* UserPool.WithUser: requests borrow a pooled connection and put on it    *)
(* the role and the claims of their caller; then PostgreSQL judges their   *)
(* statement by what it finds on the connection.  RowAccess is what this   *)
(* amounts to.                                                             *)
(*                                                                         *)
(* A step is one exchange with the database.                               *)
(***************************************************************************)
EXTENDS Naturals, FiniteSets

CONSTANTS
    Requests,     \* the requests that come
    Conns,        \* the connections a pool may have
    Users,        \* the users that may sign in
    Faults,       \* what may fail under a request
    NoUser, NoConn, NoToken

ASSUME RequestAssumption == NoToken \notin Requests
ASSUME UserAssumption    == NoUser \notin Users
ASSUME ConnAssumption    == NoConn \notin Conns

VARIABLES
    status, owner, token, users, admins, route, caller, outcome,  \* as in RowAccess
    pool,      \* the connections of this pool: POOL_MAX_CONNS of them
    pc,        \* where a request stands in WithUser
    conn,      \* the connection it holds
    session    \* role and request.jwt.claims of a connection

\* WithUser is opaque to RowAccess up to the statement.
StepOf(r) ==
    IF pc[r] \in {"begin", "role", "claims", "statement"} THEN "open" ELSE pc[r]

Access == INSTANCE RowAccess WITH step <- [r \in Requests |-> StepOf(r)]

tableVars == <<status, owner, token, users, admins>>
vars == <<tableVars, route, caller, outcome, pool, pc, conn, session>>

Session == [role : {"login", "anon", "authenticated"}, uid : Users \cup {NoUser},
            email : {"address", "other", "none"}]

\* A connection outside a transaction: the role it logged in with, no claims.
FreshSession == [role |-> "login", uid |-> NoUser, email |-> "none"]

TypeOK ==
    /\ Access!TablesOK /\ Access!RequestsOK
    /\ pool    \in (SUBSET Conns) \ {{}}
    /\ pc      \in [Requests -> {"start", "begin", "role", "claims", "statement",
                                 "judged", "done"}]
    /\ conn    \in [Requests -> pool \cup {NoConn}]
    /\ session \in [Conns -> Session]

Init ==
    /\ Access!StartEmpty
    /\ pool    \in (SUBSET Conns) \ {{}}
    /\ pc      = [r \in Requests |-> "start"]
    /\ conn    = [r \in Requests |-> NoConn]
    /\ session = [k \in Conns |-> FreshSession]

Goto(r, at) == pc' = [pc EXCEPT ![r] = at]

-----------------------------------------------------------------------------
(* A request and its transaction.                                          *)

Ask(r) ==
    /\ pc[r] = "start"
    /\ Access!TakeIn(r)
    /\ Goto(r, "begin")
    /\ UNCHANGED <<tableVars, outcome, pool, conn, session>>

\* Variant: the pool hands out a connection that is in use.
AnyConn(k) == TRUE

Idle(k) == \A r \in Requests : conn[r] # k

\* BeginTx: wait for a connection.
Begin(r) ==
    /\ pc[r] = "begin"
    /\ \E k \in pool : Idle(k) /\ conn' = [conn EXCEPT ![r] = k]
    /\ Goto(r, "role")
    /\ UNCHANGED <<tableVars, route, caller, outcome, pool, session>>

\* Variant: the claims are not set.
SetRoleOnly(r) ==
    /\ pc[r] = "role"
    /\ session' = [session EXCEPT ![conn[r]].role = Access!RoleOf(caller[r])]
    /\ Goto(r, "statement")
    /\ UNCHANGED <<tableVars, route, caller, outcome, pool, conn>>

\* SET LOCAL ROLE.
SetRole(r) ==
    /\ pc[r] = "role"
    /\ session' = [session EXCEPT ![conn[r]].role = Access!RoleOf(caller[r])]
    /\ Goto(r, "claims")
    /\ UNCHANGED <<tableVars, route, caller, outcome, pool, conn>>

\* set_config('request.jwt.claims', ..., true).
SetClaims(r) ==
    /\ pc[r] = "claims"
    /\ session' = [session EXCEPT ![conn[r]] =
                       [role |-> @.role, uid |-> caller[r].uid, email |-> caller[r].email]]
    /\ Goto(r, "statement")
    /\ UNCHANGED <<tableVars, route, caller, outcome, pool, conn>>

\* Variant: nothing is locked between the statement and its commit.
NothingLocked == FALSE

\* An upsert holds the lock of the row until it commits or rolls back.
RowLocked == \E r \in Requests : pc[r] = "judged" /\ Access!Locks(r)

\* fn(q): an upsert waits for the lock of the row, and takes it.
Statement(r) ==
    /\ pc[r] = "statement"
    /\ route[r] = "subscribe" => ~RowLocked
    /\ outcome' = [outcome EXCEPT ![r] = Access!OutcomeAs(session[conn[r]], r)]
    /\ Goto(r, "judged")
    /\ UNCHANGED <<tableVars, route, caller, pool, conn, session>>

\* Variant: settings made without LOCAL outlive the transaction.
ReleaseKeepsSettings(r) ==
    /\ conn' = [conn EXCEPT ![r] = NoConn]
    /\ Goto(r, "done")
    /\ UNCHANGED session

\* Variant: no deferred Rollback gives the connection back.
ReleaseForgets(r) == Goto(r, "done") /\ UNCHANGED <<conn, session>>

\* The end of a transaction ends what is LOCAL to it and returns the
\* connection; one that is broken is closed, and replaced when needed.
Release(r) ==
    /\ session' = [session EXCEPT ![conn[r]] = FreshSession]
    /\ conn' = [conn EXCEPT ![r] = NoConn]
    /\ Goto(r, "done")

\* Commit; after the error of a refused statement, Rollback and 500.
Finish(r) ==
    /\ pc[r] = "judged"
    /\ Access!Keep(r)
    /\ Release(r)
    /\ UNCHANGED <<users, admins, route, caller, outcome, pool>>

\* The database fails or the client goes away: the context of the request is
\* cancelled, and the deferred Rollback undoes what was not committed.
Fail(r) ==
    /\ "fail" \in Faults
    /\ pc[r] \in {"role", "claims", "statement", "judged"}
    /\ outcome' = [outcome EXCEPT ![r] = "failed"]
    /\ Release(r)
    /\ UNCHANGED <<tableVars, route, caller, pool>>

\* The commit takes effect and its acknowledgement is lost.
FinishUnheard(r) ==
    /\ "fail" \in Faults
    /\ pc[r] = "judged"
    /\ Access!Keep(r)
    /\ outcome' = [outcome EXCEPT ![r] = "failed"]
    /\ Release(r)
    /\ UNCHANGED <<users, admins, route, caller, pool>>

\* The database fails, or the client is gone, while the request waits for a
\* connection.
FailWaiting(r) ==
    /\ "fail" \in Faults
    /\ pc[r] = "begin"
    /\ outcome' = [outcome EXCEPT ![r] = "failed"]
    /\ Goto(r, "done")
    /\ UNCHANGED <<tableVars, route, caller, pool, conn, session>>

\* The service pool and the owner of auth.users; they wait for the lock.
Others ==
    /\ ~RowLocked
    /\ Access!OthersWrite
    /\ UNCHANGED <<route, caller, outcome, pool, pc, conn, session>>

-----------------------------------------------------------------------------

Work(r) == SetRole(r) \/ SetClaims(r) \/ Statement(r) \/ Finish(r)

Next ==
    \/ \E r \in Requests :
         Ask(r) \/ Begin(r) \/ Work(r) \/ Fail(r) \/ FailWaiting(r) \/ FinishUnheard(r)
    \/ Others

Spec == Init /\ [][Next]_vars

(***************************************************************************)
(* A handler that holds a connection goes on; the pool serves those that   *)
(* wait in the order they came, and the database those that wait for a     *)
(* lock.                                                                   *)
(***************************************************************************)
FairSpec == Spec /\ \A r \in Requests : SF_vars(Begin(r)) /\ SF_vars(Work(r))

-----------------------------------------------------------------------------
(* What WithUser and the policies promise.                                 *)

NobodyShares == \A q, r \in Requests : q # r /\ conn[q] # NoConn => conn[q] # conn[r]

\* pools.go: a statement is judged as its own caller, whoever used the
\* connection before and however that transaction ended: two requests never share
\* a connection, and one that nobody holds carries neither role nor claims to the
\* next user of the pool (WithUser or a ping).
IdentityMatches ==
    /\ \A r \in Requests :
           pc[r] \in {"statement", "judged"} => session[conn[r]] = Access!Identity(r)
    /\ NobodyShares
    /\ \A k \in Conns : Idle(k) => session[k] = FreshSession

\* The pool is invisible: every statement is judged, and kept or dropped, as if
\* its caller were alone on a connection.
ImplementsAccess == Access!Spec

\* A signed-in person with the address in the token is told the truth about it.
OwnViewTrue ==
    [][\A r \in Requests :
          route[r] = "me" /\ outcome[r] = "none" /\ outcome'[r] \in Access!Statuses
          => outcome'[r] = status]_vars

\* subscribers.sql: the upsert answers alike whether the row is new, pending or
\* resolved.  Of the owner that is true: a caller whose token carries the address
\* and whose account exists is never refused.  Others may be.
OwnerNeverRefused ==
    [][\A r \in Requests :
          (/\ outcome[r] = "none" /\ outcome'[r] = "denied"
           /\ caller[r].email = "address")
          => caller[r].uid \notin users]_vars

\* A pending row is refreshed by its owner, by the person the address belongs
\* to, or by an admin: no other caller of the user pool can take the token away
\* from the link somebody is about to click.
RefreshNeedsSight ==
    [][\A r \in Requests :
          (/\ status = "pending"
           /\ outcome[r] = "none" /\ outcome'[r] = "written")
          => LET c == caller[r]
             IN  c.uid # NoUser /\ (\/ c.email = "address" \/ c.uid = owner
                                    \/ c.uid \in admins)]_vars

\* The upsert decides at its statement and takes effect at its commit; a
\* confirmation or an unsubscription in between is never undone.
ResolvedStays ==
    [][(status \in {"confirmed", "unsubscribed"}) => status' # "pending"]_vars

\* However few connections there are, every request is answered.
Answered == \A r \in Requests : pc[r] = "begin" ~> pc[r] = "done"

-----------------------------------------------------------------------------
(* What a migration and a test say, and the policies do not allow.         *)

\* 0006: "anon's upsert can refresh an existing pending row", and insert one.
AnonMaySubscribe ==
    \A r \in Requests : caller[r] = Access!Nobody => outcome[r] # "denied"
=============================================================================
