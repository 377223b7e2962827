---------------------------- MODULE AdminAccess ----------------------------
(***************************************************************************)
(* Who gets through RequireAdmin, and what the admin handlers then do.     *)
(* The middleware keeps verdicts about public.admins in a bounded cache;   *)
(* rows come and go in the table behind its back.  The list handlers ask   *)
(* the table again (row level security), the resend handler does not.      *)
(***************************************************************************)
EXTENDS Integers, FiniteSets

CONSTANTS
    Users,
    Lists,      \* GET /v1/admin/subscribers and /v1/admin/notifications
    Resends,    \* POST /v1/admin/subscribers/{id}/resend-confirm
    Owner,      \* the subject of the JWT of a request
    TTL,        \* adminCacheTTL
    High, Low,  \* a cache of High entries is cut to Low
    Lag,        \* bound on the time from reading public.admins to cachePut
    Nothing     \* no entry, no verdict

Requests == Lists \cup Resends

ASSUME OwnerAssumption == Owner \in [Requests -> Users]
ASSUME TimeAssumption  == TTL \in Nat /\ Lag \in Nat
ASSUME CutAssumption   == High \in Nat /\ Low \in Nat /\ Low < High
ASSUME UsersAssumption == IsFiniteSet(Users)

\* Everything that happened longer ago is equally past.
Past == TTL + Lag + 1

Entry   == [admin : BOOLEAN, left : -1..TTL]   \* left: until it expires
Verdict == [admin : BOOLEAN, age : 0..Lag]     \* age: since it was read

ASSUME NothingAssumption == Nothing \notin Entry \cup Verdict

VARIABLES
    admins,     \* the rows of public.admins
    since,      \* the time since the row of a user came or went
    cache,      \* adminCache
    pc,         \* where a request stands
    verdict,    \* what a request read from public.admins and has not put yet
    member,     \* its user had a row at some time since the request began
    seen,       \* what a list request was shown of the whole table
    reply

tableVars == <<admins, since>>
reqVars   == <<pc, verdict, member, seen, reply>>
vars      == <<tableVars, cache, reqVars>>

TypeOK ==
    /\ admins \in SUBSET Users
    /\ since \in [Users -> 0..Past]
    /\ cache \in [Users -> Entry \cup {Nothing}]
    /\ pc \in [Requests -> {"start", "query", "put", "handler", "total", "done"}]
    /\ verdict \in [Requests -> Verdict \cup {Nothing}]
    /\ member \in [Requests -> BOOLEAN]
    /\ seen \in [Requests -> SUBSET {"rows", "total"}]
    /\ reply \in [Requests -> {"none", "unauthorized", "forbidden", "error", "list", "queued"}]

Init ==
    /\ admins \in SUBSET Users
    /\ since = [u \in Users |-> Past]
    /\ cache = [u \in Users |-> Nothing]
    /\ pc = [r \in Requests |-> "start"]
    /\ verdict = [r \in Requests |-> Nothing]
    /\ member = [r \in Requests |-> FALSE]
    /\ seen = [r \in Requests |-> {}]
    /\ reply = [r \in Requests |-> "none"]

Answer(r, a) == pc' = [pc EXCEPT ![r] = "done"] /\ reply' = [reply EXCEPT ![r] = a]
Goto(r, at)  == pc' = [pc EXCEPT ![r] = at] /\ UNCHANGED reply

\* What RequireAdmin does with the verdict of isAdmin.
Decide(r, admin) == IF admin THEN Goto(r, "handler") ELSE Answer(r, "forbidden")

\* IsAdmin: what a query on public.admins finds for a user.
HasRow(u) == u \in admins

Cached == {u \in Users : cache[u] # Nothing}

-----------------------------------------------------------------------------
(* RequireAdmin.                                                           *)

\* No token, a token that does not verify, or a subject that is not a UUID.
Unauthenticated(r) ==
    /\ pc[r] = "start"
    /\ Answer(r, "unauthorized")
    /\ UNCHANGED <<tableVars, cache, verdict, member, seen>>

\* Variant: an entry is never too old.
LiveForever(u) == cache[u] # Nothing

\* The time of expiry itself is still a hit.
Live(u) == cache[u] # Nothing /\ cache[u].left >= 0

\* cacheGet; it drops an expired entry.
Lookup(r) ==
    LET u == Owner[r] IN
    /\ pc[r] = "start"
    /\ member' = [member EXCEPT ![r] = HasRow(u)]
    /\ IF Live(u)
       THEN Decide(r, cache[u].admin) /\ UNCHANGED cache
       ELSE Goto(r, "query") /\ cache' = [cache EXCEPT ![u] = Nothing]
    /\ UNCHANGED <<tableVars, verdict, seen>>

\* IsAdmin, in a transaction of its own.
Query(r) ==
    /\ pc[r] = "query"
    /\ verdict' = [verdict EXCEPT ![r] = [admin |-> HasRow(Owner[r]), age |-> 0]]
    /\ Goto(r, "put")
    /\ UNCHANGED <<tableVars, cache, member, seen>>

\* The query or the commit after it fails: nothing is cached.
QueryFails(r) ==
    /\ pc[r] \in {"query", "put"}
    /\ verdict' = [verdict EXCEPT ![r] = Nothing]
    /\ Answer(r, "error")
    /\ UNCHANGED <<tableVars, cache, member, seen>>

\* Variant: one entry too many before the cut.
LateCuts == IF Cardinality(Cached) > High
            THEN {K \in SUBSET Cached : Cardinality(K) = Low} ELSE {Cached}

\* The users whose entries survive: a full cache loses entries in the order
\* Go walks the map, which is any order, until Low are left.
Cuts == IF Cardinality(Cached) >= High
        THEN {K \in SUBSET Cached : Cardinality(K) = Low} ELSE {Cached}

\* cachePut, under the mutex, after the transaction.
Put(r) ==
    LET u == Owner[r] IN
    /\ pc[r] = "put"
    /\ \E K \in Cuts :
          cache' = [v \in Users |->
                      IF v = u THEN [admin |-> verdict[r].admin, left |-> TTL]
                      ELSE IF v \in K THEN cache[v] ELSE Nothing]
    /\ verdict' = [verdict EXCEPT ![r] = Nothing]
    /\ Decide(r, verdict[r].admin)
    /\ UNCHANGED <<tableVars, member, seen>>

-----------------------------------------------------------------------------
(* The handlers.                                                           *)

\* Variant: the list is read with the service role.
VisibleToService(r) == TRUE

\* subscribers_select_admin and notifications_select_admin, per statement.
Visible(r) == HasRow(Owner[r])

Show(r, what) == seen' = [seen EXCEPT ![r] = IF Visible(r) THEN @ \cup {what} ELSE @]

\* ListSubscribers or ListNotifications ...
ListRows(r) ==
    /\ r \in Lists /\ pc[r] = "handler"
    /\ Show(r, "rows")
    /\ Goto(r, "total")
    /\ UNCHANGED <<tableVars, cache, verdict, member>>

\* ... and then CountSubscribers or CountNotifications, with a snapshot of its own.
ListTotal(r) ==
    /\ r \in Lists /\ pc[r] = "total"
    /\ Show(r, "total")
    /\ Answer(r, "list")
    /\ UNCHANGED <<tableVars, cache, verdict, member>>

\* A failed transaction shows nothing.
ListFails(r) ==
    /\ r \in Lists /\ pc[r] \in {"handler", "total"}
    /\ seen' = [seen EXCEPT ![r] = {}]
    /\ Answer(r, "error")
    /\ UNCHANGED <<tableVars, cache, verdict, member>>

\* HandleResendConfirm works with the service role; Subscriptions has its steps.
Resend(r) ==
    /\ r \in Resends /\ pc[r] = "handler"
    /\ \E a \in {"queued", "error"} : Answer(r, a)
    /\ UNCHANGED <<tableVars, cache, verdict, member, seen>>

-----------------------------------------------------------------------------
(* The table and the clock.                                                *)

AddAdmin(u) ==
    /\ u \notin admins
    /\ admins' = admins \cup {u} /\ since' = [since EXCEPT ![u] = 0]
    /\ member' = [r \in Requests |-> member[r] \/ Owner[r] = u]
    /\ UNCHANGED <<cache, pc, verdict, seen, reply>>

RemoveAdmin(u) ==
    /\ u \in admins
    /\ admins' = admins \ {u} /\ since' = [since EXCEPT ![u] = 0]
    /\ UNCHANGED <<cache, reqVars>>

\* Variant: an expired entry goes on.
OlderOn(e) == [e EXCEPT !.left = @ - 1]

Older(e) == [e EXCEPT !.left = IF @ > 0 THEN @ - 1 ELSE -1]
Staler(v) == [v EXCEPT !.age = @ + 1]

Tick ==
    /\ \A r \in Requests : verdict[r] # Nothing => verdict[r].age < Lag
    /\ since' = [u \in Users |-> IF since[u] < Past THEN since[u] + 1 ELSE Past]
    /\ cache' = [u \in Users |-> IF cache[u] = Nothing THEN Nothing ELSE Older(cache[u])]
    /\ verdict' = [r \in Requests |->
                     IF verdict[r] = Nothing THEN Nothing ELSE Staler(verdict[r])]
    /\ UNCHANGED <<admins, pc, member, seen, reply>>

-----------------------------------------------------------------------------

Next ==
    \/ \E r \in Requests :
          \/ Unauthenticated(r) \/ Lookup(r) \/ Query(r) \/ QueryFails(r) \/ Put(r)
          \/ ListRows(r) \/ ListTotal(r) \/ ListFails(r) \/ Resend(r)
    \/ \E u \in Users : AddAdmin(u) \/ RemoveAdmin(u)
    \/ Tick

Spec == Init /\ [][Next]_vars

-----------------------------------------------------------------------------
(* How stale a verdict may be.                                             *)

AdminAgo(u)    == IF u \in admins THEN 0 ELSE since[u]
OutsiderAgo(u) == IF u \notin admins THEN 0 ELSE since[u]

\* A revoked admin is let in for at most the TTL after the revocation, plus
\* the time a verdict may already be old when it is cached.  Requests that
\* read the table before the revocation may put their verdict after it, and
\* even over a newer one.
AccessFresh ==
    [][\A r \in Requests :
          pc[r] # "handler" /\ pc'[r] = "handler" =>
              AdminAgo(Owner[r]) <= TTL + Lag]_vars

\* A new admin is turned away for no longer than that.
DenialFresh ==
    [][\A r \in Requests :
          reply[r] # "forbidden" /\ reply'[r] = "forbidden" =>
              OutsiderAgo(Owner[r]) <= TTL + Lag]_vars

\* "Bound the cache so a flood of garbage subs cannot grow it without limit",
\* also when several requests put after one another.
CacheBounded == Cardinality(Cached) <= High

\* A list is shown only to somebody who had a row in public.admins at some time
\* since the request began, whatever the cache says.
ReadsGated ==
    \A r \in Lists : seen[r] # {} => member[r]
=============================================================================
