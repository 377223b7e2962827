# A formal model of the Fund the Future backend

TLA+ modules of the subscriber and mail backend in `src/` (Go, PostgreSQL,
Resend), TLC configurations that check them on small instances, and TLAPS proofs
of their main safety properties for every value of the constants.

- [1. The system](#1-the-system): components, state, operations, interactions, hazards
- [2. The modules](#2-the-modules): which module models what, and how it corresponds to the code
- [3. The runs](#3-the-runs): what TLC checks, the bounds, the fairness
- [4. The proofs](#4-the-proofs): what is proved, from what, along which argument
- [5. Where code and documents disagree](#5-where-code-and-documents-disagree)
- [6. What is not modelled](#6-what-is-not-modelled)
- [7. The plan](#7-the-plan)

To check one model: `tlc -config queue_safety.cfg MCNotificationQueue`. To check
one set of proofs: `tlapm NotificationQueueProofs.tla`.

## 1. The system

One Go process (any number of which may share a database) serves the HTTP API and
runs the worker goroutines that send mail. All durable state is in PostgreSQL;
two pools reach it, one under row level security (`UserPool`), one with the
service role (`ServicePool`).

| component | code | state it keeps | operations |
| --- | --- | --- | --- |
| notification queue and worker | `internal/notifications`, `queries/notifications.sql`, `queries/email_log.sql` | `public.notifications` (status, attempts, `next_attempt_at`, `locked_until`), `public.email_log`; per goroutine the claimed batch | `Enqueue`; `tick`: count against the daily cap, claim up to five rows; `dispatch`; `markSent`, `markFailed`, `markDead`, `scheduleRetry`, each under `withRetry` |
| subscribers service | `internal/subscribers`, `queries/subscribers.sql` | `public.subscribers` (status, `confirm_token_hash`) | `HandleSubscribe`, `HandleConfirmPOST`, `HandleUnsubscribePOST`, `EnqueueConfirm`; read-only: the GET pages, `HandleMySubscription` |
| admin authorization | `internal/auth/middleware.go` | the verdict cache of `RequireAdmin`; behind it `public.admins`, changed by SQL only | `cacheGet`, `IsAdmin` query, `cachePut` |
| admin handlers | `internal/admins` | none | lists of subscribers and notifications, `HandleResendConfirm` |
| mail provider client | `internal/email` | none | `Sender.Send`, with the row's id as `Idempotency-Key` |
| signed tokens | `internal/tokens` | none | `Sign`, `Verify` (purpose, expiry, HMAC) |
| pools and row level security | `internal/db/pools.go`, `migrations` | two pools of connections, on each connection a role and claims while a transaction lasts; the policies, the foreign keys | `NewUserPool`, `NewServicePool`, `WithUser`, `WithTx`, `Close` |
| JWT verifier | `internal/auth/jwt.go` | the JWKS cache of its library | `NewVerifier`, `Verify` |
| process | `cmd/server/main.go` | root context, HTTP server, wait group of the workers | boot, serve, shut down, exit |
| configuration | `internal/config` | none | `Load`; its result is checked again by `NewWorker`, `NewVerifier` and `defaults` |
| HTTP plumbing | `internal/httpx` | the counters of `httprate` | `ClientIP`, the probes, `Recover`, logging, headers |
| errors, test fixtures | `apperr`, `testutil` | none | |

**How they interact.** The subscribers service and the admins' resend write the
subscriber's row in one transaction and then enqueue a mail in another. The
worker claims queued rows in one transaction, calls the provider outside any
transaction, and writes the outcome in a third. The mail carries links with signed
tokens; a click comes back to the subscribers service, which looks the token's
hash up in one statement and updates the row in the next. `RequireAdmin` reads
`public.admins` and keeps the answer for a minute; the admin lists then pass
row level security, which reads `public.admins` once more, while the resend works
with the service role. Requests and workers share two small pools; a connection of
the user pool takes on the identity of one caller after another. A signal makes `run`
drain the requests, cancel the context of the workers, wait for them and close the pools.

**What is hard.** Almost every operation is several transactions long, so what it
read may be stale when it writes; the provider is called between two transactions;
a worker may die, be shut down or lose its database at any point in between;
several workers and processes share one table; a commit may succeed and be reported
as failed. `PROJECT.json` lists the hazards at the lines where they bite.

**What makes each part correct.**

- *Queue.* A claimed row belongs to one worker until its outcome is written. A
  mail is accepted once per row. The attempt budget is kept. The status is true
  of what happened to the mail, and the email log agrees with the status. What
  is settled stays settled. What is enqueued is settled in the end, and nothing
  that waits is forgotten. The daily cap holds of the mails the table knows of, but for a batch
  per worker.
- *Subscribers.* A row only moves forward: a resolved address is not asked again, an
  unsubscribed one does not come back. An answer "confirmed" or "unsubscribed" resolves the
  row for good. A token exists exactly while the row is pending, and the mail that carries it
  is on its way unless the request that wrote it failed half way.
- *Admin access.* A cached verdict outlives the table's by a bounded time, in
  both directions. The cache is bounded. No list is shown to a user without a row.
- *Pools and row level security.* A statement is judged as its own caller, whoever had
  the connection before. Who owns an address sees its row truthfully and is never
  refused; who does not see a pending row cannot take its link away; a decision made at
  a statement is still right at its commit. Nobody waits for a connection for ever.
- *Process.* Requests are drained before workers are stopped, workers are done before
  the pools close, a failed boot leaves nothing open, and a signal ends the process. What
  `Load` returns, every part runs with as it is (which is not always what was set, section 5). A
  client is rate limited by its own address.

## 2. The modules

| module | what it is |
| --- | --- |
| `Outbox` | abstract: what the rest of the backend may assume of outbound mail |
| `NotificationQueue` | the table, the workers, the provider, faults, the clock |
| `NotificationOutbox` | refinement mapping: the queue implements `Outbox` |
| `OutboxProofs` | theorems about every outbox |
| `NotificationQueueProofs` | theorems about the queue and its refinement |
| `Subscriptions` | one address: its row, the requests on it; its mails through an `INSTANCE` of `Outbox` |
| `SubscriptionsProofs` | theorems about it |
| `AdminAccess` | `RequireAdmin`, its cache, the list handlers, the table behind both |
| `AdminAccessProofs` | theorems about it |
| `RowAccess` | abstract: the policies on `public.subscribers`, and requests judged by them each in one piece |
| `UserPool` | `WithUser` step by step on shared connections; implements `RowAccess` |
| `UserPoolProofs` | theorems about it |
| `ServerProcess` | `run` of `main.go`, the pools, the workers and requests as their users |
| `ServerProcessProofs` | theorems about it and about the pure modules |
| `Config`, `ClientIP` | pure: `config.Load`, `ClientIP`; evaluated in states of `ServerProcess` |
| `MCNotificationQueue`, `MCSubscriptions`, `MCAdminAccess`, `MCUserPool`, `MCServerProcess` | constants, functions and symmetry sets for TLC |

`Subscriptions` composes with the queue through its contract: it is checked over
`Outbox`, and `NotificationQueue` is shown to implement `Outbox`. Definitions
whose comment begins with "Variant:" are not part of any specification: they are
plausible mistakes (a dropped guard, an off-by-one, a split transaction) against
which the properties are tried out. Each property fails under at least one of them.

### NotificationQueue

A step of a worker is one database transaction or one provider call. `pc` is
where a goroutine stands:

| `pc` | next step | code |
| --- | --- | --- |
| `top` | `CheckCap` | head of `loop`, the count of `tick` |
| `claim` | `Claim`, `ClaimNothing`, `ClaimAckLost` | the claim of `tick` |
| `batch` | `Dispatch` | loop of `tick` with `limiter.Wait`, `dispatch` up to the outcome, `Sender.Send` |
| `write` | `Write`, `WriteFails`, `WriteAckLost` | `markSent`, `markFailed`, `markDead`, `scheduleRetry` under `withRetry` |
| `exit` | | `loop` has returned |

`Leave` is what each of them does once the context is cancelled. `batch[w]` gives,
for each row the worker has yet to finish, the attempts number its claim returned,
on which `dispatch` decides; the table's own `attempts` is a separate variable, so
that a row which changes under its worker is visible. `accepted` is a history
of the provider: how often it took the row's message. It is what the code
cannot see and what the properties compare the table with.

Abstractions:

- *Time.* Only what queries compare with `now()`: `due`, `lock` (unset, held,
  expired) and `recent` (settled within the day). `BackoffElapses`, `LeaseExpires` and
  `DayPasses` change them at any moment, so all relative speeds are covered. The length of a
  backoff is "later".
- *Claim.* Any non-empty set of claimable rows up to the batch limit. This
  covers every order of rows and, with `SKIP LOCKED`, every set another claim has
  locked. A claim that skips all of them, and a count or a claim that fails,
  change no row and send the worker back to its check; here it stays where it is,
  from where it can do all it could after another check.
- *Order in a batch.* The code takes rows as returned; `UPDATE ... RETURNING` has
  no defined order, so any order is taken.
- *Provider.* `ok`; `busy` (429, 5xx, and transport errors before the message is taken:
  retryable); `timeout` (a transport error after it is taken: retryable); `rejected`
  (any other status). `malformed` is the failure of `buildMessage`.
- *Rate limiter.* It delays and, on cancellation, fails; the delay is invisible here.

Faults (the constant `Faults`): `stop` (SIGTERM cancels the context under running
workers), `crash`, `dbfail` (any write transaction fails), `acklost` (a commit
takes effect and is reported as an error). A cancelled context makes the last two
possible even when they are not in `Faults`: the worker's last write, with its
own context cancelled, may fail or commit unnoticed.

### Outbox

Messages are submitted, taken, posted, tried again or settled; settling archives.
`Budget` bounds the tries, `mail <= spent`. It has no workers, leases, caps or clock.
The mapping in `NotificationOutbox` is `stage <- status`, `spent <- attempts`,
`mail <- accepted`, and the archive is the set of (row, status) pairs the email
log holds. Crashes, restarts, lease expiry and cap checks map to stutters.

### Subscriptions

A request that issues a token (`Subscribes`, `Resends`) is an element that also
names the token, the mail that carries it and the links in it. `token` is the
issuer of the hash in the row. Every upsert here passes row level security; which
callers' upserts do is in `RowAccess`. `age` of a mail counts in phases: within the throttle window,
past it, past the confirm link's expiry, past the unsubscribe link's; `Horizon` is the last phase
a run follows, and 3 cuts nothing off.

| steps of a request | code |
| --- | --- |
| `Reject` or `CheckThrottle`, then `Upsert`, then `Enqueue` | `HandleSubscribe` |
| `ResendRead`, `ResendUpsert`, `Enqueue` | `HandleResendConfirm` and `EnqueueConfirm` |
| `Click`, `Confirm` | `HandleConfirmPOST`: `Verify` and the lookup; the update |
| `Unsubscribe` | `HandleUnsubscribePOST` |

`Click` and `Confirm` are statements of one READ COMMITTED transaction. The lookup
takes no lock, so what another transaction commits between them is seen by the
update, and they are two steps. The handler drops the number of rows the update
changed, so `Confirm` answers "confirmed" in any case.

Faults: `txfail` (a transaction on the row fails), `enqueuefail` (the enqueue after the committed
upsert fails), `acklost` (a commit takes effect, of the row in `AckLost` or of the enqueued mail
in `EnqueueAckLost`, and the handler gets an error). A client that disconnects cancels the
context of its request, whose next transaction then fails; a process that dies ends the
request at the same places. Neither is a fault of its own. `Unmailed` is what they may leave behind: a
pending row whose token no mail carries or will carry.

### AdminAccess

`Lookup`, `Query`, `Put` are `cacheGet`, the transaction of `isAdmin` and
`cachePut`; between them other requests and the table's owner act. Ages are
relative: an entry has a time `left` until it expires, a verdict in hand an
`age` since it was read, a user the time `since` its row came or went. All
saturate, so the clock needs no bound. A full cache is cut to `Low` entries before the new one
goes in; Go's map order makes any subset of that size possible. `member` is a history:
the user had a row at some time since the request began.

`Lag` bounds the time from reading `public.admins` to `cachePut`. The code sets no
deadline on a request (the server's `WriteTimeout` does not cancel a handler), so
`Lag` is an assumption, and the properties say what follows for each value of it.

### RowAccess and UserPool

`UserPool` is the row of one address, the users and admins, and requests that reach it
through connections they borrow. A step is one exchange with the database:

| step | code |
| --- | --- |
| `Ask` | `OptionalUser` or `RequireUser`, and the handler up to `WithUser` |
| `Begin` | `BeginTx`: wait for a connection |
| `SetRole`, `SetClaims` | `SET LOCAL ROLE`, `set_config('request.jwt.claims', ..., true)` |
| `Statement` | `fn(q)`: `UpsertPendingSubscriber` or `GetSubscriberByEmail`, judged by what is on the connection |
| `Finish` | `Commit`, or `Rollback` after an error |
| `FinishUnheard` | the `Commit` takes effect and is reported as failed |
| `Fail`, `FailWaiting` | the database fails or the context of the request ends |
| `Others` | the service pool confirms or unsubscribes; an account is deleted |

`session` is the role and the claims PostgreSQL finds on a connection; the end of a
transaction resets them because they were set `LOCAL`. `RowAccess` has neither connections
nor sessions: `Judge` decides with the identity of the caller itself. Under the mapping
`step <- StepOf` the steps of `WithUser` before the statement are stutters.

What the statement is judged by is PostgreSQL's semantics of the policies in
`migrations/`; the modules rely on these points of it:

- `INSERT ... RETURNING` and `ON CONFLICT DO UPDATE` read the row, so that the SELECT
  policies are applied too, to the proposed row, to the row before and to the row
  after, and a row they hide is an error and not "no rows";
- the check of the proposed row comes before the conflict is looked at, and the `WHERE`
  of `ON CONFLICT` before the UPDATE policies;
- policies of one command are alternatives; `anon` has no SELECT policy;
- an upsert that was not refused, also one whose `WHERE` was false, holds the lock of
  the row until its transaction ends; updates of others wait for it;
- the foreign key of `user_id` is checked by the statement, and deleting the account
  sets it to null.

### ServerProcess, Config, ClientIP

`stage` follows the main goroutine through `run`: `LoadConfig`, `OpenPool` twice,
`NewVerifier`, `Launch` (workers and listener), `Notify`, then `TakeSignal`,
`ShutdownReturns`, `Join`, the deferred `Close`s in their order, and `Exit`. An error
of the boot runs the defers (`Fail`). A signal before `signal.Notify` kills the process, as is
Go's default, also while a failed boot unwinds. `Listen` is the goroutine of `ListenAndServe`, whose error is only logged.

A request is the list of pools it has still to use (`Uses`, one entry per
transaction of its route; an admin route whose verdict is cached has one less). Requests arrive
while the listener is open and, on connections accepted before, also while `Shutdown` drains
(`Reachable`). A worker is a loop over transactions of the service pool and
mails. What they do inside a transaction is in the other modules. `pgxpool.Close` refuses
newcomers, waits for connections that are out, and has no deadline of its own.
A panic in a handler is recovered and rolls back, so it ends a request as an error
does; a panic in a worker ends the process.

`Config` keeps the integers and their width: `Int32` narrows as Go does. `Half` is 16 in the
run and stands for 2^31. `getInt` takes the default for what is missing and for what is not a
number alike. Strings are reduced to what `Load` asks of them. `LoadAgrees` compares what `Load` returns
with what the constructors require of it and with the numbers that were set; the two replacements
`Load` makes in silence are exempted by name (`KeepsNumbers`) and reported in section 5.

`Environments` is what `Load` reads, with every integer; `Envs` are the ones a run starts
processes in, and `Headers` the headers clients may claim. The theorems hold for every
choice of both, `Envs = Environments` and `Headers = Seq(Hops)` included.

`ClientIP` takes the header as its hops. `Forwarded` assumes that proxies append to
one header line, since `Header.Get` reads only the first line.

## 3. The runs

Every run ends within three minutes on two workers.

| run | checks | shows |
| --- | --- | --- |
| `queue_safety` | `TypeOK`, `ExclusiveClaim`, `AcceptedOnce`, `AttemptBudget`, `AuditTrail`, `StatusHonest`, `TerminalStays`, `ImplementsOutbox` | two processes with a worker each on three rows, one malformed, batches of two, two attempts, two tries per write; crashes, shutdowns and failing writes without limit; every answer of the provider arrives |
| `queue_settles` | `Settles`, `ImplementsFairOutbox` | without faults every row is settled, under every answer of the provider and a cap of one mail a day |
| `queue_drains` | `CapOvershoot`, `Drains` | two processes with a worker each, three rows, a cap of one mail a day, crashes, shutdowns, failing writes: the mails that are counted in the end exceed the cap by less than one batch per worker, and after finitely many crashes no pending row is left waiting (it may be claimed and then stranded: finding 1) |
| `subs_optin` | `TypeOK`, `AnsweredIsResolved`, `TokenIffPending`, `Lifecycle`, `LateMailOnly`, `PendingHasMail`, `PendingIsSettled` | two subscribes, a resend, a click and an unsubscription on one address under all faults, and the mail of a pending row: who may leave it without one, and that otherwise it is settled |
| `admin_safety` | `TypeOK`, `ReadsGated`, `CacheBounded`, `AccessFresh`, `DenialFresh` | three lists of one user and a resend of another while their rows come and go, TTL 1, Lag 1, a cache of one entry |
| `row_security` | `TypeOK`, `IdentityMatches`, `ImplementsAccess`, `OwnViewTrue`, `OwnerNeverRefused`, `RefreshNeedsSight`, `ResolvedStays`, `Answered` | two requests of any two callers on one or two connections, failing anywhere, while the row is confirmed or unsubscribed and accounts are deleted |
| `server_process` | `TypeOK`, `ConfigAgrees`, `KeyOfClient`, `PoolsOutliveUsers`, `ExitAccounted`, `ShutdownEnds`, `Served` | a process from every environment `Load` tells apart to its exit: two requests on any route, one or two workers, pools of one connection, every failure of the boot, a taken port, clients that go away, a signal at any moment |
| `queue_lease`, `queue_lateack`, `subs_throttle`, `subs_confirm`, `row_anon` | one violated property each | section 5 |

**Bounds, and why they are enough.** The bounds are constants: numbers of rows,
workers, requests and users, `BatchLimit`, `MaxAttempts`, `MaxTries`, `High`, `Low`,
`TTL`, `Lag`, `Budget`, `Horizon`. Nothing else is cut off, and
every counter is bounded by the code's own logic (attempts by `MaxAttempts`, log
rows by settling once) or saturates (ages). Two workers suffice for every race
over a row, since a row is contested by pairs, and are put in different processes
so that one can crash while the other goes on. Three rows with a batch of two give full batches,
partial batches and a row left for the other worker. `MaxAttempts = 2` has a first,
a middle and a last attempt in the sense of `dispatch` (retry below, dead at the
limit), and `MaxTries = 2` a repeated and a final write. For
subscriptions, two issuers make a rotation, a third (the resend) rotates between
the steps of the second, and one click and one unsubscription race each of them. `subs_optin` follows
mails to `Horizon = 2`, the expiry of the confirm link; what it does not explore is an
unsubscribe link that has expired, in which case `Unsubscribe` changes nothing. The runs of one property
use 3, and the theorems hold for every value.
`queue_drains` claims single rows, so
that three rows can exceed the bound of `CapOvershoot` if it is wrong. In `admin_safety`
two requests of one user read the table and put their verdicts in either order, a third one hits what
the later left (the three are interchangeable, and `SYMMETRY` says so), and
the other user's put evicts it. With one entry the choice of survivors does not arise; that a cut of
any size and any choice of survivors keeps the bound is proved. `Budget = 1` is enough since a mail that is tried again is, to the subscriber,
a mail that is still on its way. `row_security` has the two requests that contest a row or a
connection, pools of one connection (waiting) and of two (interleaving), and two users, so
that owner, admin, stranger and deleted account all occur. `server_process` has one
connection per pool, where a lost or hoarded one is felt at once: a route that held one pool while it
waits for the other would show as a deadlock. `Half = 16` with sizes 17, 32 and 33 has a
value that narrows to a negative number, to zero and to a valid one; a text that is no number
stands among the worker counts and the pool sizes. `KeyOfClient` is evaluated
over all headers and all chains of trusted proxies of up to three hops, among two
clients, two proxies and a text that is no address. For the proved properties the
bounds do not matter.

`CHECK_DEADLOCK FALSE` stands in the subscription, admin, row and server configurations: a
finite set of requests that have all been answered is an end, not a deadlock, and so
is a process that has exited.
The queue is checked for deadlock everywhere.

**Fairness.** `FairSpec` of `NotificationQueue` has weak fairness of `Work(w)` for
each worker (a runnable goroutine is scheduled, and a call returns), of `Restart(p)` (the platform restarts a process that is down), and of the
three clock actions. Nothing makes a fault happen, and nothing makes the API
enqueue. `Work(w)` as a whole is fair, not each disjunct: a worker may choose among rows for
ever, and `Settles` therefore rests on finite rows and budgets, as in the code.
`Drains` assumes that every process is up for good from some time on. It is
a weaker promise than `Settles` because a crash really can strand a row
(section 5, the lease). `FairSpec` of `Subscriptions` has weak fairness of the
handlers of requests that issue tokens (a handler that started runs on), and
`Outbox`'s own fairness, which `queue_settles` shows the workers provide
without faults. Clicks are never fair: nobody has to click. `FairSpec` of `UserPool` has
strong fairness of `Begin(r)` and `Work(r)`: `pgxpool` and PostgreSQL's locks serve those who
wait in the order they came, so a request is not passed over for ever. Callers,
failures and `Others` are never fair. `FairSpec` of `ServerProcess` has weak fairness of the
main goroutine, the deadline of `Shutdown`, the listener, and of what ends a transaction or a
mail (the database and the provider client return), and strong fairness of acquiring a
connection. Answering is not fair: a client may read as slowly as it likes, which is why
`Shutdown` needs its deadline. The signal is not fair either: `ShutdownEnds` starts from
one that has come. The safety and admin runs use no fairness.

## 4. The proofs

| theorem | states | assumption |
| --- | --- | --- |
| `TypeCorrect` | `Spec => []TypeOK` | |
| `CapOvershootBounded` | `Spec => []CapOvershoot`, of the mails that are counted in the end | |
| `DailyMailsBounded` | `Spec => [](MailsAreCounted /\ MailsBounded)`: no mail is missed by the count, and the mails of a day exceed the cap by less than a batch per worker | `Faults = {}`, no "timeout" in `Provider` |
| `SubmissionsAreCounted` | `Spec => []SubmissionsClaimed`: accepted submissions never exceed `attempts` | |
| `FactsUnderEveryFault` | `Spec => [](SentIsTrue /\ SettledIsLogged)`: "sent" is said only of accepted mail, and a settled row is in the log | |
| `OnlyFaultsStrand`, `StrandedRowsStay` | `Spec => StrandedByFault`, `Spec => StrandedForGood`: what leaves a row without a worker, and that nothing brings it back | |
| `RowsHaveWorkers` | `Spec => []NothingStranded` | `Faults = {}` |
| `ClaimsExclusive` | `Spec => []ExclusiveClaim` | A |
| `MailAcceptedOnce` | `Spec => []AcceptedOnce` | A |
| `AttemptsBounded` | `Spec => []AttemptBudget` | A |
| `LogMatchesTable` | `Spec => []AuditTrail` | A |
| `StatusTellsTruth` | `Spec => []StatusHonest` | A |
| `TerminalFinal` | `Spec => TerminalStays` | A |
| `QueueIsOutbox` | `Spec => ImplementsOutbox` | A |
| `OutboxKeepsAccounts`, `OutboxSettlesForGood` | of `Outbox`: `Spec => []Promise`, `Spec => SettledStays` | `Budget \in Nat` |
| `QueueKeepsAccounts` | both promises of `Outbox`, of the rows of the queue | A |
| `SubscriptionTypeCorrect`, `AnswersHold`, `TokenWhilePending`, `LifecycleHolds`, `NoMailIsAddedLater` | `TypeOK`, `AnsweredIsResolved`, `TokenIffPending`, `Lifecycle`, `LateMailOnly` | |
| `PendingRowsHaveMail` | `Spec => PendingHasMail` | |
| `MailsGoThroughOutbox`, `MailsKeepAccounts` | `Spec => Mail!Spec`, and both promises of `Outbox` of the mails of subscriptions | |
| `AdminAccessTypeCorrect`, `ListsAreGated`, `RevocationTakesEffect`, `GrantTakesEffect`, `CacheStaysBounded` | `TypeOK`, `ReadsGated`, `AccessFresh`, `DenialFresh`, `CacheBounded` | |
| `PoolTypeCorrect`, `CallersJudgedAsThemselves`, `OwnViewsAreTrue`, `OwnersAreNeverRefused`, `RefreshIsForThoseWhoSee`, `ResolvedRowsStay`, `PoolIsRowAccess` | `TypeOK`, `IdentityMatches`, `OwnViewTrue`, `OwnerNeverRefused`, `RefreshNeedsSight`, `ResolvedStays`, `ImplementsAccess` | |
| `ProcessTypeCorrect`, `PoolsOutlast`, `ExitsAccountedFor`, `ConfigIsAgreed`, `KeyIsOfClient` | `TypeOK`, `PoolsOutliveUsers`, `ExitAccounted`, `ConfigAgrees`, `KeyOfClient` | |

A is `"acklost" \notin Faults`: while a process runs, a commit that took effect is
reported as such. Without it `ExclusiveClaim` is false, as a writer still has in hand a row
that is settled; `queue_lateack` shows the consequence, a write to a row that another worker has claimed. Most of
what rests on `ExclusiveClaim` fails too: a late write can reopen a settled row, so
that TLC finds `AcceptedOnce`, `AttemptBudget` and `TerminalStays` violated as well when `"acklost"` is added. What is left
of them is proved without A. Beyond A the theorems hold for all values of the constants
allowed by the named `ASSUME`s of each module; those of `NotificationQueue` hold
for any rows and processes and finitely many workers, any batch limit and budget, with
crashes, shutdowns and failing writes.

**The queue** (`NotificationQueueProofs`). `ExclusiveClaim` alone is not
inductive. A worker in `write` whose row is not in its hand, or a worker in `top` with
rows left over, could touch a row of another. `IInv` adds

- `WriterOK` (already needed for types): a worker in `write` has the row whose
  outcome it writes in its hand;
- `IdleEmpty`: outside `batch` and `write` a worker holds no row;
- `Fresh`: a row that was never enqueued has no attempts and no mail;
- `VerdictOK`: the verdict a worker is about to write fits the row: "sent"
  only if accepted, "dead" only at the last attempt, "retry" only before it;
- `OnePostPerClaim`: a row's mail is posted no more often than it was claimed, and
  strictly less while it is in a worker's batch and not yet dispatched, which is what
  `Post` of `Outbox` needs;
- `SentPosted` and `AnswersArrive`: what the table and the verdicts say of
  `accepted`, the second one when every answer arrives.

The central step is `Write`: since the row in hand is in hand of one worker only
and is still as the claim left it, the UPDATE by id cannot hit another worker's
row or a settled one. `acklost` breaks exactly this, as the row is written while it remains in
hand. A cancelled context does not: `withRetry` then gives up at once and the
row leaves the hand in the same step. The refinement uses `IInv` on both sides of a step and
shows that each action is an action of `Outbox` or a stutter. Through it the queue inherits
what `OutboxProofs` shows of every outbox (`QueueKeepsAccounts`).

What does not need A is proved from another invariant, `CapInv`, which stands under
every fault. It is about the daily cap. `CapOvershoot` looks at the mails of the last day whose row is sent, or
in a hand that may still mark it. What bounds them is what may still be sent: the rows sent together with the rows in hand,
plus a batch for each worker that has passed the check and not yet claimed, are at most
`MaxDaily - 1` and a batch per worker (`PromiseBounded`). A claim turns a promised batch
into rows in hand, a write turns a row in hand into a sent one, and neither adds to the sum. The check
adds a batch, and there the sum is computed anew: fewer than `MaxDaily` rows are sent, the
other workers hold at most a batch each. For the last point a batch per worker does not
suffice as an invariant on single workers, since rows in several hands are counted once:
`BatchesBounded` says it of every set of workers. `SubmissionsAreCounted` counts
in the same way, per row: a claim pays in advance for one call by each worker that
holds the row and has not called (`ClaimsPay`), so that even the late writes of `queue_lateack`,
which put a row in two hands, leave `attempts` a true upper bound of the submissions.

Mails that are accepted and in nobody's hand without being marked sent (`MissedByCount`) are outside of
that bound. They exist only after a fault: `DailyMailsBounded` shows that without faults, and with every
answer heard, a mail that was accepted is sent or about to be marked so, and the bound is one of all mails.

`OnlyFaultsStrand` and `StrandedRowsStay` are the general form of finding 1 in section 5: a row in
progress loses its worker only when the worker is cancelled or dies, gives up a failed write, or never
hears of its claim, and no step of anybody makes such a row claimable again.

**Subscriptions** (`SubscriptionsProofs`). `IInv` is `TypeOK`, the type of the
outbox, `TokenIffPending`, `AnsweredIsResolved`, and two links between mail and row:
only submitted mail was posted (`PostedIsSubmitted`), and once a mail is
submitted, or a request is past its upsert or lookup, the row exists (`RowExists`). Without
them an unsubscription could act on a row that is not there, and `Lifecycle` could
not exclude the step from "none" to "unsubscribed". `TypeOK` includes that a click is
answered 200 or 400 only: the handler's one answer to a bad token, a stale token and
a failing database is deliberate.

What the mails add is one lemma on steps, `MailStep`: a mail that was not submitted is submitted only by a
request in `enqueue`; a request gets there only by its upsert, which resolved rows refuse; and
it leaves by submitting or by a fault. `LateMailOnly` is that lemma for a resolved row.
`PendingHasMail` looks at the steps after which a pending row is without mail and was not before. `RowMoves`
says that a step which changes the row and leaves it pending is an upsert: the token becomes its
issuer, who is then about to enqueue, or done at once because the upsert was reported as failed (`AckLost`).
`TokenIssued` is an invariant: the issuer of the present token is past its upsert, and can only leave
`enqueue` for good, by submitting or by `EnqueueFails`. `MailsGoThroughOutbox` shows that the
composition with `Outbox` is a proper one: whatever requests do is a step of it or a stutter.

**Admin access** (`AdminAccessProofs`). The freshness properties are about steps;
behind them is an invariant on what is cached: a verdict in hand that says "admin"
was true no longer ago than its age (`VerdictsFresh`), what an entry says was true
no longer ago than `TTL + Lag` less the time the entry has left (`EntriesFresh`), and both
for denials. `MembersKnown` relates a present row to `member` for `ReadsGated`. `CacheBounded`
is proved with the cardinality theorems of the library: the kept set has at most
`High - 1` elements, and one more is put. `TypeOK` is part of that invariant, and follows from it.

**Row level security** (`UserPoolProofs`). `IInv` is `TypeOK`, `IdentityMatches` and three facts
about a transaction under way: a request has a connection exactly from `BeginTx` to the
end of its transaction (`HoldsConn`); between its first two statements the role on
it is the caller's (`RoleIsSet`); and what an upsert was promised still holds at its commit
(`UpsertsKept`): at most one upsert holds the lock of the row, and while it does the row
is absent or pending and the account it links exists. The last one is why
a commit, heard of or not, never reopens a resolved row (`ResolvedRowsStay`) and keeps the foreign keys
(`PoolTypeCorrect`). Since every statement runs on a connection that says who the caller is
(`Decides`), the three properties about policies reduce to the policies themselves,
and each step of the pool is a step of `RowAccess` or a stutter. The theorems hold for
any number of requests, connections and users.

**The process** (`ServerProcessProofs`). The two properties of state, `PoolsOutliveUsers` and
`ExitAccounted`, hold because of the order in which `run` does things, and the invariant says what
that order has achieved at each stage: `BootInOrder` (the pools are open one after the other
before anybody runs, and a boot that fails has started nobody), `DrainInOrder` (the
listener is closed before the requests are drained, and the root context is cancelled once they are or
the deadline has passed), `EndInOrder` (a clean end comes after a signal and after every worker,
and the exit after the closes), and the two halves of `PoolsOutliveUsers`, for workers
(`WorkersKeepPool`) and for whoever holds a connection (`HoldersKeepPool`). A closing pool waits for
its holders, which is why the second half must allow "closing". The number of holders is bounded with the
cardinality theorems, so the theorems hold for any finite set of requests and pools of any size.

The pure functions are proved where they are used. `Int32Range` bounds what narrowing returns,
`Int32Keeps` says that it keeps what int32 holds, and `LoadChecks` says what `Load` has checked after
narrowing, so that every constructor takes the result as it is, for every value of every variable. `KeyBehindProxies` finds the client's hop
at a known position: all hops to its right are trusted, so the walk from the right stops there, whatever was claimed
to its left.

**Only model-checked**: liveness (`Settles`, `Drains`, `ImplementsFairOutbox`,
`PendingIsSettled`, `Answered`, `ShutdownEnds`, `Served`), which the prover does not do, and
the violated properties. Every invariant and every action property of the passing runs is
proved.

## 5. Where code and documents disagree

Each is a run whose property states the document and is violated; the
quotations are in `PROJECT.json`.

1. **A crashed worker's row is not recovered** (`queue_lease`). The claim takes
   `pending` rows only. A row left `sending` by a crash, a shutdown in mid-batch or
   an exhausted `withRetry` stays there after its lease has expired.
2. **A late write hits another worker's row** (`queue_lateack`). `withRetry` repeats
   a transaction that had taken effect; its UPDATE selects by id alone. In the run a 'retry' commits
   unheard, the backoff elapses, a second worker claims the row, and the first one's second write
   puts it back to 'pending' in the second one's hands. A first COMMIT whose loss is noticed only
   after the backoff (a minute and more) is what it takes.
3. **The throttle does not protect a link under concurrency** (`subs_throttle`). Two
   subscribes pass it together, and the second rotates the first one's token away.
4. **A subscriber without a token is refused** (`row_anon`). The upsert of role `anon` needs a
   SELECT policy that no migration gives it, so that the statement fails and the answer
   is 500, for a new address as for a pending one.
5. **"Confirmed" without a confirmation** (`subs_confirm`). An unsubscription between lookup and
   update leaves the update without a row; the number of rows is not looked at, and the answer is 200
   `confirmed` for an address that never was (`docs/ENDPOINTS.md:41`). What still holds of
   the answer is `AnsweredIsResolved`.

Others were met while modelling and have no run of their own:

- *The daily cap is exceeded.* `.env.example:53-54` says that the worker "refuses to dispatch above
  this cap". It is checked before a claim of up to five rows, by each worker for
  itself; `CapOvershoot` says how far the counted mails can exceed it. The count sees `sent` rows
  only: a mail whose `markSent` gives up or is cut off by a crash or a shutdown stays `sending`, one whose answer is
  lost goes back to `pending` or becomes `dead`, and while either lasts such mails
  are sent without limit and without being counted.
- *Bad numbers do not fail fast.* `config.go:45-46` says that `Load` "fails fast on missing required
  values or bad shapes". `getInt` (`config.go:141-150`) takes the default for a text that is no
  number, and `POOL_MAX_CONNS` is narrowed to int32 before it is checked (`config.go:68`): 2^32+1 runs as a pool
  of 1.
- *A second click is answered 400*, where `docs/ENDPOINTS.md:41` and
  `queries/subscribers.sql:37` say "idempotent": the first one cleared the token.
- *A signed-in stranger's subscribe on an address it does not own* is refused
  by the same SELECT policies, with 500 rather than the uniform 202 of the handler. `OwnerNeverRefused` and
  `RefreshNeedsSight` say who is let through.
- *The link of a row to its account* is written so that the owner still sees the row after a
  change of e-mail (`subscribers/service.go:147-148`), and the policy of 0006 allows that, but
  `HandleMySubscription` looks up by the e-mail of the token.
- *The verdict of `RequireAdmin`*: `SECURITY.md:13` says that the middleware queries
  `public.admins` "per request"; a comment at the cache says that it does not. `AccessFresh`
  states how old a verdict may be, for the resend too, which no policy gates a second time.
- *An unsubscribe link without expiry* (`subscribers/service.go:59`, "0 = no expiry") cannot be
  had: `NewService` turns 0 into 365 days.
- *The clamp of `backoff`*: `worker.go:351-353` says that the shift "cannot overflow". Times
  30 s it does at attempts 29 and 30, within the clamp, after which `rand.Int64N` would panic. Rows are
  given up long before: `main.go` allows 6 attempts.
- *The offset of an admin list* is narrowed to int32 without a bound: 2^31 asks for a
  negative offset and is answered 500, 2^32 shows the first page.

## 6. What is not modelled

- *Signatures and hashing* (tokens, JWT): taken to work. A link is bound to the mail
  it came in, a request to its subject.
- *Paging of the admin lists*, the GET pages, rendering, the constant response latency: no
  property of state depends on them.
- *HTTP rate limits*: the counters are `httprate`'s; modelling requests without
  limits only adds behaviours.
- *Policies on `public.notifications` and `public.email_log`*: both are written through the
  service pool only, which bypasses them; the admin's SELECT policy is in `AdminAccess`.
- *CORS, headers, logging, error envelopes, mail templates, test fixtures*: no behaviour over
  time. `testutil` is never part of the program.
- *What the libraries do inside* (`pgxpool`, `net/http`, `httprate`, the JWKS refresh):
  modelled by what the code relies on, and marked external in `PROJECT.json`.
- *The arithmetic of* `backoff`: a retry is due later; see section 5 for its clamp.
- *The provider's deduplication by* `Idempotency-Key`: outside this repository. With
  `timeout` a row may be posted twice by this code (`AcceptedOnce` says so by its
  premise), and only the key keeps the second from being a second mail.

## 7. The plan

Order of work: the queue first, as the part in which most hazards meet; then the
double opt-in over its abstraction; then access; then the pools with the policies, and the
process around all of it. Done: all of section 2. Next:

1. `MailingList`: `Subscriptions` over `NotificationQueue` itself, without the
   abstraction in between, for properties that need both: a stranded mail under a
   pending row that the throttle keeps from being replaced, a resend whose enqueue
   fails; and its refinement to `Subscriptions`.
2. `Tokens`: `Sign` and `Verify` over field structure, purposes and expiry.
3. What is left of `AuditTrail` and `AttemptBudget` when acknowledgements are lost: how many log
   rows and attempts a row can then have, in terms of `MaxTries`.
