--------------------------- MODULE ServerProcess ---------------------------
(***************************************************************************)
(* One server process from its start to its exit: run in main.go, the two  *)
(* connection pools, the worker goroutines and the requests in flight.     *)
(*                                                                         *)
(* A worker or a handler is a user of the pools: what its transactions do  *)
(* is in NotificationQueue, Subscriptions, UserPool and AdminAccess.  A    *)
(* panic in a handler is recovered and rolls back: it ends the request as  *)
(* an error does.                                                          *)
(***************************************************************************)
EXTENDS FiniteSets, Sequences, ClientIP, Config

CONSTANTS
    Envs,        \* the environments the process may be started in
    Headers,     \* what X-Forwarded-For may say
    Handlers,    \* the requests there are at one time
    Faults       \* "boot": a step of the boot fails, "listen": the port is taken,
                 \* "gone": a client goes away, "dbfail": a transaction fails

\* What Load reads of an environment.
Environments ==
    [required : BOOLEAN, secret : BOOLEAN, jwks : BOOLEAN, keysLong : BOOLEAN,
     origins : {"none", "star", "listed"}, cidrsParse : BOOLEAN, trusted : SUBSET Addresses,
     workers : Unread \cup Int, rps : Unread \cup Int, daily : Unread \cup Int,
     conns : Unread \cup Int]

ASSUME EnvAssumption == Envs \subseteq Environments
ASSUME HeaderAssumption == Headers \subseteq Seq(Hops)
ASSUME HandlerAssumption == IsFiniteSet(Handlers) /\ Handlers \cap {1, 2} = {}
ASSUME FaultAssumption == Faults \subseteq {"boot", "listen", "gone", "dbfail"}

VARIABLES
    conf,       \* what Load returned
    stage,      \* where the main goroutine stands
    code,       \* how the process ended
    signal,     \* SIGINT or SIGTERM has come
    late,       \* the 25 seconds of the shutdown have passed
    root,       \* the root context is cancelled
    listener,   \* the goroutine of ListenAndServe
    pool,       \* the pools
    worker,     \* the worker goroutines
    at,         \* where a request stands
    todo        \* the pools it has still to use

vars == <<conf, stage, code, signal, late, root, listener, pool, worker, at, todo>>

Pools   == {"user", "service"}
Boot    == {"config", "userPool", "servicePool", "verifier", "launch", "notify"}
Workers == 1 .. 2

\* The transactions of a route, in order.  RequireAdmin asks the user pool
\* unless its cache answers; the admin lists read their page and their total in
\* one transaction.  "me" is also a list, and "cachedResend" a resend, whose
\* verdict was cached.
Uses ==
    [health |-> <<>>, ready |-> <<"user", "service">>, link |-> <<"service">>,
     me |-> <<"user">>, subscribe |-> <<"service", "user", "service">>,
     list |-> <<"user", "user">>, resend |-> <<"user", "service", "service">>,
     cachedResend |-> <<"service", "service">>]
Routes == DOMAIN Uses

Configs ==
    [secret : BOOLEAN, jwks : BOOLEAN, workers : Int, rps : Int, daily : Int, conns : Int,
     trusted : SUBSET Addresses]

Suffixes(s) == {SubSeq(s, i, Len(s)) : i \in 1 .. (Len(s) + 1)}

\* What a request may still have to do: the end of the list of its route.
Todos == UNION {Suffixes(Uses[u]) : u \in Routes}

TypeOK ==
    /\ conf     \in Configs \cup {NoConfig}
    /\ conf = NoConfig => stage \in {"config", "unwind", "exited"}
    /\ stage    \in Boot \cup {"serve", "shutdown", "join", "unwind", "exited"}
    /\ code     \in {"none", "failed", "clean", "killed"}
    /\ signal \in BOOLEAN /\ late \in BOOLEAN /\ root \in BOOLEAN
    /\ listener \in {"off", "starting", "open", "failed", "closed"}
    /\ pool     \in [Pools -> {"unopened", "open", "closing", "closed"}]
    /\ worker   \in [Workers -> {"off", "ready", "tx", "send", "done"}]
    /\ at       \in [Handlers -> {"free", "run", "hold"}]
    /\ todo     \in [Handlers -> Todos]
    /\ \A h \in Handlers : at[h] = "free" => todo[h] = <<>>
    /\ \A h \in Handlers : at[h] = "hold" => todo[h] # <<>>

Init ==
    /\ conf     = NoConfig
    /\ stage    = "config"
    /\ code     = "none"
    /\ signal = FALSE /\ late = FALSE /\ root = FALSE
    /\ listener = "off"
    /\ pool     = [p \in Pools |-> "unopened"]
    /\ worker   = [w \in Workers |-> "off"]
    /\ at       = [h \in Handlers |-> "free"]
    /\ todo     = [h \in Handlers |-> <<>>]

Running == stage # "exited"

procVars == <<conf, signal, late, root, listener, pool>>
reqVars  == <<at, todo>>

-----------------------------------------------------------------------------
(* The connections.                                                        *)

\* Who holds a connection of a pool: requests, and workers of the service pool.
Holders(p) ==
    {h \in Handlers : at[h] = "hold" /\ Head(todo[h]) = p}
        \cup {w \in Workers : p = "service" /\ worker[w] = "tx"}

\* Variant: one connection too few.
FreeButOne(p) == pool[p] = "open" /\ Cardinality(Holders(p)) < conf.conns - 1

\* Variant: the pool forgets its limit.
FreeAlways(p) == pool[p] = "open"

\* pgxpool.Acquire waits for this.
Free(p) == pool[p] = "open" /\ Cardinality(Holders(p)) < conf.conns

-----------------------------------------------------------------------------
(* The main goroutine.                                                     *)

\* Variant: the defers are skipped.
FailAtOnce == stage' = "exited" /\ code' = "failed"

Fail == stage' = "unwind" /\ code' = "failed"

LoadConfig ==
    /\ stage = "config"
    /\ \E e \in Envs :
         IF Load(e) = NoConfig
         THEN Fail /\ UNCHANGED conf
         ELSE conf' = Load(e) /\ stage' = "userPool" /\ UNCHANGED code
    /\ UNCHANGED <<signal, late, root, listener, pool, worker, reqVars>>

BootFails == "boot" \in Faults /\ Fail

\* NewUserPool, NewServicePool: on an error they leave nothing open.
OpenPool(p, here, next) ==
    /\ stage = here
    /\ \/ pool' = [pool EXCEPT ![p] = "open"] /\ stage' = next /\ UNCHANGED code
       \/ BootFails /\ UNCHANGED pool
    /\ UNCHANGED <<conf, signal, late, root, listener, worker, reqVars>>

\* NewVerifier fetches the keys when there is a JWKS.
NewVerifier ==
    /\ stage = "verifier"
    /\ \/ IF VerifierAccepts(conf) THEN stage' = "launch" /\ UNCHANGED code ELSE Fail
       \/ conf.jwks /\ BootFails
    /\ UNCHANGED <<procVars, worker, reqVars>>

\* The goroutines of Worker.Run and of ListenAndServe.
Launch ==
    /\ stage = "launch"
    /\ worker' = [w \in Workers |-> IF w <= conf.workers THEN "ready" ELSE "done"]
    /\ listener' = "starting"
    /\ stage' = "notify"
    /\ UNCHANGED <<conf, code, signal, late, root, pool, reqVars>>

Notify ==
    /\ stage = "notify"
    /\ stage' = "serve"
    /\ UNCHANGED <<procVars, code, worker, reqVars>>

\* Before signal.Notify, also while a failed boot unwinds, a signal kills the
\* process; after it the first one is kept for main, and those that follow change
\* nothing.
Signal ==
    /\ Running /\ ~signal
    /\ signal' = TRUE
    /\ IF stage \in Boot \/ code = "failed" THEN stage' = "exited" /\ code' = "killed"
       ELSE UNCHANGED <<stage, code>>
    /\ UNCHANGED <<conf, late, root, listener, pool, worker, reqVars>>

\* Shutdown closes the listener; one that has not begun to listen never will.
TakeSignal ==
    /\ stage = "serve" /\ signal
    /\ stage' = "shutdown"
    /\ listener' = IF listener = "open" THEN "closed" ELSE listener
    /\ UNCHANGED <<conf, code, signal, late, root, pool, worker, reqVars>>

Deadline ==
    /\ stage = "shutdown" /\ ~late
    /\ late' = TRUE
    /\ UNCHANGED <<conf, stage, code, signal, root, listener, pool, worker, reqVars>>

Quiet == \A h \in Handlers : at[h] = "free"

\* Variant: Close in place of Shutdown.
AtOnce == TRUE

\* Variant: Shutdown with a context that has no deadline.
WhenQuiet == Quiet

DrainEnds == Quiet \/ late

\* Shutdown returns when no request is left or at its deadline; then rootCancel.
ShutdownReturns ==
    /\ stage = "shutdown" /\ DrainEnds
    /\ root' = TRUE
    /\ stage' = "join"
    /\ UNCHANGED <<conf, code, signal, late, listener, pool, worker, reqVars>>

\* Variant: nobody waits for the workers.
ListenerJoined == listener \in {"failed", "closed"}

Joined == listener \in {"failed", "closed"} /\ \A w \in Workers : worker[w] = "done"

\* wg.Wait.
Join ==
    /\ stage = "join" /\ Joined
    /\ stage' = "unwind"
    /\ UNCHANGED <<procVars, code, worker, reqVars>>

\* The defers: pgxpool.Close refuses who comes, then waits for who is there.
Close(p) ==
    /\ stage = "unwind"
    /\ p = "user" => pool["service"] \in {"unopened", "closed"}
    /\ \/ pool[p] = "open" /\ pool' = [pool EXCEPT ![p] = "closing"]
       \/ pool[p] = "closing" /\ Holders(p) = {} /\ pool' = [pool EXCEPT ![p] = "closed"]
    /\ UNCHANGED <<conf, stage, code, signal, late, root, listener, worker, reqVars>>

Exit ==
    /\ stage = "unwind"
    /\ \A p \in Pools : pool[p] \in {"unopened", "closed"}
    /\ stage' = "exited"
    /\ code' = IF code = "none" THEN "clean" ELSE code
    /\ UNCHANGED <<procVars, worker, reqVars>>

-----------------------------------------------------------------------------
(* The listener and the requests.                                          *)

\* ListenAndServe.  An error is only logged, and so is that it was shut down
\* before it served anybody.
Listen ==
    /\ Running /\ listener = "starting"
    /\ listener' \in (IF stage \in Boot \cup {"serve"} THEN {"open"} ELSE {"failed"})
                       \cup (IF "listen" \in Faults THEN {"failed"} ELSE {})
    /\ UNCHANGED <<conf, stage, code, signal, late, root, pool, worker, reqVars>>

\* A connection accepted earlier may still bring a request while Shutdown drains,
\* and after it gave up at its deadline.
Reachable == listener = "open" \/ (listener = "closed" /\ (stage = "shutdown" \/ late))

Arrive(h) ==
    /\ Running /\ Reachable /\ at[h] = "free"
    /\ \E u \in Routes : todo' = [todo EXCEPT ![h] = Uses[u]]
    /\ at' = [at EXCEPT ![h] = "run"]
    /\ UNCHANGED <<procVars, stage, code, worker>>

Acquire(h) ==
    /\ Running /\ at[h] = "run" /\ todo[h] # <<>> /\ Free(Head(todo[h]))
    /\ at' = [at EXCEPT ![h] = "hold"]
    /\ UNCHANGED <<procVars, stage, code, worker, todo>>

\* Variant: the request ends, and its slot keeps what it had still to do.
GiveUpMidway(h) == at' = [at EXCEPT ![h] = "free"] /\ UNCHANGED todo

\* The handler gives up what it has still to do, and answers.
GiveUp(h) == at' = [at EXCEPT ![h] = "run"] /\ todo' = [todo EXCEPT ![h] = <<>>]

\* The pool is closed, or the client goes away while the handler waits.
AcquireFails(h) ==
    /\ Running /\ at[h] = "run" /\ todo[h] # <<>>
    /\ pool[Head(todo[h])] # "open" \/ "gone" \in Faults
    /\ GiveUp(h)
    /\ UNCHANGED <<procVars, stage, code, worker>>

\* A transaction ends and its connection goes back.
Finish(h) ==
    /\ Running /\ at[h] = "hold"
    /\ \/ at' = [at EXCEPT ![h] = "run"] /\ todo' = [todo EXCEPT ![h] = Tail(@)]
       \/ "dbfail" \in Faults /\ GiveUp(h)
    /\ UNCHANGED <<procVars, stage, code, worker>>

Answer(h) ==
    /\ Running /\ at[h] = "run" /\ todo[h] = <<>>
    /\ at' = [at EXCEPT ![h] = "free"]
    /\ UNCHANGED <<procVars, stage, code, worker, todo>>

-----------------------------------------------------------------------------
(* The workers.                                                            *)

\* BeginTx of the cap check, of the claim or of a result, with the root context.
WorkerBegins(w) ==
    /\ Running /\ worker[w] = "ready" /\ ~root /\ Free("service")
    /\ worker' = [worker EXCEPT ![w] = "tx"]
    /\ UNCHANGED <<procVars, stage, code, reqVars>>

\* What follows is a sleep or a transaction, or a mail to send.
WorkerEnds(w) ==
    /\ Running /\ worker[w] = "tx"
    /\ worker' \in {[worker EXCEPT ![w] = "ready"], [worker EXCEPT ![w] = "send"]}
    /\ UNCHANGED <<procVars, stage, code, reqVars>>

\* Send returns, at the latest when the root context ends it.
WorkerSends(w) ==
    /\ Running /\ worker[w] = "send"
    /\ worker' = [worker EXCEPT ![w] = "ready"]
    /\ UNCHANGED <<procVars, stage, code, reqVars>>

\* Variant: a loop that does not look at its context.
NeverTold(w) == FALSE

\* loop, its sleep, the limiter and BeginTx all look at the root context.
Told(w) == worker[w] = "ready" /\ root

WorkerStops(w) ==
    /\ Running /\ Told(w)
    /\ worker' = [worker EXCEPT ![w] = "done"]
    /\ UNCHANGED <<procVars, stage, code, reqVars>>

-----------------------------------------------------------------------------

MainStep ==
    \/ LoadConfig
    \/ OpenPool("user", "userPool", "servicePool")
    \/ OpenPool("service", "servicePool", "verifier")
    \/ NewVerifier \/ Launch \/ Notify \/ TakeSignal \/ ShutdownReturns \/ Join
    \/ (\E p \in Pools : Close(p)) \/ Exit

Next ==
    \/ MainStep \/ Signal \/ Deadline \/ Listen
    \/ \E h \in Handlers :
         Arrive(h) \/ Acquire(h) \/ AcquireFails(h) \/ Finish(h) \/ Answer(h)
    \/ \E w \in Workers :
         WorkerBegins(w) \/ WorkerEnds(w) \/ WorkerSends(w) \/ WorkerStops(w)

Spec == Init /\ [][Next]_vars

(***************************************************************************)
(* Goroutines run, timers fire, the database and the provider return, and  *)
(* a pool serves who waits in the order they came.  A client may take as   *)
(* long as it wants to read its answer.                                    *)
(***************************************************************************)
FairSpec ==
    /\ Spec
    /\ WF_vars(MainStep) /\ WF_vars(Deadline) /\ WF_vars(Listen)
    /\ \A h \in Handlers :
         SF_vars(Acquire(h)) /\ WF_vars(AcquireFails(h)) /\ WF_vars(Finish(h))
    /\ \A w \in Workers :
         /\ SF_vars(WorkerBegins(w)) /\ WF_vars(WorkerEnds(w))
         /\ WF_vars(WorkerSends(w)) /\ WF_vars(WorkerStops(w))

-----------------------------------------------------------------------------
(* What run promises.                                                      *)

\* config.go: "reads and validates": a configuration that Load returns is one the
\* verifier accepts, and the worker and the pools run with it as it is, the daily
\* cap enabled; and every number that was set and that its field can hold is in it.
ConfigAgrees == stage = "config" => \A e \in Envs : LoadAgrees(e)

\* logging.go: the key of the rate limit is the address of the client, whatever
\* X-Forwarded-For it sends, directly or through trusted proxies.
KeyOfClient ==
    stage = "userPool" =>
        KeyIsClient(conf.trusted, Headers,
                    {h \in Headers : \A i \in DOMAIN h : h[i] \in conf.trusted})

\* A pool is never closed under anybody: not under a worker, whether it holds a
\* connection or is about to take one, not under a request that holds one; and no
\* more connections are held than the pool has.
PoolsOutliveUsers ==
    /\ \A w \in Workers : worker[w] \in {"ready", "tx", "send"} => pool["service"] = "open"
    /\ \A p \in Pools : Holders(p) # {} => /\ pool[p] \in {"open", "closing"}
                                           /\ Cardinality(Holders(p)) <= conf.conns

\* main.go: the requests are drained before the workers are stopped, and the
\* workers before the process ends: however the boot failed or the shutdown crossed
\* requests and workers, nobody is cut before the deadline, and an exit that no
\* signal forced leaves no connection open.
ExitAccounted ==
    /\ root => Quiet \/ late
    /\ code = "clean" =>
         /\ signal /\ root
         /\ \A w \in Workers : worker[w] = "done"
         /\ \A p \in Pools : pool[p] # "unopened"
    /\ code = "failed" => listener = "off" /\ \A w \in Workers : worker[w] = "off"
    /\ stage = "exited" /\ code \in {"clean", "failed"} =>
         \A p \in Pools : pool[p] \in {"unopened", "closed"} /\ Holders(p) = {}

\* A signal ends the process, though the port was never opened, clients do not
\* read their answers and workers are in the middle of a mail.
ShutdownEnds == (stage = "serve" /\ signal) ~> stage = "exited"

\* Whoever waits for a connection gets one, or learns that there is none: no
\* route and no worker starves the others.
Served ==
    /\ \A h \in Handlers :
         at[h] = "run" /\ todo[h] # <<>> ~> at[h] = "hold" \/ todo[h] = <<>> \/ ~Running
    /\ \A w \in Workers :
         worker[w] = "ready" ~> worker[w] # "ready" \/ ~Running
=============================================================================
