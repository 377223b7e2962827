------------------------ MODULE ServerProcessProofs ------------------------
(***************************************************************************)
(* Proofs about the server process, for every environment it may be        *)
(* started in, every number of requests, every size of the pools and every *)
(* header a client may send.                                               *)
(***************************************************************************)
EXTENDS ServerProcess, FiniteSetTheorems, SequenceTheorems, TLAPS

-----------------------------------------------------------------------------
(* The pure parts: what Load returns, and the key of the limit.            *)

\* int32() yields an int32.
LEMMA Int32Range ==
    ASSUME NEW n \in Int
    PROVE  Int32(n) \in -Half .. (Half - 1)
  BY HalfAssumption DEF Int32

\* and leaves an int32 alone.
LEMMA Int32Keeps ==
    ASSUME NEW n \in 1 .. (Half - 1)
    PROVE  Int32(n) = n
  BY HalfAssumption DEF Int32

\* Every environment parses to a configuration with a 32-bit pool size.
LEMMA ParsedType ==
    ASSUME NEW e \in Environments
    PROVE  Parsed(e) \in Configs /\ Parsed(e).conns \in -Half .. (Half - 1)
<1>1. /\ getInt(e.workers, 2) \in Int /\ getInt(e.rps, 5) \in Int
      /\ getInt(e.daily, 5000) \in Int /\ getInt(e.conns, 10) \in Int
  BY DEF Environments, getInt, Unread
<1>2. Int32(getInt(e.conns, 10)) \in -Half .. (Half - 1)
  BY <1>1, Int32Range
<1>3. -Half .. (Half - 1) \subseteq Int
  BY HalfAssumption
<1>4. e.secret \in BOOLEAN /\ e.jwks \in BOOLEAN /\ e.trusted \in SUBSET Addresses
  BY DEF Environments
<1> QED  BY <1>1, <1>2, <1>3, <1>4 DEF Parsed, Configs

\* What Load accepts is what it parsed.
LEMMA LoadChecks ==
    ASSUME NEW e \in Environments, Load(e) # NoConfig
    PROVE  /\ Load(e) = Parsed(e) /\ Load(e) \in Configs
           /\ Exclusive(e)
           /\ Load(e).workers >= 1 /\ Load(e).rps >= 1 /\ Load(e).daily >= 1
           /\ Load(e).conns \in 1 .. (Half - 1)
<1>1. /\ Load(e) = Parsed(e)
      /\ Exclusive(e)
      /\ Parsed(e).workers >= 1 /\ Parsed(e).rps >= 1 /\ Parsed(e).daily >= 1
      /\ Parsed(e).conns >= 1
  BY DEF Load
<1>2. Parsed(e) \in Configs /\ Parsed(e).conns \in -Half .. (Half - 1)
  BY ParsedType
<1> QED  BY <1>1, <1>2, HalfAssumption

\* No environment passes Load with a value that a part of the server would
\* replace or refuse, or that is another number than was set.
LEMMA LoadIsAgreed ==
    ASSUME NEW e \in Environments
    PROVE  LoadAgrees(e)
<1> SUFFICES ASSUME Load(e) # NoConfig
             PROVE  /\ VerifierAccepts(Load(e)) /\ WorkerKeeps(Load(e))
                    /\ CapEnabled(Load(e)) /\ PoolKeeps(Load(e))
                    /\ KeepsNumbers(e, Load(e))
  BY DEF LoadAgrees
<1>1. /\ Load(e) = Parsed(e) /\ Load(e) \in Configs
      /\ Exclusive(e)
      /\ Load(e).workers >= 1 /\ Load(e).rps >= 1 /\ Load(e).daily >= 1
      /\ Load(e).conns \in 1 .. (Half - 1)
  BY LoadChecks
<1>2. VerifierAccepts(Load(e))
  <2>1. Parsed(e).secret = e.secret /\ Parsed(e).jwks = e.jwks
    BY DEF Parsed
  <2>2. e.secret \in BOOLEAN /\ e.jwks \in BOOLEAN
    BY DEF Environments
  <2> QED  BY <1>1, <2>1, <2>2, Zenon DEF VerifierAccepts, Exclusive
<1>3. Load(e).daily \in Int
  BY <1>1 DEF Configs
<1>4. KeepsNumbers(e, Load(e))
  <2>1. /\ e.workers \notin Unread => Parsed(e).workers = e.workers
        /\ e.rps \notin Unread => Parsed(e).rps = e.rps
        /\ e.daily \notin Unread => Parsed(e).daily = e.daily
        /\ e.conns \notin Unread => Parsed(e).conns = Int32(e.conns)
        /\ e.conns \in Unread => Parsed(e).conns = Int32(10)
    BY DEF Parsed, getInt
  <2> QED  BY <1>1, <2>1, Int32Keeps DEF KeepsNumbers
<1> QED  BY <1>1, <1>2, <1>3, <1>4 DEF WorkerKeeps, CapEnabled, PoolKeeps

\* The trusted proxies to the right of a client are passed over, and whatever
\* the client claims stands to the left of its own address.
LEMMA KeyBehindProxies ==
    ASSUME NEW trusted \in SUBSET Addresses, NEW client \in Addresses \ trusted,
           NEW claimed \in Seq(Hops), NEW proxies \in Seq(trusted), NEW peer \in trusted
    PROVE  ClientKey(trusted, peer, Forwarded(claimed, client, proxies)) = client
<1> DEFINE hops == Forwarded(claimed, client, proxies)
           k    == Len(claimed) + 1
           U    == Untrusted(trusted, hops)
<1>1. <<client>> \in Seq(Hops) /\ proxies \in Seq(Hops)
  <2>1. client \in Hops /\ trusted \subseteq Hops
    BY DEF Hops
  <2> QED  BY <2>1
<1>2. /\ claimed \o <<client>> \in Seq(Hops) /\ Len(claimed \o <<client>>) = k
      /\ (claimed \o <<client>>)[k] = client
  BY <1>1, ConcatProperties
<1>3. /\ hops \in Seq(Hops) /\ Len(hops) = k + Len(proxies)
      /\ \A i \in 1 .. k + Len(proxies) :
           hops[i] = IF i <= k THEN (claimed \o <<client>>)[i] ELSE proxies[i - k]
  BY <1>1, <1>2, ConcatProperties DEF Forwarded
<1>4. k \in Nat /\ k >= 1 /\ Len(proxies) \in Nat
  BY <1>1, LenProperties
<1>5. DOMAIN hops = 1 .. (k + Len(proxies))
  BY <1>3, LenProperties
<1>6. hops[k] = client /\ k \in DOMAIN hops
  BY <1>2, <1>3, <1>4, <1>5
<1>7. \A i \in DOMAIN hops : i > k => hops[i] \in trusted
  <2> SUFFICES ASSUME NEW i \in DOMAIN hops, i > k PROVE hops[i] \in trusted
    OBVIOUS
  <2>1. hops[i] = proxies[i - k] /\ i - k \in 1 .. Len(proxies)
    BY <1>3, <1>4, <1>5
  <2>2. \A j \in 1 .. Len(proxies) : proxies[j] \in trusted
    BY ElementOfSeq
  <2> QED  BY <2>1, <2>2
<1> HIDE DEF hops, k
<1>8. k \in U /\ \A i \in U : i <= k
  BY <1>4, <1>5, <1>6, <1>7 DEF Untrusted
<1>9. U \subseteq Nat
  BY <1>4, <1>5 DEF Untrusted
<1> HIDE DEF U
<1>10. Max(U) = k
  <2>1. Max(U) \in U /\ \A y \in U : Max(U) >= y
    <3>1. \E x \in U : \A y \in U : x >= y
      BY <1>4, <1>8, <1>9
    <3> QED  BY <3>1 DEF Max
  <2>2. \A m \in U : m >= k => m = k
    BY <1>4, <1>8, <1>9
  <2> QED  BY <1>8, <2>1, <2>2, Zenon
<1>11. hops # <<>>
  BY <1>4, <1>5
<1> QED  BY <1>6, <1>8, <1>10, <1>11 DEF ClientKey, U, hops

\* Whoever calls directly is charged to its own address, trusted peers to the
\* client they name: for every header and every chain of trusted proxies.
LEMMA KeyAlwaysClient ==
    ASSUME NEW trusted \in SUBSET Addresses
    PROVE  KeyIsClient(trusted, Headers, {h \in Headers : \A i \in DOMAIN h : h[i] \in trusted})
<1> SUFFICES ASSUME NEW client \in Addresses \ trusted, NEW claimed \in Headers,
                    NEW peer \in trusted, NEW proxies \in Headers,
                    \A i \in DOMAIN proxies : proxies[i] \in trusted
             PROVE  ClientKey(trusted, peer, Forwarded(claimed, client, proxies)) = client
  BY DEF KeyIsClient, ClientKey
<1>1. claimed \in Seq(Hops) /\ proxies \in Seq(Hops)
  BY HeaderAssumption
<1>2. proxies \in Seq(trusted)
  BY <1>1, SeqDef
<1> QED  BY <1>1, <1>2, KeyBehindProxies

-----------------------------------------------------------------------------
(* Type correctness.                                                       *)

LEMMA RoutesUsePools ==
    ASSUME NEW u \in Routes
    PROVE  Uses[u] \in Seq(Pools)
<1>1. /\ <<>> \in Seq(Pools)
      /\ <<"service">> \in Seq(Pools) /\ <<"user">> \in Seq(Pools)
      /\ <<"user", "service">> \in Seq(Pools) /\ <<"user", "user">> \in Seq(Pools)
      /\ <<"service", "user", "service">> \in Seq(Pools)
      /\ <<"user", "service", "service">> \in Seq(Pools)
      /\ <<"service", "service">> \in Seq(Pools)
  BY DEF Pools
<1>2. u \in {"health", "ready", "link", "me", "subscribe", "list", "resend",
              "cachedResend"}
  BY DEF Routes, Uses
<1>3. /\ Uses["health"] = <<>> /\ Uses["ready"] = <<"user", "service">>
      /\ Uses["link"] = <<"service">> /\ Uses["me"] = <<"user">>
      /\ Uses["subscribe"] = <<"service", "user", "service">>
      /\ Uses["list"] = <<"user", "user">>
      /\ Uses["resend"] = <<"user", "service", "service">>
      /\ Uses["cachedResend"] = <<"service", "service">>
  BY DEF Uses
<1> QED  BY <1>1, <1>2, <1>3, Zenon

LEMMA WholeRoute ==
    ASSUME NEW u \in Routes
    PROVE  Uses[u] \in Todos
<1>1. Uses[u] \in Seq(Pools)
  BY RoutesUsePools
<1>2. SubSeq(Uses[u], 1, Len(Uses[u])) = Uses[u] /\ 1 \in 1 .. (Len(Uses[u]) + 1)
  BY <1>1, SubSeqFull, LenProperties
<1> QED  BY <1>2 DEF Todos, Suffixes

LEMMA NothingToDo == <<>> \in Todos
<1>1. "health" \in Routes /\ Uses["health"] = <<>>
  BY DEF Routes, Uses
<1> QED  BY <1>1, WholeRoute

\* A request goes through the pools of its route one by one.
LEMMA NextOfRoute ==
    ASSUME NEW t \in Todos, t # <<>>
    PROVE  Head(t) \in Pools /\ Tail(t) \in Todos
<1>1. PICK u \in Routes : t \in Suffixes(Uses[u])
  BY DEF Todos
<1> DEFINE s == Uses[u]
<1>2. s \in Seq(Pools) /\ Len(s) \in Nat
  BY RoutesUsePools, LenProperties
<1>3. PICK i \in 1 .. (Len(s) + 1) : t = SubSeq(s, i, Len(s))
  BY <1>1 DEF Suffixes
<1> HIDE DEF s
<1>4. i \in 1 .. Len(s)
  <2>1. i # Len(s) + 1
    <3> SUFFICES ASSUME i = Len(s) + 1 PROVE FALSE
      OBVIOUS
    <3>1. Len(s) < i
      BY <1>2
    <3>2. t = <<>>
      BY <1>2, <1>3, <3>1, SubSeqEmpty
    <3> QED  BY <3>2
  <2> QED  BY <1>2, <2>1
<1>5. Len(s) \in i .. Len(s)
  BY <1>2, <1>4
<1>6. Head(t) = s[i] /\ Tail(t) = SubSeq(s, i + 1, Len(s))
  BY <1>2, <1>3, <1>4, <1>5, HeadTailOfSubSeq
<1>7. Head(t) \in Pools
  BY <1>2, <1>4, <1>6, ElementOfSeq
<1>8. i + 1 \in 1 .. (Len(s) + 1)
  BY <1>2, <1>4
<1>9. Tail(t) \in Suffixes(Uses[u])
  BY <1>6, <1>8, Zenon DEF Suffixes, s
<1> QED  BY <1>7, <1>9 DEF Todos

LEMMA TypeInit == Init => TypeOK
<1> SUFFICES ASSUME Init PROVE TypeOK
  OBVIOUS
<1>1. /\ pool   \in [Pools -> {"unopened", "open", "closing", "closed"}]
      /\ worker \in [Workers -> {"off", "ready", "tx", "send", "done"}]
      /\ at     \in [Handlers -> {"free", "run", "hold"}]
      /\ todo   \in [Handlers -> Todos]
  BY NothingToDo DEF Init
<1>2. \A h \in Handlers : at[h] = "free" /\ todo[h] = <<>>
  BY DEF Init
<1> QED  BY <1>1, <1>2 DEF Init, TypeOK, Boot

\* The main goroutine.
LEMMA MainTypeStep ==
    ASSUME TypeOK, MainStep
    PROVE  TypeOK'
<1> USE DEF TypeOK, Boot, reqVars, procVars
<1>1. CASE LoadConfig
  <2>1. PICK e \in Envs : IF Load(e) = NoConfig
                          THEN Fail /\ UNCHANGED conf
                          ELSE conf' = Load(e) /\ stage' = "userPool" /\ UNCHANGED code
    BY <1>1 DEF LoadConfig
  <2>2. Load(e) # NoConfig => Load(e) \in Configs
    BY LoadChecks, EnvAssumption
  <2>3. conf' \in Configs \cup {NoConfig} /\ (conf' = NoConfig => stage' = "unwind")
    BY <1>1, <2>1, <2>2 DEF LoadConfig, Fail
  <2> QED  BY <1>1, <2>1, <2>3 DEF LoadConfig, Fail
<1>2. ASSUME NEW p \in Pools, NEW here \in Boot \ {"config"}, NEW next \in Boot, OpenPool(p, here, next)
      PROVE  TypeOK'
  <2>1. pool' \in [Pools -> {"unopened", "open", "closing", "closed"}]
    BY <1>2 DEF OpenPool
  <2> QED  BY <1>2, <2>1 DEF OpenPool, BootFails, Fail
<1>3. CASE NewVerifier
  BY <1>3 DEF NewVerifier, BootFails, Fail
<1>4. CASE Launch
  BY <1>4 DEF Launch
<1>5. CASE Notify \/ Join
  BY <1>5 DEF Notify, Join
<1>6. CASE TakeSignal
  BY <1>6 DEF TakeSignal
<1>7. CASE ShutdownReturns
  BY <1>7 DEF ShutdownReturns
<1>8. ASSUME NEW p \in Pools, Close(p) PROVE TypeOK'
  <2>1. pool' \in [Pools -> {"unopened", "open", "closing", "closed"}]
    BY <1>8 DEF Close
  <2> QED  BY <1>8, <2>1 DEF Close
<1>9. CASE Exit
  BY <1>9 DEF Exit
<1> QED
  BY <1>1, <1>2, <1>3, <1>4, <1>5, <1>6, <1>7, <1>8, <1>9 DEF MainStep, Pools

\* The requests.
LEMMA RequestTypeStep ==
    ASSUME TypeOK, NEW h \in Handlers,
           Arrive(h) \/ Acquire(h) \/ AcquireFails(h) \/ Finish(h) \/ Answer(h)
    PROVE  TypeOK'
<1> SUFFICES ASSUME /\ at'   \in [Handlers -> {"free", "run", "hold"}]
                    /\ todo' \in [Handlers -> Todos]
                    /\ \A g \in Handlers : at'[g] = "free" => todo'[g] = <<>>
                    /\ \A g \in Handlers : at'[g] = "hold" => todo'[g] # <<>>
                    => TypeOK'
             PROVE  TypeOK'
  BY DEF TypeOK, Arrive, Acquire, AcquireFails, Finish, Answer, procVars
<1> USE DEF TypeOK
<1>1. CASE Arrive(h)
  <2>1. PICK u \in Routes : todo' = [todo EXCEPT ![h] = Uses[u]]
    BY <1>1 DEF Arrive
  <2>2. Uses[u] \in Todos /\ at' = [at EXCEPT ![h] = "run"]
    BY <1>1, WholeRoute DEF Arrive
  <2> HIDE DEF TypeOK
  <2>3. /\ at   \in [Handlers -> {"free", "run", "hold"}]
        /\ todo \in [Handlers -> Todos]
        /\ \A g \in Handlers : at[g] = "free" => todo[g] = <<>>
        /\ \A g \in Handlers : at[g] = "hold" => todo[g] # <<>>
    BY DEF TypeOK
  <2> QED  BY <2>1, <2>2, <2>3
<1>2. CASE Acquire(h)
  BY <1>2 DEF Acquire
<1>3. CASE GiveUp(h)
  BY <1>3, NothingToDo DEF GiveUp
<1>4. CASE Answer(h)
  BY <1>4 DEF Answer
<1>5. CASE at[h] = "hold" /\ at' = [at EXCEPT ![h] = "run"] /\ todo' = [todo EXCEPT ![h] = Tail(@)]
  <2>1. Tail(todo[h]) \in Todos
    BY <1>5, NextOfRoute
  <2> QED  BY <1>5, <2>1
<1> QED  BY <1>1, <1>2, <1>3, <1>4, <1>5 DEF AcquireFails, Finish

\* The workers.
LEMMA WorkerTypeStep ==
    ASSUME TypeOK, NEW w \in Workers,
           WorkerBegins(w) \/ WorkerEnds(w) \/ WorkerSends(w) \/ WorkerStops(w)
    PROVE  TypeOK'
<1> USE DEF TypeOK, procVars, reqVars
<1>1. CASE WorkerBegins(w)
  BY <1>1 DEF WorkerBegins
<1>2. CASE WorkerEnds(w)
  BY <1>2 DEF WorkerEnds
<1>3. CASE WorkerSends(w)
  BY <1>3 DEF WorkerSends
<1>4. CASE WorkerStops(w)
  BY <1>4 DEF WorkerStops
<1> QED  BY <1>1, <1>2, <1>3, <1>4

LEMMA TypeStep == TypeOK /\ [Next]_vars => TypeOK'
<1> SUFFICES ASSUME TypeOK, [Next]_vars PROVE TypeOK'
  OBVIOUS
<1>1. CASE MainStep
  BY <1>1, MainTypeStep
<1>2. CASE Signal
  BY <1>2 DEF Signal, TypeOK, reqVars
<1>3. CASE Deadline
  BY <1>3 DEF Deadline, TypeOK, reqVars
<1>4. CASE Listen
  BY <1>4 DEF Listen, TypeOK, reqVars
<1>5. ASSUME NEW h \in Handlers,
             Arrive(h) \/ Acquire(h) \/ AcquireFails(h) \/ Finish(h) \/ Answer(h)
      PROVE  TypeOK'
  BY <1>5, RequestTypeStep
<1>6. ASSUME NEW w \in Workers,
             WorkerBegins(w) \/ WorkerEnds(w) \/ WorkerSends(w) \/ WorkerStops(w)
      PROVE  TypeOK'
  BY <1>6, WorkerTypeStep
<1>7. CASE UNCHANGED vars
  BY <1>7 DEF vars, TypeOK
<1> QED  BY <1>1, <1>2, <1>3, <1>4, <1>5, <1>6, <1>7 DEF Next

\* Every variable keeps its type: the configuration is one Load returned, and a
\* request that ended has nothing left to do.
THEOREM ProcessTypeCorrect == Spec => []TypeOK
  BY TypeInit, TypeStep, PTL DEF Spec

-----------------------------------------------------------------------------
(* The order of the start and of the end.  Neither promise of run is       *)
(* inductive alone: that nobody is cut off at the exit follows from what   *)
(* is open, who runs and how the code stands at every stage before it.     *)

NotLaunched == {"config", "userPool", "servicePool", "verifier", "launch"}
Serving     == {"notify", "serve", "shutdown", "join"}

\* Nobody runs but the main goroutine.
Alone == listener = "off" /\ (\A w \in Workers : worker[w] = "off") /\ Quiet

\* The pools are opened one by one, before anybody runs; a boot that fails has
\* started nobody.
BootInOrder ==
    /\ conf = NoConfig \/ stage \in {"config", "userPool"} =>
         \A p \in Pools : pool[p] = "unopened"
    /\ stage = "servicePool" => pool["user"] = "open" /\ pool["service"] = "unopened"
    /\ stage \in {"verifier", "launch"} \cup Serving => \A p \in Pools : pool[p] = "open"
    /\ stage \in NotLaunched \/ code = "failed" => Alone

\* The code is set at the end; a clean end comes after a signal and after every
\* worker, and the exit after the pools.
EndInOrder ==
    /\ stage \notin {"unwind", "exited"} => code = "none"
    /\ stage = "unwind" => code \in {"none", "failed"}
    /\ (stage = "unwind" /\ code = "none") \/ code = "clean" =>
         /\ signal /\ root
         /\ \A w \in Workers : worker[w] = "done"
         /\ \A p \in Pools : pool[p] # "unopened"
    /\ stage = "exited" /\ code \in {"clean", "failed"} =>
         \A p \in Pools : pool[p] \in {"unopened", "closed"}

\* The listener is closed before the root context is cancelled, so that no
\* request comes after the drain, or only one after the deadline has passed.
DrainInOrder ==
    /\ stage \in {"shutdown", "join"} => signal
    /\ stage = "join" => root
    /\ root => stage \in {"join", "unwind", "exited"}
    /\ stage \in {"shutdown", "join", "unwind"} => listener # "open"
    /\ root => Quiet \/ late

\* The two halves of PoolsOutliveUsers.
WorkersKeepPool ==
    \A w \in Workers : worker[w] \in {"ready", "tx", "send"} => pool["service"] = "open"
HoldersKeepPool ==
    \A p \in Pools : Holders(p) # {} => /\ pool[p] \in {"open", "closing"}
                                        /\ Cardinality(Holders(p)) <= conf.conns

Inv ==
    /\ TypeOK
    /\ BootInOrder /\ EndInOrder /\ DrainInOrder
    /\ WorkersKeepPool /\ HoldersKeepPool

LEMMA InvInit == Init => Inv
<1> SUFFICES ASSUME Init PROVE Inv
  OBVIOUS
<1>1. TypeOK
  BY TypeInit
<1>2. BootInOrder /\ EndInOrder
  BY DEF Init, BootInOrder, EndInOrder, NotLaunched, Serving, Alone, Quiet, Pools
<1>3. DrainInOrder
  BY DEF Init, DrainInOrder
<1>4. WorkersKeepPool
  BY DEF Init, WorkersKeepPool
<1>5. \A p \in Pools : Holders(p) = {}
  BY DEF Init, Holders
<1> QED  BY <1>1, <1>2, <1>3, <1>4, <1>5 DEF Inv, HoldersKeepPool

\* Only finitely many hold a connection.
LEMMA HoldersFinite ==
    ASSUME NEW p \in Pools
    PROVE  IsFiniteSet(Holders(p)) /\ Cardinality(Holders(p)) \in Nat
<1> DEFINE H == {h \in Handlers : at[h] = "hold" /\ Head(todo[h]) = p}
           W == {w \in Workers : p = "service" /\ worker[w] = "tx"}
<1>1. H \in SUBSET Handlers /\ W \in SUBSET (1 .. 2)
  BY DEF Workers
<1>2. IsFiniteSet(H) /\ IsFiniteSet(W)
  <2>1. 1 \in Int /\ 2 \in Int
    OBVIOUS
  <2>2. IsFiniteSet(1 .. 2)
    BY <2>1, FS_Interval
  <2> QED  BY <1>1, <2>2, HandlerAssumption, FS_Subset
<1>3. Holders(p) = H \cup W
  BY DEF Holders
<1> HIDE DEF H, W
<1>4. IsFiniteSet(H \cup W)
  BY <1>2, FS_Union
<1> QED  BY <1>3, <1>4, FS_CardinalityType

\* Giving connections back, or keeping them, keeps the limit.
LEMMA HoldersFewer ==
    ASSUME HoldersKeepPool, UNCHANGED conf,
           \A p \in Pools : Holders(p)' \subseteq Holders(p),
           \A p \in Pools : Holders(p) # {} /\ pool[p] \in {"open", "closing"}
                              => pool'[p] \in {"open", "closing"},
           conf \in Configs \cup {NoConfig},
           conf = NoConfig => \A p \in Pools : Holders(p) = {}
    PROVE  HoldersKeepPool'
<1> SUFFICES ASSUME NEW p \in Pools, Holders(p)' # {}
             PROVE  pool'[p] \in {"open", "closing"} /\ Cardinality(Holders(p)') <= conf.conns
  BY DEF HoldersKeepPool
<1>1. Holders(p)' \in SUBSET Holders(p)
  OBVIOUS
<1>2. Holders(p) # {}
  BY <1>1
<1>3. IsFiniteSet(Holders(p)) /\ Cardinality(Holders(p)) \in Nat
  BY HoldersFinite
<1>4. IsFiniteSet(Holders(p)') /\ Cardinality(Holders(p)') <= Cardinality(Holders(p))
  BY <1>1, <1>3, FS_Subset
<1>5. Cardinality(Holders(p)') \in Nat
  BY <1>4, FS_CardinalityType
<1>6. conf.conns \in Int
  BY <1>2 DEF Configs
<1>7. pool[p] \in {"open", "closing"} /\ Cardinality(Holders(p)) <= conf.conns
  BY <1>2 DEF HoldersKeepPool
<1> QED  BY <1>2, <1>3, <1>4, <1>5, <1>6, <1>7

\* Taking a free connection keeps the limit.
LEMMA HoldersOneMore ==
    ASSUME HoldersKeepPool, UNCHANGED <<conf, pool>>, conf \in Configs,
           NEW q \in Pools, Free(q), NEW x,
           \A p \in Pools \ {q} : Holders(p)' = Holders(p),
           Holders(q)' = Holders(q) \cup {x}
    PROVE  HoldersKeepPool'
<1> SUFFICES ASSUME NEW p \in Pools, Holders(p)' # {}
             PROVE  pool[p] \in {"open", "closing"} /\ Cardinality(Holders(p)') <= conf.conns
  BY DEF HoldersKeepPool
<1>1. CASE p # q
  <2>1. Holders(p)' = Holders(p)
    BY <1>1
  <2> QED  BY <2>1 DEF HoldersKeepPool
<1>2. CASE p = q
  <2>1. IsFiniteSet(Holders(q)) /\ Cardinality(Holders(q)) \in Nat
    BY HoldersFinite
  <2>2. Cardinality(Holders(q) \cup {x}) =
          IF x \in Holders(q) THEN Cardinality(Holders(q)) ELSE Cardinality(Holders(q)) + 1
    BY <2>1, FS_AddElement
  <2>3. conf.conns \in Int /\ pool[q] = "open" /\ Cardinality(Holders(q)) < conf.conns
    BY DEF Configs, Free
  <2>4. Cardinality(Holders(p)') = Cardinality(Holders(q) \cup {x})
    BY <1>2
  <2> QED  BY <1>2, <2>1, <2>2, <2>3, <2>4
<1> QED  BY <1>1, <1>2

\* A step that lets requests and workers be and closes no pool under them.
LEMMA UsersLeftAlone ==
    ASSUME Inv, UNCHANGED <<at, todo, worker>>,
           UNCHANGED conf \/ \A p \in Pools : Holders(p) = {},
           \A p \in Pools : Holders(p) # {} /\ pool[p] \in {"open", "closing"}
                              => pool'[p] \in {"open", "closing"},
           pool["service"] = "open" =>
              pool'["service"] = "open" \/ \A w \in Workers : worker[w] \in {"off", "done"}
    PROVE  WorkersKeepPool' /\ HoldersKeepPool'
<1>1. \A p \in Pools : Holders(p)' = Holders(p)
  BY DEF Holders
<1>2. WorkersKeepPool'
  BY DEF Inv, WorkersKeepPool
<1>3. CASE UNCHANGED conf
  <2>1. conf = NoConfig => \A p \in Pools : Holders(p) = {}
    BY DEF Inv, BootInOrder, HoldersKeepPool
  <2> QED  BY <1>1, <1>2, <1>3, <2>1, HoldersFewer DEF Inv, TypeOK
<1>4. CASE \A p \in Pools : Holders(p) = {}
  BY <1>1, <1>2, <1>4 DEF HoldersKeepPool
<1> QED  BY <1>3, <1>4

\* The main goroutine on its way to serving.
LEMMA BootStep ==
    ASSUME Inv, TypeOK',
           \/ LoadConfig \/ NewVerifier \/ Launch \/ Notify
           \/ OpenPool("user", "userPool", "servicePool")
           \/ OpenPool("service", "servicePool", "verifier")
    PROVE  Inv'
<1> USE DEF NotLaunched, Serving
<1>1. stage \in NotLaunched \cup {"notify"} /\ code = "none" /\ ~root
  BY DEF Inv, EndInOrder, DrainInOrder, LoadConfig, NewVerifier, Launch, Notify, OpenPool
<1>2. CASE LoadConfig
  <2>1. /\ stage = "config" /\ UNCHANGED <<signal, late, root, listener, pool, worker, at, todo>>
        /\ \/ stage' = "unwind" /\ code' = "failed" /\ UNCHANGED conf
           \/ stage' = "userPool" /\ UNCHANGED code
    BY <1>2 DEF LoadConfig, Fail, reqVars
  <2>2. Alone /\ \A p \in Pools : pool[p] = "unopened"
    BY <2>1 DEF Inv, BootInOrder
  <2>3. BootInOrder' /\ EndInOrder' /\ DrainInOrder'
    BY <1>1, <2>1, <2>2 DEF BootInOrder, EndInOrder, DrainInOrder, Alone, Quiet
  <2>4. \A p \in Pools : Holders(p) = {}
    BY <2>2 DEF Alone, Quiet, Holders
  <2> QED  BY <2>1, <2>3, <2>4, UsersLeftAlone DEF Inv
<1>3. ASSUME NEW p \in Pools, NEW here, NEW next, OpenPool(p, here, next),
             \/ p = "user" /\ here = "userPool" /\ next = "servicePool"
             \/ p = "service" /\ here = "servicePool" /\ next = "verifier"
      PROVE  Inv'
  <2>1. /\ stage = here
        /\ UNCHANGED <<conf, signal, late, root, listener, worker, at, todo>>
        /\ \/ pool' = [pool EXCEPT ![p] = "open"] /\ stage' = next /\ UNCHANGED code
           \/ stage' = "unwind" /\ code' = "failed" /\ UNCHANGED pool
    BY <1>3 DEF OpenPool, BootFails, Fail, reqVars
  <2>2. /\ Alone /\ conf # NoConfig
        /\ pool \in [Pools -> {"unopened", "open", "closing", "closed"}]
        /\ p = "user" => \A q \in Pools : pool[q] = "unopened"
        /\ p = "service" => pool["user"] = "open"
    BY <1>3, <2>1 DEF Inv, BootInOrder, TypeOK
  <2>3. BootInOrder' /\ EndInOrder' /\ DrainInOrder'
    BY <1>1, <1>3, <2>1, <2>2 DEF BootInOrder, EndInOrder, DrainInOrder, Alone, Quiet, Pools, Inv, TypeOK
  <2>4. \A q \in Pools : Holders(q) = {}
    BY <2>2 DEF Alone, Quiet, Holders
  <2>5. \A w \in Workers : worker[w] \in {"off", "done"}
    BY <2>2 DEF Alone
  <2> QED  BY <2>1, <2>3, <2>4, <2>5, UsersLeftAlone DEF Inv
<1>4. CASE NewVerifier
  <2>1. /\ stage = "verifier"
        /\ UNCHANGED <<conf, signal, late, root, listener, pool, worker, at, todo>>
        /\ \/ stage' = "launch" /\ UNCHANGED code
           \/ stage' = "unwind" /\ code' = "failed"
    BY <1>4 DEF NewVerifier, BootFails, Fail, procVars, reqVars
  <2>2. BootInOrder' /\ EndInOrder' /\ DrainInOrder'
    BY <1>1, <2>1 DEF Inv, BootInOrder, EndInOrder, DrainInOrder, Alone, Quiet, TypeOK
  <2> QED  BY <2>1, <2>2, UsersLeftAlone DEF Inv
<1>5. CASE Launch
  <2>1. /\ stage = "launch" /\ stage' = "notify" /\ listener' = "starting"
        /\ UNCHANGED <<conf, code, signal, late, root, pool, at, todo>>
        /\ \A w \in Workers : worker'[w] \in {"ready", "done"}
    BY <1>5 DEF Launch, reqVars
  <2>2. Alone /\ \A p \in Pools : pool[p] = "open"
    BY <2>1 DEF Inv, BootInOrder
  <2>3. BootInOrder' /\ EndInOrder' /\ DrainInOrder'
    BY <1>1, <2>1, <2>2 DEF Inv, BootInOrder, EndInOrder, DrainInOrder, Alone, Quiet
  <2>4. WorkersKeepPool'
    BY <2>1, <2>2 DEF WorkersKeepPool, Pools
  <2>5. \A p \in Pools : Holders(p)' = {}
    BY <2>1, <2>2 DEF Alone, Quiet, Holders
  <2> QED  BY <2>3, <2>4, <2>5 DEF Inv, HoldersKeepPool
<1>6. CASE Notify
  <2>1. /\ stage = "notify" /\ stage' = "serve"
        /\ UNCHANGED <<conf, code, signal, late, root, listener, pool, worker, at, todo>>
    BY <1>6 DEF Notify, procVars, reqVars
  <2>2. BootInOrder' /\ EndInOrder' /\ DrainInOrder'
    BY <1>1, <2>1 DEF Inv, BootInOrder, EndInOrder, DrainInOrder, Alone, Quiet
  <2> QED  BY <2>1, <2>2, UsersLeftAlone DEF Inv
<1> QED  BY <1>2, <1>3, <1>4, <1>5, <1>6 DEF Pools

\* The main goroutine on its way out, and what comes from outside.
LEMMA EndStep ==
    ASSUME Inv, TypeOK',
           \/ TakeSignal \/ ShutdownReturns \/ Join \/ Exit
           \/ Signal \/ Deadline \/ Listen
           \/ \E p \in Pools : Close(p)
    PROVE  Inv'
<1> USE DEF NotLaunched, Serving
<1>1. ASSUME UNCHANGED <<conf, pool, worker, at, todo>>,
             BootInOrder' /\ EndInOrder' /\ DrainInOrder'
      PROVE  Inv'
  BY <1>1, UsersLeftAlone DEF Inv
<1>2. CASE TakeSignal
  <2>1. /\ stage = "serve" /\ signal /\ stage' = "shutdown" /\ listener' # "open"
        /\ UNCHANGED <<conf, code, signal, late, root, pool, worker, at, todo>>
    BY <1>2 DEF TakeSignal, reqVars
  <2>2. BootInOrder' /\ EndInOrder' /\ DrainInOrder'
    BY <2>1 DEF Inv, BootInOrder, EndInOrder, DrainInOrder, Alone, Quiet
  <2> QED  BY <1>1, <2>1, <2>2
<1>3. CASE ShutdownReturns
  <2>1. /\ stage = "shutdown" /\ stage' = "join" /\ root' = TRUE /\ (Quiet \/ late)
        /\ UNCHANGED <<conf, code, signal, late, listener, pool, worker, at, todo>>
    BY <1>3 DEF ShutdownReturns, DrainEnds, reqVars
  <2>2. BootInOrder' /\ EndInOrder' /\ DrainInOrder'
    BY <2>1 DEF Inv, BootInOrder, EndInOrder, DrainInOrder, Alone, Quiet
  <2> QED  BY <1>1, <2>1, <2>2
<1>4. CASE Join
  <2>1. /\ stage = "join" /\ stage' = "unwind" /\ \A w \in Workers : worker[w] = "done"
        /\ UNCHANGED <<conf, code, signal, late, root, listener, pool, worker, at, todo>>
    BY <1>4 DEF Join, Joined, procVars, reqVars
  <2>2. BootInOrder' /\ EndInOrder' /\ DrainInOrder'
    BY <2>1 DEF Inv, BootInOrder, EndInOrder, DrainInOrder, Alone, Quiet
  <2> QED  BY <1>1, <2>1, <2>2
<1>5. CASE Exit
  <2>1. /\ stage = "unwind" /\ stage' = "exited"
        /\ \A p \in Pools : pool[p] \in {"unopened", "closed"}
        /\ code' = IF code = "none" THEN "clean" ELSE code
        /\ UNCHANGED <<conf, signal, late, root, listener, pool, worker, at, todo>>
    BY <1>5 DEF Exit, procVars, reqVars
  <2>2. BootInOrder' /\ EndInOrder' /\ DrainInOrder'
    BY <2>1 DEF Inv, BootInOrder, EndInOrder, DrainInOrder, Alone, Quiet
  <2> QED  BY <1>1, <2>1, <2>2
<1>6. CASE Signal
  <2>1. /\ stage # "exited" /\ signal' = TRUE
        /\ \/ stage \in Boot \cup {"unwind"} /\ stage' = "exited" /\ code' = "killed"
           \/ UNCHANGED <<stage, code>>
        /\ UNCHANGED <<conf, late, root, listener, pool, worker, at, todo>>
    BY <1>6 DEF Signal, Running, reqVars, Inv, EndInOrder
  <2>2. BootInOrder' /\ EndInOrder' /\ DrainInOrder'
    BY <2>1 DEF Inv, BootInOrder, EndInOrder, DrainInOrder, Alone, Quiet, Boot
  <2> QED  BY <1>1, <2>1, <2>2
<1>7. CASE Deadline
  <2>1. late' = TRUE
        /\ UNCHANGED <<conf, stage, code, signal, root, listener, pool, worker, at, todo>>
    BY <1>7 DEF Deadline, reqVars
  <2>2. BootInOrder' /\ EndInOrder' /\ DrainInOrder'
    BY <2>1 DEF Inv, BootInOrder, EndInOrder, DrainInOrder, Alone, Quiet
  <2> QED  BY <1>1, <2>1, <2>2
<1>8. CASE Listen
  <2>1. /\ listener = "starting" /\ stage # "exited"
        /\ listener' = "open" => stage \in Boot \cup {"serve"}
        /\ UNCHANGED <<conf, stage, code, signal, late, root, pool, worker, at, todo>>
    BY <1>8 DEF Listen, Running, reqVars
  <2>2. ~Alone
    BY <2>1 DEF Alone
  <2>3. BootInOrder' /\ EndInOrder' /\ DrainInOrder'
    BY <2>1, <2>2 DEF Inv, BootInOrder, EndInOrder, DrainInOrder, Quiet, Boot
  <2> QED  BY <1>1, <2>1, <2>3
<1>9. ASSUME NEW p \in Pools, Close(p) PROVE Inv'
  <2>1. /\ stage = "unwind"
        /\ \/ pool[p] = "open" /\ pool' = [pool EXCEPT ![p] = "closing"]
           \/ pool[p] = "closing" /\ Holders(p) = {} /\ pool' = [pool EXCEPT ![p] = "closed"]
        /\ UNCHANGED <<conf, stage, code, signal, late, root, listener, worker, at, todo>>
    BY <1>9 DEF Close, reqVars
  <2>2. pool \in [Pools -> {"unopened", "open", "closing", "closed"}]
    BY DEF Inv, TypeOK
  <2>3. BootInOrder' /\ EndInOrder' /\ DrainInOrder'
    BY <2>1, <2>2 DEF Inv, BootInOrder, EndInOrder, DrainInOrder, Alone, Quiet
  <2>4. \A w \in Workers : worker[w] \in {"off", "done"}
    BY <2>1 DEF Inv, EndInOrder, BootInOrder, Alone
  <2>5. \A q \in Pools : Holders(q) # {} /\ pool[q] \in {"open", "closing"}
                           => pool'[q] \in {"open", "closing"}
    BY <2>1, <2>2
  <2> QED  BY <2>1, <2>3, <2>4, <2>5, UsersLeftAlone DEF Inv
<1> QED  BY <1>2, <1>3, <1>4, <1>5, <1>6, <1>7, <1>8, <1>9

\* A request: it arrives while the listener is open, and takes and gives back
\* connections.
LEMMA RequestStep ==
    ASSUME Inv, TypeOK', NEW h \in Handlers,
           Arrive(h) \/ Acquire(h) \/ AcquireFails(h) \/ Finish(h) \/ Answer(h)
    PROVE  Inv'
<1>1. /\ stage # "exited"
      /\ UNCHANGED <<conf, stage, code, signal, late, root, listener, pool, worker>>
  BY DEF Arrive, Acquire, AcquireFails, Finish, Answer, Running, procVars
<1>2. /\ at \in [Handlers -> {"free", "run", "hold"}] /\ todo \in [Handlers -> Todos]
      /\ at[h] = "free" => todo[h] = <<>>
      /\ conf \in Configs \cup {NoConfig}
  BY DEF Inv, TypeOK
<1>3. /\ \A g \in Handlers \ {h} : at'[g] = at[g] /\ todo'[g] = todo[g]
      /\ at[h] = "free" => Reachable
      /\ at'[h] = "hold" => Acquire(h)
  BY <1>2 DEF Arrive, Acquire, AcquireFails, Finish, Answer, GiveUp
<1>4. ~Alone
  <2>1. at[h] # "free" \/ listener # "off"
    BY <1>3 DEF Reachable
  <2> QED  BY <2>1 DEF Alone, Quiet
<1>5. root /\ at[h] = "free" => late
  BY <1>1, <1>3 DEF Inv, DrainInOrder, Reachable
<1>6. BootInOrder' /\ EndInOrder'
  BY <1>1, <1>4 DEF Inv, BootInOrder, EndInOrder
<1>7. DrainInOrder'
  <2>1. root /\ Quiet => late
    BY <1>5 DEF Quiet
  <2> QED  BY <1>1, <2>1 DEF Inv, DrainInOrder
<1>8. WorkersKeepPool'
  BY <1>1 DEF Inv, WorkersKeepPool
<1>9. conf = NoConfig => \A p \in Pools : Holders(p) = {}
  BY DEF Inv, BootInOrder, HoldersKeepPool
<1>10. CASE at'[h] = "hold"
  <2>1. /\ at[h] = "run" /\ todo[h] # <<>> /\ Free(Head(todo[h])) /\ todo' = todo
    BY <1>3, <1>10 DEF Acquire
  <2>2. PICK q \in Pools : q = Head(todo[h]) /\ Free(q)
    BY <1>2, <2>1, NextOfRoute
  <2>3. conf \in Configs
    <3>1. pool[q] = "open"
      BY <2>2 DEF Free
    <3> QED  BY <1>2, <2>2, <3>1 DEF Inv, BootInOrder
  <2>4. Holders(q)' = Holders(q) \cup {h}
    BY <1>1, <1>3, <1>10, <2>1, <2>2 DEF Holders
  <2>5. \A p \in Pools \ {q} : Holders(p)' = Holders(p)
    BY <1>1, <1>3, <1>10, <2>1, <2>2 DEF Holders
  <2>6. HoldersKeepPool'
    <3>1. UNCHANGED <<conf, pool>> /\ Free(q) /\ HoldersKeepPool
      BY <1>1, <2>2 DEF Inv
    <3> QED  BY <2>3, <2>4, <2>5, <3>1, HoldersOneMore
  <2> QED  BY <1>6, <1>7, <1>8, <2>6 DEF Inv
<1>11. CASE at'[h] # "hold"
  <2>1. \A p \in Pools : Holders(p)' \subseteq Holders(p)
    BY <1>1, <1>3, <1>11 DEF Holders
  <2>2. HoldersKeepPool'
    BY <1>1, <1>2, <1>9, <2>1, HoldersFewer DEF Inv
  <2> QED  BY <1>6, <1>7, <1>8, <2>2 DEF Inv
<1> QED  BY <1>10, <1>11

\* A worker: it takes and gives back connections of the service pool until it is
\* told to stop.
LEMMA WorkerStep ==
    ASSUME Inv, TypeOK', NEW w \in Workers,
           WorkerBegins(w) \/ WorkerEnds(w) \/ WorkerSends(w) \/ WorkerStops(w)
    PROVE  Inv'
<1>1. /\ worker[w] \in {"ready", "tx", "send"} /\ stage # "exited"
      /\ UNCHANGED <<conf, signal, late, root, listener, pool, at, todo>>
      /\ UNCHANGED <<stage, code>>
      /\ \A v \in Workers \ {w} : worker'[v] = worker[v]
      /\ worker'[w] \in {"ready", "tx", "send", "done"}
  BY DEF WorkerBegins, WorkerEnds, WorkerSends, WorkerStops, Told, Running, procVars, reqVars,
         Inv, TypeOK
<1>2. pool["service"] = "open" /\ ~Alone /\ worker[w] # "done"
  BY <1>1 DEF Inv, WorkersKeepPool, Alone
<1>3. BootInOrder' /\ EndInOrder' /\ DrainInOrder'
  <2>1. code = "none" /\ stage # "unwind"
    BY <1>1, <1>2 DEF Inv, EndInOrder, BootInOrder
  <2>2. stage \notin NotLaunched /\ code' # "failed" /\ code' # "clean"
    BY <1>1, <1>2, <2>1 DEF Inv, BootInOrder
  <2>3. stage' \notin NotLaunched
    BY <1>1, <2>2 DEF NotLaunched
  <2>4. BootInOrder' /\ EndInOrder'
    BY <1>1, <2>1, <2>2, <2>3 DEF Inv, BootInOrder, EndInOrder, Serving
  <2>5. DrainInOrder'
    BY <1>1 DEF Inv, DrainInOrder, Quiet
  <2> QED  BY <2>4, <2>5
<1>4. WorkersKeepPool'
  BY <1>1, <1>2 DEF Inv, WorkersKeepPool
<1>5. HoldersKeepPool'
  <2>1. conf \in Configs
    BY <1>2 DEF Inv, BootInOrder, TypeOK, Pools
  <2>2. CASE WorkerBegins(w)
    <3>1. Free("service") /\ worker' = [worker EXCEPT ![w] = "tx"]
      BY <2>2 DEF WorkerBegins
    <3>2. worker'[w] = "tx"
      BY <3>1 DEF Inv, TypeOK
    <3>3. Holders("service")' = Holders("service") \cup {w}
      BY <1>1, <3>2 DEF Holders
    <3>4. \A p \in Pools \ {"service"} : Holders(p)' = Holders(p)
      BY <1>1 DEF Holders
    <3>5. "service" \in Pools
      BY DEF Pools
    <3> QED  BY <1>1, <2>1, <3>1, <3>3, <3>4, <3>5, HoldersOneMore DEF Inv
  <2>3. CASE WorkerEnds(w) \/ WorkerSends(w) \/ WorkerStops(w)
    <3>1. worker'[w] # "tx"
      BY <2>3 DEF WorkerEnds, WorkerSends, WorkerStops, Told, Inv, TypeOK
    <3>2. \A p \in Pools : Holders(p)' \subseteq Holders(p)
      BY <1>1, <3>1 DEF Holders
    <3>3. conf = NoConfig => \A p \in Pools : Holders(p) = {}
      BY DEF Inv, BootInOrder, HoldersKeepPool
    <3> QED  BY <1>1, <2>1, <3>2, <3>3, HoldersFewer DEF Inv
  <2> QED  BY <2>2, <2>3
<1> QED  BY <1>3, <1>4, <1>5 DEF Inv

LEMMA InvStep == Inv /\ [Next]_vars => Inv'
<1> SUFFICES ASSUME Inv, [Next]_vars PROVE Inv'
  OBVIOUS
<1>1. TypeOK'
  BY TypeStep DEF Inv
<1>2. CASE MainStep
  BY <1>1, <1>2, BootStep, EndStep DEF MainStep
<1>3. CASE Signal \/ Deadline \/ Listen
  BY <1>1, <1>3, EndStep
<1>4. ASSUME NEW h \in Handlers,
             Arrive(h) \/ Acquire(h) \/ AcquireFails(h) \/ Finish(h) \/ Answer(h)
      PROVE  Inv'
  BY <1>1, <1>4, RequestStep
<1>5. ASSUME NEW w \in Workers,
             WorkerBegins(w) \/ WorkerEnds(w) \/ WorkerSends(w) \/ WorkerStops(w)
      PROVE  Inv'
  BY <1>1, <1>5, WorkerStep
<1>6. CASE UNCHANGED vars
  <2>1. UNCHANGED <<conf, stage, code, signal, late, root, listener, pool, worker, at, todo>>
    BY <1>6 DEF vars
  <2>2. BootInOrder' /\ EndInOrder' /\ DrainInOrder'
    BY <2>1 DEF Inv, BootInOrder, EndInOrder, DrainInOrder, Alone, Quiet
  <2> QED  BY <1>1, <2>1, <2>2, UsersLeftAlone DEF Inv
<1> QED  BY <1>2, <1>3, <1>4, <1>5, <1>6 DEF Next

\* The start and the end of the process, as one inductive invariant.
THEOREM ProcessSafe == Spec => []Inv
  BY InvInit, InvStep, PTL DEF Spec

\* No pool is closed under a worker or a request, nor handed out beyond its
\* size, whatever crosses the boot and the shutdown.
THEOREM PoolsOutlast == Spec => []PoolsOutliveUsers
<1>1. Inv => PoolsOutliveUsers
  BY DEF Inv, WorkersKeepPool, HoldersKeepPool, PoolsOutliveUsers
<1> QED  BY <1>1, ProcessSafe, PTL

\* However the process ends, it accounts for its requests, workers and pools.
THEOREM ExitsAccountedFor == Spec => []ExitAccounted
<1>1. Inv => ExitAccounted
  <2> SUFFICES ASSUME Inv PROVE ExitAccounted
    OBVIOUS
  <2>1. stage = "exited" /\ code \in {"clean", "failed"} =>
          \A p \in Pools : pool[p] \in {"unopened", "closed"} /\ Holders(p) = {}
    BY DEF Inv, EndInOrder, HoldersKeepPool
  <2> QED  BY <2>1 DEF Inv, BootInOrder, EndInOrder, DrainInOrder, ExitAccounted, Alone
<1> QED  BY <1>1, ProcessSafe, PTL

\* Every environment that Load accepts suits every part of the server, also
\* after the size of the pools was narrowed to 32 bits.
THEOREM ConfigIsAgreed == Spec => []ConfigAgrees
<1>1. ConfigAgrees
  BY LoadIsAgreed, EnvAssumption DEF ConfigAgrees
<1> QED  BY <1>1, PTL

\* The key of the rate limit is the address of the client, for every header and
\* every chain of trusted proxies.
THEOREM KeyIsOfClient == Spec => []KeyOfClient
<1>1. TypeOK => KeyOfClient
  <2> SUFFICES ASSUME TypeOK, stage = "userPool"
               PROVE  KeyIsClient(conf.trusted, Headers,
                          {h \in Headers : \A i \in DOMAIN h : h[i] \in conf.trusted})
    BY DEF KeyOfClient
  <2>1. conf \in Configs
    BY DEF TypeOK
  <2>2. conf.trusted \in SUBSET Addresses
    BY <2>1 DEF Configs
  <2> QED  BY <2>2, KeyAlwaysClient
<1> QED  BY <1>1, ProcessTypeCorrect, PTL
=============================================================================
