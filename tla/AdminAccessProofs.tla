------------------------- MODULE AdminAccessProofs -------------------------
(***************************************************************************)
(* How stale a verdict of RequireAdmin may be, for every number of users   *)
(* and requests, every TTL and every size of the cache.                    *)
(***************************************************************************)
EXTENDS AdminAccess, FiniteSetTheorems, TLAPS

\* A verdict on its way is as old as it says, and an entry is younger by what
\* is left of its time.
VerdictsFresh ==
    \A r \in Requests :
        /\ pc[r] = "put" <=> verdict[r] # Nothing
        /\ verdict[r] # Nothing =>
             /\ verdict[r].admin => AdminAgo(Owner[r]) <= verdict[r].age
             /\ ~verdict[r].admin => OutsiderAgo(Owner[r]) <= verdict[r].age

EntriesFresh ==
    \A u \in Users : cache[u] # Nothing =>
        /\ cache[u].admin => AdminAgo(u) + cache[u].left <= TTL + Lag
        /\ ~cache[u].admin => OutsiderAgo(u) + cache[u].left <= TTL + Lag

\* While a request is served, "member" misses no row of its user; and nothing is
\* shown before RequireAdmin has decided.
MembersKnown ==
    \A r \in Requests :
        /\ pc[r] \in {"query", "put", "handler", "total"} /\ Owner[r] \in admins => member[r]
        /\ pc[r] \in {"start", "query", "put"} => seen[r] = {}

IInv ==
    /\ TypeOK
    /\ VerdictsFresh
    /\ EntriesFresh
    /\ MembersKnown
    /\ ReadsGated

USE OwnerAssumption, TimeAssumption, NothingAssumption DEF Past, Entry, Verdict, HasRow

\* The invariant holds at the start.
LEMMA InvInit == Init => IInv
  BY DEF Init, IInv, TypeOK, VerdictsFresh, EntriesFresh, MembersKnown, ReadsGated, Requests

\* A request moves on without touching the table, the cache or a verdict.
LEMMA MoveStep ==
    ASSUME IInv, NEW r \in Requests, NEW at, NEW a,
           UNCHANGED <<tableVars, cache, verdict, member>>,
           pc[r] # "put", at \in {"handler", "total", "done"},
           at \in {"handler", "total"} => (Owner[r] \in admins => member[r]),
           pc' = [pc EXCEPT ![r] = at],
           a \in {"unauthorized", "forbidden", "error", "list", "queued"},
           reply' = reply \/ reply' = [reply EXCEPT ![r] = a],
           \/ seen' = seen
           \/ r \in Lists /\ seen' = [seen EXCEPT ![r] = {}]
           \/ r \in Lists /\ \E what \in {"rows", "total"} :
                 Show(r, what) /\ pc[r] \in {"handler", "total"}
    PROVE  IInv'
<1>1. TypeOK'
  BY DEF IInv, TypeOK, Show, tableVars
<1>2. VerdictsFresh' /\ EntriesFresh'
  BY DEF IInv, TypeOK, VerdictsFresh, EntriesFresh, AdminAgo, OutsiderAgo, tableVars
<1>3. \A q \in Requests : q # r => pc'[q] = pc[q] /\ seen'[q] = seen[q]
  BY DEF IInv, TypeOK, Show
<1>4. pc'[r] = at
  BY DEF IInv, TypeOK
<1>5. MembersKnown'
  BY <1>3, <1>4 DEF IInv, MembersKnown, tableVars
<1>6. seen'[r] = seen[r] \/ seen'[r] = {} \/ member[r]
  BY DEF IInv, TypeOK, MembersKnown, Show, Visible
<1>7. ReadsGated'
  BY <1>3, <1>6 DEF IInv, ReadsGated, Requests
<1> QED  BY <1>1, <1>2, <1>5, <1>7 DEF IInv

\* The cache is asked.
LEMMA LookupStep == ASSUME IInv, NEW r \in Requests, Lookup(r) PROVE IInv'
<1> DEFINE u == Owner[r]
<1>1. /\ u \in Users /\ pc[r] = "start" /\ UNCHANGED <<tableVars, verdict, seen>>
      /\ member' = [member EXCEPT ![r] = u \in admins]
      /\ cache' = cache \/ cache' = [cache EXCEPT ![u] = Nothing]
      /\ \E at \in {"handler", "query", "done"} : pc' = [pc EXCEPT ![r] = at]
      /\ reply' = reply \/ reply' = [reply EXCEPT ![r] = "forbidden"]
  BY DEF Lookup, Decide, Goto, Answer
<1> HIDE DEF u
<1>2. TypeOK'
  BY <1>1 DEF IInv, TypeOK, tableVars
<1>3. VerdictsFresh'
  BY <1>1 DEF IInv, TypeOK, VerdictsFresh, AdminAgo, OutsiderAgo, tableVars
<1>4. EntriesFresh'
  BY <1>1 DEF IInv, TypeOK, EntriesFresh, AdminAgo, OutsiderAgo, tableVars
<1>5. MembersKnown'
  BY <1>1 DEF IInv, TypeOK, MembersKnown, tableVars, u
<1>6. ReadsGated'
  BY <1>1 DEF IInv, TypeOK, MembersKnown, ReadsGated, Requests
<1> QED  BY <1>2, <1>3, <1>4, <1>5, <1>6 DEF IInv

\* The table is asked: the verdict is new.
LEMMA QueryStep ==
    ASSUME IInv, NEW r \in Requests, Query(r) \/ QueryFails(r) PROVE IInv'
<1>1. PICK v \in Verdict \cup {Nothing}, at \in {"put", "done"} :
        /\ pc[r] \in {"query", "put"} /\ UNCHANGED <<tableVars, cache, member, seen>>
        /\ pc' = [pc EXCEPT ![r] = at] /\ verdict' = [verdict EXCEPT ![r] = v]
        /\ at = "put" <=> v # Nothing
        /\ v # Nothing => v = [admin |-> Owner[r] \in admins, age |-> 0]
        /\ reply' = reply \/ reply' = [reply EXCEPT ![r] = "error"]
  <2>1. CASE Query(r)
    <3>1. [admin |-> Owner[r] \in admins, age |-> 0] \in Verdict
      OBVIOUS
    <3> QED  BY <2>1, <3>1 DEF Query, Goto
  <2>2. CASE QueryFails(r)
    BY <2>2 DEF QueryFails, Answer
  <2> QED  BY <2>1, <2>2
<1>2. TypeOK'
  BY <1>1 DEF IInv, TypeOK, tableVars
<1>3. VerdictsFresh'
  BY <1>1 DEF IInv, TypeOK, VerdictsFresh, AdminAgo, OutsiderAgo, tableVars
<1>4. EntriesFresh' /\ MembersKnown' /\ ReadsGated'
  BY <1>1 DEF IInv, TypeOK, EntriesFresh, MembersKnown, ReadsGated, AdminAgo, OutsiderAgo, tableVars
<1> QED  BY <1>2, <1>3, <1>4 DEF IInv

\* The age of a verdict and the life of its entry add up to TTL + Lag at most.
LEMMA PutStep == ASSUME IInv, NEW r \in Requests, Put(r) PROVE IInv'
<1> DEFINE new == [admin |-> verdict[r].admin, left |-> TTL]
<1>1. /\ pc[r] = "put" /\ UNCHANGED <<tableVars, member, seen>>
      /\ verdict' = [verdict EXCEPT ![r] = Nothing]
      /\ \E at \in {"handler", "done"} : pc' = [pc EXCEPT ![r] = at]
      /\ reply' = reply \/ reply' = [reply EXCEPT ![r] = "forbidden"]
  BY DEF Put, Decide, Goto, Answer
<1>2. verdict[r] \in Verdict /\ Owner[r] \in Users /\ new \in Entry
  BY <1>1 DEF IInv, TypeOK, VerdictsFresh
<1>3. PICK K : cache' = [v \in Users |-> IF v = Owner[r] THEN new
                                         ELSE IF v \in K THEN cache[v] ELSE Nothing]
  BY DEF Put
<1>4. TypeOK'
  <2>1. cache' \in [Users -> Entry \cup {Nothing}]
    BY <1>2, <1>3 DEF IInv, TypeOK
  <2> QED  BY <1>1, <2>1 DEF IInv, TypeOK, tableVars
<1>5. VerdictsFresh'
  BY <1>1 DEF IInv, TypeOK, VerdictsFresh, AdminAgo, OutsiderAgo, tableVars
<1>6. EntriesFresh'
  <2> SUFFICES ASSUME NEW u \in Users, cache'[u] # Nothing
               PROVE  /\ cache'[u].admin => AdminAgo(u) + cache'[u].left <= TTL + Lag
                      /\ ~cache'[u].admin => OutsiderAgo(u) + cache'[u].left <= TTL + Lag
    BY <1>1 DEF EntriesFresh, AdminAgo, OutsiderAgo, tableVars
  <2>1. CASE u = Owner[r]
    <3>1. cache'[u] = new
      BY <1>3, <2>1
    <3>2. /\ verdict[r].admin => AdminAgo(u) <= Lag
          /\ ~verdict[r].admin => OutsiderAgo(u) <= Lag
      BY <1>1, <1>2, <2>1 DEF IInv, TypeOK, VerdictsFresh, AdminAgo, OutsiderAgo
    <3>3. AdminAgo(u) \in Nat /\ OutsiderAgo(u) \in Nat
      BY DEF IInv, TypeOK, AdminAgo, OutsiderAgo
    <3> QED  BY <3>1, <3>2, <3>3
  <2>2. CASE u # Owner[r]
    <3>1. cache'[u] = cache[u]
      BY <1>3, <2>2
    <3> QED  BY <3>1 DEF IInv, EntriesFresh
  <2> QED  BY <2>1, <2>2
<1>7. MembersKnown' /\ ReadsGated'
  BY <1>1 DEF IInv, TypeOK, MembersKnown, ReadsGated, tableVars
<1> QED  BY <1>4, <1>5, <1>6, <1>7 DEF IInv

\* A row comes or goes: now the user is both just inside and just outside.
LEMMA TableStep ==
    ASSUME IInv, NEW u \in Users, AddAdmin(u) \/ RemoveAdmin(u) PROVE IInv'
<1>1. /\ since' = [since EXCEPT ![u] = 0] /\ UNCHANGED <<cache, pc, verdict, seen, reply>>
      /\ admins' \in SUBSET Users
      /\ \A w \in Users \ {u} : w \in admins' <=> w \in admins
  BY DEF AddAdmin, RemoveAdmin, reqVars, IInv, TypeOK
<1>2. /\ member' \in [Requests -> BOOLEAN]
      /\ \A r \in Requests : member[r] => member'[r]
      /\ \A r \in Requests : Owner[r] = u /\ u \in admins' => member'[r]
  BY DEF AddAdmin, RemoveAdmin, reqVars, IInv, TypeOK
<1>3. TypeOK'
  BY <1>1, <1>2 DEF IInv, TypeOK
<1>4. VerdictsFresh'
  BY <1>1 DEF IInv, TypeOK, VerdictsFresh, AdminAgo, OutsiderAgo
<1>5. EntriesFresh'
  BY <1>1 DEF IInv, TypeOK, EntriesFresh, AdminAgo, OutsiderAgo
<1>6. MembersKnown' /\ ReadsGated'
  BY <1>1, <1>2 DEF IInv, TypeOK, MembersKnown, ReadsGated, Requests
<1> QED  BY <1>3, <1>4, <1>5, <1>6 DEF IInv

\* Time passes for verdicts and entries alike.
LEMMA TickStep == ASSUME IInv, Tick PROVE IInv'
<1>1. /\ UNCHANGED <<admins, pc, member, seen, reply>>
      /\ \A u \in Users : since'[u] = IF since[u] < Past THEN since[u] + 1 ELSE Past
      /\ \A u \in Users : cache'[u] = IF cache[u] = Nothing THEN Nothing ELSE Older(cache[u])
      /\ \A r \in Requests : verdict'[r] = IF verdict[r] = Nothing THEN Nothing
                                           ELSE Staler(verdict[r])
  BY DEF Tick
<1>2. ASSUME NEW u \in Users, cache[u] # Nothing
      PROVE  /\ Older(cache[u]) \in Entry /\ Older(cache[u]).admin = cache[u].admin
             /\ Older(cache[u]).left = IF cache[u].left > 0 THEN cache[u].left - 1 ELSE -1
  BY <1>2 DEF IInv, TypeOK, Older
<1>3. ASSUME NEW r \in Requests, verdict[r] # Nothing
      PROVE  /\ Staler(verdict[r]) \in Verdict /\ Staler(verdict[r]).admin = verdict[r].admin
             /\ Staler(verdict[r]).age = verdict[r].age + 1
  BY <1>3 DEF IInv, TypeOK, Staler, Tick
<1>4. TypeOK'
  <2>1. since' \in [Users -> 0..Past]
    BY DEF Tick, IInv, TypeOK
  <2>2. cache' \in [Users -> Entry \cup {Nothing}]
    BY <1>2 DEF Tick
  <2>3. verdict' \in [Requests -> Verdict \cup {Nothing}]
    BY <1>3 DEF Tick
  <2> QED  BY <1>1, <2>1, <2>2, <2>3 DEF IInv, TypeOK
<1>5. VerdictsFresh'
  <2> SUFFICES ASSUME NEW r \in Requests
               PROVE  /\ pc[r] = "put" <=> verdict'[r] # Nothing
                      /\ verdict'[r] # Nothing =>
                           /\ verdict'[r].admin => AdminAgo(Owner[r])' <= verdict'[r].age
                           /\ ~verdict'[r].admin => OutsiderAgo(Owner[r])' <= verdict'[r].age
    BY <1>1 DEF VerdictsFresh, AdminAgo, OutsiderAgo
  <2>1. CASE verdict[r] = Nothing
    BY <1>1, <2>1 DEF IInv, VerdictsFresh
  <2>2. CASE verdict[r] # Nothing
    <3>1. verdict'[r] # Nothing /\ verdict'[r].admin = verdict[r].admin
          /\ verdict'[r].age = verdict[r].age + 1 /\ verdict[r].age \in Nat
      BY <1>1, <1>3, <2>2 DEF IInv, TypeOK
    <3> QED  BY <1>1, <2>2, <3>1 DEF IInv, TypeOK, VerdictsFresh, AdminAgo, OutsiderAgo
  <2> QED  BY <2>1, <2>2
<1>6. EntriesFresh'
  <2> SUFFICES ASSUME NEW u \in Users, cache'[u] # Nothing
               PROVE  /\ cache'[u].admin => AdminAgo(u)' + cache'[u].left <= TTL + Lag
                      /\ ~cache'[u].admin => OutsiderAgo(u)' + cache'[u].left <= TTL + Lag
    BY DEF EntriesFresh
  <2>1. /\ cache[u] # Nothing /\ cache'[u].admin = cache[u].admin
        /\ cache'[u].left = IF cache[u].left > 0 THEN cache[u].left - 1 ELSE -1
    BY <1>1, <1>2
  <2>2. cache[u].left \in -1..TTL
    BY <2>1 DEF IInv, TypeOK
  <2>3. since[u] \in 0..Past
    BY DEF IInv, TypeOK
  <2> QED  BY <1>1, <2>1, <2>2, <2>3 DEF IInv, EntriesFresh, AdminAgo, OutsiderAgo
<1>7. MembersKnown' /\ ReadsGated'
  BY <1>1 DEF IInv, MembersKnown, ReadsGated
<1> QED  BY <1>4, <1>5, <1>6, <1>7 DEF IInv

\* The invariant is inductive.
LEMMA InvStep == IInv /\ [Next]_vars => IInv'
<1> SUFFICES ASSUME IInv, [Next]_vars PROVE IInv'
  OBVIOUS
<1>1. ASSUME NEW r \in Requests, Unauthenticated(r) \/ Resend(r) PROVE IInv'
  <2>1. PICK a \in {"unauthorized", "queued", "error"} : Answer(r, a)
    BY <1>1 DEF Unauthenticated, Resend
  <2> QED  BY <1>1, <2>1, MoveStep DEF Unauthenticated, Resend, Answer
<1>2. ASSUME NEW r \in Requests, ListRows(r) PROVE IInv'
  BY <1>2, MoveStep DEF ListRows, Goto, IInv, MembersKnown
<1>3. ASSUME NEW r \in Requests, ListTotal(r) \/ ListFails(r) PROVE IInv'
  BY <1>3, MoveStep DEF ListTotal, ListFails, Answer
<1>4. CASE UNCHANGED vars
  BY <1>4 DEF vars, tableVars, reqVars, IInv, TypeOK, VerdictsFresh, EntriesFresh,
              MembersKnown, ReadsGated, AdminAgo, OutsiderAgo
<1> QED
  BY <1>1, <1>2, <1>3, <1>4, LookupStep, QueryStep, PutStep, TableStep, TickStep DEF Next

\* The verdicts, the entries and the ghost state stay in their types.
THEOREM AdminAccessSafe == Spec => []IInv
  BY InvInit, InvStep, PTL DEF Spec

\* Verdicts are never older than Lag, entries never live longer than the TTL.
THEOREM AdminAccessTypeCorrect == Spec => []TypeOK
<1>1. IInv => TypeOK
  BY DEF IInv
<1> QED  BY <1>1, AdminAccessSafe, PTL

\* A list is shown only to a user who had a row while it was served.
THEOREM ListsAreGated == Spec => []ReadsGated
<1>1. IInv => ReadsGated
  BY DEF IInv
<1> QED  BY <1>1, AdminAccessSafe, PTL

-----------------------------------------------------------------------------

\* What a request was decided with was true TTL + Lag ago or later.
LEMMA DecidedFresh ==
    ASSUME IInv, NEW r \in Requests, Lookup(r) \/ Put(r)
    PROVE  /\ pc'[r] = "handler" => AdminAgo(Owner[r]) <= TTL + Lag
           /\ reply'[r] # reply[r] => OutsiderAgo(Owner[r]) <= TTL + Lag
<1> DEFINE u == Owner[r]
<1>0. u \in Users /\ AdminAgo(u) \in Nat /\ OutsiderAgo(u) \in Nat
  BY DEF IInv, TypeOK, AdminAgo, OutsiderAgo
<1>1. PICK admin \in BOOLEAN :
        /\ admin => AdminAgo(u) <= TTL + Lag
        /\ ~admin => OutsiderAgo(u) <= TTL + Lag
        /\ Decide(r, admin) \/ Goto(r, "query")
  <2>1. CASE Lookup(r) /\ Live(u)
    <3>1. /\ cache[u] \in Entry /\ cache[u].left >= 0
          /\ cache[u].admin => AdminAgo(u) + cache[u].left <= TTL + Lag
          /\ ~cache[u].admin => OutsiderAgo(u) + cache[u].left <= TTL + Lag
      BY <1>0, <2>1 DEF Live, IInv, TypeOK, EntriesFresh
    <3>2. Decide(r, cache[u].admin)
      BY <2>1 DEF Lookup
    <3> QED  BY <1>0, <3>1, <3>2
  <2>2. CASE Lookup(r) /\ ~Live(u)
    <3>1. Goto(r, "query")
      BY <2>2 DEF Lookup
    <3>2. (AdminAgo(u) <= TTL + Lag) \/ (OutsiderAgo(u) <= TTL + Lag)
      BY <1>0 DEF AdminAgo, OutsiderAgo
    <3> QED  BY <3>1, <3>2
  <2>3. CASE Put(r)
    <3>1. verdict[r] \in Verdict
      BY <2>3 DEF Put, IInv, TypeOK, VerdictsFresh
    <3>2. /\ verdict[r].admin => AdminAgo(u) <= Lag
          /\ ~verdict[r].admin => OutsiderAgo(u) <= Lag
      BY <1>0, <2>3, <3>1 DEF Put, IInv, VerdictsFresh
    <3>3. Decide(r, verdict[r].admin)
      BY <2>3 DEF Put
    <3> QED  BY <1>0, <3>1, <3>2, <3>3
  <2> QED  BY <2>1, <2>2, <2>3
<1> QED  BY <1>1 DEF Decide, Goto, Answer, IInv, TypeOK

\* Only these two steps decide.
LEMMA OthersDecideNothing ==
    ASSUME IInv, NEW r \in Requests, [Next]_vars, ~Lookup(r), ~Put(r)
    PROVE  /\ pc'[r] = "handler" => pc[r] = "handler"
           /\ reply'[r] = "forbidden" => reply[r] = "forbidden"
<1>1. ASSUME NEW s \in Requests, Lookup(s) \/ Put(s), s # r PROVE pc'[r] = pc[r] /\ reply'[r] = reply[r]
  BY <1>1 DEF Lookup, Put, Decide, Goto, Answer, IInv, TypeOK
<1>2. ASSUME NEW s \in Requests,
             \/ Unauthenticated(s) \/ Query(s) \/ QueryFails(s)
             \/ ListRows(s) \/ ListTotal(s) \/ ListFails(s) \/ Resend(s)
      PROVE  /\ pc'[r] = "handler" => pc[r] = "handler"
             /\ reply'[r] = "forbidden" => reply[r] = "forbidden"
  BY <1>2 DEF Unauthenticated, Query, QueryFails, ListRows, ListTotal, ListFails, Resend,
              Goto, Answer, IInv, TypeOK
<1>3. ASSUME \/ \E u \in Users : AddAdmin(u) \/ RemoveAdmin(u)
             \/ Tick \/ UNCHANGED vars
      PROVE  UNCHANGED <<pc, reply>>
  BY <1>3 DEF AddAdmin, RemoveAdmin, Tick, vars, reqVars
<1> QED  BY <1>1, <1>2, <1>3 DEF Next

\* A revocation takes effect within TTL + Lag.
THEOREM RevocationTakesEffect == Spec => AccessFresh
<1>1. IInv /\ [Next]_vars =>
        [\A r \in Requests : pc[r] # "handler" /\ pc'[r] = "handler" =>
            AdminAgo(Owner[r]) <= TTL + Lag]_vars
  BY DecidedFresh, OthersDecideNothing
<1> QED  BY <1>1, AdminAccessSafe, PTL DEF Spec, AccessFresh

\* And so does a grant.
THEOREM GrantTakesEffect == Spec => DenialFresh
<1>1. IInv /\ [Next]_vars =>
        [\A r \in Requests : reply[r] # "forbidden" /\ reply'[r] = "forbidden" =>
            OutsiderAgo(Owner[r]) <= TTL + Lag]_vars
  BY DecidedFresh, OthersDecideNothing
<1> QED  BY <1>1, AdminAccessSafe, PTL DEF Spec, DenialFresh

-----------------------------------------------------------------------------

\* One put adds one entry to a cache that has room for it, or was cut.
LEMMA PutBounded ==
    ASSUME CacheBounded, NEW r \in Requests, Put(r) PROVE CacheBounded'
<1>1. PICK K \in Cuts : cache' = [v \in Users |->
                 IF v = Owner[r] THEN [admin |-> verdict[r].admin, left |-> TTL]
                 ELSE IF v \in K THEN cache[v] ELSE Nothing]
  BY DEF Put
<1>2. IsFiniteSet(Cached) /\ Cardinality(Cached) \in Nat
  BY FS_Subset, FS_CardinalityType, UsersAssumption DEF Cached
<1>3. K \in SUBSET Cached /\ Cardinality(K) < High
  BY <1>2, CutAssumption DEF Cuts, CacheBounded
<1>4. IsFiniteSet(K) /\ Cardinality(K) \in Nat
  BY <1>2, <1>3, FS_Subset, FS_CardinalityType
<1>5. IsFiniteSet(K \cup {Owner[r]}) /\ Cardinality(K \cup {Owner[r]}) <= Cardinality(K) + 1
  <2>1. CASE Owner[r] \in K
    <3>1. K \cup {Owner[r]} = K
      BY <2>1
    <3> QED  BY <1>4, <3>1
  <2>2. CASE Owner[r] \notin K
    <3>1. IsFiniteSet(K \cup {Owner[r]}) /\ Cardinality(K \cup {Owner[r]}) = Cardinality(K) + 1
      BY <1>4, <2>2, FS_AddElement, Zenon
    <3> QED  BY <1>4, <3>1
  <2> QED  BY <2>1, <2>2
<1>6. Cached' \subseteq K \cup {Owner[r]}
  BY <1>1 DEF Cached
<1>7. Cardinality(Cached') <= Cardinality(K \cup {Owner[r]})
  BY <1>5, <1>6, FS_Subset
<1>8. Cardinality(Cached') \in Nat /\ Cardinality(K \cup {Owner[r]}) \in Nat
  BY <1>5, <1>6, FS_Subset, FS_CardinalityType
<1> QED  BY <1>3, <1>4, <1>5, <1>7, <1>8, CutAssumption DEF CacheBounded

\* The cache never holds more than High entries, however puts interleave.
THEOREM CacheStaysBounded == Spec => []CacheBounded
<1>1. Init => CacheBounded
  <2> SUFFICES ASSUME Init PROVE CacheBounded
    OBVIOUS
  <2>1. Cached = {}
    BY DEF Init, Cached
  <2> QED  BY <2>1, FS_EmptySet, CutAssumption DEF CacheBounded
<1>2. IInv /\ CacheBounded /\ [Next]_vars => CacheBounded'
  <2> SUFFICES ASSUME IInv, CacheBounded, [Next]_vars PROVE CacheBounded'
    OBVIOUS
  <2>1. ASSUME Cached' \subseteq Cached PROVE CacheBounded'
    <3>1. IsFiniteSet(Cached) /\ Cardinality(Cached) \in Nat
      BY FS_Subset, FS_CardinalityType, UsersAssumption DEF Cached
    <3>2. Cardinality(Cached') <= Cardinality(Cached) /\ IsFiniteSet(Cached')
      BY <2>1, <3>1, FS_Subset
    <3>3. Cardinality(Cached') \in Nat
      BY <3>2, FS_CardinalityType
    <3> QED  BY <3>1, <3>2, <3>3, CutAssumption DEF CacheBounded
  <2>2. ASSUME NEW r \in Requests, Lookup(r) PROVE Cached' \subseteq Cached
    <3>1. cache' = cache \/ cache' = [cache EXCEPT ![Owner[r]] = Nothing]
      BY <2>2 DEF Lookup
    <3> QED  BY <3>1 DEF Cached, IInv, TypeOK
  <2>3. ASSUME Tick PROVE Cached' \subseteq Cached
    BY <2>3 DEF Tick, Cached
  <2>4. ASSUME NEW r \in Requests,
               \/ Unauthenticated(r) \/ Query(r) \/ QueryFails(r)
               \/ ListRows(r) \/ ListTotal(r) \/ ListFails(r) \/ Resend(r)
        PROVE  cache' = cache
    BY <2>4 DEF Unauthenticated, Query, QueryFails, ListRows, ListTotal, ListFails, Resend
  <2>5. ASSUME (\E u \in Users : AddAdmin(u) \/ RemoveAdmin(u)) \/ UNCHANGED vars PROVE cache' = cache
    BY <2>5 DEF AddAdmin, RemoveAdmin, vars
  <2>6. cache' = cache => Cached' \subseteq Cached
    BY DEF Cached
  <2> QED  BY <2>1, <2>2, <2>3, <2>4, <2>5, <2>6, PutBounded DEF Next
<1> QED  BY <1>1, <1>2, AdminAccessSafe, PTL DEF Spec
=============================================================================
