-------------------------- MODULE UserPoolProofs --------------------------
(***************************************************************************)
(* The user pool implements RowAccess, for any number of requests,         *)
(* connections and users, whatever fails.                                  *)
(***************************************************************************)
EXTENDS UserPool, TLAPS

Holding == {"role", "claims", "statement", "judged"}

\* A request has a connection from BeginTx to the end of its transaction.
HoldsConn == \A r \in Requests : pc[r] \in Holding <=> conn[r] # NoConn

\* Between SET LOCAL ROLE and set_config.
RoleIsSet == \A r \in Requests :
    pc[r] = "claims" => session[conn[r]].role = Access!RoleOf(caller[r])

Writes(r) == pc[r] = "judged" /\ outcome[r] = "written"
Locker(r) == pc[r] = "judged" /\ Access!Locks(r)

\* What an upsert was promised by its statement still holds at its commit, since it
\* is the only one and holds the lock of the row.
UpsertsKept ==
    /\ \A q, r \in Requests : Locker(q) /\ Locker(r) => q = r
    /\ \A r \in Requests : Writes(r) =>
         /\ route[r] = "subscribe"
         /\ status \in {"absent", "pending"}
         /\ Access!Link(caller[r].uid) \in users \cup {NoUser}

IInv == TypeOK /\ HoldsConn /\ RoleIsSet /\ IdentityMatches /\ UpsertsKept

USE RequestAssumption, UserAssumption, ConnAssumption
    DEF Access!SignedIn, Access!Nobody, Access!Callers, Access!Statuses, Access!Outcomes

\* The invariant holds at the start.
LEMMA InvInit == Init => IInv
  BY DEF Init, IInv, TypeOK, HoldsConn, RoleIsSet, IdentityMatches, NobodyShares, UpsertsKept,
         Holding, Writes, Locker, Access!StartEmpty, Access!TablesOK, Access!RequestsOK,
         FreshSession, Session, Idle

\* The handler up to WithUser.
LEMMA AskStep == ASSUME IInv, NEW r \in Requests, Ask(r) PROVE IInv'
<1> USE DEF Ask, Goto, tableVars, Access!TakeIn
<1>1. TypeOK'
  BY DEF IInv, TypeOK, Access!TablesOK, Access!RequestsOK
<1>2. HoldsConn' /\ RoleIsSet'
  BY DEF IInv, TypeOK, HoldsConn, RoleIsSet, Holding, Access!RequestsOK, Access!RoleOf
<1>3. IdentityMatches'
  BY DEF IInv, TypeOK, IdentityMatches, NobodyShares, Idle, Access!RequestsOK, Access!Identity,
         Access!RoleOf
<1>4. UpsertsKept'
  BY DEF IInv, TypeOK, UpsertsKept, Writes, Locker, Access!RequestsOK, Access!Locks, Access!Link
<1> QED  BY <1>1, <1>2, <1>3, <1>4 DEF IInv

\* BeginTx.
LEMMA BeginStep == ASSUME IInv, NEW r \in Requests, Begin(r) PROVE IInv'
<1> USE DEF Goto, tableVars
<1>1. PICK k \in pool : Idle(k) /\ conn' = [conn EXCEPT ![r] = k]
  BY DEF Begin
<1>2. /\ conn[r] = NoConn /\ k \in Conns /\ pc' = [pc EXCEPT ![r] = "role"]
      /\ UNCHANGED <<tableVars, route, caller, outcome, pool, session>>
  BY DEF Begin, IInv, TypeOK, HoldsConn, Holding
<1>3. TypeOK'
  BY <1>1, <1>2 DEF IInv, TypeOK, Access!TablesOK, Access!RequestsOK
<1>4. HoldsConn' /\ RoleIsSet'
  BY <1>1, <1>2 DEF IInv, TypeOK, HoldsConn, RoleIsSet, Holding, Access!RoleOf
<1>5. IdentityMatches'
  <2>1. NobodyShares'
    BY <1>1, <1>2 DEF IInv, TypeOK, IdentityMatches, NobodyShares, Idle
  <2>2. \A j \in Conns : Idle(j)' => Idle(j)
    BY <1>1, <1>2 DEF IInv, TypeOK, Idle
  <2>3. \A q \in Requests : pc'[q] \in {"statement", "judged"} => pc'[q] = pc[q] /\ conn'[q] = conn[q]
    BY <1>1, <1>2 DEF IInv, TypeOK
  <2> QED  BY <1>2, <2>1, <2>2, <2>3 DEF IInv, IdentityMatches, Access!Identity, Access!RoleOf
<1>6. UpsertsKept'
  BY <1>2 DEF IInv, TypeOK, UpsertsKept, Writes, Locker, Access!Locks, Access!Link
<1> QED  BY <1>3, <1>4, <1>5, <1>6 DEF IInv

\* SET LOCAL ROLE.
LEMMA RoleStep == ASSUME IInv, NEW r \in Requests, SetRole(r) PROVE IInv'
<1> USE DEF SetRole, Goto, tableVars
<1>1. conn[r] \in Conns /\ \A q \in Requests : q # r => conn[q] # conn[r]
  BY DEF IInv, TypeOK, HoldsConn, Holding, IdentityMatches, NobodyShares
<1>2. TypeOK'
  BY <1>1 DEF IInv, TypeOK, Access!TablesOK, Access!RequestsOK, Session, Access!RoleOf
<1>3. HoldsConn' /\ RoleIsSet'
  BY <1>1 DEF IInv, TypeOK, HoldsConn, RoleIsSet, Holding, Session, Access!RequestsOK, Access!RoleOf
<1>4. IdentityMatches'
  BY <1>1 DEF IInv, TypeOK, HoldsConn, Holding, IdentityMatches, NobodyShares, Idle,
              Access!RequestsOK, Access!Identity, Access!RoleOf
<1>5. UpsertsKept'
  BY DEF IInv, TypeOK, UpsertsKept, Writes, Locker, Access!RequestsOK, Access!Locks, Access!Link
<1> QED  BY <1>2, <1>3, <1>4, <1>5 DEF IInv

\* set_config.
LEMMA ClaimsStep == ASSUME IInv, NEW r \in Requests, SetClaims(r) PROVE IInv'
<1> USE DEF Goto, tableVars
<1>1. /\ conn[r] \in Conns /\ \A q \in Requests : q # r => conn[q] # conn[r]
      /\ pc[r] = "claims" /\ pc' = [pc EXCEPT ![r] = "statement"]
      /\ UNCHANGED <<tableVars, route, caller, outcome, pool, conn>>
  BY DEF SetClaims, IInv, TypeOK, HoldsConn, Holding, IdentityMatches, NobodyShares
<1>2. session' = [session EXCEPT ![conn[r]] = Access!Identity(r)]
  BY <1>1 DEF SetClaims, IInv, RoleIsSet, Access!Identity
<1>3. Access!Identity(r) \in Session
  BY DEF IInv, TypeOK, Access!RequestsOK, Access!Identity, Access!RoleOf, Session
<1>4. TypeOK'
  BY <1>1, <1>2, <1>3 DEF IInv, TypeOK, Access!TablesOK, Access!RequestsOK
<1>5. HoldsConn' /\ RoleIsSet'
  <2>1. \A q \in Requests : q # r => /\ pc'[q] = pc[q]
                                     /\ pc[q] = "claims" => session'[conn[q]] = session[conn[q]]
    BY <1>1, <1>2 DEF IInv, TypeOK
  <2> QED  BY <1>1, <2>1 DEF IInv, TypeOK, HoldsConn, RoleIsSet, Holding, Access!RoleOf
<1>6. IdentityMatches'
  <2>1. NobodyShares' /\ \A k \in Conns : Idle(k)' => Idle(k) /\ k # conn[r]
    BY <1>1 DEF IInv, IdentityMatches, NobodyShares, Idle
  <2>2. session'[conn[r]] = Access!Identity(r) /\ pc'[r] = "statement"
    BY <1>1, <1>2 DEF IInv, TypeOK
  <2>3. \A q \in Requests : q # r /\ pc'[q] \in {"statement", "judged"} =>
           pc'[q] = pc[q] /\ session'[conn[q]] = session[conn[q]]
    BY <1>1, <1>2 DEF IInv, TypeOK, HoldsConn, Holding
  <2>4. \A q \in Requests : Access!Identity(q)' = Access!Identity(q)
    BY <1>1 DEF Access!Identity, Access!RoleOf
  <2> QED  BY <1>1, <1>2, <2>1, <2>2, <2>3, <2>4 DEF IInv, TypeOK, IdentityMatches
<1>7. UpsertsKept'
  BY <1>1 DEF IInv, TypeOK, UpsertsKept, Writes, Locker, Access!Locks, Access!Link
<1> QED  BY <1>4, <1>5, <1>6, <1>7 DEF IInv

\* What a statement may come to.
LEMMA OutcomeIs ==
    ASSUME NEW s, NEW r \in Requests, status \in Access!Statuses
    PROVE  /\ Access!OutcomeAs(s, r) \in Access!Outcomes
           /\ Access!OutcomeAs(s, r) = "written" =>
                /\ route[r] = "subscribe" /\ status \in {"absent", "pending"}
                /\ Access!Link(caller[r].uid) \in users \cup {NoUser}
           /\ Access!OutcomeAs(s, r) = "resolved" => route[r] = "subscribe"
  BY DEF Access!OutcomeAs, Access!UpsertOutcome, Access!ViewOutcome

\* fn(q).
LEMMA StatementStep == ASSUME IInv, NEW r \in Requests, Statement(r) PROVE IInv'
<1> DEFINE o == Access!OutcomeAs(session[conn[r]], r)
<1>1. /\ pc[r] = "statement" /\ pc' = [pc EXCEPT ![r] = "judged"]
      /\ outcome' = [outcome EXCEPT ![r] = o]
      /\ route[r] = "subscribe" => ~RowLocked
      /\ UNCHANGED <<tableVars, route, caller, pool, conn, session>>
  BY DEF Statement, Goto
<1>2. /\ o \in Access!Outcomes
      /\ o = "written" => /\ route[r] = "subscribe" /\ status \in {"absent", "pending"}
                          /\ Access!Link(caller[r].uid) \in users \cup {NoUser}
  BY OutcomeIs DEF IInv, TypeOK, Access!TablesOK
<1> HIDE DEF o
<1>3. TypeOK'
  BY <1>1, <1>2 DEF IInv, TypeOK, Access!TablesOK, Access!RequestsOK, tableVars
<1>4. HoldsConn' /\ RoleIsSet'
  BY <1>1 DEF IInv, TypeOK, HoldsConn, RoleIsSet, Holding, Access!RoleOf
<1>5. IdentityMatches'
  BY <1>1 DEF IInv, TypeOK, IdentityMatches, NobodyShares, Idle, Access!Identity, Access!RoleOf
<1>6. UpsertsKept'
  <2>1. \A q \in Requests : q # r => /\ Writes(q)' <=> Writes(q)
                                     /\ Locker(q)' <=> Locker(q)
    BY <1>1 DEF IInv, TypeOK, Access!RequestsOK, Writes, Locker, Access!Locks
  <2>2. Writes(r)' => o = "written"
    BY <1>1 DEF IInv, TypeOK, Access!RequestsOK, Writes
  <2>3. Locker(r)' => \A q \in Requests : ~Locker(q)
    BY <1>1 DEF Locker, RowLocked, Access!Locks
  <2>4. \A q \in Requests : Access!Link(caller[q].uid)' = Access!Link(caller[q].uid)
    BY <1>1 DEF Access!Link, tableVars
  <2> QED  BY <1>1, <1>2, <2>1, <2>2, <2>3, <2>4 DEF IInv, UpsertsKept, tableVars
<1> QED  BY <1>3, <1>4, <1>5, <1>6 DEF IInv

\* A transaction ends: it releases the connection and leaves what it must keep.
LEMMA ReleaseKeeps ==
    ASSUME IInv, NEW r \in Requests, pc[r] \in Holding, Release(r),
           UNCHANGED <<route, caller, pool>>
    PROVE  HoldsConn' /\ RoleIsSet' /\ IdentityMatches'
<1>1. /\ conn[r] \in Conns /\ \A q \in Requests : q # r => conn[q] # conn[r]
      /\ pc' = [pc EXCEPT ![r] = "done"] /\ conn' = [conn EXCEPT ![r] = NoConn]
      /\ session' = [session EXCEPT ![conn[r]] = FreshSession]
  BY DEF Release, Goto, IInv, TypeOK, HoldsConn, IdentityMatches, NobodyShares
<1>2. \A q \in Requests : q # r =>
         /\ pc'[q] = pc[q] /\ conn'[q] = conn[q]
         /\ conn[q] \in Conns => session'[conn[q]] = session[conn[q]]
  BY <1>1 DEF IInv, TypeOK
<1>3. pc'[r] = "done" /\ conn'[r] = NoConn
  BY <1>1 DEF IInv, TypeOK
<1>4. \A q \in Requests : pc[q] \in Holding => conn[q] \in Conns
  BY DEF IInv, TypeOK, HoldsConn
<1>5. HoldsConn'
  BY <1>2, <1>3 DEF IInv, HoldsConn, Holding
<1>6. RoleIsSet'
  BY <1>2, <1>3, <1>4 DEF IInv, RoleIsSet, Holding, Access!RoleOf
<1>7. NobodyShares'
  BY <1>2, <1>3 DEF IInv, IdentityMatches, NobodyShares
<1>8. \A k \in Conns : Idle(k)' => session'[k] = FreshSession
  BY <1>1, <1>2 DEF IInv, TypeOK, IdentityMatches, Idle
<1>9. \A q \in Requests :
         pc'[q] \in {"statement", "judged"} => session'[conn'[q]] = Access!Identity(q)'
  BY <1>2, <1>3, <1>4 DEF IInv, IdentityMatches, Holding, Access!Identity, Access!RoleOf
<1> QED  BY <1>5, <1>6, <1>7, <1>8, <1>9 DEF IdentityMatches

\* Commit, heard of or not, or Rollback after a refusal.
LEMMA FinishStep ==
    ASSUME IInv, NEW r \in Requests, Finish(r) \/ FinishUnheard(r) PROVE IInv'
<1>1. /\ pc[r] = "judged" /\ Access!Keep(r) /\ Release(r)
      /\ outcome' \in {outcome, [outcome EXCEPT ![r] = "failed"]}
      /\ UNCHANGED <<users, admins, route, caller, pool>>
  BY DEF Finish, FinishUnheard
<1>2. \/ UNCHANGED <<status, owner, token>>
      \/ /\ Writes(r) /\ status' = "pending" /\ token' = r
         /\ owner' = Access!Link(caller[r].uid)
  BY <1>1 DEF Access!Keep, Access!rowVars, Writes
<1>3. /\ pc' = [pc EXCEPT ![r] = "done"] /\ conn' = [conn EXCEPT ![r] = NoConn]
      /\ session' = [session EXCEPT ![conn[r]] = FreshSession]
  BY <1>1 DEF Release, Goto
<1>4. FreshSession \in Session
  BY DEF FreshSession, Session
<1>5. TypeOK'
  BY <1>1, <1>2, <1>3, <1>4 DEF IInv, TypeOK, UpsertsKept, Access!TablesOK, Access!RequestsOK
<1>6. \A q \in Requests : /\ Locker(q)' <=> q # r /\ Locker(q)
                          /\ Writes(q)' <=> q # r /\ Writes(q)
  BY <1>1, <1>3 DEF IInv, TypeOK, Access!RequestsOK, Locker, Writes, Access!Locks
<1>7. UpsertsKept'
  <2>1. CASE UNCHANGED <<status, owner, token>>
    BY <1>1, <1>6, <2>1 DEF IInv, UpsertsKept, Access!Link
  <2>2. CASE Writes(r) /\ status' = "pending"
    <3>1. \A q \in Requests : Writes(q) => Locker(q)
      BY DEF IInv, UpsertsKept, Writes, Locker, Access!Locks
    <3>2. \A q \in Requests : ~Writes(q)'
      BY <1>6, <2>2, <3>1 DEF IInv, UpsertsKept
    <3> QED  BY <1>6, <3>2 DEF IInv, UpsertsKept
  <2> QED  BY <1>2, <2>1, <2>2
<1> QED  BY <1>1, <1>5, <1>7, ReleaseKeeps DEF IInv, Holding

\* Something fails under a transaction, or while a request waits for one.
LEMMA FailStep ==
    ASSUME IInv, NEW r \in Requests, Fail(r) \/ FailWaiting(r) PROVE IInv'
<1>1. /\ outcome' = [outcome EXCEPT ![r] = "failed"] /\ pc' = [pc EXCEPT ![r] = "done"]
      /\ UNCHANGED <<tableVars, route, caller, pool>>
      /\ conn' = conn \/ conn' = [conn EXCEPT ![r] = NoConn]
      /\ session' = session \/ session' = [session EXCEPT ![conn[r]] = FreshSession]
  BY DEF Fail, FailWaiting, Release, Goto
<1>2. TypeOK'
  <2>1. FreshSession \in Session
    BY DEF FreshSession, Session
  <2> QED  BY <1>1, <2>1 DEF IInv, TypeOK, Access!TablesOK, Access!RequestsOK, tableVars
<1>3. HoldsConn' /\ RoleIsSet' /\ IdentityMatches'
  <2>1. CASE Fail(r)
    BY <2>1, ReleaseKeeps DEF Fail, Holding
  <2>2. CASE FailWaiting(r)
    <3>1. pc[r] = "begin" /\ UNCHANGED <<conn, session>>
      BY <2>2 DEF FailWaiting
    <3> QED  BY <1>1, <3>1 DEF IInv, TypeOK, HoldsConn, RoleIsSet, IdentityMatches, NobodyShares,
                  Idle, Holding, Access!Identity, Access!RoleOf
  <2> QED  BY <2>1, <2>2
<1>4. \A q \in Requests : (Locker(q)' => Locker(q)) /\ (Writes(q)' => Writes(q))
  BY <1>1 DEF IInv, TypeOK, Access!RequestsOK, Locker, Writes, Access!Locks
<1>5. UpsertsKept'
  BY <1>1, <1>4 DEF IInv, UpsertsKept, Access!Link, tableVars
<1> QED  BY <1>2, <1>3, <1>5 DEF IInv

\* The service pool and the owner of auth.users.
LEMMA OthersStep == ASSUME IInv, Others PROVE IInv'
<1>1. ~RowLocked /\ Access!OthersWrite /\ UNCHANGED <<route, caller, outcome, pool, pc, conn, session>>
  BY DEF Others
<1>2. TypeOK'
  <2>1. Access!TablesOK'
    BY <1>1 DEF IInv, TypeOK, Access!TablesOK, Access!OthersWrite, Access!ConfirmRow,
                Access!UnsubscribeRow, Access!DeleteUser
  <2> QED  BY <1>1, <2>1 DEF IInv, TypeOK, Access!RequestsOK
<1>3. HoldsConn' /\ RoleIsSet' /\ IdentityMatches'
  BY <1>1 DEF IInv, HoldsConn, RoleIsSet, IdentityMatches, NobodyShares, Idle, Access!Identity,
              Access!RoleOf
<1>4. \A q \in Requests : ~Locker(q) /\ ~Writes(q)
  BY <1>1 DEF IInv, UpsertsKept, RowLocked, Locker, Writes, Access!Locks
<1>5. UpsertsKept'
  BY <1>1, <1>4 DEF UpsertsKept, Locker, Writes, Access!Locks
<1> QED  BY <1>2, <1>3, <1>5 DEF IInv

\* Every step keeps the invariant.
LEMMA InvStep == IInv /\ [Next]_vars => IInv'
<1> SUFFICES ASSUME IInv, [Next]_vars PROVE IInv'
  OBVIOUS
<1>1. CASE UNCHANGED vars
  BY <1>1 DEF vars, tableVars, IInv, TypeOK, HoldsConn, RoleIsSet, IdentityMatches, NobodyShares,
              Idle, UpsertsKept, Locker, Writes, Access!TablesOK, Access!RequestsOK,
              Access!Identity, Access!RoleOf, Access!Locks, Access!Link
<1>2. CASE Others
  BY <1>2, OthersStep
<1>3. ASSUME NEW r \in Requests,
             Ask(r) \/ Begin(r) \/ Work(r) \/ Fail(r) \/ FailWaiting(r) \/ FinishUnheard(r)
      PROVE  IInv'
  BY <1>3, AskStep, BeginStep, RoleStep, ClaimsStep, StatementStep, FinishStep, FailStep DEF Work
<1> QED  BY <1>1, <1>2, <1>3 DEF Next

\* The invariant always holds.
THEOREM PoolSafe == Spec => []IInv
  BY InvInit, InvStep, PTL DEF Spec

\* The foreign keys of the tables hold, and every request is where WithUser puts
\* it.
THEOREM PoolTypeCorrect == Spec => []TypeOK
<1>1. IInv => TypeOK
  BY DEF IInv
<1> QED  BY <1>1, PoolSafe, PTL

\* WithUser: every statement runs as its caller, on a connection of its own, and
\* no connection carries an identity to its next user.
THEOREM CallersJudgedAsThemselves == Spec => []IdentityMatches
<1>1. IInv => IdentityMatches
  BY DEF IInv
<1> QED  BY <1>1, PoolSafe, PTL

-----------------------------------------------------------------------------
(* What a step does to the outcome of a request.                           *)

\* An outcome is decided by the statement, as the caller of the request, or lost.
LEMMA Decides ==
    ASSUME IInv, [Next]_vars, NEW r \in Requests, outcome'[r] # outcome[r]
    PROVE  outcome'[r] \in {"failed", Access!OutcomeAs(Access!Identity(r), r)}
<1>1. CASE UNCHANGED vars \/ Others
  BY <1>1 DEF vars, tableVars, Others
<1>2. ASSUME NEW q \in Requests,
             Ask(q) \/ Begin(q) \/ SetRole(q) \/ SetClaims(q) \/ Finish(q)
      PROVE  FALSE
  BY <1>2 DEF Ask, Begin, SetRole, SetClaims, Finish
<1>3. ASSUME NEW q \in Requests, Fail(q) \/ FailWaiting(q) \/ FinishUnheard(q)
      PROVE  outcome'[r] = "failed"
  BY <1>3 DEF Fail, FailWaiting, FinishUnheard, IInv, TypeOK, Access!RequestsOK
<1>4. ASSUME NEW q \in Requests, Statement(q)
      PROVE  outcome'[r] = Access!OutcomeAs(Access!Identity(r), r)
  <2>1. session[conn[q]] = Access!Identity(q)
    BY <1>4 DEF Statement, IInv, IdentityMatches
  <2>2. outcome' = [outcome EXCEPT ![q] = Access!OutcomeAs(Access!Identity(q), q)]
    BY <1>4, <2>1 DEF Statement
  <2> QED  BY <2>2 DEF IInv, TypeOK, Access!RequestsOK
<1> QED  BY <1>1, <1>2, <1>3, <1>4 DEF Next, Work

\* Who carries the address in a token is somebody, and sees its row.
LEMMA OwnerSees ==
    ASSUME IInv, NEW r \in Requests, caller[r].email = "address", NEW o
    PROVE  /\ caller[r].uid # NoUser
           /\ Access!Visible(Access!Identity(r), o)
<1>1. caller[r] \in Access!SignedIn
  BY DEF IInv, TypeOK, Access!RequestsOK
<1> QED  BY <1>1 DEF Access!Identity, Access!RoleOf, Access!Visible

\* GET /v1/me/subscription.
THEOREM OwnViewsAreTrue == Spec => OwnViewTrue
<1>1. ASSUME IInv, [Next]_vars, NEW r \in Requests, route[r] = "me", outcome[r] = "none",
             outcome'[r] \in Access!Statuses
      PROVE  outcome'[r] = status
  <2>1. outcome'[r] = Access!ViewOutcome(Access!Identity(r), caller[r].email)
    BY <1>1, Decides DEF Access!OutcomeAs
  <2>2. caller[r].email = "address"
    BY <1>1, <2>1 DEF Access!ViewOutcome
  <2>3. Access!Visible(Access!Identity(r), owner)
    BY <1>1, <2>2, OwnerSees
  <2> QED  BY <2>1, <2>2, <2>3 DEF Access!ViewOutcome
<1>2. IInv /\ [Next]_vars =>
        [\A r \in Requests : route[r] = "me" /\ outcome[r] = "none" /\ outcome'[r] \in Access!Statuses
                            => outcome'[r] = status]_vars
  BY <1>1
<1> QED  BY <1>2, PoolSafe, PTL DEF Spec, OwnViewTrue

\* The upsert, and the foreign key under it.
THEOREM OwnersAreNeverRefused == Spec => OwnerNeverRefused
<1>1. ASSUME IInv, [Next]_vars, NEW r \in Requests, outcome[r] = "none",
             outcome'[r] = "denied", caller[r].email = "address"
      PROVE  caller[r].uid \notin users
  <2> DEFINE u == caller[r].uid
  <2>1. Access!OutcomeAs(Access!Identity(r), r) = "denied"
    BY <1>1, Decides
  <2>2. Access!UpsertOutcome(Access!Identity(r), u) = "denied"
    BY <1>1, <2>1 DEF Access!OutcomeAs, Access!ViewOutcome, IInv, TypeOK, Access!TablesOK
  <2>3. u # NoUser /\ \A o : Access!Visible(Access!Identity(r), o)
    BY <1>1, OwnerSees
  <2>4. Access!MayInsert(Access!Identity(r), u)
    BY <2>3 DEF Access!MayInsert, Access!Identity, Access!RoleOf
  <2>5. status = "pending" => \A o : Access!MayUpdate(Access!Identity(r), o)
    BY <2>3 DEF Access!MayUpdate, Access!Identity, Access!RoleOf
  <2>6. Access!Link(u) \notin users \cup {NoUser}
    BY <1>1, <2>2, <2>4, <2>5 DEF Access!UpsertOutcome, IInv, TypeOK, Access!TablesOK
  <2> QED  BY <1>1, <2>3, <2>6 DEF Access!Link, IInv, TypeOK, Access!TablesOK
<1>2. IInv /\ [Next]_vars =>
        [\A r \in Requests :
            (/\ outcome[r] = "none" /\ outcome'[r] = "denied"
             /\ caller[r].email = "address")
            => caller[r].uid \notin users]_vars
  BY <1>1
<1> QED  BY <1>2, PoolSafe, PTL DEF Spec, OwnerNeverRefused

\* Who may take the token away from a pending row.
THEOREM RefreshIsForThoseWhoSee == Spec => RefreshNeedsSight
<1>1. ASSUME IInv, [Next]_vars, NEW r \in Requests, status = "pending", outcome[r] = "none",
             outcome'[r] = "written"
      PROVE  /\ caller[r].uid # NoUser
             /\ \/ caller[r].email = "address" \/ caller[r].uid = owner
                \/ caller[r].uid \in admins
  <2>1. Access!OutcomeAs(Access!Identity(r), r) = "written"
    BY <1>1, Decides
  <2>2. Access!UpsertOutcome(Access!Identity(r), caller[r].uid) = "written"
    BY <1>1, <2>1 DEF Access!OutcomeAs, Access!ViewOutcome
  <2>3. Access!Visible(Access!Identity(r), owner)
    BY <1>1, <2>2 DEF Access!UpsertOutcome, Access!MayUpdate
  <2> QED  BY <2>3 DEF Access!Visible, Access!Identity, Access!RoleOf
<1>2. IInv /\ [Next]_vars =>
        [\A r \in Requests :
            (/\ status = "pending"
             /\ outcome[r] = "none" /\ outcome'[r] = "written")
            => LET c == caller[r]
               IN  c.uid # NoUser /\ (\/ c.email = "address" \/ c.uid = owner
                                      \/ c.uid \in admins)]_vars
  BY <1>1
<1> QED  BY <1>2, PoolSafe, PTL DEF Spec, RefreshNeedsSight

\* An upsert between its statement and its commit holds the lock of the row.
THEOREM ResolvedRowsStay == Spec => ResolvedStays
<1>1. ASSUME IInv, [Next]_vars, status \in {"confirmed", "unsubscribed"}
      PROVE  status' # "pending"
  <2>1. CASE UNCHANGED vars
    BY <1>1, <2>1 DEF vars, tableVars
  <2>2. CASE Others
    BY <1>1, <2>2 DEF Others, Access!OthersWrite, Access!ConfirmRow, Access!UnsubscribeRow,
                      Access!DeleteUser
  <2>3. ASSUME NEW r \in Requests, Finish(r) \/ FinishUnheard(r)
        PROVE  status' = status
    BY <1>1, <2>3 DEF Finish, FinishUnheard, Access!Keep, Access!rowVars, IInv, UpsertsKept, Writes
  <2>4. ASSUME NEW r \in Requests, ~Finish(r),
               Ask(r) \/ Begin(r) \/ Work(r) \/ Fail(r) \/ FailWaiting(r)
        PROVE  status' = status
    BY <2>4 DEF Work, Ask, Begin, SetRole, SetClaims, Statement, Fail, FailWaiting, tableVars
  <2> QED  BY <1>1, <2>1, <2>2, <2>3, <2>4 DEF Next
<1>2. IInv /\ [Next]_vars => [(status \in {"confirmed", "unsubscribed"}) => status' # "pending"]_vars
  BY <1>1
<1> QED  BY <1>2, PoolSafe, PTL DEF Spec, ResolvedStays

-----------------------------------------------------------------------------
(* The refinement.                                                         *)

StepIs == [r \in Requests |-> StepOf(r)]

\* A request that moves on in WithUser.
LEMMA StepMoves ==
    ASSUME IInv, NEW r \in Requests, NEW at, pc' = [pc EXCEPT ![r] = at]
    PROVE  StepIs' = [StepIs EXCEPT ![r] =
                         IF at \in {"begin", "role", "claims", "statement"} THEN "open" ELSE at]
  BY DEF IInv, TypeOK, StepIs, StepOf

\* The initial states are RowAccess's.
LEMMA AccessInit == Init => Access!Init
  BY DEF Init, Access!Init, StepOf

\* Every step is a step of RowAccess, or nothing that it sees.
LEMMA AccessStep == IInv /\ [Next]_vars => [Access!Next]_(Access!vars)
<1> SUFFICES ASSUME IInv, [Next]_vars PROVE Access!Next \/ UNCHANGED Access!vars
  OBVIOUS
<1> USE DEF StepIs, Goto
<1>1. CASE UNCHANGED vars
  BY <1>1 DEF vars, tableVars, Access!vars, Access!tableVars, Access!rowVars, StepOf
<1>2. ASSUME NEW r \in Requests, Ask(r) PROVE Access!Ask(r)
  BY <1>2, StepMoves DEF Ask, Access!Ask, Access!Goto, Access!tableVars, Access!rowVars, tableVars,
                         StepOf
<1>3. ASSUME NEW r \in Requests, Begin(r) \/ SetRole(r) \/ SetClaims(r)
      PROVE  UNCHANGED Access!vars
  <2>1. PICK at \in {"role", "claims", "statement"} :
           /\ pc' = [pc EXCEPT ![r] = at] /\ pc[r] \in {"begin", "role", "claims"}
           /\ UNCHANGED <<tableVars, route, caller, outcome>>
    BY <1>3 DEF Begin, SetRole, SetClaims
  <2>2. StepIs' = StepIs
    BY <2>1 DEF IInv, TypeOK, StepOf
  <2> QED  BY <2>1, <2>2 DEF Access!vars, Access!tableVars, Access!rowVars, tableVars
<1>4. ASSUME NEW r \in Requests, Statement(r) PROVE Access!Judge(r)
  <2>1. session[conn[r]] = Access!Identity(r)
    BY <1>4 DEF Statement, IInv, IdentityMatches
  <2>2. outcome' = [outcome EXCEPT ![r] = Access!OutcomeAs(Access!Identity(r), r)]
    BY <1>4, <2>1 DEF Statement
  <2>3. Access!RowLocked => RowLocked
    BY DEF Access!RowLocked, RowLocked, StepOf
  <2>4. StepIs' = [StepIs EXCEPT ![r] = "judged"] /\ StepIs[r] = "open"
    BY <1>4, StepMoves DEF Statement, StepOf
  <2> QED  BY <1>4, <2>2, <2>3, <2>4 DEF Statement, Access!Judge, Access!Goto, Access!tableVars,
                                       Access!rowVars, tableVars
<1>5. ASSUME NEW r \in Requests, Finish(r) PROVE Access!Settle(r)
  <2>1. StepIs' = [StepIs EXCEPT ![r] = "done"] /\ StepIs[r] = "judged"
    BY <1>5, StepMoves DEF Finish, Release, StepOf
  <2> QED  BY <1>5, <2>1 DEF Finish, Access!Settle, Access!Goto
<1>6. ASSUME NEW r \in Requests, Fail(r) \/ FailWaiting(r) PROVE Access!Abort(r)
  <2>1. /\ pc' = [pc EXCEPT ![r] = "done"] /\ "fail" \in Faults
        /\ pc[r] \in {"begin", "role", "claims", "statement", "judged"}
        /\ outcome' = [outcome EXCEPT ![r] = "failed"] /\ UNCHANGED <<tableVars, route, caller>>
    BY <1>6 DEF Fail, FailWaiting, Release
  <2>2. StepIs' = [StepIs EXCEPT ![r] = "done"] /\ StepIs[r] \in {"open", "judged"}
    BY <2>1, StepMoves DEF StepOf
  <2> QED  BY <2>1, <2>2 DEF Access!Abort, Access!Goto, Access!tableVars, Access!rowVars, tableVars
<1>7. ASSUME NEW r \in Requests, FinishUnheard(r) PROVE Access!SettleUnheard(r)
  <2>1. StepIs' = [StepIs EXCEPT ![r] = "done"] /\ StepIs[r] = "judged"
    BY <1>7, StepMoves DEF FinishUnheard, Release, StepOf
  <2> QED  BY <1>7, <2>1 DEF FinishUnheard, Access!SettleUnheard, Access!Goto
<1>8. CASE Others
  <2>1. Access!RowLocked => RowLocked
    BY DEF Access!RowLocked, RowLocked, StepOf
  <2>2. StepIs' = StepIs
    BY <1>8 DEF Others, StepOf
  <2> QED  BY <1>8, <2>1, <2>2 DEF Others, Access!Others, Access!Next
<1> QED  BY <1>1, <1>2, <1>3, <1>4, <1>5, <1>6, <1>7, <1>8 DEF Next, Work, Access!Next

\* The pool is invisible: shared connections, waits, failures and rollbacks come to
\* requests that are judged one by one, each as its own caller.
THEOREM PoolIsRowAccess == Spec => ImplementsAccess
<1> SUFFICES Spec => Access!Spec
  BY DEF ImplementsAccess
<1> QED  BY AccessInit, AccessStep, PoolSafe, PTL DEF Spec, Access!Spec
=============================================================================
