---------------------------- MODULE OutboxProofs ----------------------------
(***************************************************************************)
(* What Outbox promises, proved once: whatever implements it, the queue    *)
(* for one, and whatever is built on it, the subscriptions for one,        *)
(* inherits these facts about every message.                               *)
(***************************************************************************)
EXTENDS Outbox, TLAPS

\* How the stage of a message, its tries, its copies and its verdicts agree.
Accounts ==
    \A m \in Messages :
        /\ mail[m] \in Nat /\ spent[m] \in Nat
        /\ mail[m] <= spent[m] /\ spent[m] <= Budget
        /\ stage[m] = "absent" => spent[m] = 0
        /\ stage[m] = "sent" => mail[m] > 0
        /\ stage[m] = "dead" => spent[m] = Budget
        /\ \A v \in Verdict : <<m, v>> \in archive <=> stage[m] = v

Shape ==
    /\ stage \in [Messages -> {"absent", "pending", "sending"} \cup Verdict]
    /\ spent \in [Messages -> Nat]
    /\ mail  \in [Messages -> Nat]

Promise == Shape /\ Accounts

\* A settled message keeps its verdict, and nobody posts it again.
SettledStays ==
    [][\A m \in Messages : stage[m] \in Verdict =>
          /\ stage'[m] = stage[m]
          /\ mail'[m] = mail[m] /\ spent'[m] = spent[m]]_vars

LEMMA PromiseInit == Budget \in Nat /\ Init => Promise
  BY DEF Init, Promise, Shape, Accounts, Verdict

\* One message settles: its archive gains this verdict and no other does.
LEMMA SettleStep ==
    ASSUME Budget \in Nat, Promise, NEW m \in Messages, NEW v \in Verdict, Settle(m, v)
    PROVE  Promise'
<1> USE DEF Promise, Shape, Accounts
<1>1. Shape'
  BY DEF Settle
<1>2. ASSUME NEW n \in Messages, NEW u \in Verdict
      PROVE  <<n, u>> \in archive' <=> stage'[n] = u
  <2>1. <<n, u>> \in archive' <=> <<n, u>> \in archive \/ (n = m /\ u = v)
    BY DEF Settle
  <2>2. CASE n = m
    BY <2>1, <2>2 DEF Settle, Verdict
  <2>3. CASE n # m
    BY <2>1, <2>3 DEF Settle
  <2> QED  BY <2>2, <2>3
<1>3. ASSUME NEW n \in Messages
      PROVE  /\ mail'[n] \in Nat /\ spent'[n] \in Nat
             /\ mail'[n] <= spent'[n] /\ spent'[n] <= Budget
             /\ stage'[n] = "absent" => spent'[n] = 0
             /\ stage'[n] = "sent" => mail'[n] > 0
             /\ stage'[n] = "dead" => spent'[n] = Budget
  BY DEF Settle, Verdict
<1> QED  BY <1>1, <1>2, <1>3

LEMMA PromiseStep == Budget \in Nat /\ Promise /\ [Next]_vars => Promise'
<1> SUFFICES ASSUME Budget \in Nat, Promise, [Next]_vars PROVE Promise'
  OBVIOUS
<1> USE DEF Promise, Shape, Accounts
<1>1. ASSUME NEW m \in Messages, Submit(m) PROVE Promise'
  BY <1>1 DEF Submit, Verdict
<1>2. ASSUME NEW S \in SUBSET Messages, Take(S) PROVE Promise'
  BY <1>2 DEF Take, Verdict
<1>3. ASSUME NEW m \in Messages, Post(m) PROVE Promise'
  BY <1>3 DEF Post, Verdict
<1>4. ASSUME NEW m \in Messages, TryAgain(m) PROVE Promise'
  BY <1>4 DEF TryAgain, Verdict
<1>5. ASSUME NEW m \in Messages, NEW v \in Verdict, Settle(m, v) PROVE Promise'
  BY <1>5, SettleStep
<1>6. CASE UNCHANGED vars
  BY <1>6 DEF vars
<1> QED  BY <1>1, <1>2, <1>3, <1>4, <1>5, <1>6 DEF Next

\* Whatever is an outbox keeps its accounts: no more copies than tries and no
\* more tries than the budget, 'sent' only of what was posted, 'dead' only of what
\* used every try, and exactly the verdict archived that the message has.
THEOREM OutboxKeepsAccounts == Budget \in Nat => (Spec => []Promise)
<1> SUFFICES ASSUME Budget \in Nat PROVE Spec => []Promise
  OBVIOUS
<1>1. Init => Promise
  BY PromiseInit
<1>2. Promise /\ [Next]_vars => Promise'
  BY PromiseStep
<1> QED  BY <1>1, <1>2, PTL DEF Spec

\* No step of an outbox reopens a settled message or posts it once more.
THEOREM OutboxSettlesForGood == Budget \in Nat => (Spec => SettledStays)
<1> SUFFICES ASSUME Budget \in Nat PROVE Spec => SettledStays
  OBVIOUS
<1>1. Promise /\ [Next]_vars =>
        [\A m \in Messages : stage[m] \in Verdict =>
            /\ stage'[m] = stage[m]
            /\ mail'[m] = mail[m] /\ spent'[m] = spent[m]]_vars
  BY DEF Promise, Shape, Next, Submit, Take, Post, TryAgain, Settle, Verdict
<1> QED  BY <1>1, OutboxKeepsAccounts, PTL DEF Spec, SettledStays
=============================================================================
