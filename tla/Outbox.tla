------------------------------- MODULE Outbox -------------------------------
(***************************************************************************)
(* What the rest of the backend may assume of outbound mail, with no       *)
(* workers, leases, caps or clocks: a message that is submitted waits, is  *)
(* taken for a try, and is in the end settled with one verdict that is     *)
(* archived with it.  A message is tried at most Budget times, each try    *)
(* posts it at most once, and only a posted message is called sent.        *)
(***************************************************************************)
EXTENDS Integers

CONSTANTS Messages, Budget

VARIABLES
    stage,    \* where a message stands
    spent,    \* tries a message was taken for
    mail,     \* copies handed to the mail provider
    archive   \* <<message, verdict>>, for the settled messages

vars == <<stage, spent, mail, archive>>

Verdict == {"sent", "failed", "dead"}

Init ==
    /\ stage   = [m \in Messages |-> "absent"]
    /\ spent   = [m \in Messages |-> 0]
    /\ mail    = [m \in Messages |-> 0]
    /\ archive = {}

Submit(m) ==
    /\ stage[m] = "absent"
    /\ stage' = [stage EXCEPT ![m] = "pending"]
    /\ UNCHANGED <<spent, mail, archive>>

\* Several messages may be taken at once.
Take(S) ==
    /\ \A m \in S : stage[m] = "pending" /\ spent[m] < Budget
    /\ stage' = [m \in Messages |-> IF m \in S THEN "sending" ELSE stage[m]]
    /\ spent' = [m \in Messages |-> IF m \in S THEN spent[m] + 1 ELSE spent[m]]
    /\ UNCHANGED <<mail, archive>>

Post(m) ==
    /\ stage[m] = "sending" /\ mail[m] < spent[m]
    /\ mail' = [mail EXCEPT ![m] = @ + 1]
    /\ UNCHANGED <<stage, spent, archive>>

TryAgain(m) ==
    /\ stage[m] = "sending" /\ spent[m] < Budget
    /\ stage' = [stage EXCEPT ![m] = "pending"]
    /\ UNCHANGED <<spent, mail, archive>>

Settle(m, v) ==
    /\ stage[m] = "sending"
    /\ v = "sent" => mail[m] > 0
    /\ v = "dead" => spent[m] = Budget
    /\ stage'   = [stage EXCEPT ![m] = v]
    /\ archive' = archive \cup {<<m, v>>}
    /\ UNCHANGED <<spent, mail>>

Next ==
    \/ \E S \in SUBSET Messages : Take(S)
    \/ \E m \in Messages : Submit(m) \/ Post(m) \/ TryAgain(m)
    \/ \E m \in Messages, v \in Verdict : Settle(m, v)

Spec == Init /\ [][Next]_vars

\* A waiting message is taken, and a try ends.
Fairness ==
    \A m \in Messages :
        /\ WF_vars(\E S \in SUBSET Messages : m \in S /\ Take(S))
        /\ WF_vars(TryAgain(m) \/ \E v \in Verdict : Settle(m, v))

FairSpec == Spec /\ Fairness
=============================================================================
