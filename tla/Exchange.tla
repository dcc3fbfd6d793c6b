------------------------------ MODULE Exchange ------------------------------
(* What a page may rely on when it calls the API: a call ends once, in an  *)
(* answer or in an error; an answer means that the server has carried the  *)
(* call out, an error says nothing about it, and the server carries one    *)
(* call out at most MaxRuns times.                                         *)
EXTENDS Naturals

CONSTANTS Calls, MaxRuns

VARIABLES
    outcome,    \* how each call stands for the page
    runs        \* how often the server has carried it out

vars == <<outcome, runs>>

Outcomes == {"none", "pending", "answered", "rejected"}

Init ==
    /\ outcome = [c \in Calls |-> "none"]
    /\ runs = [c \in Calls |-> 0]

Place(c) ==
    /\ outcome[c] = "none"
    /\ outcome' = [outcome EXCEPT ![c] = "pending"]
    /\ UNCHANGED runs

CarryOut(c) ==
    /\ outcome[c] = "pending"
    /\ runs[c] < MaxRuns
    /\ runs' = [runs EXCEPT ![c] = @ + 1]
    /\ UNCHANGED outcome

Answer(c) ==
    /\ outcome[c] = "pending"
    /\ runs[c] > 0
    /\ outcome' = [outcome EXCEPT ![c] = "answered"]
    /\ UNCHANGED runs

\* One failed refresh rejects every call that waited for it.
Reject ==
    \E failed \in SUBSET {c \in Calls : outcome[c] = "pending"} :
        /\ outcome' = [c \in Calls |-> IF c \in failed THEN "rejected" ELSE outcome[c]]
        /\ UNCHANGED runs

Next ==
    \/ \E c \in Calls : Place(c) \/ CarryOut(c) \/ Answer(c)
    \/ Reject

Spec == Init /\ [][Next]_vars
=============================================================================
