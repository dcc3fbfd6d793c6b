---------------------------- MODULE AtomicLedger ----------------------------
(* What the ledger service promises its callers: each operation is one     *)
(* indivisible step that checks the contract, appends at most one entry,   *)
(* adds exactly that entry to one wallet and moves the contract.           *)
EXTENDS LedgerTypes

VARIABLES wallet, ledger, contract
vars == <<wallet, ledger, contract>>

Init ==
    /\ wallet = [p \in Teachers |-> EmptyWallet]
    /\ ledger = [p \in Teachers |-> EmptyLedger]
    /\ contract \in [Contracts -> AssignedRows]

\* An entry d for contract c in the wallet of p, and the row of c after it.
Post(p, c, d, isCredit, row) ==
    LET written == [balance |-> wallet[p].balance + d.avail + d.frozen,
                    frozen  |-> wallet[p].frozen + d.frozen]
    IN  /\ written \in Row /\ Available(written) >= 0
        /\ wallet' = [wallet EXCEPT ![p] = written]
        /\ ledger' = [ledger EXCEPT ![p] = Entered(ledger[p], c, d, isCredit)]
        /\ contract' = [contract EXCEPT ![c] = row]

\* The share goes to whoever teaches the section now.
Pay(c) ==
    /\ contract[c].section # "cancelled"
    /\ \E s \in Shares : Post(contract[c].lecturer, c, Split(s), FALSE, contract[c])

Activate(c) ==
    /\ contract[c].status = "ASSIGNED"
    /\ Post(contract[c].teacher, c, Split(contract[c].fee), TRUE,
            [contract[c] EXCEPT !.status = "ACTIVE", !.section = "active"])

\* What an earlier teacher's wallet holds of the contract is left as it is, by
\* all three operations that take something back.
Settle(c) ==
    LET p == contract[c].teacher
        held == ledger[p].net[c].frozen
        free == IF held > 0 THEN [avail |-> held, frozen |-> -held] ELSE Zero
    IN  /\ contract[c].status = "ACTIVE"
        /\ Post(p, c, free, FALSE,
                [contract[c] EXCEPT !.status = "SETTLED", !.section = "completed"])

Cancel(c) ==
    LET p == contract[c].teacher
    IN  /\ contract[c].status = "ACTIVE"
        /\ Post(p, c, Minus(ledger[p].net[c]), FALSE,
                [contract[c] EXCEPT !.status = "CANCELLED", !.section = "cancelled"])

\* Every activation credit so far is reversed, those of earlier activations too.
Deactivate(c) ==
    LET p == contract[c].teacher
    IN  /\ contract[c].status = "ACTIVE"
        /\ contract[c].section = "active"
        /\ Post(p, c, Minus(ledger[p].credit[c]), FALSE,
                [contract[c] EXCEPT !.status = "ASSIGNED", !.section = "pending"])

\* A raised fee is credited at once if the contract is ACTIVE.
Amend(c) ==
    \E fee \in Fees :
        /\ contract[c].fee # Percentage
        /\ contract[c].status = "ACTIVE" => fee >= contract[c].fee
        /\ Post(contract[c].teacher, c,
                IF contract[c].status = "ACTIVE" THEN Split(fee - contract[c].fee)
                                                 ELSE Zero,
                FALSE, [contract[c] EXCEPT !.fee = fee])

\* Another fee, and possibly another teacher, for contract and section.
Assign(c) ==
    /\ contract[c].section = "pending"
    /\ \E p \in Teachers, fee \in Fees \cup {Percentage} :
         Post(p, c, Zero, FALSE, [contract[c] EXCEPT
                !.fee = fee, !.status = "ASSIGNED", !.teacher = p, !.lecturer = p])

\* Another teacher for the section alone.
Edit(c) ==
    /\ contract[c].section = "pending"
    /\ \E p \in Teachers : Post(p, c, Zero, FALSE, [contract[c] EXCEPT !.lecturer = p])

Next == \E c \in Contracts :
    \/ Pay(c)    \/ Activate(c)   \/ Settle(c) \/ Cancel(c)
    \/ Amend(c)  \/ Deactivate(c) \/ Assign(c) \/ Edit(c)

Spec == Init /\ [][Next]_vars
=============================================================================
