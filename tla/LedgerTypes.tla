---------------------------- MODULE LedgerTypes -----------------------------
(* The data that the wallet specifications share: contract statuses, the   *)
(* deltas of a ledger entry and the split of an amount by the holdback.    *)
EXTENDS Integers

CONSTANTS
    Teachers,       \* employees with a wallet
    Contracts,      \* contracts, one per section
    Fees,           \* fixed fees a contract may carry
    Shares          \* teacher shares a payment may bring

\* Amounts are multiples of 5 units, which the default holdback rate of 20%
\* splits without rounding.
ASSUME AmountsAssumption ==
    /\ Fees \subseteq Nat \ {0}
    /\ Shares \subseteq Nat \ {0}
    /\ \A a \in Fees \cup Shares : a % 5 = 0

Percentage    == 0                         \* the fee of a PERCENTAGE contract
Status        == {"ASSIGNED", "ACTIVE", "SETTLED", "CANCELLED"}
SectionStatus == {"pending", "active", "completed", "cancelled"}

Deltas        == [avail : Int, frozen : Int]
Row           == [balance : Nat, frozen : Nat]
\* Of the ledger_entries of one wallet: the sum of all, of each contract's,
\* and of each contract's ACTIVATION_CREDITs.
Ledger        == [total : Deltas, net : [Contracts -> Deltas],
                  credit : [Contracts -> Deltas]]

\* A section_contracts row with the two columns of its course_sections row
\* that matter here: the section's status, and who teaches it (lecturer).
\* section_contracts has a teacher_id of its own (teacher).
ContractRow   == [status : Status, section : SectionStatus,
                  fee : Fees \cup {Percentage},
                  teacher : Teachers, lecturer : Teachers]

Zero          == [avail |-> 0, frozen |-> 0]
Holdback(a)   == a \div 5
Split(a)      == [avail |-> a - Holdback(a), frozen |-> Holdback(a)]
Plus(d, e)    == [avail |-> d.avail + e.avail, frozen |-> d.frozen + e.frozen]
Minus(d)      == [avail |-> -d.avail, frozen |-> -d.frozen]
Magnitude(n)  == IF n < 0 THEN -n ELSE n
Available(r)  == r.balance - r.frozen

\* Everything was assigned and nothing posted yet.
EmptyWallet   == [balance |-> 0, frozen |-> 0]
EmptyLedger   == [total |-> Zero, net |-> [c \in Contracts |-> Zero],
                  credit |-> [c \in Contracts |-> Zero]]
AssignedRows  == {row \in ContractRow : /\ row.status = "ASSIGNED"
                                       /\ row.section = "pending"
                                       /\ row.lecturer = row.teacher}

\* The ledger's sums once an entry d for contract c is in it.
Entered(ledger, c, d, isCredit) ==
    [total  |-> Plus(ledger.total, d),
     net    |-> [k \in Contracts |->
                   IF k = c THEN Plus(ledger.net[k], d) ELSE ledger.net[k]],
     credit |-> [k \in Contracts |->
                   IF k = c /\ isCredit THEN Plus(ledger.credit[k], d)
                   ELSE ledger.credit[k]]]
=============================================================================
