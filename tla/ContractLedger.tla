--------------------------- MODULE ContractLedger ---------------------------
(***************************************************************************)
(* The teachers' wallets, the ledger entries behind them and the contracts *)
(* that post to them, as lms/ledger_service.py and its callers run them.   *)
(* A contract may pass from one teacher to another.  Every request is one  *)
(* database transaction (READ COMMITTED) of an async worker, and every     *)
(* await between two statements lets the other workers in.                 *)
(*                                                                         *)
(* Committed state: wallet, ledger, contract.  Locks held by transactions  *)
(* in flight: walletLock (FOR UPDATE of the teacher_wallets row) and       *)
(* rowLock (locks of the section_contracts rows).  Private state of the    *)
(* transaction a worker runs: txn.  Uncommitted writes are kept in txn and *)
(* reach the committed state only in the step that commits.                *)
(***************************************************************************)
EXTENDS LedgerTypes

CONSTANTS
    Workers,        \* request handlers that run concurrently
    Kinds,          \* which operations requests ask for
    Draws,          \* amounts a teacher may withdraw
    MaxTxns,        \* bound on the requests of one behaviour
    NoWorker,       \* "no transaction holds this lock"
    NoTeacher,      \* "no request"
    NoContract      \* contract_id = None

AllKinds == {"payment", "activate", "complete", "forceComplete", "cancel",
             "deactivate", "withdraw", "amend", "assign", "edit"}

ASSUME DrawsAssumption == Draws \subseteq Nat \ {0}
ASSUME BoundAssumption == MaxTxns \in Nat
ASSUME KindsAssumption == Kinds \subseteq AllKinds
ASSUME DistinctAssumption == /\ NoWorker \notin Workers
                             /\ NoContract \notin Contracts
                             /\ NoTeacher \notin Teachers

VARIABLES wallet, ledger, contract, walletLock, rowLock, txn, begun

committed == <<wallet, ledger, contract>>
locks     == <<walletLock, rowLock>>
vars      == <<wallet, ledger, contract, walletLock, rowLock, txn, begun>>

-----------------------------------------------------------------------------
(* Transactions.                                                           *)

\* Weakest first: KEY SHARE (a foreign key check), NO KEY UPDATE (an UPDATE
\* of other columns), UPDATE (SELECT ... FOR UPDATE).
LockMode == {"none", "share", "nokey", "update"}
Steps    == {"idle", "lock", "fetch", "sum", "post", "flush", "finish", "failed"}

\* seen is the contract row and snap the wallet row as the session read them;
\* post is what the entry adds and total its total_amount.  teacher is whose
\* wallet the request works on; of an assignment or an edit, who is to teach.
Txn == [kind : AllKinds \cup {"none"}, step : Steps, c : Contracts \cup {NoContract},
        teacher : Teachers \cup {NoTeacher}, amount : Nat, force : BOOLEAN,
        seen : [status : Status, fee : Fees \cup {Percentage},
                teacher : Teachers \cup {NoTeacher},
                lecturer : Teachers \cup {NoTeacher}],
        snap : Row, total : Int, post : Deltas]

Idle == [kind |-> "none", step |-> "idle", c |-> NoContract,
         teacher |-> NoTeacher, amount |-> 0, force |-> FALSE,
         seen |-> [status |-> "ASSIGNED", fee |-> 0,
                   teacher |-> NoTeacher, lecturer |-> NoTeacher],
         snap |-> EmptyWallet, total |-> 0, post |-> Zero]

\* Mutant: cancel_contract forgets lock=True.
LocksAtFetch_withoutCancel == {"withdraw", "amend"}

\* The operations that read the wallet row FOR UPDATE the first time they
\* touch it.  The others read it without a lock and lock it inside record();
\* the row that lock returns does not refresh the object already loaded.
LocksAtFetch == {"cancel", "withdraw", "amend"}

-----------------------------------------------------------------------------
(* record(): the row the flush writes, and the checks it must pass.        *)

\* Mutant: record() forgets that the balance includes the frozen part.
NewRow_availableOnly(t) ==
    [balance |-> IF t.post.avail = 0 THEN wallet[t.teacher].balance
                 ELSE t.snap.balance + t.post.avail,
     frozen  |-> IF t.post.frozen = 0 THEN wallet[t.teacher].frozen
                 ELSE t.snap.frozen + t.post.frozen]

\* The session computes both columns from the row as it was fetched, and
\* writes a column only if its value changed.
NewRow(t) ==
    [balance |-> IF t.post.avail + t.post.frozen = 0 THEN wallet[t.teacher].balance
                 ELSE t.snap.balance + t.post.avail + t.post.frozen,
     frozen  |-> IF t.post.frozen = 0 THEN wallet[t.teacher].frozen
                 ELSE t.snap.frozen + t.post.frozen]

\* record()'s own two checks, on the values in the session.
ServiceAccepts(t) ==
    LET balance == t.snap.balance + t.post.avail + t.post.frozen
        frozen  == t.snap.frozen + t.post.frozen
    IN  frozen >= 0 /\ (t.force \/ frozen <= balance)

\* The CHECK constraints D05 to D08, on the row and the entry as written.
DatabaseAccepts(t) ==
    /\ NewRow(t).balance >= 0
    /\ NewRow(t).frozen >= 0
    /\ NewRow(t).frozen <= NewRow(t).balance
    /\ t.post.avail + t.post.frozen = t.total

-----------------------------------------------------------------------------
(* Locks.                                                                  *)

Compatible(m, n) ==
    \/ m = "none" \/ n = "none"
    \/ m = "share" /\ n # "update"
    \/ n = "share" /\ m # "update"

CanLock(w, c, mode) == \A v \in Workers \ {w} : Compatible(mode, rowLock[c][v])

\* w has written the wallet row of p and not ended yet.
Flushed(w, p) == walletLock[p] = w /\ txn[w].step \in {"finish", "failed"}

\* What the next statement of w locks on its contract row: <<mode>> or none.
WantedMode(w) ==
    CASE txn[w].step = "lock" ->
            IF txn[w].kind = "activate" THEN "update" ELSE "nokey"
      [] txn[w].step = "flush" /\ txn[w].c \in Contracts ->
            IF txn[w].kind = "forceComplete" THEN "nokey" ELSE "share"
      [] txn[w].step = "finish" /\ txn[w].kind = "cancel"
           /\ contract[txn[w].c].status = "ACTIVE" -> "nokey"
      [] txn[w].step = "finish" /\ txn[w].kind = "deactivate"
           /\ txn[w].seen.status = "ACTIVE" -> "nokey"
      [] OTHER -> "none"

\* The transactions w waits for.
Blockers(w) ==
    LET t == txn[w] IN
    {v \in Workers \ {w} :
        \/ t.c \in Contracts /\ ~Compatible(WantedMode(w), rowLock[t.c][v])
        \/ t.step = "fetch" /\ t.kind \in LocksAtFetch /\ walletLock[t.teacher] = v
        \/ t.step = "fetch" /\ Flushed(v, t.teacher)
        \/ t.step = "post" /\ walletLock[t.teacher] = v}

\* Every transaction of S waits for one of S and holds up another.
WaitCycle(S) ==
    /\ S # {}
    /\ \A w \in S : /\ Blockers(w) \cap S # {}
                    /\ \E v \in S : w \in Blockers(v)

-----------------------------------------------------------------------------
(* Beginning a request: what the handler reads and checks before its first *)
(* wait.  The rows it read stay in the session (txn[w].seen); re-reading   *)
(* them with FOR UPDATE returns the same, possibly stale, objects.         *)

Begin(w, t) ==
    /\ txn[w] = Idle
    /\ t.kind \in Kinds
    /\ begun < MaxTxns
    /\ begun' = begun + 1
    /\ txn' = [txn EXCEPT ![w] = t]
    /\ UNCHANGED <<committed, locks>>

Request(kind, step, c) ==
    [Idle EXCEPT !.kind = kind, !.step = step, !.c = c,
                 !.teacher = contract[c].teacher,
                 !.seen = [status   |-> contract[c].status,
                           fee      |-> contract[c].fee,
                           teacher  |-> contract[c].teacher,
                           lecturer |-> contract[c].lecturer]]

\* The transaction t, about to record an entry d.
Posting(t, total, d) == [t EXCEPT !.total = total, !.post = d]

\* create_payment: only a cancelled section refuses; the contract's status is
\* not looked at.  The share is for the section's teacher, the entry for the
\* section's contract.  Payments of one date wait for each other at an
\* advisory lock, which is left out: the payments here are of any dates.
BeginPayment(w) ==
    \E c \in Contracts, s \in Shares :
        /\ contract[c].section # "cancelled"
        /\ Begin(w, Posting([Request("payment", "fetch", c) EXCEPT
                                !.teacher = contract[c].lecturer],
                            s, Split(s)))

\* activate_contract, from the contract's own endpoint.
BeginActivate(w) ==
    \E c \in Contracts :
        /\ contract[c].status = "ASSIGNED"
        /\ Begin(w, Posting(Request("activate", "lock", c),
                            contract[c].fee, Split(contract[c].fee)))

\* finalize_grades_for_section, then settle_contract, in one transaction;
\* all grades are in.
BeginComplete(w) ==
    \E c \in Contracts :
        /\ contract[c].status = "ACTIVE"
        /\ Begin(w, Request("complete", "lock", c))

\* complete_section with force and missing grades: the contract is moved to
\* GRADES_SUBMITTED in the session only, and flushed with the next flush.
BeginForceComplete(w) ==
    \E c \in Contracts :
        /\ contract[c].status = "ACTIVE"
        /\ contract[c].section = "active"
        /\ Begin(w, Request("forceComplete", "fetch", c))

\* cancel_section, which calls cancel_contract.
BeginCancel(w) ==
    \E c \in Contracts, force \in BOOLEAN :
        /\ contract[c].section \notin {"completed", "cancelled"}
        /\ contract[c].status # "SETTLED"
        /\ Begin(w, [Request("cancel", "fetch", c) EXCEPT !.force = force])

\* deactivate_section, which calls deactivate_contract for ACTIVE contracts.
BeginDeactivate(w) ==
    \E c \in Contracts :
        /\ contract[c].section = "active"
        /\ Begin(w, Request("deactivate",
                IF contract[c].status = "ACTIVE" THEN "fetch" ELSE "finish", c))

\* create_expense of type teacher_withdrawal.
BeginWithdraw(w) ==
    \E p \in Teachers, a \in Draws :
        Begin(w, Posting([Idle EXCEPT !.kind = "withdraw", !.step = "fetch",
                                      !.teacher = p, !.amount = a],
                         a, [avail |-> -a, frozen |-> 0]))

\* approve_amendment of a pending request on a FIXED contract.
BeginAmend(w) ==
    \E c \in Contracts, fee \in Fees :
        /\ contract[c].fee # Percentage
        /\ Begin(w, [Request("amend", "lock", c) EXCEPT !.amount = fee])

\* Mutant: the endpoint only refuses sections that are running.
BeginAssign_notActive(w) ==
    \E c \in Contracts, p \in Teachers, fee \in Fees \cup {Percentage} :
        /\ contract[c].section # "active"
        /\ Begin(w, [Request("assign", "lock", c) EXCEPT !.teacher = p, !.amount = fee])

\* assign_contract on a contract that exists, while the section is pending: it
\* may be given to another teacher, whatever was posted to the one before.
BeginAssign(w) ==
    \E c \in Contracts, p \in Teachers, fee \in Fees \cup {Percentage} :
        /\ contract[c].section = "pending"
        /\ Begin(w, [Request("assign", "lock", c) EXCEPT !.teacher = p, !.amount = fee])

\* update_course_section with another teacher_id: the contract is not touched.
BeginEdit(w) ==
    \E c \in Contracts, p \in Teachers :
        /\ contract[c].section = "pending"
        /\ Begin(w, [Request("edit", "finish", c) EXCEPT !.teacher = p])

-----------------------------------------------------------------------------
(* The statements of a transaction, one step each.                         *)

Goto(w, step) == txn' = [txn EXCEPT ![w].step = step]
Fail(w)       == Goto(w, "failed") /\ UNCHANGED <<committed, locks, begun>>

\* The contract row: SELECT ... FOR UPDATE (activate) or an UPDATE by id
\* (finalize, amend, assign), which waits and then overwrites.
LockContract(w) ==
    LET t == txn[w]
        posts == t.seen.status = "ACTIVE" /\ t.amount # t.seen.fee
        delta == t.amount - t.seen.fee
    IN  /\ t.step = "lock"
        /\ CanLock(w, t.c, WantedMode(w))
        /\ rowLock' = [rowLock EXCEPT ![t.c][w] = WantedMode(w)]
        /\ txn' = [txn EXCEPT ![w] =
             CASE t.kind = "assign" -> [t EXCEPT !.step = "finish"]
               [] t.kind = "amend" /\ ~posts -> [t EXCEPT !.step = "finish"]
               [] t.kind = "amend" /\ posts ->
                    Posting([t EXCEPT !.step = "fetch"], Magnitude(delta), Split(delta))
               [] OTHER -> [t EXCEPT !.step = "fetch"]]
        /\ UNCHANGED <<committed, walletLock, begun>>

\* get_or_create_wallet.  Its INSERT ... ON CONFLICT DO NOTHING waits for a
\* transaction that has written the row, never for one that only locked it.
FetchWallet(w) ==
    LET t == txn[w]
        row == wallet[t.teacher]
        next == CASE t.kind \in {"complete", "forceComplete", "cancel", "deactivate"} -> "sum"
                  [] t.kind = "payment" -> "post"
                  [] t.kind = "activate" -> IF t.post = Zero THEN "finish" ELSE "post"
                  [] OTHER -> "flush"
    IN  /\ t.step = "fetch"
        /\ \A v \in Workers \ {w} : ~Flushed(v, t.teacher)
        /\ IF t.kind \in LocksAtFetch
              THEN /\ walletLock[t.teacher] = NoWorker
                   /\ walletLock' = [walletLock EXCEPT ![t.teacher] = w]
              ELSE UNCHANGED walletLock
        /\ txn' = [txn EXCEPT ![w] = [t EXCEPT
                     !.snap = row,
                     !.step = IF t.kind = "withdraw" /\ Available(row) < t.amount
                                THEN "failed" ELSE next]]
        /\ UNCHANGED <<committed, rowLock, begun>>

\* Mutant: cancellation reverses the activation credit only.
Summed_cancelsCredit(t) ==
    CASE t.kind \in {"cancel", "deactivate"} -> ledger[t.teacher].credit[t.c]
      [] OTHER -> [avail  |-> -ledger[t.teacher].net[t.c].frozen,
                   frozen |-> ledger[t.teacher].net[t.c].frozen]

\* Mutant: settlement looks at the activation credit only.
Summed_settlesCredit(t) ==
    CASE t.kind = "cancel" -> ledger[t.teacher].net[t.c]
      [] t.kind = "deactivate" -> ledger[t.teacher].credit[t.c]
      [] OTHER -> [avail  |-> -ledger[t.teacher].credit[t.c].frozen,
                   frozen |-> ledger[t.teacher].credit[t.c].frozen]

\* What the operation takes back: the SUM over the contract's ledger entries in
\* the wallet of the contract's teacher, as the request has read it.  cancel
\* reverses all of them, deactivate the ACTIVATION_CREDITs, and settlement
\* moves what is frozen to the available part.
Summed(t) ==
    CASE t.kind = "cancel" -> ledger[t.teacher].net[t.c]
      [] t.kind = "deactivate" -> ledger[t.teacher].credit[t.c]
      [] OTHER -> [avail  |-> -ledger[t.teacher].net[t.c].frozen,
                   frozen |-> ledger[t.teacher].net[t.c].frozen]

\* The SUM statement and the checks on its result.
SumEntries(w) ==
    LET t == txn[w]
        sum == Summed(t)
        nothing == IF t.kind \in {"cancel", "deactivate"} THEN sum = Zero
                   ELSE sum.frozen <= 0
        short == /\ t.kind \in {"cancel", "deactivate"}
                 /\ sum.avail > 0
                 /\ Available(t.snap) < sum.avail
                 /\ ~t.force
    IN  /\ t.step = "sum"
        /\ txn' = [txn EXCEPT ![w] =
             CASE nothing -> [t EXCEPT !.step =
                                IF t.kind = "forceComplete" THEN "failed" ELSE "finish"]
               [] ~nothing /\ short -> [t EXCEPT !.step = "failed"]
               [] OTHER -> Posting(
                    [t EXCEPT !.step = IF t.kind = "cancel" THEN "flush" ELSE "post"],
                    -(sum.avail + sum.frozen), Minus(sum))]
        /\ UNCHANGED <<committed, locks, begun>>

\* Mutant: record() selects the wallet without FOR UPDATE.
LockWallet_unlocked(w) ==
    /\ txn[w].step = "post"
    /\ Goto(w, "flush")
    /\ UNCHANGED <<committed, locks, begun>>

\* record(): SELECT ... FOR UPDATE of the wallet row.
LockWallet(w) ==
    /\ txn[w].step = "post"
    /\ walletLock[txn[w].teacher] = NoWorker
    /\ walletLock' = [walletLock EXCEPT ![txn[w].teacher] = w]
    /\ Goto(w, "flush")
    /\ UNCHANGED <<committed, rowLock, begun>>

\* record(): the flush that writes the entry and the row.  The entry's
\* foreign key takes a KEY SHARE lock on the contract row.
Flush(w) ==
    LET t == txn[w] IN
    /\ t.step = "flush"
    /\ ServiceAccepts(t) /\ DatabaseAccepts(t)
    /\ IF t.c \in Contracts
         THEN /\ CanLock(w, t.c, WantedMode(w))
              /\ rowLock' = [rowLock EXCEPT ![t.c][w] =
                               IF @ = "none" THEN WantedMode(w) ELSE @]
         ELSE UNCHANGED rowLock
    /\ Goto(w, "finish")
    /\ UNCHANGED <<committed, walletLock, begun>>

RefusePosting(w) ==
    /\ txn[w].step = "flush"
    /\ ~(ServiceAccepts(txn[w]) /\ DatabaseAccepts(txn[w]))
    /\ Fail(w)

-----------------------------------------------------------------------------
(* The last UPDATE of a transaction and its commit.                        *)

Released(w) ==
    /\ walletLock' = [p \in Teachers |->
                        IF walletLock[p] = w THEN NoWorker ELSE walletLock[p]]
    /\ rowLock' = [c \in Contracts |-> [rowLock[c] EXCEPT ![w] = "none"]]

\* Commit with row as the contract's new row.
Commit(w, row) ==
    LET t == txn[w] IN
    /\ wallet' = [wallet EXCEPT ![t.teacher] = NewRow(t)]
    /\ ledger' = [ledger EXCEPT ![t.teacher] =
                    Entered(@, t.c, t.post, t.kind = "activate")]
    /\ contract' = IF t.c \in Contracts THEN [contract EXCEPT ![t.c] = row]
                   ELSE contract
    /\ Released(w)
    /\ txn' = [txn EXCEPT ![w] = Idle]
    /\ UNCHANGED begun

Finishing(w, kinds) == txn[w].step = "finish" /\ txn[w].kind \in kinds

\* Payments and withdrawals have nothing left to write.
FinishPosting(w) ==
    /\ Finishing(w, {"payment", "withdraw"})
    /\ Commit(w, IF txn[w].c \in Contracts THEN contract[txn[w].c] ELSE <<>>)

\* Mutant: the status is set without the WHERE clause.
FinishActivate_unconditional(w) ==
    /\ Finishing(w, {"activate"})
    /\ Commit(w, [contract[txn[w].c] EXCEPT !.status = "ACTIVE", !.section = "active"])

\* UPDATE ... WHERE status = ASSIGNED; no row: ValueError.
FinishActivate(w) ==
    /\ Finishing(w, {"activate"})
    /\ IF contract[txn[w].c].status = "ASSIGNED"
         THEN Commit(w, [contract[txn[w].c] EXCEPT !.status = "ACTIVE",
                                                  !.section = "active"])
         ELSE Fail(w)

\* UPDATE ... WHERE status = GRADES_SUBMITTED matches the row this
\* transaction has itself moved there.
FinishComplete(w) ==
    /\ Finishing(w, {"complete", "forceComplete"})
    /\ Commit(w, [contract[txn[w].c] EXCEPT !.status = "SETTLED",
                                            !.section = "completed"])

\* UPDATE ... WHERE status = ACTIVE; no row: ValueError.
FinishCancel(w) ==
    /\ Finishing(w, {"cancel"})
    /\ CanLock(w, txn[w].c, WantedMode(w))
    /\ IF contract[txn[w].c].status = "ACTIVE"
         THEN Commit(w, [contract[txn[w].c] EXCEPT !.status = "CANCELLED",
                                                  !.section = "cancelled"])
         ELSE Fail(w)

\* Mutant: the contract goes back to DRAFT, which it never was in.
FinishDeactivate_draft(w) ==
    /\ Finishing(w, {"deactivate"})
    /\ CanLock(w, txn[w].c, WantedMode(w))
    /\ Commit(w, [contract[txn[w].c] EXCEPT !.section = "pending", !.status = "DRAFT"])

\* Mutant: the contract is left ACTIVE.
FinishDeactivate_sectionOnly(w) ==
    /\ Finishing(w, {"deactivate"})
    /\ CanLock(w, txn[w].c, WantedMode(w))
    /\ Commit(w, [contract[txn[w].c] EXCEPT !.section = "pending"])

\* contract.status = ASSIGNED, written by id whatever the row holds by now;
\* a contract that was not ACTIVE when it was read is left alone.
FinishDeactivate(w) ==
    LET row == [contract[txn[w].c] EXCEPT !.section = "pending"] IN
    /\ Finishing(w, {"deactivate"})
    /\ CanLock(w, txn[w].c, WantedMode(w))
    /\ Commit(w, IF txn[w].seen.status = "ACTIVE"
                   THEN [row EXCEPT !.status = "ASSIGNED"] ELSE row)

FinishAmend(w) ==
    /\ Finishing(w, {"amend"})
    /\ Commit(w, [contract[txn[w].c] EXCEPT !.fee = txn[w].amount])

\* Only the columns that differ from the row as read are written.
FinishAssign(w) ==
    /\ Finishing(w, {"assign"})
    /\ Commit(w, [contract[txn[w].c] EXCEPT
                    !.fee = IF txn[w].seen.fee = txn[w].amount THEN @ ELSE txn[w].amount,
                    !.status = IF txn[w].seen.status = "ASSIGNED" THEN @ ELSE "ASSIGNED",
                    !.teacher = IF txn[w].seen.teacher = txn[w].teacher
                                  THEN @ ELSE txn[w].teacher,
                    !.lecturer = IF txn[w].seen.lecturer = txn[w].teacher
                                   THEN @ ELSE txn[w].teacher])

FinishEdit(w) ==
    /\ Finishing(w, {"edit"})
    /\ Commit(w, [contract[txn[w].c] EXCEPT
                    !.lecturer = IF txn[w].seen.lecturer = txn[w].teacher
                                   THEN @ ELSE txn[w].teacher])

-----------------------------------------------------------------------------
(* The ends that do not commit.                                            *)

\* Mutant: the session goes back to the pool without a rollback.
Rollback_keepsLocks(w) ==
    /\ txn[w].step = "failed"
    /\ txn' = [txn EXCEPT ![w] = Idle]
    /\ UNCHANGED <<committed, locks, begun>>

\* get_db rolls back when the handler raises.
Rollback(w) ==
    /\ txn[w].step = "failed"
    /\ txn' = [txn EXCEPT ![w] = Idle]
    /\ Released(w)
    /\ UNCHANGED <<committed, begun>>

\* The worker or its connection dies: PostgreSQL rolls its transaction back.
Crash(w) ==
    /\ txn[w].step \notin {"idle", "failed"}
    /\ txn' = [txn EXCEPT ![w] = Idle]
    /\ Released(w)
    /\ UNCHANGED <<committed, begun>>

\* PostgreSQL's deadlock detector cancels a statement on a wait cycle.
DeadlockAbort(w) ==
    /\ \E S \in SUBSET Workers : w \in S /\ WaitCycle(S)
    /\ Fail(w)

-----------------------------------------------------------------------------
Init ==
    /\ wallet = [p \in Teachers |-> EmptyWallet]
    /\ ledger = [p \in Teachers |-> EmptyLedger]
    /\ contract \in [Contracts -> AssignedRows]
    /\ walletLock = [p \in Teachers |-> NoWorker]
    /\ rowLock = [c \in Contracts |-> [w \in Workers |-> "none"]]
    /\ txn = [w \in Workers |-> Idle]
    /\ begun = 0

Receive(w) ==
    \/ BeginPayment(w)  \/ BeginActivate(w)   \/ BeginComplete(w)
    \/ BeginCancel(w)   \/ BeginForceComplete(w) \/ BeginDeactivate(w)
    \/ BeginWithdraw(w) \/ BeginAmend(w)      \/ BeginAssign(w)
    \/ BeginEdit(w)

Finish(w) ==
    \/ FinishPosting(w)    \/ FinishActivate(w) \/ FinishComplete(w)
    \/ FinishCancel(w)     \/ FinishDeactivate(w)
    \/ FinishAmend(w)      \/ FinishAssign(w)   \/ FinishEdit(w)

\* A step of the transaction w has begun.
Step(w) ==
    \/ LockContract(w) \/ FetchWallet(w) \/ SumEntries(w) \/ LockWallet(w)
    \/ Flush(w) \/ RefusePosting(w) \/ Finish(w)
    \/ Rollback(w) \/ DeadlockAbort(w)

Next == \E w \in Workers : Receive(w) \/ Step(w) \/ Crash(w)

\* Workers run what they have begun; requests and crashes are not promised.
Spec == Init /\ [][Next]_vars /\ \A w \in Workers : WF_vars(Step(w))

-----------------------------------------------------------------------------
TypeOK ==
    /\ wallet \in [Teachers -> Row]
    /\ ledger \in [Teachers -> Ledger]
    /\ contract \in [Contracts -> ContractRow]
    /\ walletLock \in [Teachers -> Workers \cup {NoWorker}]
    /\ rowLock \in [Contracts -> [Workers -> LockMode]]
    /\ txn \in [Workers -> Txn]
    /\ begun \in 0 .. MaxTxns

-----------------------------------------------------------------------------
(* How far a teacher's wallet row is from the sum of its committed entries. *)
Drift(p) ==
    [balance |-> wallet[p].balance - (ledger[p].total.avail + ledger[p].total.frozen),
     frozen  |-> wallet[p].frozen - ledger[p].total.frozen]

Ends(w, kinds) == /\ Finishing(w, kinds)
                  /\ txn'[w].step = "idle"

\* A wallet row is the sum of its ledger entries.  record() keeps the two in
\* step as long as the row it adds to is the one it read.
WalletMatchesLedger == \A p \in Teachers : Drift(p) = [balance |-> 0, frozen |-> 0]

\* cancel_contract, create_expense and approve_amendment lock the wallet
\* before they read it, so whatever runs beside them their snapshot is still
\* the committed row when they check it and when they write it.
LockedSnapshotIsFresh ==
    \A w \in Workers, p \in Teachers :
        walletLock[p] = w /\ txn[w].kind \in LocksAtFetch => txn[w].snap = wallet[p]

\* An operation that locks the wallet before reading it never moves a wallet
\* away from its ledger, even when the others around it do.
LockedKindsAddNoDrift ==
    [][\A w \in Workers : Ends(w, LocksAtFetch)
            => \A p \in Teachers : Drift(p)' = Drift(p)]_vars

\* An ACTIVATION_CREDIT is committed only together with the contract's step
\* from ASSIGNED to ACTIVE, although activate_contract decides on a status
\* it read before it had the row lock: no activation is credited twice,
\* whoever the contract belongs to by then.
CreditOnlyByActivating ==
    [][\A p \in Teachers, c \in Contracts :
            ledger'[p].credit[c] # ledger[p].credit[c] =>
              contract[c].status = "ASSIGNED" /\ contract'[c].status = "ACTIVE"]_vars

\* The contract w commits as cancelled.
Cancels(w, c) == /\ Ends(w, {"cancel"}) /\ c = txn[w].c
                 /\ contract[c].status # "CANCELLED" /\ contract'[c].status = "CANCELLED"

\* When a contract becomes CANCELLED, its entries in the wallet of the teacher
\* cancel_contract has read sum to nothing: no entry of another request slips
\* in between its SUM and its commit.
CancelReversesAll ==
    [][\A w \in Workers, c \in Contracts :
         Cancels(w, c) => ledger'[txn[w].teacher].net[c] = Zero]_vars

\* When a contract becomes SETTLED, settle_contract has released all the
\* holdback its teacher has of it.  The sum may be below zero, because
\* deactivate_contract reverses the credits of earlier activations again;
\* settlement then leaves it.
SettlementReleasesHoldback ==
    [][\A c \in Contracts :
         contract[c].status # "SETTLED" /\ contract'[c].status = "SETTLED"
            => ledger'[contract[c].teacher].net[c].frozen <= 0]_vars

\* SETTLED and CANCELLED are final.
TerminalIsFinal ==
    [][\A c \in Contracts : contract[c].status \in {"SETTLED", "CANCELLED"}
            => contract'[c].status = contract[c].status]_vars

\* A cancelled contract holds no money of its teacher's.
CancelledHoldsNothing ==
    \A c \in Contracts : contract[c].status = "CANCELLED"
        => ledger[contract[c].teacher].net[c] = Zero

\* Cancelling a section reverses its contract's entries, those in the wallet
\* of a teacher it had before as well.
CancellationReversesEveryEntry ==
    \A c \in Contracts : contract[c].status = "CANCELLED"
        => \A p \in Teachers : ledger[p].net[c] = Zero

\* Every transaction ends and gives its locks back: no wait lasts for ever,
\* a wait cycle included.
EveryRequestEnds ==
    \A w \in Workers : txn[w].step # "idle" ~> txn[w].step = "idle"

\* Requests that do not overlap take effect one at a time: each behaves as the
\* single indivisible operation its caller was promised.
Atomic == INSTANCE AtomicLedger WITH
    wallet   <- wallet,
    ledger   <- ledger,
    contract <- contract

ImplementsAtomicLedger == Atomic!Spec

=============================================================================
