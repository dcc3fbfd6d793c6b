------------------------------- MODULE CashDay -------------------------------
(***************************************************************************)
(* One calendar day of the cash desk: the receipts, vouchers and refund    *)
(* receipts numbered on it, and its row in daily_closures.  Each request   *)
(* is one transaction; closing the day and taking a payment share the      *)
(* advisory lock 'daily_closure:<date>', the others do not take it.        *)
(*                                                                         *)
(* Committed state: closure, used, pending.  Locks: dateLock (advisory),   *)
(* closureLock (the daily_closures row), claimLock (pending_refunds rows). *)
(* A row lock held is a write not committed yet.                           *)
(***************************************************************************)
EXTENDS Naturals, FiniteSets, FiniteSetsExt

CONSTANTS
    Workers,        \* request handlers that run concurrently
    Refunds,        \* pending refunds waiting for the cashier
    Kinds,          \* which operations requests ask for
    MaxTxns,        \* bound on the requests of one behaviour
    NoWorker,       \* "nobody holds this lock"
    NoRefund        \* a request about no refund

Documents == {"payment", "expense", "refund"}
AllKinds  == Documents \cup {"close", "requestUnlock", "approve", "reject"}

ASSUME BoundAssumption == MaxTxns \in Nat
ASSUME KindsAssumption == Kinds \subseteq AllKinds
ASSUME DistinctAssumption == NoWorker \notin Workers /\ NoRefund \notin Refunds

VARIABLES closure, used, pending, dateLock, closureLock, claimLock, txn, begun

committed == <<closure, used, pending>>
locks     == <<dateLock, closureLock, claimLock>>
vars      == <<closure, used, pending, dateLock, closureLock, claimLock, txn, begun>>

\* "none" stands for a day without a row; the day is shut in Shut.
Closure == {"none", "pending", "closed", "unlock_requested"}
Shut    == {"closed", "unlock_requested"}
Steps   == {"idle", "check", "lock", "number", "claim", "insert", "write", "commit",
            "failed"}

Idle == [kind |-> "none", step |-> "idle", refund |-> NoRefund, number |-> 0]

Goto(w, step) == txn' = [txn EXCEPT ![w].step = step]
Fail(w)       == Goto(w, "failed") /\ UNCHANGED <<committed, locks, begun>>

-----------------------------------------------------------------------------
(* Requests.                                                               *)

\* close_day goes straight for the lock, the documents check the day first,
\* and the unlock operations read the row they are about.
FirstStep(kind) ==
    CASE kind = "close" -> "lock"
      [] kind \in {"approve", "reject"} -> "write"
      [] OTHER -> "check"

Receive(w) ==
    \E kind \in Kinds, r \in Refunds \cup {NoRefund} :
        /\ txn[w] = Idle
        /\ begun < MaxTxns
        /\ kind = "refund" <=> r # NoRefund
        /\ txn' = [txn EXCEPT ![w] = [Idle EXCEPT !.kind = kind, !.refund = r,
                                                  !.step = FirstStep(kind)]]
        /\ begun' = begun + 1
        /\ UNCHANGED <<committed, locks>>

\* is_date_closed; for request_unlock, the read of the row it will change.
\* Neither takes a lock.
Check(w) ==
    /\ txn[w].step = "check"
    /\ IF txn[w].kind = "requestUnlock"
         THEN IF closure = "closed" THEN Goto(w, "write") ELSE Goto(w, "failed")
         ELSE IF closure \in Shut THEN Goto(w, "failed")
              ELSE Goto(w, IF txn[w].kind = "payment" THEN "lock" ELSE "number")
    /\ UNCHANGED <<committed, locks, begun>>

\* Mutant: create_payment does not take the advisory lock.
LockDate_closeOnly(w) ==
    /\ txn[w].step = "lock"
    /\ IF txn[w].kind = "close"
         THEN dateLock = NoWorker /\ dateLock' = w /\ Goto(w, "write")
         ELSE UNCHANGED dateLock /\ Goto(w, "number")
    /\ UNCHANGED <<committed, closureLock, claimLock, begun>>

\* pg_advisory_xact_lock, held until the transaction ends.
LockDate(w) ==
    /\ txn[w].step = "lock"
    /\ dateLock = NoWorker
    /\ dateLock' = w
    /\ Goto(w, IF txn[w].kind = "close" THEN "write" ELSE "number")
    /\ UNCHANGED <<committed, closureLock, claimLock, begun>>

-----------------------------------------------------------------------------
(* Documents.                                                              *)

\* The numbers of this kind that transactions in flight have inserted.
InFlight(kind) ==
    {txn[v].number : v \in {u \in Workers : txn[u].kind = kind /\ txn[u].step = "commit"}}

\* Mutant: a sequence, which hands out numbers that may never be committed.
NextNumber_sequence(kind) ==
    1 + Max({0} \cup used[kind] \cup {txn[v].number : v \in {u \in Workers : txn[u].kind = kind}})

\* max(receipt_number) + 1 over the committed rows of the day.
NextNumber(kind) == 1 + Max({0} \cup used[kind])

ReadNumber(w) ==
    LET t == txn[w] IN
    /\ t.step = "number"
    /\ txn' = [txn EXCEPT ![w] = [t EXCEPT
                 !.number = NextNumber(t.kind),
                 !.step = IF t.kind = "refund" THEN "claim" ELSE "insert"]]
    /\ UNCHANGED <<committed, locks, begun>>

\* UPDATE pending_refunds ... WHERE status = UNCLAIMED; no row: ValueError.
\* It waits for a transaction that is changing the same row.
Claim(w) ==
    LET r == txn[w].refund IN
    /\ txn[w].step = "claim"
    /\ IF pending[r] # "UNCLAIMED" THEN Fail(w)
       ELSE /\ claimLock[r] = NoWorker
            /\ claimLock' = [claimLock EXCEPT ![r] = w]
            /\ Goto(w, "insert")
            /\ UNCHANGED <<committed, dateLock, closureLock, begun>>

\* The unique index on the number waits for a transaction that has inserted
\* the same one, and refuses it once it is committed.
Insert(w) ==
    LET t == txn[w] IN
    /\ t.step = "insert"
    /\ t.number \notin InFlight(t.kind)
    /\ IF t.number \in used[t.kind] THEN Goto(w, "failed") ELSE Goto(w, "commit")
    /\ UNCHANGED <<committed, locks, begun>>

-----------------------------------------------------------------------------
(* The daily_closures row.                                                 *)

\* Mutant: approve_unlock selects without FOR UPDATE.
WriteClosure_approveUnlocked(w) ==
    /\ txn[w].step = "write"
    /\ CASE txn[w].kind = "close" /\ closure = "closed" -> Fail(w)
         [] txn[w].kind = "reject" /\ closure # "unlock_requested"
              /\ (closure = "none" \/ closureLock = NoWorker) -> Fail(w)
         [] txn[w].kind = "approve" ->
              /\ IF closure = "unlock_requested" THEN Goto(w, "commit")
                 ELSE Goto(w, "failed")
              /\ UNCHANGED <<committed, locks, begun>>
         [] OTHER -> /\ closureLock = NoWorker
                     /\ closureLock' = w
                     /\ Goto(w, "commit")
                     /\ UNCHANGED <<committed, dateLock, claimLock, begun>>

\* close_day: UPDATE ... WHERE status <> closed, or else an INSERT, which a
\* closed day's row refuses.  approve and reject: SELECT ... FOR UPDATE, then
\* the status is looked at.  request_unlock: UPDATE by date, whatever the
\* status is by now.
WriteClosure(w) ==
    /\ txn[w].step = "write"
    /\ CASE txn[w].kind = "close" /\ closure = "closed" -> Fail(w)
         [] txn[w].kind \in {"approve", "reject"} /\ closure # "unlock_requested"
              /\ (closure = "none" \/ closureLock = NoWorker) -> Fail(w)
         [] OTHER -> /\ closureLock = NoWorker
                     /\ closureLock' = w
                     /\ Goto(w, "commit")
                     /\ UNCHANGED <<committed, dateLock, claimLock, begun>>

-----------------------------------------------------------------------------
(* The ends of a transaction.                                              *)

NewClosure(kind) ==
    CASE kind \in {"close", "reject"} -> "closed"
      [] kind = "requestUnlock" -> "unlock_requested"
      [] kind = "approve" -> "pending"
      [] OTHER -> closure

Free(lock, w) == IF lock = w THEN NoWorker ELSE lock

Released(w) ==
    /\ dateLock' = Free(dateLock, w)
    /\ closureLock' = Free(closureLock, w)
    /\ claimLock' = [r \in Refunds |-> Free(claimLock[r], w)]
    /\ txn' = [txn EXCEPT ![w] = Idle]
    /\ UNCHANGED begun

\* Mutant: the claim is committed whether or not the refund is inserted.
Rollback_keepsClaim(w) ==
    /\ txn[w].step = "failed"
    /\ pending' = [r \in Refunds |-> IF claimLock[r] = w THEN "CLAIMED" ELSE pending[r]]
    /\ Released(w)
    /\ UNCHANGED <<closure, used>>

\* Mutant: the advisory lock is one of the session, not of the transaction.
Rollback_keepsDateLock(w) ==
    /\ txn[w].step = "failed"
    /\ closureLock' = Free(closureLock, w)
    /\ claimLock' = [r \in Refunds |-> Free(claimLock[r], w)]
    /\ txn' = [txn EXCEPT ![w] = Idle]
    /\ UNCHANGED <<committed, dateLock, begun>>

\* get_db rolls back when the handler raises.
Rollback(w) ==
    /\ txn[w].step = "failed"
    /\ Released(w)
    /\ UNCHANGED committed

\* The worker or its connection dies.
Crash(w) ==
    /\ txn[w].step \notin {"idle", "failed"}
    /\ Released(w)
    /\ UNCHANGED committed

Commit(w) ==
    LET t == txn[w] IN
    /\ t.step = "commit"
    /\ closure' = NewClosure(t.kind)
    /\ used' = IF t.kind \in Documents
                 THEN [used EXCEPT ![t.kind] = @ \cup {t.number}] ELSE used
    /\ pending' = IF t.kind = "refund" THEN [pending EXCEPT ![t.refund] = "CLAIMED"]
                  ELSE pending
    /\ Released(w)

-----------------------------------------------------------------------------
Init ==
    /\ closure = "none"
    /\ used = [d \in Documents |-> {}]
    /\ pending = [r \in Refunds |-> "UNCLAIMED"]
    /\ dateLock = NoWorker
    /\ closureLock = NoWorker
    /\ claimLock = [r \in Refunds |-> NoWorker]
    /\ txn = [w \in Workers |-> Idle]
    /\ begun = 0

\* A step of the transaction w has begun.
Step(w) ==
    \/ Check(w) \/ LockDate(w) \/ ReadNumber(w) \/ Claim(w) \/ Insert(w)
    \/ WriteClosure(w) \/ Commit(w) \/ Rollback(w)

Next == \E w \in Workers : Receive(w) \/ Step(w) \/ Crash(w)

\* Workers run what they have begun; requests and crashes are not promised.
Spec == Init /\ [][Next]_vars /\ \A w \in Workers : WF_vars(Step(w))

-----------------------------------------------------------------------------
TypeOK ==
    /\ closure \in Closure
    /\ used \in [Documents -> SUBSET (1 .. MaxTxns)]
    /\ pending \in [Refunds -> {"UNCLAIMED", "CLAIMED"}]
    /\ dateLock \in Workers \cup {NoWorker}
    /\ closureLock \in Workers \cup {NoWorker}
    /\ claimLock \in [Refunds -> Workers \cup {NoWorker}]
    /\ txn \in [Workers -> [kind : AllKinds \cup {"none"}, step : Steps,
                            refund : Refunds \cup {NoRefund}, number : 0 .. MaxTxns]]
    /\ begun \in 0 .. MaxTxns

\* Whatever fails or collides, the numbers of a day leave no gap for the
\* manager to explain.
NumbersHaveNoGap ==
    \A d \in Documents : used[d] = 1 .. Cardinality(used[d])

\* The advisory lock makes the read of the last receipt number and the insert
\* of the next one indivisible: no payment is refused for its number.
ReceiptsNeverCollide ==
    \A w \in Workers : txn[w].kind = "payment" /\ txn[w].step = "insert"
        => txn[w].number \notin used["payment"] \cup InFlight("payment")

\* The claim of a pending refund and the refund it pays are one: as many are
\* claimed as there are refund receipts.
ClaimsMatchRefunds ==
    Cardinality({r \in Refunds : pending[r] = "CLAIMED"}) = Cardinality(used["refund"])

\* A shut day is opened again only while an unlock request is on it, even if
\* close_day and reject_unlock run beside approve_unlock.
ReopensOnRequest ==
    [][(closure \in Shut /\ closure' \notin Shut) => closure = "unlock_requested"]_vars

\* Every transaction ends: the locks are taken in an order without cycles, so
\* nobody waits for ever and no deadlock needs breaking.
EveryRequestEnds ==
    \A w \in Workers : txn[w].step # "idle" ~> txn[w].step = "idle"
=============================================================================
