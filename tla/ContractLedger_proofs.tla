----------------------- MODULE ContractLedger_proofs ------------------------
(* Proofs about ContractLedger for any number of workers, contracts, fees, *)
(* shares and withdrawals.                                                 *)
EXTENDS ContractLedger, TLAPS

(***************************************************************************)
(* The inductive invariant.  A wallet row is written only by the           *)
(* transaction that holds its lock, so what a transaction has established  *)
(* about the row while it held the lock is still so when it commits.       *)
(***************************************************************************)

\* w has the lock of the wallet its request works on.
HasLock(w) == walletLock[txn[w].teacher] = w

\* Whoever holds a wallet's lock works on that wallet and is past taking it.
LockHeldLate(w) ==
    \A p \in Teachers : walletLock[p] = w =>
        /\ p = txn[w].teacher
        /\ \/ txn[w].step \in {"flush", "finish", "failed"}
           \/ txn[w].step = "sum" /\ txn[w].kind = "cancel"

\* Nothing is flushed or committed to the wallet without its lock.
PostsUnderLock(w) ==
    txn[w].step \in {"flush", "finish"} /\ txn[w].post # Zero => HasLock(w)

\* cancel_contract holds the lock from its SUM on.
CancelsUnderLock(w) ==
    txn[w].kind = "cancel" /\ txn[w].step \in {"sum", "flush", "finish"}
        => HasLock(w)

\* record() locks the row only for those that have not locked it before.
LocksOnce(w) == txn[w].step = "post" => txn[w].kind \notin LocksAtFetch

\* The row the flush has written still meets the CHECK constraints.
StillAccepted(w) ==
    txn[w].step = "finish" /\ txn[w].post # Zero => DatabaseAccepts(txn[w])

\* What cancel_contract is about to post still takes everything back.
ReversalIsExact(w) ==
    txn[w].kind = "cancel" /\ txn[w].step \in {"flush", "finish"}
        => txn[w].post = Minus(ledger[txn[w].teacher].net[txn[w].c])

\* Only a withdrawal has no contract; a new fee is one a contract may have.
ArgumentsOK(w) ==
    /\ txn[w].step # "idle" => txn[w].teacher \in Teachers
    /\ txn[w].kind \notin {"none", "withdraw"} => txn[w].c \in Contracts
    /\ txn[w].kind \in {"amend", "assign"} => txn[w].amount \in Fees \cup {Percentage}
    /\ txn[w].kind = "none" => txn[w].step = "idle"

\* LockedSnapshotIsFresh, for one worker.
Fresh(w) ==
    \A p \in Teachers :
        walletLock[p] = w /\ txn[w].kind \in LocksAtFetch => txn[w].snap = wallet[p]

\* A reversal, a settlement or an amendment knows what to post only once it
\* has read what that depends on.
NothingYet(w) ==
    txn[w].step \in {"lock", "fetch", "sum"} /\ txn[w].post # Zero
        => \/ txn[w].kind \in {"payment", "activate", "withdraw"}
           \/ txn[w].kind = "amend" /\ txn[w].step = "fetch"

SumKinds(w) ==
    txn[w].step = "sum"
        => txn[w].kind \in {"complete", "forceComplete", "cancel", "deactivate"}

WorkerInv(w) ==
    /\ LockHeldLate(w) /\ PostsUnderLock(w) /\ CancelsUnderLock(w) /\ LocksOnce(w)
    /\ StillAccepted(w) /\ ReversalIsExact(w) /\ ArgumentsOK(w) /\ Fresh(w)
    /\ NothingYet(w) /\ SumKinds(w)

IInv == TypeOK /\ \A w \in Workers : WorkerInv(w)

-----------------------------------------------------------------------------
(* Facts about the data.                                                   *)

\* The entry that adds nothing is an entry.
LEMMA ZeroType == Zero \in Deltas
  BY DEF Zero, Deltas

\* Entries add up to entries.
LEMMA PlusType == ASSUME NEW d \in Deltas, NEW e \in Deltas PROVE Plus(d, e) \in Deltas
  BY DEF Plus, Deltas

\* Adding nothing leaves a sum as it was.
LEMMA PlusZero == ASSUME NEW d \in Deltas PROVE Plus(d, Zero) = d
  BY DEF Plus, Deltas, Zero

\* An entry and its reversal cancel out.
LEMMA PlusMinus == ASSUME NEW d \in Deltas PROVE Plus(d, Minus(d)) = Zero
  BY DEF Plus, Minus, Deltas, Zero

\* The reversal of an entry is an entry.
LEMMA MinusType == ASSUME NEW d \in Deltas PROVE Minus(d) \in Deltas
  BY DEF Minus, Deltas

\* Nothing reversed is nothing.
LEMMA MinusZero == Minus(Zero) = Zero
  BY DEF Minus, Zero

\* The 80/20 split of an amount is an entry.
LEMMA SplitType == ASSUME NEW a \in Int PROVE Split(a) \in Deltas
  BY DEF Split, Holdback, Deltas

\* Every amount a request can carry is a natural number.
LEMMA FeesNat == /\ Fees \cup {Percentage} \subseteq Nat
                 /\ Shares \subseteq Nat /\ Draws \subseteq Nat
  BY AmountsAssumption, DrawsAssumption DEF Percentage

\* A ledger stays a ledger when an entry is recorded.
LEMMA EnteredType ==
    ASSUME NEW l \in Ledger, NEW c, NEW d \in Deltas, NEW b
    PROVE  Entered(l, c, d, b) \in Ledger
  BY PlusType DEF Entered, Ledger

\* An entry of zero leaves every sum as it was.
LEMMA EnteredZero ==
    ASSUME NEW l \in Ledger, NEW c, NEW b
    PROVE  Entered(l, c, Zero, b) = l
  BY PlusZero DEF Entered, Ledger

\* The state of a worker without a request is a transaction state.
LEMMA IdleType == Idle \in Txn
  BY ZeroType DEF Idle, Txn, AllKinds, Steps, Status, Percentage, EmptyWallet, Row

-----------------------------------------------------------------------------
(* The steps the actions have in common.                                   *)

\* The invariant holds before the first request.
LEMMA InitIInv == Init => IInv
<1> SUFFICES ASSUME Init PROVE IInv
  OBVIOUS
<1>1. ledger \in [Teachers -> Ledger] /\ wallet \in [Teachers -> Row]
  BY ZeroType DEF Init, EmptyLedger, EmptyWallet, Ledger, Row
<1>2. contract \in [Contracts -> ContractRow]
  BY DEF Init, AssignedRows
<1>3. txn \in [Workers -> Txn]
  BY IdleType DEF Init
<1>4. TypeOK
  BY <1>1, <1>2, <1>3, BoundAssumption DEF Init, TypeOK, LockMode
<1>5. \A w \in Workers : WorkerInv(w)
  BY DistinctAssumption DEF Init, Idle, WorkerInv, LockHeldLate, PostsUnderLock,
     CancelsUnderLock, LocksOnce, StillAccepted, ReversalIsExact, ArgumentsOK, Fresh, NothingYet, SumKinds
<1> QED
  BY <1>4, <1>5 DEF IInv

\* A step of w that commits nothing, and gives nobody else w's wallet lock,
\* leaves what the invariant says of the other workers alone.
LEMMA OthersKept ==
    ASSUME IInv, NEW w \in Workers, NEW t,
           txn' = [txn EXCEPT ![w] = t], UNCHANGED committed,
           \A p \in Teachers : walletLock'[p] \in {walletLock[p], w, NoWorker}
    PROVE  \A v \in Workers \ {w} :
             (\A p \in Teachers : walletLock[p] = v => walletLock'[p] = v) => WorkerInv(v)'
<1> SUFFICES ASSUME NEW v \in Workers \ {w},
                    \A p \in Teachers : walletLock[p] = v => walletLock'[p] = v
             PROVE  WorkerInv(v)'
  OBVIOUS
<1>1. txn'[v] = txn[v] /\ wallet' = wallet /\ ledger' = ledger
  BY DEF IInv, TypeOK, committed
<1>2. WorkerInv(v) /\ \A p \in Teachers : walletLock'[p] = v <=> walletLock[p] = v
  BY DistinctAssumption DEF IInv
<1>3. txn[v].step # "idle" => (HasLock(v)' <=> HasLock(v))
  BY <1>1, <1>2 DEF WorkerInv, ArgumentsOK, HasLock
<1> QED
  BY <1>1, <1>2, <1>3 DEF WorkerInv, LockHeldLate, PostsUnderLock, CancelsUnderLock, LocksOnce,
     StillAccepted, ReversalIsExact, ArgumentsOK, Fresh, NothingYet, SumKinds, DatabaseAccepts, NewRow

\* A request that begins holds nothing and has written nothing.
LEMMA BeginKeeps ==
    ASSUME IInv, NEW w \in Workers, NEW t \in Txn, Begin(w, t),
           t.kind # "none", t.teacher \in Teachers,
           t.step \in {"lock", "fetch", "finish"},
           t.step = "finish" => t.kind # "cancel" /\ t.post = Zero,
           t.post = Zero \/ t.kind \in {"payment", "activate", "withdraw"},
           t.kind # "withdraw" => t.c \in Contracts,
           t.kind \in {"amend", "assign"} => t.amount \in Fees \cup {Percentage}
    PROVE  IInv'
<1>1. TypeOK'
  BY BoundAssumption DEF Begin, IInv, TypeOK, committed, locks
<1>2. \A p \in Teachers : walletLock[p] # w
  BY DEF Begin, IInv, WorkerInv, LockHeldLate, Idle
<1>3. WorkerInv(w)'
  <2>1. txn'[w] = t /\ walletLock' = walletLock
    BY DEF Begin, IInv, TypeOK, locks
  <2> QED
    BY <1>2, <2>1 DEF WorkerInv, LockHeldLate, PostsUnderLock, CancelsUnderLock,
       LocksOnce, StillAccepted, ReversalIsExact, ArgumentsOK, Fresh, NothingYet, SumKinds
<1>4. \A v \in Workers \ {w} : WorkerInv(v)'
  BY OthersKept DEF Begin, locks
<1> QED
  BY <1>1, <1>3, <1>4 DEF IInv

\* A transaction that fails keeps its locks until it is rolled back.
LEMMA FailKeeps ==
    ASSUME IInv, NEW w \in Workers, txn[w].step # "idle", Fail(w)
    PROVE  IInv'
<1> DEFINE t == [txn[w] EXCEPT !.step = "failed"]
<1>1. txn[w] \in Txn /\ t \in Txn /\ txn' = [txn EXCEPT ![w] = t]
  <2>1. txn[w] \in Txn
    BY DEF IInv, TypeOK
  <2>2. t \in Txn
    BY <2>1 DEF Txn, Steps
  <2>3. txn' = [txn EXCEPT ![w] = t]
    BY DEF Fail, Goto
  <2> QED
    BY <2>1, <2>2, <2>3
<1>2. TypeOK'
  BY <1>1 DEF Fail, IInv, TypeOK, committed, locks
<1>3. WorkerInv(w)'
  <2>1. /\ txn'[w].step = "failed" /\ txn'[w].kind = txn[w].kind
        /\ txn'[w].c = txn[w].c /\ txn'[w].amount = txn[w].amount
        /\ txn'[w].teacher = txn[w].teacher
        /\ txn'[w].snap = txn[w].snap
        /\ walletLock' = walletLock /\ wallet' = wallet
    BY <1>1 DEF IInv, TypeOK, Txn, Fail, committed, locks
  <2> QED
    BY <2>1 DEF IInv, WorkerInv, LockHeldLate, PostsUnderLock, CancelsUnderLock,
       LocksOnce, StillAccepted, ReversalIsExact, ArgumentsOK, Fresh, NothingYet, SumKinds
<1>4. \A v \in Workers \ {w} : WorkerInv(v)'
  BY <1>1, OthersKept DEF Fail, locks
<1> QED
  BY <1>2, <1>3, <1>4 DEF IInv

\* Releasing locks leaves a well-formed lock table.
LEMMA ReleasedType ==
    ASSUME TypeOK, NEW w \in Workers, Released(w)
    PROVE  /\ walletLock' \in [Teachers -> Workers \cup {NoWorker}]
           /\ \A p \in Teachers : /\ walletLock'[p] \in {walletLock[p], NoWorker}
                                 /\ walletLock'[p] # w
           /\ \A v \in Workers \ {w}, p \in Teachers : walletLock[p] = v => walletLock'[p] = v
           /\ rowLock' \in [Contracts -> [Workers -> LockMode]]
  BY DistinctAssumption DEF Released, TypeOK, LockMode

\* A worker without a transaction satisfies its part of the invariant.
LEMMA IdleKeeps ==
    ASSUME NEW w \in Workers, txn'[w] = Idle, \A p \in Teachers : walletLock'[p] # w
    PROVE  WorkerInv(w)'
  BY DEF WorkerInv, LockHeldLate, PostsUnderLock, CancelsUnderLock, LocksOnce,
     StillAccepted, ReversalIsExact, ArgumentsOK, Fresh, NothingYet, SumKinds, Idle

\* Rollback and Crash.
LEMMA AbortKeeps ==
    ASSUME IInv, NEW w \in Workers, Released(w), UNCHANGED <<committed, begun>>,
           txn' = [txn EXCEPT ![w] = Idle]
    PROVE  IInv'
<1>1. TypeOK'
  BY ReleasedType, IdleType DEF IInv, TypeOK, committed
<1>2. WorkerInv(w)'
  BY ReleasedType, IdleKeeps DEF IInv, TypeOK
<1>3. \A v \in Workers \ {w} : WorkerInv(v)'
  BY ReleasedType, OthersKept DEF IInv
<1> QED
  BY <1>1, <1>2, <1>3 DEF IInv

\* A commit writes a wallet only under the wallet's lock, so nobody else's
\* snapshot, checks or sums can have gone stale by it.
LEMMA CommitWrites ==
    ASSUME IInv, NEW w \in Workers, txn[w].step = "finish", NEW row, Commit(w, row)
    PROVE  /\ txn[w] \in Txn /\ txn[w].teacher \in Teachers
           /\ wallet' \in [Teachers -> Row] /\ ledger' \in [Teachers -> Ledger]
           /\ \A p \in Teachers \ {txn[w].teacher} :
                wallet'[p] = wallet[p] /\ ledger'[p] = ledger[p]
           /\ txn[w].post = Zero => wallet' = wallet /\ ledger' = ledger
           /\ txn[w].post # Zero => HasLock(w)
<1> DEFINE p == txn[w].teacher
<1>1. /\ txn[w] \in Txn /\ p \in Teachers
      /\ wallet \in [Teachers -> Row] /\ ledger \in [Teachers -> Ledger]
  BY DEF IInv, TypeOK, WorkerInv, ArgumentsOK
<1>2. /\ wallet' = [wallet EXCEPT ![p] = NewRow(txn[w])]
      /\ ledger' = [ledger EXCEPT ![p] =
                      Entered(ledger[p], txn[w].c, txn[w].post, txn[w].kind = "activate")]
  BY DEF Commit
<1>3. ledger' \in [Teachers -> Ledger]
  <2>1. Entered(ledger[p], txn[w].c, txn[w].post, txn[w].kind = "activate") \in Ledger
    BY <1>1, EnteredType DEF Txn
  <2> QED
    BY <1>1, <1>2, <2>1
<1>4. \A q \in Teachers \ {p} : wallet'[q] = wallet[q] /\ ledger'[q] = ledger[q]
  BY <1>1, <1>2
<1>5. CASE txn[w].post = Zero
  <2>1. NewRow(txn[w]) = wallet[p]
    BY <1>1, <1>5 DEF NewRow, Zero, Row
  <2>2. Entered(ledger[p], txn[w].c, txn[w].post, txn[w].kind = "activate") = ledger[p]
    BY <1>1, <1>5, EnteredZero
  <2>3. wallet' = wallet /\ ledger' = ledger
    BY <1>1, <1>2, <2>1, <2>2
  <2> QED
    BY <1>1, <1>5, <2>3
<1>6. CASE txn[w].post # Zero
  <2>1. HasLock(w)
    BY <1>6 DEF IInv, WorkerInv, PostsUnderLock
  <2>2. DatabaseAccepts(txn[w])
    BY <1>6 DEF IInv, WorkerInv, StillAccepted
  <2>3. NewRow(txn[w]) \in Row
    BY <1>1, <2>2 DEF DatabaseAccepts, NewRow, Row, Txn, Deltas
  <2>4. wallet' \in [Teachers -> Row]
    BY <1>1, <1>2, <2>3
  <2> QED
    BY <1>1, <1>3, <1>4, <1>6, <2>1, <2>4
<1> QED
  BY <1>5, <1>6

\* A commit of a transaction in its last step keeps the invariant.
LEMMA CommitKeeps ==
    ASSUME IInv, NEW w \in Workers, txn[w].step = "finish", NEW row, Commit(w, row),
           txn[w].c \in Contracts => row \in ContractRow
    PROVE  IInv'
<1>1. Released(w) /\ txn' = [txn EXCEPT ![w] = Idle]
  BY DEF Commit
<1>2. TypeOK'
  <2>1. contract' \in [Contracts -> ContractRow]
    BY DEF Commit, IInv, TypeOK
  <2>2. wallet' \in [Teachers -> Row] /\ ledger' \in [Teachers -> Ledger]
    BY CommitWrites
  <2>3. /\ walletLock' \in [Teachers -> Workers \cup {NoWorker}]
        /\ rowLock' \in [Contracts -> [Workers -> LockMode]]
    BY <1>1, ReleasedType DEF IInv
  <2>4. txn' \in [Workers -> Txn] /\ begun' \in 0 .. MaxTxns
    BY <1>1, IdleType DEF Commit, IInv, TypeOK
  <2> QED
    BY <2>1, <2>2, <2>3, <2>4 DEF TypeOK
<1>3. WorkerInv(w)'
  BY <1>1, ReleasedType, IdleKeeps DEF IInv, TypeOK
<1>4. ASSUME NEW v \in Workers \ {w} PROVE WorkerInv(v)'
  <2>1. txn'[v] = txn[v] /\ WorkerInv(v)
    BY <1>1 DEF IInv, TypeOK
  <2>2. \A p \in Teachers : walletLock'[p] = v <=> walletLock[p] = v
    BY <1>1, DistinctAssumption DEF Released
  <2>3. \A p \in Teachers : walletLock[p] = v => wallet'[p] = wallet[p] /\ ledger'[p] = ledger[p]
    BY CommitWrites DEF HasLock
  <2>4. txn[v].step # "idle" => txn[v].teacher \in Teachers /\ (HasLock(v)' <=> HasLock(v))
    BY <2>1, <2>2 DEF WorkerInv, ArgumentsOK, HasLock
  <2>5. LockHeldLate(v)' /\ PostsUnderLock(v)' /\ CancelsUnderLock(v)' /\ LocksOnce(v)'
    BY <2>1, <2>2, <2>4 DEF WorkerInv, LockHeldLate, PostsUnderLock, CancelsUnderLock, LocksOnce
  <2>6. StillAccepted(v)'
    <3>1. txn[v].step = "finish" /\ txn[v].post # Zero
            => wallet'[txn[v].teacher] = wallet[txn[v].teacher]
      BY <2>1, <2>3, <2>4 DEF WorkerInv, PostsUnderLock, HasLock
    <3> QED
      BY <2>1, <3>1 DEF WorkerInv, StillAccepted, DatabaseAccepts, NewRow
  <2>7. ReversalIsExact(v)'
    BY <2>1, <2>3, <2>4 DEF WorkerInv, ReversalIsExact, CancelsUnderLock, HasLock
  <2>8. ArgumentsOK(v)' /\ Fresh(v)' /\ NothingYet(v)' /\ SumKinds(v)'
    BY <2>1, <2>2, <2>3 DEF WorkerInv, ArgumentsOK, Fresh, NothingYet, SumKinds
  <2> QED
    BY <2>5, <2>6, <2>7, <2>8 DEF WorkerInv
<1> QED
  BY <1>2, <1>3, <1>4 DEF IInv

-----------------------------------------------------------------------------
(* The actions.                                                            *)

\* A request as its handler begins it is a transaction state.
LEMMA RequestType ==
    ASSUME IInv, NEW kind \in AllKinds, NEW step \in Steps, NEW c \in Contracts
    PROVE  /\ Request(kind, step, c) \in Txn
           /\ Request(kind, step, c).kind = kind
           /\ Request(kind, step, c).step = step
           /\ Request(kind, step, c).c = c
           /\ Request(kind, step, c).teacher \in Teachers
           /\ Request(kind, step, c).post = Zero
  BY IdleType DEF Request, Idle, Txn, IInv, TypeOK, ContractRow

\* A request on the wallet of a teacher the handler chooses.
LEMMA ForTeacher ==
    ASSUME NEW r \in Txn, NEW p \in Teachers
    PROVE  /\ [r EXCEPT !.teacher = p] \in Txn
           /\ [r EXCEPT !.teacher = p].teacher = p
           /\ [r EXCEPT !.teacher = p].kind = r.kind
           /\ [r EXCEPT !.teacher = p].step = r.step
           /\ [r EXCEPT !.teacher = p].c = r.c
           /\ [r EXCEPT !.teacher = p].seen = r.seen
           /\ [r EXCEPT !.teacher = p].post = r.post
  BY DEF Txn

\* A request that comes with an amount to post.
LEMMA PostingType ==
    ASSUME NEW r \in Txn, NEW total \in Int, NEW post \in Deltas
    PROVE  /\ Posting(r, total, post) \in Txn
           /\ Posting(r, total, post).kind = r.kind
           /\ Posting(r, total, post).step = r.step
           /\ Posting(r, total, post).c = r.c
           /\ Posting(r, total, post).teacher = r.teacher
           /\ Posting(r, total, post).amount = r.amount
           /\ Posting(r, total, post).snap = r.snap
           /\ Posting(r, total, post).post = post
  BY DEF Posting, Txn

\* Every handler begins its request in a state the invariant allows.
LEMMA ReceiveKeeps ==
    ASSUME IInv, NEW w \in Workers, Receive(w)
    PROVE  IInv'
<1> USE DEF AllKinds, Steps
<1>1. CASE BeginPayment(w)
  <2>1. PICK c \in Contracts, s \in Shares :
          Begin(w, Posting([Request("payment", "fetch", c) EXCEPT
                              !.teacher = contract[c].lecturer], s, Split(s)))
    BY <1>1 DEF BeginPayment
  <2>2. s \in Int /\ Split(s) \in Deltas
    BY SplitType, FeesNat
  <2>3. PICK p \in Teachers : p = contract[c].lecturer
    BY DEF IInv, TypeOK, ContractRow
  <2>4. PICK q \in Txn : /\ q = Request("payment", "fetch", c)
                         /\ q.kind = "payment" /\ q.step = "fetch" /\ q.c = c
    BY RequestType
  <2>5. PICK r : r = [q EXCEPT !.teacher = p]
    OBVIOUS
  <2>6. /\ r \in Txn /\ r.kind = "payment" /\ r.step = "fetch" /\ r.c = c
        /\ r.teacher \in Teachers
    BY <2>4, <2>5, ForTeacher
  <2>7. PICK u : u = Posting(r, s, Split(s))
    OBVIOUS
  <2>8. /\ u \in Txn /\ u.kind = "payment" /\ u.step = "fetch" /\ u.c = c
        /\ u.teacher \in Teachers
    BY <2>2, <2>6, <2>7, PostingType
  <2>9. Begin(w, u)
    BY <2>1, <2>3, <2>4, <2>5, <2>7
  <2> QED
    BY <2>8, <2>9, BeginKeeps
<1>2. CASE BeginActivate(w)
  <2>1. PICK c \in Contracts :
          Begin(w, Posting(Request("activate", "lock", c),
                           contract[c].fee, Split(contract[c].fee)))
    BY <1>2 DEF BeginActivate
  <2>2. contract[c].fee \in Int /\ Split(contract[c].fee) \in Deltas
    BY FeesNat, SplitType DEF IInv, TypeOK, ContractRow
  <2>3. PICK q \in Txn : /\ q = Request("activate", "lock", c)
                         /\ q.kind = "activate" /\ q.step = "lock" /\ q.c = c
                         /\ q.teacher \in Teachers
    BY RequestType
  <2>4. PICK u : u = Posting(q, contract[c].fee, Split(contract[c].fee))
    OBVIOUS
  <2>5. /\ u \in Txn /\ u.kind = "activate" /\ u.step = "lock" /\ u.c = c
        /\ u.teacher \in Teachers
    BY <2>2, <2>3, <2>4, PostingType
  <2>6. Begin(w, u)
    BY <2>1, <2>3, <2>4
  <2> QED
    BY <2>5, <2>6, BeginKeeps
<1>3. CASE BeginComplete(w)
  BY <1>3, RequestType, BeginKeeps DEF BeginComplete
<1>4. CASE BeginForceComplete(w)
  BY <1>4, RequestType, BeginKeeps DEF BeginForceComplete
<1>5. CASE BeginCancel(w)
  <2>1. PICK c \in Contracts, force \in BOOLEAN :
          Begin(w, [Request("cancel", "fetch", c) EXCEPT !.force = force])
    BY <1>5 DEF BeginCancel
  <2> DEFINE t == [Request("cancel", "fetch", c) EXCEPT !.force = force]
  <2>2. /\ t \in Txn /\ t.kind = "cancel" /\ t.step = "fetch" /\ t.c = c /\ t.post = Zero
        /\ t.teacher \in Teachers
    BY RequestType DEF Txn
  <2> QED
    BY <2>1, <2>2, BeginKeeps
<1>6. CASE BeginDeactivate(w)
  BY <1>6, RequestType, BeginKeeps DEF BeginDeactivate
<1>7. CASE BeginWithdraw(w)
  <2>1. PICK p \in Teachers, a \in Draws :
          Begin(w, Posting([Idle EXCEPT !.kind = "withdraw", !.step = "fetch",
                                        !.teacher = p, !.amount = a],
                           a, [avail |-> -a, frozen |-> 0]))
    BY <1>7 DEF BeginWithdraw
  <2>2. PICK r \in Txn :
          /\ r = [Idle EXCEPT !.kind = "withdraw", !.step = "fetch",
                              !.teacher = p, !.amount = a]
          /\ r.kind = "withdraw" /\ r.step = "fetch" /\ r.teacher \in Teachers
    <3>1. PICK r : r = [Idle EXCEPT !.kind = "withdraw", !.step = "fetch",
                                   !.teacher = p, !.amount = a]
      OBVIOUS
    <3>2. r \in Txn /\ r.kind = "withdraw" /\ r.step = "fetch" /\ r.teacher = p
      BY <3>1, FeesNat, IdleType DEF Txn
    <3> QED
      BY <3>1, <3>2
  <2>3. PICK total \in Int, d \in Deltas : total = a /\ d = [avail |-> -a, frozen |-> 0]
    <3>1. a \in Int /\ [avail |-> -a, frozen |-> 0] \in Deltas
      BY FeesNat DEF Deltas
    <3> QED
      BY <3>1
  <2>4. PICK u : u = Posting(r, total, d)
    OBVIOUS
  <2>5. /\ u \in Txn /\ u.kind = r.kind /\ u.step = r.step
        /\ u.teacher = r.teacher
    BY <2>4, PostingType
  <2>6. Begin(w, u)
    BY <2>1, <2>2, <2>3, <2>4
  <2>7. /\ u \in Txn /\ u.kind = "withdraw" /\ u.step = "fetch"
        /\ u.teacher \in Teachers
    BY <2>2, <2>5
  <2> QED
    BY <2>6, <2>7, BeginKeeps
<1>8. CASE BeginAmend(w)
  <2>1. PICK c \in Contracts, fee \in Fees :
          Begin(w, [Request("amend", "lock", c) EXCEPT !.amount = fee])
    BY <1>8 DEF BeginAmend
  <2> DEFINE t == [Request("amend", "lock", c) EXCEPT !.amount = fee]
  <2>2. /\ t \in Txn /\ t.kind = "amend" /\ t.step = "lock" /\ t.c = c
        /\ t.amount = fee /\ t.post = Zero /\ t.teacher \in Teachers
    BY RequestType, FeesNat DEF Txn
  <2> QED
    BY <2>1, <2>2, BeginKeeps
<1>9. CASE BeginAssign(w)
  <2>1. PICK c \in Contracts, p \in Teachers, fee \in Fees \cup {Percentage} :
          Begin(w, [Request("assign", "lock", c) EXCEPT !.teacher = p, !.amount = fee])
    BY <1>9 DEF BeginAssign
  <2>2. PICK q \in Txn : /\ q = Request("assign", "lock", c) /\ q.kind = "assign"
                         /\ q.step = "lock" /\ q.c = c /\ q.post = Zero
    BY RequestType
  <2>3. PICK t : t = [q EXCEPT !.teacher = p, !.amount = fee]
    OBVIOUS
  <2>4. /\ t \in Txn /\ t.kind = "assign" /\ t.step = "lock" /\ t.c = c
        /\ t.amount = fee /\ t.post = Zero /\ t.teacher \in Teachers
    BY <2>2, <2>3, FeesNat DEF Txn
  <2>5. Begin(w, t)
    BY <2>1, <2>2, <2>3
  <2> QED
    BY <2>4, <2>5, BeginKeeps
<1>10. CASE BeginEdit(w)
  <2>1. PICK c \in Contracts, p \in Teachers :
          Begin(w, [Request("edit", "finish", c) EXCEPT !.teacher = p])
    BY <1>10 DEF BeginEdit
  <2> DEFINE t == [Request("edit", "finish", c) EXCEPT !.teacher = p]
  <2>2. /\ t \in Txn /\ t.kind = "edit" /\ t.step = "finish" /\ t.c = c
        /\ t.post = Zero /\ t.teacher \in Teachers
    BY RequestType, ForTeacher
  <2> QED
    BY <2>1, <2>2, BeginKeeps
<1> QED
  BY <1>1, <1>2, <1>3, <1>4, <1>5, <1>6, <1>7, <1>8, <1>9, <1>10 DEF Receive

\* The lock a statement asks for is a lock mode.
LEMMA WantedModeType == ASSUME NEW w \in Workers PROVE WantedMode(w) \in LockMode
  BY DEF WantedMode, LockMode

\* Granting a mode on one contract row to one transaction leaves a lock table.
LEMMA GrantedType ==
    ASSUME NEW f \in [Contracts -> [Workers -> LockMode]], NEW c \in Contracts,
           NEW w \in Workers, NEW m \in LockMode
    PROVE  [f EXCEPT ![c][w] = IF @ = "none" THEN m ELSE @]
             \in [Contracts -> [Workers -> LockMode]]
  OBVIOUS

\* Locking the contract row keeps the invariant.
LEMMA LockContractKeeps ==
    ASSUME IInv, NEW w \in Workers, LockContract(w)
    PROVE  IInv'
<1> DEFINE t == txn[w]
           delta == t.amount - t.seen.fee
           u == txn'[w]
<1>1. t \in Txn /\ t.step = "lock" /\ WorkerInv(w)
  BY DEF LockContract, IInv, TypeOK
<1>2. delta \in Int /\ Magnitude(delta) \in Int /\ Split(delta) \in Deltas
  <2>1. t.amount \in Int /\ t.seen.fee \in Int
    BY <1>1, FeesNat DEF Txn
  <2> QED
    BY <2>1, SplitType DEF Magnitude
<1>3. [t EXCEPT !.step = "fetch"] \in Txn /\ [t EXCEPT !.step = "finish"] \in Txn
  BY <1>1 DEF Txn, Steps
<1>4. /\ u \in Txn /\ txn' = [txn EXCEPT ![w] = u]
      /\ u.kind = t.kind /\ u.c = t.c /\ u.amount = t.amount /\ u.snap = t.snap
      /\ u.teacher = t.teacher
      /\ \/ u.step = "fetch"
         \/ u.step = "finish" /\ u.kind \in {"amend", "assign"} /\ u.post = t.post
      /\ u.post = t.post \/ t.kind = "amend"
  <2>1. \/ u = [t EXCEPT !.step = "finish"] /\ t.kind \in {"amend", "assign"}
        \/ u = [t EXCEPT !.step = "fetch"]
        \/ /\ u = Posting([t EXCEPT !.step = "fetch"], Magnitude(delta), Split(delta))
           /\ t.kind = "amend"
    BY DEF LockContract, IInv, TypeOK
  <2>2. txn' = [txn EXCEPT ![w] = u]
    BY DEF LockContract, IInv, TypeOK
  <2> HIDE DEF u, delta
  <2>3. CASE u = [t EXCEPT !.step = "finish"] /\ t.kind \in {"amend", "assign"}
    BY <1>1, <1>3, <2>2, <2>3 DEF Txn
  <2>4. CASE u = [t EXCEPT !.step = "fetch"]
    BY <1>1, <1>3, <2>2, <2>4 DEF Txn
  <2>5. CASE /\ u = Posting([t EXCEPT !.step = "fetch"], Magnitude(delta), Split(delta))
             /\ t.kind = "amend"
    BY <1>1, <1>2, <1>3, <2>2, <2>5, PostingType DEF Txn
  <2> QED
    BY <2>1, <2>3, <2>4, <2>5
<1>5. UNCHANGED committed /\ walletLock' = walletLock
  BY DEF LockContract
<1>6. TypeOK'
  <2>1. rowLock' \in [Contracts -> [Workers -> LockMode]]
    BY WantedModeType DEF LockContract, IInv, TypeOK
  <2> QED
    BY <1>4, <1>5, <2>1 DEF LockContract, IInv, TypeOK, committed
<1>7. WorkerInv(w)'
  <2>1. wallet' = wallet /\ \A p \in Teachers : walletLock[p] # w
    BY <1>1, <1>5 DEF committed, WorkerInv, LockHeldLate
  <2>2. LockHeldLate(w)' /\ LocksOnce(w)' /\ SumKinds(w)'
    BY <1>4, <1>5, <2>1 DEF LockHeldLate, LocksOnce, SumKinds
  <2>3. u.step = "finish" => u.post = Zero
    BY <1>1, <1>4 DEF WorkerInv, NothingYet
  <2>4. PostsUnderLock(w)' /\ CancelsUnderLock(w)' /\ StillAccepted(w)' /\ ReversalIsExact(w)'
    BY <1>4, <2>3 DEF PostsUnderLock, CancelsUnderLock, StillAccepted, ReversalIsExact
  <2>5. ArgumentsOK(w)' /\ Fresh(w)'
    BY <1>1, <1>4, <1>5, <2>1 DEF ArgumentsOK, Fresh, WorkerInv
  <2>6. NothingYet(w)'
    BY <1>1, <1>4 DEF NothingYet, WorkerInv
  <2> QED
    BY <2>2, <2>4, <2>5, <2>6 DEF WorkerInv
<1>8. \A v \in Workers \ {w} : WorkerInv(v)'
  BY <1>4, <1>5, OthersKept
<1> QED
  BY <1>6, <1>7, <1>8 DEF IInv

\* get_or_create_wallet, with the lock or without, keeps the invariant.
LEMMA FetchWalletKeeps ==
    ASSUME IInv, NEW w \in Workers, FetchWallet(w)
    PROVE  IInv'
<1> DEFINE t == txn[w]
           u == txn'[w]
<1>1. /\ t \in Txn /\ t.step = "fetch" /\ WorkerInv(w) /\ t.teacher \in Teachers
      /\ \A p \in Teachers : walletLock[p] # w
  BY DEF FetchWallet, IInv, TypeOK, WorkerInv, LockHeldLate, ArgumentsOK
<1>2. /\ u \in Txn /\ txn' = [txn EXCEPT ![w] = u]
      /\ u.kind = t.kind /\ u.c = t.c /\ u.amount = t.amount /\ u.post = t.post
      /\ u.teacher = t.teacher /\ u.snap = wallet[t.teacher]
      /\ \/ u.step = "failed"
         \/ u.step = "sum" /\ t.kind \in {"complete", "forceComplete", "cancel", "deactivate"}
         \/ u.step = "post" /\ t.kind \in {"payment", "activate"}
         \/ u.step = "finish" /\ t.kind = "activate" /\ t.post = Zero
         \/ u.step = "flush" /\ t.kind \notin {"payment", "activate", "complete",
                                               "forceComplete", "cancel", "deactivate"}
  <2>1. PICK step \in Steps :
          /\ txn' = [txn EXCEPT ![w] = [t EXCEPT !.snap = wallet[t.teacher], !.step = step]]
          /\ \/ step = "failed"
             \/ step = "sum" /\ t.kind \in {"complete", "forceComplete", "cancel", "deactivate"}
             \/ step = "post" /\ t.kind \in {"payment", "activate"}
             \/ step = "finish" /\ t.kind = "activate" /\ t.post = Zero
             \/ step = "flush" /\ t.kind \notin {"payment", "activate", "complete",
                                                 "forceComplete", "cancel", "deactivate"}
    BY DEF FetchWallet, Steps
  <2>2. txn \in [Workers -> Txn] /\ wallet[t.teacher] \in Row
    BY <1>1 DEF IInv, TypeOK
  <2>3. u = [t EXCEPT !.snap = wallet[t.teacher], !.step = step]
    BY <2>1, <2>2
  <2>4. /\ u \in Txn /\ u.kind = t.kind /\ u.c = t.c /\ u.amount = t.amount
        /\ u.post = t.post /\ u.teacher = t.teacher /\ u.snap = wallet[t.teacher]
        /\ u.step = step
    BY <1>1, <2>2, <2>3 DEF Txn
  <2> QED
    BY <2>1, <2>3, <2>4
<1>3. UNCHANGED <<committed, rowLock, begun>>
  BY DEF FetchWallet
<1>4. /\ walletLock' = IF t.kind \in LocksAtFetch
                           THEN [walletLock EXCEPT ![t.teacher] = w] ELSE walletLock
      /\ t.kind \in LocksAtFetch => walletLock[t.teacher] = NoWorker
  BY DEF FetchWallet
<1>5. walletLock' \in [Teachers -> Workers \cup {NoWorker}]
  BY <1>4 DEF IInv, TypeOK
<1>6. TypeOK'
  BY <1>2, <1>3, <1>5 DEF IInv, TypeOK, committed
<1>7. WorkerInv(w)'
  <2>1. wallet' = wallet /\ txn'[w] = u
    BY <1>3 DEF committed
  <2>2. \A p \in Teachers : walletLock'[p] = w <=> p = t.teacher /\ t.kind \in LocksAtFetch
    BY <1>1, <1>4 DEF IInv, TypeOK
  <2>3. HasLock(w)' <=> t.kind \in LocksAtFetch
    BY <1>1, <1>2, <2>1, <2>2 DEF HasLock
  <2>4. LockHeldLate(w)' /\ LocksOnce(w)' /\ SumKinds(w)' /\ NothingYet(w)'
    BY <1>1, <1>2, <2>1, <2>2 DEF WorkerInv, LockHeldLate, LocksOnce, SumKinds, NothingYet,
       LocksAtFetch
  <2>5. PostsUnderLock(w)' /\ CancelsUnderLock(w)'
    BY <1>1, <1>2, <2>1, <2>3 DEF WorkerInv, PostsUnderLock, CancelsUnderLock, NothingYet,
       LocksAtFetch
  <2>6. StillAccepted(w)' /\ ReversalIsExact(w)'
    BY <1>1, <1>2, <2>1 DEF StillAccepted, ReversalIsExact
  <2>7. ArgumentsOK(w)' /\ Fresh(w)'
    BY <1>1, <1>2, <2>1, <2>2 DEF WorkerInv, ArgumentsOK, Fresh
  <2> QED
    BY <2>4, <2>5, <2>6, <2>7 DEF WorkerInv
<1>8. \A v \in Workers \ {w} : WorkerInv(v)'
  <2>1. \A p \in Teachers : walletLock'[p] \in {walletLock[p], w, NoWorker}
    BY <1>4 DEF IInv, TypeOK
  <2>2. \A v \in Workers \ {w}, p \in Teachers : walletLock[p] = v => walletLock'[p] = v
    BY <1>4, DistinctAssumption DEF IInv, TypeOK
  <2> QED
    BY <1>2, <1>3, <2>1, <2>2, OthersKept
<1> QED
  BY <1>6, <1>7, <1>8 DEF IInv

\* The SUM over the ledger entries keeps the invariant: under the wallet
\* lock it cannot go stale.
LEMMA SumEntriesKeeps ==
    ASSUME IInv, NEW w \in Workers, SumEntries(w)
    PROVE  IInv'
<1> DEFINE t == txn[w]
           u == txn'[w]
           sum == Summed(t)
           next == IF t.kind = "cancel" THEN "flush" ELSE "post"
<1>1. /\ t \in Txn /\ t.step = "sum" /\ WorkerInv(w) /\ t.c \in Contracts /\ t.post = Zero
      /\ t.teacher \in Teachers
      /\ t.kind \in {"complete", "forceComplete", "cancel", "deactivate"}
  BY DEF SumEntries, IInv, TypeOK, WorkerInv, SumKinds, ArgumentsOK, NothingYet
<1>2. sum \in Deltas /\ Minus(sum) \in Deltas /\ -(sum.avail + sum.frozen) \in Int
  <2>1. ledger[t.teacher].net[t.c] \in Deltas /\ ledger[t.teacher].credit[t.c] \in Deltas
    BY <1>1 DEF IInv, TypeOK, Ledger
  <2>2. sum \in Deltas
    <3>1. CASE t.kind = "cancel"
      BY <2>1, <3>1 DEF Summed
    <3>2. CASE t.kind = "deactivate"
      BY <2>1, <3>2 DEF Summed
    <3>3. CASE t.kind \notin {"cancel", "deactivate"}
      <4>1. PICK n \in Int : n = ledger[t.teacher].net[t.c].frozen
        BY <2>1 DEF Deltas
      <4>2. [avail |-> -n, frozen |-> n] \in Deltas
        BY <4>1 DEF Deltas
      <4>3. sum = [avail |-> -n, frozen |-> n]
        BY <3>3, <4>1 DEF Summed
      <4> QED
        BY <4>2, <4>3
    <3> QED
      BY <3>1, <3>2, <3>3
  <2> QED
    BY <2>2, MinusType DEF Deltas
<1>3. \/ u = [t EXCEPT !.step = "failed"]
      \/ u = [t EXCEPT !.step = "finish"] /\ (t.kind = "cancel" => sum = Zero)
      \/ u = Posting([t EXCEPT !.step = next], -(sum.avail + sum.frozen), Minus(sum))
  BY <1>1 DEF SumEntries, IInv, TypeOK
<1>4. UNCHANGED committed /\ UNCHANGED locks /\ UNCHANGED begun
      /\ txn' = [txn EXCEPT ![w] = u]
  BY DEF SumEntries, IInv, TypeOK
<1>5. \A s \in Steps : /\ [t EXCEPT !.step = s] \in Txn
                       /\ [t EXCEPT !.step = s].step = s
                       /\ [t EXCEPT !.step = s].kind = t.kind
                       /\ [t EXCEPT !.step = s].c = t.c
                       /\ [t EXCEPT !.step = s].teacher = t.teacher
                       /\ [t EXCEPT !.step = s].amount = t.amount
                       /\ [t EXCEPT !.step = s].snap = t.snap
                       /\ [t EXCEPT !.step = s].post = t.post
  BY <1>1 DEF Txn
<1> HIDE DEF u, sum
<1>6. /\ u \in Txn /\ u.kind = t.kind /\ u.c = t.c /\ u.amount = t.amount /\ u.snap = t.snap
      /\ u.teacher = t.teacher
      /\ \/ u.step = "failed"
         \/ u.step = "finish" /\ u.post = Zero /\ (t.kind = "cancel" => sum = Zero)
         \/ u.step = next /\ u.post = Minus(sum)
  <2>1. {"failed", "finish", next} \subseteq Steps
    BY DEF Steps
  <2> HIDE DEF next
  <2>2. CASE u = [t EXCEPT !.step = "failed"]
    BY <1>5, <2>1, <2>2
  <2>3. CASE u = [t EXCEPT !.step = "finish"] /\ (t.kind = "cancel" => sum = Zero)
    BY <1>1, <1>5, <2>1, <2>3
  <2>4. CASE u = Posting([t EXCEPT !.step = next], -(sum.avail + sum.frozen), Minus(sum))
    <3> DEFINE r == [t EXCEPT !.step = next]
    <3>1. /\ r \in Txn /\ r.kind = t.kind /\ r.step = next /\ r.c = t.c
          /\ r.amount = t.amount /\ r.snap = t.snap /\ r.teacher = t.teacher
      BY <1>5, <2>1
    <3>2. u = Posting(r, -(sum.avail + sum.frozen), Minus(sum))
      BY <2>4
    <3> HIDE DEF r
    <3>3. -(sum.avail + sum.frozen) \in Int /\ Minus(sum) \in Deltas
      BY <1>2
    <3> QED
      BY <3>1, <3>2, <3>3, PostingType
  <2> QED
    BY <1>3, <2>2, <2>3, <2>4
<1>7. t.kind = "cancel" => sum = ledger[t.teacher].net[t.c]
  BY DEF Summed, sum
<1>8. TypeOK'
  BY <1>4, <1>6 DEF IInv, TypeOK, committed, locks
<1>9. WorkerInv(w)'
  <2>1. wallet' = wallet /\ ledger' = ledger /\ walletLock' = walletLock
    BY <1>4 DEF committed, locks
  <2>2. u = txn'[w] /\ t = txn[w] /\ walletLock' = walletLock
    BY <2>1 DEF u
  <2>3. LockHeldLate(w)' /\ LocksOnce(w)' /\ SumKinds(w)' /\ NothingYet(w)'
    BY <1>1, <1>6, <2>2 DEF WorkerInv, LockHeldLate, LocksOnce, LocksAtFetch, SumKinds, NothingYet
  <2>4. PostsUnderLock(w)' /\ CancelsUnderLock(w)' /\ StillAccepted(w)'
    BY <1>1, <1>6, <2>2 DEF PostsUnderLock, CancelsUnderLock, StillAccepted, WorkerInv, HasLock
  <2>5. ReversalIsExact(w)'
    BY <1>6, <1>7, <2>1, <2>2, MinusZero DEF ReversalIsExact
  <2>6. ArgumentsOK(w)' /\ Fresh(w)'
    BY <1>1, <1>6, <2>1, <2>2 DEF ArgumentsOK, Fresh, WorkerInv
  <2> QED
    BY <2>3, <2>4, <2>5, <2>6 DEF WorkerInv
<1>10. \A v \in Workers \ {w} : WorkerInv(v)'
  BY <1>4, OthersKept DEF locks
<1> QED
  BY <1>8, <1>9, <1>10 DEF IInv

\* record()'s FOR UPDATE keeps the invariant.
LEMMA LockWalletKeeps ==
    ASSUME IInv, NEW w \in Workers, LockWallet(w)
    PROVE  IInv'
<1> DEFINE u == [txn[w] EXCEPT !.step = "flush"]
<1> DEFINE p == txn[w].teacher
<1>1. txn[w] \in Txn /\ txn[w].step = "post" /\ WorkerInv(w) /\ p \in Teachers
  BY DEF LockWallet, IInv, TypeOK, WorkerInv, ArgumentsOK
<1>2. /\ walletLock[p] = NoWorker /\ walletLock' = [walletLock EXCEPT ![p] = w]
      /\ txn' = [txn EXCEPT ![w] = u]
      /\ UNCHANGED <<committed, rowLock, begun>>
  BY DEF LockWallet, Goto
<1>3. /\ u \in Txn /\ u.kind = txn[w].kind /\ u.step = "flush" /\ u.c = txn[w].c
      /\ u.amount = txn[w].amount /\ u.snap = txn[w].snap /\ u.post = txn[w].post
      /\ u.teacher = p
  BY <1>1 DEF Txn, Steps
<1> HIDE DEF u
<1>4. TypeOK'
  BY <1>1, <1>2, <1>3 DEF IInv, TypeOK, committed
<1>5. WorkerInv(w)'
  <2>1. txn'[w] = u /\ txn[w].kind \notin LocksAtFetch /\ txn[w].kind # "cancel"
    BY <1>1, <1>2 DEF IInv, TypeOK, WorkerInv, LocksOnce, LocksAtFetch
  <2>2. \A q \in Teachers : walletLock'[q] = w <=> q = p
    BY <1>1, <1>2 DEF IInv, TypeOK, WorkerInv, LockHeldLate
  <2>3. LockHeldLate(w)' /\ PostsUnderLock(w)' /\ CancelsUnderLock(w)' /\ LocksOnce(w)'
    BY <1>1, <1>3, <2>1, <2>2 DEF LockHeldLate, PostsUnderLock, CancelsUnderLock, LocksOnce,
       HasLock
  <2>4. StillAccepted(w)' /\ ReversalIsExact(w)' /\ NothingYet(w)' /\ SumKinds(w)'
    BY <1>3, <2>1 DEF StillAccepted, ReversalIsExact, NothingYet, SumKinds
  <2>5. ArgumentsOK(w)' /\ Fresh(w)'
    BY <1>1, <1>3, <2>1 DEF ArgumentsOK, Fresh, WorkerInv
  <2> QED
    BY <2>3, <2>4, <2>5 DEF WorkerInv
<1>6. \A v \in Workers \ {w} : WorkerInv(v)'
  <2>1. /\ \A q \in Teachers : walletLock'[q] \in {walletLock[q], w, NoWorker}
        /\ \A v \in Workers, q \in Teachers : walletLock[q] = v => walletLock'[q] = v
    BY <1>1, <1>2, DistinctAssumption DEF IInv, TypeOK
  <2> QED
    BY <1>2, <2>1, OthersKept
<1> QED
  BY <1>4, <1>5, <1>6 DEF IInv

\* record()'s flush keeps the invariant.
LEMMA FlushKeeps ==
    ASSUME IInv, NEW w \in Workers, Flush(w)
    PROVE  IInv'
<1> DEFINE u == [txn[w] EXCEPT !.step = "finish"]
<1>1. txn[w] \in Txn /\ txn[w].step = "flush" /\ WorkerInv(w)
  BY DEF Flush, IInv, TypeOK
<1>2. /\ txn' = [txn EXCEPT ![w] = u] /\ DatabaseAccepts(txn[w])
      /\ UNCHANGED <<committed, walletLock, begun>>
  BY DEF Flush, Goto
<1>3. /\ u \in Txn /\ u.kind = txn[w].kind /\ u.step = "finish" /\ u.c = txn[w].c
      /\ u.amount = txn[w].amount /\ u.snap = txn[w].snap /\ u.post = txn[w].post
      /\ u.total = txn[w].total /\ u.teacher = txn[w].teacher
  BY <1>1 DEF Txn, Steps
<1> HIDE DEF u
<1>4. TypeOK'
  <2>1. rowLock' \in [Contracts -> [Workers -> LockMode]]
    <3>1. CASE txn[w].c \in Contracts
      <4>1. rowLock' = [rowLock EXCEPT ![txn[w].c][w] =
                          IF @ = "none" THEN WantedMode(w) ELSE @]
        BY <3>1 DEF Flush
      <4> QED
        BY <3>1, <4>1, WantedModeType, GrantedType DEF IInv, TypeOK
    <3>2. CASE txn[w].c \notin Contracts
      BY <3>2 DEF Flush, IInv, TypeOK
    <3> QED
      BY <3>1, <3>2
  <2> QED
    BY <1>2, <1>3, <2>1 DEF IInv, TypeOK, committed
<1>5. WorkerInv(w)'
  <2>1. txn'[w] = u /\ wallet' = wallet /\ ledger' = ledger /\ walletLock' = walletLock
    BY <1>2 DEF IInv, TypeOK, committed
  <2>2. LockHeldLate(w)' /\ PostsUnderLock(w)' /\ CancelsUnderLock(w)' /\ LocksOnce(w)'
    BY <1>1, <1>3, <2>1 DEF LockHeldLate, PostsUnderLock, CancelsUnderLock, LocksOnce, WorkerInv,
       HasLock
  <2>3. StillAccepted(w)'
    BY <1>2, <1>3, <2>1 DEF StillAccepted, DatabaseAccepts, NewRow
  <2>4. ReversalIsExact(w)' /\ NothingYet(w)' /\ SumKinds(w)'
    BY <1>1, <1>3, <2>1 DEF ReversalIsExact, NothingYet, SumKinds, WorkerInv
  <2>5. ArgumentsOK(w)' /\ Fresh(w)'
    BY <1>1, <1>3, <2>1 DEF ArgumentsOK, Fresh, WorkerInv
  <2> QED
    BY <2>2, <2>3, <2>4, <2>5 DEF WorkerInv
<1>6. \A v \in Workers \ {w} : WorkerInv(v)'
  BY <1>2, OthersKept
<1> QED
  BY <1>4, <1>5, <1>6 DEF IInv

\* The columns of a contract row that the code assigns keep it a contract row.
LEMMA RowMoves ==
    ASSUME NEW r \in ContractRow, NEW s \in Status, NEW k \in SectionStatus,
           NEW fee \in Fees \cup {Percentage}
    PROVE  /\ [r EXCEPT !.status = s] \in ContractRow
           /\ [r EXCEPT !.section = k] \in ContractRow
           /\ [r EXCEPT !.fee = fee] \in ContractRow
           /\ [r EXCEPT !.status = s, !.section = k] \in ContractRow
<1>1. [r EXCEPT !.status = s] \in ContractRow
  BY DEF ContractRow
<1>2. [r EXCEPT !.section = k] \in ContractRow
  BY DEF ContractRow
<1>3. [r EXCEPT !.fee = fee] \in ContractRow
  BY DEF ContractRow
<1>4. [r EXCEPT !.status = s, !.section = k] \in ContractRow
  BY DEF ContractRow
<1> QED
  BY <1>1, <1>2, <1>3, <1>4

\* What a finishing transaction commits, or that it fails.
LEMMA FinishCommits ==
    ASSUME IInv, NEW w \in Workers, Finish(w)
    PROVE  /\ txn[w].step = "finish"
           /\ \/ Fail(w)
              \/ \E row : /\ Commit(w, row)
                          /\ txn[w].c \in Contracts => row \in ContractRow
<1>1. /\ \A c \in Contracts : contract[c] \in ContractRow
      /\ txn[w] \in Txn
      /\ txn[w].kind \in {"amend", "assign"} => txn[w].amount \in Fees \cup {Percentage}
      /\ txn[w].step = "finish" => txn[w].teacher \in Teachers
  BY DEF IInv, TypeOK, WorkerInv, ArgumentsOK
<1> DEFINE old == contract[txn[w].c]
<1>2. CASE FinishPosting(w)
  <2> DEFINE row == IF txn[w].c \in Contracts THEN contract[txn[w].c] ELSE <<>>
  <2>1. txn[w].step = "finish" /\ (Commit(w, row))
    BY <1>2 DEF FinishPosting, Finishing
  <2>2. txn[w].c \in Contracts => row \in ContractRow
    BY <1>1
  <2> QED
    BY <2>1, <2>2
<1>3. CASE FinishActivate(w)
  <2> DEFINE row == [old EXCEPT !.status = "ACTIVE", !.section = "active"]
  <2>1. txn[w].step = "finish" /\ (Commit(w, row) \/ Fail(w))
    BY <1>3 DEF FinishActivate, Finishing
  <2>2. txn[w].c \in Contracts => row \in ContractRow
    BY <1>1, RowMoves DEF Status, SectionStatus
  <2> QED
    BY <2>1, <2>2
<1>4. CASE FinishComplete(w)
  <2> DEFINE row == [old EXCEPT !.status = "SETTLED", !.section = "completed"]
  <2>1. txn[w].step = "finish" /\ (Commit(w, row))
    BY <1>4 DEF FinishComplete, Finishing
  <2>2. txn[w].c \in Contracts => row \in ContractRow
    BY <1>1, RowMoves DEF Status, SectionStatus
  <2> QED
    BY <2>1, <2>2
<1>5. CASE FinishCancel(w)
  <2> DEFINE row == [old EXCEPT !.status = "CANCELLED", !.section = "cancelled"]
  <2>1. txn[w].step = "finish" /\ (Commit(w, row) \/ Fail(w))
    BY <1>5 DEF FinishCancel, Finishing
  <2>2. txn[w].c \in Contracts => row \in ContractRow
    BY <1>1, RowMoves DEF Status, SectionStatus
  <2> QED
    BY <2>1, <2>2
<1>6. CASE FinishDeactivate(w)
  <2> DEFINE row == IF txn[w].seen.status = "ACTIVE"
                   THEN [[old EXCEPT !.section = "pending"] EXCEPT !.status = "ASSIGNED"]
                   ELSE [old EXCEPT !.section = "pending"]
  <2>1. txn[w].step = "finish" /\ (Commit(w, row))
    BY <1>6 DEF FinishDeactivate, Finishing
  <2>2. txn[w].c \in Contracts => row \in ContractRow
    <3>1. SUFFICES ASSUME old \in ContractRow
                   PROVE  /\ [old EXCEPT !.section = "pending"] \in ContractRow
                          /\ [[old EXCEPT !.section = "pending"] EXCEPT !.status = "ASSIGNED"]
                               \in ContractRow
      BY <1>1
    <3>2. [old EXCEPT !.section = "pending"] \in ContractRow
      BY <3>1, RowMoves DEF SectionStatus, Status
    <3> QED
      BY <3>2, RowMoves DEF Status, SectionStatus
  <2> QED
    BY <2>1, <2>2
<1>7. CASE FinishAmend(w)
  <2> DEFINE row == [old EXCEPT !.fee = txn[w].amount]
  <2>1. txn[w].step = "finish" /\ (Commit(w, row))
    BY <1>7 DEF FinishAmend, Finishing
  <2>2. txn[w].c \in Contracts => row \in ContractRow
    BY <1>1, <1>7, RowMoves DEF FinishAmend, Finishing, Status, SectionStatus
  <2> QED
    BY <2>1, <2>2
<1>8. CASE FinishAssign(w)
  <2> DEFINE row == [old EXCEPT
                   !.fee = IF txn[w].seen.fee = txn[w].amount THEN @ ELSE txn[w].amount,
                   !.status = IF txn[w].seen.status = "ASSIGNED" THEN @ ELSE "ASSIGNED",
                   !.teacher = IF txn[w].seen.teacher = txn[w].teacher THEN @ ELSE txn[w].teacher,
                   !.lecturer = IF txn[w].seen.lecturer = txn[w].teacher
                                  THEN @ ELSE txn[w].teacher]
  <2>1. txn[w].step = "finish" /\ (Commit(w, row))
    BY <1>8 DEF FinishAssign, Finishing
  <2>2. txn[w].c \in Contracts => row \in ContractRow
    <3>1. txn[w].amount \in Fees \cup {Percentage} /\ txn[w].teacher \in Teachers
      BY <1>1, <1>8 DEF FinishAssign, Finishing
    <3>2. SUFFICES ASSUME old \in ContractRow PROVE row \in ContractRow
      BY <1>1
    <3>3. PICK fee \in Fees \cup {Percentage} :
            fee = IF txn[w].seen.fee = txn[w].amount THEN old.fee ELSE txn[w].amount
      BY <3>1, <3>2 DEF ContractRow
    <3>4. PICK status \in Status :
            status = IF txn[w].seen.status = "ASSIGNED" THEN old.status ELSE "ASSIGNED"
      BY <3>2 DEF ContractRow, Status
    <3>5. PICK teacher \in Teachers :
            teacher = IF txn[w].seen.teacher = txn[w].teacher THEN old.teacher ELSE txn[w].teacher
      BY <3>1, <3>2 DEF ContractRow
    <3>6. PICK lecturer \in Teachers :
            lecturer = IF txn[w].seen.lecturer = txn[w].teacher
                         THEN old.lecturer ELSE txn[w].teacher
      BY <3>1, <3>2 DEF ContractRow
    <3>7. row = [old EXCEPT !.fee = fee, !.status = status,
                            !.teacher = teacher, !.lecturer = lecturer]
      BY <3>3, <3>4, <3>5, <3>6
    <3> QED
      BY <3>2, <3>7 DEF ContractRow
  <2> QED
    BY <2>1, <2>2
<1>9. CASE FinishEdit(w)
  <2> DEFINE row == [old EXCEPT !.lecturer = IF txn[w].seen.lecturer = txn[w].teacher
                                               THEN @ ELSE txn[w].teacher]
  <2>1. txn[w].step = "finish" /\ (Commit(w, row))
    BY <1>9 DEF FinishEdit, Finishing
  <2>2. txn[w].c \in Contracts => row \in ContractRow
    BY <1>1, <2>1 DEF ContractRow
  <2> QED
    BY <2>1, <2>2
<1> QED
  BY <1>2, <1>3, <1>4, <1>5, <1>6, <1>7, <1>8, <1>9 DEF Finish

\* The invariant is inductive.
LEMMA NextKeeps == IInv /\ [Next]_vars => IInv'
<1> SUFFICES ASSUME IInv, [Next]_vars PROVE IInv'
  OBVIOUS
<1>1. CASE UNCHANGED vars
  <2>1. TypeOK'
    BY <1>1 DEF IInv, TypeOK, vars
  <2>2. ASSUME NEW v \in Workers PROVE WorkerInv(v)'
    BY <1>1 DEF IInv, vars, WorkerInv, LockHeldLate, PostsUnderLock, CancelsUnderLock,
       LocksOnce, StillAccepted, ReversalIsExact, ArgumentsOK, Fresh, NothingYet, SumKinds,
       DatabaseAccepts, NewRow, HasLock
  <2> QED
    BY <2>1, <2>2 DEF IInv
<1>2. ASSUME NEW w \in Workers, Receive(w) \/ Step(w) \/ Crash(w) PROVE IInv'
  <2>1. CASE Receive(w)
    BY <2>1, ReceiveKeeps
  <2>2. CASE LockContract(w)
    BY <2>2, LockContractKeeps
  <2>3. CASE FetchWallet(w)
    BY <2>3, FetchWalletKeeps
  <2>4. CASE SumEntries(w)
    BY <2>4, SumEntriesKeeps
  <2>5. CASE LockWallet(w)
    BY <2>5, LockWalletKeeps
  <2>6. CASE Flush(w)
    BY <2>6, FlushKeeps
  <2>7. CASE RefusePosting(w)
    BY <2>7, FailKeeps DEF RefusePosting
  <2>8. CASE Finish(w)
    BY <2>8, FinishCommits, FailKeeps, CommitKeeps
  <2>9. CASE Rollback(w) \/ Crash(w)
    BY <2>9, AbortKeeps DEF Rollback, Crash
  <2>10. CASE DeadlockAbort(w)
    <3>1. Blockers(w) # {}
      BY <2>10 DEF DeadlockAbort, WaitCycle
    <3>2. txn[w].step # "idle"
      BY <3>1 DEF Blockers, WantedMode, Compatible
    <3> QED
      BY <2>10, <3>2, FailKeeps DEF DeadlockAbort
  <2> QED
    BY <1>2, <2>1, <2>2, <2>3, <2>4, <2>5, <2>6, <2>7, <2>8, <2>9, <2>10 DEF Step
<1> QED
  BY <1>1, <1>2 DEF Next

-----------------------------------------------------------------------------
(* The theorems.                                                           *)

\* The invariant holds in every state of every behaviour.
LEMMA Invariance == Spec => []IInv
<1>1. Init => IInv
  BY InitIInv
<1>2. IInv /\ [Next]_vars => IInv'
  BY NextKeeps
<1> QED
  BY <1>1, <1>2, PTL DEF Spec

\* A wallet row never goes negative, its frozen part never exceeds it, and
\* every request and lock is in one of its states.
THEOREM TypeCorrect == Spec => []TypeOK
<1>1. IInv => TypeOK
  BY DEF IInv
<1> QED
  BY <1>1, Invariance, PTL

\* cancel_contract, create_expense and approve_amendment decide on the wallet
\* row as it is committed, however many requests run beside them.
THEOREM SnapshotsAreFresh == Spec => []LockedSnapshotIsFresh
<1>1. IInv => LockedSnapshotIsFresh
  BY DEF IInv, WorkerInv, Fresh, LockedSnapshotIsFresh
<1> QED
  BY <1>1, Invariance, PTL

\* Every step that changes committed state is the commit of one transaction.
LEMMA OnlyCommitsWrite ==
    ASSUME IInv, [Next]_vars, ~UNCHANGED committed
    PROVE  \E w \in Workers : /\ Finish(w) /\ txn[w].step = "finish"
                              /\ \E row : Commit(w, row)
<1>1. PICK w \in Workers : Receive(w) \/ Step(w) \/ Crash(w)
  BY DEF Next, vars, committed
<1>2. CASE Finish(w)
  BY <1>2, FinishCommits DEF Fail
<1>3. CASE ~Finish(w)
  <2>1. Receive(w) => UNCHANGED committed
    BY DEF Receive, BeginPayment, BeginActivate, BeginComplete, BeginForceComplete,
       BeginCancel, BeginDeactivate, BeginWithdraw, BeginAmend, BeginAssign, BeginEdit, Begin
  <2>2. Step(w) \/ Crash(w) => UNCHANGED committed
    BY <1>3 DEF Step, LockContract, FetchWallet, SumEntries, LockWallet, Flush,
       RefusePosting, Rollback, Crash, DeadlockAbort, Fail
  <2> QED
    BY <1>1, <2>1, <2>2
<1> QED
  BY <1>2, <1>3

\* An operation that locks the wallet before it reads it leaves the distance
\* between each wallet and its ledger as it found it.
LEMMA LockedCommitKeepsDrift ==
    ASSUME IInv, NEW w \in Workers, NEW row, Commit(w, row),
           Finishing(w, LocksAtFetch)
    PROVE  \A p \in Teachers : Drift(p)' = Drift(p)
<1> DEFINE t == txn[w]
           q == t.teacher
<1>1. t \in Txn /\ q \in Teachers /\ wallet[q] \in Row /\ ledger[q] \in Ledger
  BY DEF IInv, TypeOK, WorkerInv, ArgumentsOK, Finishing
<1>2. \A p \in Teachers \ {q} : Drift(p)' = Drift(p)
  <2>1. \A p \in Teachers \ {q} : wallet'[p] = wallet[p] /\ ledger'[p] = ledger[p]
    BY CommitWrites DEF Finishing
  <2> QED
    BY <2>1 DEF Drift
<1>3. CASE t.post = Zero
  BY <1>3, CommitWrites DEF Drift, Finishing
<1>4. CASE t.post # Zero
  <2>1. t.snap = wallet[q]
    BY <1>1, <1>4 DEF IInv, WorkerInv, PostsUnderLock, HasLock, Fresh, Finishing
  <2>2. wallet'[q] = NewRow(t) /\ ledger'[q] = Entered(ledger[q], t.c, t.post, t.kind = "activate")
    BY <1>1 DEF Commit, IInv, TypeOK
  <2>3. /\ wallet'[q].balance = wallet[q].balance + t.post.avail + t.post.frozen
        /\ wallet'[q].frozen = wallet[q].frozen + t.post.frozen
    BY <1>1, <2>1, <2>2 DEF NewRow, Txn, Row, Deltas
  <2>4. ledger'[q].total = Plus(ledger[q].total, t.post)
    BY <2>2 DEF Entered
  <2>5. /\ wallet[q].balance \in Nat /\ wallet[q].frozen \in Nat
        /\ ledger[q].total.avail \in Int /\ ledger[q].total.frozen \in Int
        /\ t.post.avail \in Int /\ t.post.frozen \in Int
    BY <1>1 DEF Txn, Row, Ledger, Deltas
  <2>6. /\ ledger'[q].total.avail = ledger[q].total.avail + t.post.avail
        /\ ledger'[q].total.frozen = ledger[q].total.frozen + t.post.frozen
    BY <2>4 DEF Plus
  <2>7. [balance |-> wallet'[q].balance - (ledger'[q].total.avail + ledger'[q].total.frozen),
         frozen  |-> wallet'[q].frozen - ledger'[q].total.frozen]
           = [balance |-> wallet[q].balance - (ledger[q].total.avail + ledger[q].total.frozen),
              frozen  |-> wallet[q].frozen - ledger[q].total.frozen]
    BY <2>3, <2>5, <2>6
  <2>8. \A p \in Teachers : p = q => Drift(p)' = Drift(p)
    BY <2>7 DEF Drift
  <2> QED
    BY <1>2, <2>8
<1> QED
  BY <1>3, <1>4

\* A step in which w ends by a change of committed state is w's own commit.
LEMMA EndsByCommit ==
    ASSUME IInv, [Next]_vars, ~UNCHANGED committed, NEW w \in Workers, NEW kinds,
           Ends(w, kinds)
    PROVE  Finish(w) /\ \E row : Commit(w, row)
<1>1. PICK v \in Workers : Finish(v) /\ \E row : Commit(v, row)
  BY OnlyCommitsWrite
<1>2. v = w
  BY <1>1 DEF Ends, Finishing, Commit, IInv, TypeOK
<1> QED
  BY <1>1, <1>2

\* cancel_contract, create_expense and approve_amendment never move a wallet
\* away from the sum of its ledger entries.
THEOREM LockedKindsKeepTheBooks == Spec => LockedKindsAddNoDrift
<1>1. ASSUME IInv, [Next]_vars, NEW w \in Workers, Ends(w, LocksAtFetch)
      PROVE  \A p \in Teachers : Drift(p)' = Drift(p)
  <2>1. CASE UNCHANGED committed
    BY <2>1 DEF committed, Drift
  <2>2. CASE ~UNCHANGED committed
    <3>1. PICK row : Commit(w, row)
      BY <1>1, <2>2, EndsByCommit
    <3> QED
      BY <1>1, <3>1, LockedCommitKeepsDrift DEF Ends
  <2> QED
    BY <2>1, <2>2
<1>2. IInv /\ [Next]_vars
        => [\A w \in Workers : Ends(w, LocksAtFetch)
              => \A p \in Teachers : Drift(p)' = Drift(p)]_vars
  BY <1>1
<1> QED
  BY <1>2, Invariance, PTL DEF Spec, LockedKindsAddNoDrift

\* The credit sums of a contract change only in the commit of an activation.
THEOREM ActivationsCreditOnce == Spec => CreditOnlyByActivating
<1>1. ASSUME IInv, [Next]_vars, NEW p \in Teachers, NEW c \in Contracts,
             ledger'[p].credit[c] # ledger[p].credit[c]
      PROVE  contract[c].status = "ASSIGNED" /\ contract'[c].status = "ACTIVE"
  <2>0. PICK w \in Workers : /\ Finish(w) /\ txn[w].step = "finish"
                            /\ \E row : Commit(w, row)
    BY <1>1, OnlyCommitsWrite DEF committed
  <2>1. PICK row : Commit(w, row) /\ Finish(w) /\ txn[w].step = "finish"
    BY <2>0
  <2>2. txn[w].kind = "activate" /\ txn[w].c = c
    <3>1. txn[w].teacher = p
      BY <1>1, <2>1, CommitWrites
    <3>2. ledger'[p] = Entered(ledger[p], txn[w].c, txn[w].post, txn[w].kind = "activate")
      BY <1>1, <2>1, <3>1 DEF Commit, IInv, TypeOK
    <3>3. ledger[p] \in Ledger
      BY <1>1 DEF IInv, TypeOK
    <3> QED
      BY <1>1, <3>2, <3>3 DEF Entered, Ledger
  <2>3. FinishActivate(w)
    BY <2>1, <2>2 DEF Finish, FinishPosting, FinishComplete, FinishCancel, FinishDeactivate,
       FinishAmend, FinishAssign, FinishEdit, Finishing
  <2>4. ~Fail(w)
    BY <1>1 DEF Fail, committed
  <2>5. /\ contract[c].status = "ASSIGNED"
        /\ Commit(w, [contract[c] EXCEPT !.status = "ACTIVE", !.section = "active"])
    BY <2>2, <2>3, <2>4 DEF FinishActivate
  <2>6. contract'[c] = [contract[c] EXCEPT !.status = "ACTIVE", !.section = "active"]
    BY <1>1, <2>2, <2>5 DEF Commit, IInv, TypeOK
  <2>7. contract[c] \in ContractRow
    BY <1>1 DEF IInv, TypeOK
  <2> QED
    BY <2>5, <2>6, <2>7 DEF ContractRow
<1>2. IInv /\ [Next]_vars
        => [\A p \in Teachers, c \in Contracts :
              ledger'[p].credit[c] # ledger[p].credit[c] =>
                contract[c].status = "ASSIGNED" /\ contract'[c].status = "ACTIVE"]_vars
  BY <1>1
<1> QED
  BY <1>2, Invariance, PTL DEF Spec, CreditOnlyByActivating

\* At the moment a contract is cancelled its entries in the wallet that
\* cancel_contract works on sum to nothing, whatever ran beside it.
THEOREM CancellationIsComplete == Spec => CancelReversesAll
<1>1. ASSUME IInv, [Next]_vars, NEW w \in Workers, NEW c \in Contracts, Cancels(w, c)
      PROVE  ledger'[txn[w].teacher].net[c] = Zero
  <2>1. PICK row : Commit(w, row)
    <3>1. ~UNCHANGED committed
      BY <1>1 DEF Cancels, committed
    <3> QED
      BY <1>1, <3>1, EndsByCommit DEF Cancels
  <2> DEFINE p == txn[w].teacher
  <2>2. /\ txn[w].step = "finish" /\ txn[w].kind = "cancel" /\ txn[w].c = c
        /\ p \in Teachers
    BY <1>1 DEF Cancels, Ends, Finishing, IInv, WorkerInv, ArgumentsOK
  <2>3. txn[w].post = Minus(ledger[p].net[c]) /\ ledger[p] \in Ledger
    BY <1>1, <2>2 DEF IInv, TypeOK, WorkerInv, ReversalIsExact
  <2>4. ledger'[p] = Entered(ledger[p], c, txn[w].post, txn[w].kind = "activate")
    BY <1>1, <2>1, <2>2 DEF Commit, IInv, TypeOK
  <2>5. ledger'[p].net[c] = Plus(ledger[p].net[c], txn[w].post)
    BY <1>1, <2>4 DEF Entered
  <2>6. ledger[p].net[c] \in Deltas
    BY <1>1, <2>3 DEF Ledger
  <2> QED
    BY <2>3, <2>5, <2>6, PlusMinus
<1>2. IInv /\ [Next]_vars
        => [\A w \in Workers, c \in Contracts :
              Cancels(w, c) => ledger'[txn[w].teacher].net[c] = Zero]_vars
  BY <1>1
<1> QED
  BY <1>2, Invariance, PTL DEF Spec, CancelReversesAll

(***************************************************************************)
(* The behaviours in which the requests of a teacher do not overlap, for   *)
(* any workers, contracts, fees and shares and any number of requests:     *)
(* each request is then one step of AtomicLedger, and what the atomic      *)
(* operations keep true is true of the committed state.                    *)
(***************************************************************************)

\* At most one transaction is in flight.
NoOverlap == \A v, w \in Workers : txn[v] # Idle /\ txn[w] # Idle => v = w

-----------------------------------------------------------------------------
(* What the atomic operations keep true.                                   *)

\* A contract's status and that of its section move together.
StatusFollowsSection ==
    \A c \in Contracts :
        /\ contract[c].section = "pending"   => contract[c].status = "ASSIGNED"
        /\ contract[c].section = "active"    => contract[c].status = "ACTIVE"
        /\ contract[c].section = "completed" => contract[c].status = "SETTLED"
        /\ contract[c].section = "cancelled" => contract[c].status = "CANCELLED"

\* The frozen part of a wallet is part of its balance.
FrozenIsCovered == \A p \in Teachers : Available(wallet[p]) >= 0

BooksOK ==
    /\ wallet \in [Teachers -> Row] /\ ledger \in [Teachers -> Ledger]
    /\ contract \in [Contracts -> ContractRow]
    /\ StatusFollowsSection /\ FrozenIsCovered
    /\ WalletMatchesLedger /\ CancelledHoldsNothing

\* The data of the two specifications are the same.
LEMMA SameData ==
    /\ Atomic!Zero = Zero /\ Atomic!Row = Row /\ Atomic!Percentage = Percentage
    /\ \A a : Atomic!Split(a) = Split(a)
    /\ \A d : Atomic!Minus(d) = Minus(d)
    /\ \A r : Atomic!Available(r) = Available(r)
    /\ \A l, c, d, b : Atomic!Entered(l, c, d, b) = Entered(l, c, d, b)
  BY DEF Atomic!Zero, Zero, Atomic!Row, Row, Atomic!Percentage, Percentage, Atomic!Split, Split,
     Atomic!Holdback, Holdback, Atomic!Minus, Minus, Atomic!Available, Available,
     Atomic!Entered, Entered, Atomic!Plus, Plus

\* The wallet row of p with an entry d added to it.
Written(p, d) == [balance |-> wallet[p].balance + d.avail + d.frozen,
                  frozen  |-> wallet[p].frozen + d.frozen]

\* What the step of an atomic operation does, in the terms of this module.
LEMMA PostIs ==
    ASSUME NEW p, NEW c, NEW d, NEW b, NEW row
    PROVE  Atomic!Post(p, c, d, b, row) <=>
              /\ Written(p, d) \in Row /\ Available(Written(p, d)) >= 0
              /\ wallet' = [wallet EXCEPT ![p] = Written(p, d)]
              /\ ledger' = [ledger EXCEPT ![p] = Entered(ledger[p], c, d, b)]
              /\ contract' = [contract EXCEPT ![c] = row]
  BY SameData DEF Atomic!Post, Written

\* The row of a section in one of its states.
Follows(row) ==
    /\ row.section = "pending"   => row.status = "ASSIGNED"
    /\ row.section = "active"    => row.status = "ACTIVE"
    /\ row.section = "completed" => row.status = "SETTLED"
    /\ row.section = "cancelled" => row.status = "CANCELLED"

\* The wallet of a cancelled contract's teacher has nothing of it left.
Clears(p, c, d, row) ==
    row.status = "CANCELLED" => row.teacher = p /\ Plus(ledger[p].net[c], d) = Zero

\* Such a step with an entry d, a credit or not.
Posted(p, c, d, row) == \E b \in BOOLEAN : Atomic!Post(p, c, d, b, row)

\* An entry that leaves a cancelled contract without money keeps the books.
LEMMA PostKeepsBooks ==
    ASSUME BooksOK, NEW p \in Teachers, NEW c \in Contracts, NEW d \in Deltas,
           NEW row \in ContractRow, Posted(p, c, d, row),
           Follows(row), Clears(p, c, d, row)
    PROVE  /\ BooksOK'
           /\ ledger'[p].net[c] = Plus(ledger[p].net[c], d) /\ contract'[c] = row
           /\ \A k \in Contracts \ {c} : contract'[k] = contract[k]
<1>0. PICK b \in BOOLEAN : Atomic!Post(p, c, d, b, row)
  BY DEF Posted
<1>1. /\ Written(p, d) \in Row /\ Available(Written(p, d)) >= 0
      /\ wallet' = [wallet EXCEPT ![p] = Written(p, d)]
      /\ ledger' = [ledger EXCEPT ![p] = Entered(ledger[p], c, d, b)]
      /\ contract' = [contract EXCEPT ![c] = row]
  BY <1>0, PostIs
<1>2. /\ wallet \in [Teachers -> Row] /\ ledger \in [Teachers -> Ledger]
      /\ contract \in [Contracts -> ContractRow]
      /\ wallet[p] \in Row /\ ledger[p] \in Ledger
      /\ ledger[p].total \in Deltas /\ \A k \in Contracts : ledger[p].net[k] \in Deltas
  BY DEF BooksOK, Ledger
<1>3. ledger' \in [Teachers -> Ledger] /\ contract' \in [Contracts -> ContractRow]
  BY <1>1, <1>2, EnteredType
<1>4. /\ wallet'[p] = Written(p, d) /\ ledger'[p] = Entered(ledger[p], c, d, b)
      /\ \A q \in Teachers \ {p} : wallet'[q] = wallet[q] /\ ledger'[q] = ledger[q]
  BY <1>1, <1>2
<1>5. /\ ledger'[p].net[c] = Plus(ledger[p].net[c], d)
      /\ \A k \in Contracts \ {c}, q \in Teachers : ledger'[q].net[k] = ledger[q].net[k]
      /\ ledger'[p].total = Plus(ledger[p].total, d)
  BY <1>4 DEF Entered
<1>6. contract'[c] = row /\ \A k \in Contracts \ {c} : contract'[k] = contract[k]
  BY <1>1, <1>2
<1>7. StatusFollowsSection'
  BY <1>6 DEF BooksOK, StatusFollowsSection, Follows
<1>8. FrozenIsCovered'
  BY <1>1, <1>4 DEF BooksOK, FrozenIsCovered
<1>9. CancelledHoldsNothing'
  <2>1. ASSUME NEW k \in Contracts, contract'[k].status = "CANCELLED"
        PROVE  ledger'[contract'[k].teacher].net[k] = Zero
    <3>1. CASE k = c
      BY <1>5, <1>6, <2>1, <3>1 DEF Clears
    <3>2. CASE k # c
      BY <1>2, <1>5, <1>6, <2>1, <3>2 DEF BooksOK, CancelledHoldsNothing, ContractRow
    <3> QED
      BY <3>1, <3>2
  <2> QED
    BY <2>1 DEF CancelledHoldsNothing
<1>10. WalletMatchesLedger'
  <2>1. /\ wallet[p].balance - (ledger[p].total.avail + ledger[p].total.frozen) = 0
        /\ wallet[p].frozen - ledger[p].total.frozen = 0
    BY DEF BooksOK, WalletMatchesLedger, Drift
  <2>2. /\ wallet[p].balance \in Nat /\ wallet[p].frozen \in Nat
        /\ ledger[p].total.avail \in Int /\ ledger[p].total.frozen \in Int
        /\ d.avail \in Int /\ d.frozen \in Int
    BY <1>2 DEF Row, Deltas
  <2>3. /\ wallet'[p].balance = wallet[p].balance + d.avail + d.frozen
        /\ wallet'[p].frozen = wallet[p].frozen + d.frozen
        /\ ledger'[p].total.avail = ledger[p].total.avail + d.avail
        /\ ledger'[p].total.frozen = ledger[p].total.frozen + d.frozen
    BY <1>4, <1>5 DEF Plus, Written
  <2>4. /\ wallet'[p].balance - (ledger'[p].total.avail + ledger'[p].total.frozen) = 0
        /\ wallet'[p].frozen - ledger'[p].total.frozen = 0
    BY <2>1, <2>2, <2>3
  <2>5. Drift(p)' = [balance |-> 0, frozen |-> 0]
    BY <2>4 DEF Drift
  <2>6. \A q \in Teachers \ {p} : Drift(q)' = [balance |-> 0, frozen |-> 0]
    BY <1>4 DEF BooksOK, WalletMatchesLedger, Drift
  <2> QED
    BY <2>5, <2>6 DEF WalletMatchesLedger
<1>11. wallet' \in [Teachers -> Row]
  BY <1>1, <1>2
<1> QED
  BY <1>3, <1>5, <1>6, <1>7, <1>8, <1>9, <1>10, <1>11 DEF BooksOK

\* What one atomic operation on c may do to c.
Moves(c) ==
    /\ contract[c].status \in {"SETTLED", "CANCELLED"}
           => contract'[c].status = contract[c].status
    /\ contract[c].status # "SETTLED" /\ contract'[c].status = "SETTLED"
           => ledger'[contract[c].teacher].net[c].frozen <= 0

\* A contract in one of its rows.
LEMMA RowOf ==
    ASSUME BooksOK, NEW c \in Contracts
    PROVE  /\ contract[c] \in ContractRow /\ Follows(contract[c])
           /\ contract[c].fee \in Fees \cup {Percentage} /\ contract[c].fee \in Nat
           /\ contract[c].teacher \in Teachers /\ contract[c].lecturer \in Teachers
           /\ \A p \in Teachers : /\ ledger[p].net[c] \in Deltas
                                  /\ ledger[p].credit[c] \in Deltas
                                  /\ ledger[p].net[c].frozen \in Int
           /\ contract[c].status = "CANCELLED" => ledger[contract[c].teacher].net[c] = Zero
<1>1. contract[c] \in ContractRow /\ \A p \in Teachers : ledger[p] \in Ledger
  BY DEF BooksOK
<1>2. /\ contract[c].fee \in Fees \cup {Percentage} /\ contract[c].fee \in Nat
      /\ contract[c].teacher \in Teachers /\ contract[c].lecturer \in Teachers
  BY <1>1, FeesNat DEF ContractRow
<1>3. Follows(contract[c])
  BY DEF BooksOK, StatusFollowsSection, Follows
<1>4. \A p \in Teachers : /\ ledger[p].net[c] \in Deltas
                          /\ ledger[p].credit[c] \in Deltas
                          /\ ledger[p].net[c].frozen \in Int
  BY <1>1 DEF Ledger, Deltas
<1>5. contract[c].status = "CANCELLED" => ledger[contract[c].teacher].net[c] = Zero
  BY DEF BooksOK, CancelledHoldsNothing
<1> QED
  BY <1>1, <1>2, <1>3, <1>4, <1>5

\* The row of a contract that changes its state.
LEMMA MovedRow ==
    ASSUME BooksOK, NEW c \in Contracts, NEW status \in Status, NEW section \in SectionStatus
    PROVE  \E row \in ContractRow :
             /\ row = [contract[c] EXCEPT !.status = status, !.section = section]
             /\ row.status = status /\ row.section = section
             /\ row.teacher = contract[c].teacher
<1>1. PICK row : row = [contract[c] EXCEPT !.status = status, !.section = section]
  OBVIOUS
<1>2. /\ row \in ContractRow /\ row.status = status /\ row.section = section
      /\ row.teacher = contract[c].teacher
  BY <1>1, RowOf DEF ContractRow
<1> QED
  BY <1>1, <1>2

\* A payment.
LEMMA PayKeeps ==
    ASSUME BooksOK, NEW c \in Contracts, Atomic!Pay(c)
    PROVE  BooksOK' /\ Moves(c) /\ \A k \in Contracts \ {c} : contract'[k] = contract[k]
<1>1. PICK s \in Shares : Atomic!Post(contract[c].lecturer, c, Split(s), FALSE, contract[c])
  BY SameData DEF Atomic!Pay
<1>2. PICK p \in Teachers, d \in Deltas, row \in ContractRow :
        p = contract[c].lecturer /\ d = Split(s) /\ row = contract[c]
  BY FeesNat, SplitType, RowOf
<1>3. contract[c].section # "cancelled"
  BY DEF Atomic!Pay
<1>4. Follows(row) /\ Clears(p, c, d, row)
  BY <1>2, <1>3, RowOf DEF Follows, Clears, ContractRow, SectionStatus
<1>5. Posted(p, c, d, row)
  BY <1>1, <1>2 DEF Posted
<1>6. /\ BooksOK' /\ contract'[c] = row
      /\ \A k \in Contracts \ {c} : contract'[k] = contract[k]
  BY <1>4, <1>5, PostKeepsBooks
<1> QED
  BY <1>2, <1>6 DEF Moves

\* An activation.
LEMMA ActivateKeeps ==
    ASSUME BooksOK, NEW c \in Contracts, Atomic!Activate(c)
    PROVE  BooksOK' /\ Moves(c) /\ \A k \in Contracts \ {c} : contract'[k] = contract[k]
<1>1. PICK row \in ContractRow :
        /\ row = [contract[c] EXCEPT !.status = "ACTIVE", !.section = "active"]
        /\ row.status = "ACTIVE" /\ row.section = "active"
        /\ row.teacher = contract[c].teacher
  BY MovedRow DEF Status, SectionStatus
<1>2. PICK p \in Teachers, d \in Deltas : p = contract[c].teacher /\ d = Split(contract[c].fee)
  BY SplitType, RowOf
<1>3. contract[c].status = "ASSIGNED" /\ Atomic!Post(p, c, d, TRUE, row)
  BY <1>1, <1>2, SameData DEF Atomic!Activate
<1>4. Follows(row) /\ Clears(p, c, d, row)
  BY <1>1 DEF Follows, Clears
<1>5. Posted(p, c, d, row)
  BY <1>3 DEF Posted
<1>6. /\ BooksOK' /\ contract'[c] = row
      /\ \A k \in Contracts \ {c} : contract'[k] = contract[k]
  BY <1>4, <1>5, PostKeepsBooks
<1> QED
  BY <1>1, <1>3, <1>6 DEF Moves

\* A settlement.
LEMMA SettleKeeps ==
    ASSUME BooksOK, NEW c \in Contracts, Atomic!Settle(c)
    PROVE  BooksOK' /\ Moves(c) /\ \A k \in Contracts \ {c} : contract'[k] = contract[k]
<1>1. PICK row : row = [contract[c] EXCEPT !.status = "SETTLED", !.section = "completed"]
  OBVIOUS
<1>2. PICK p \in Teachers : p = contract[c].teacher
  BY RowOf
<1>3. PICK held \in Int : held = ledger[p].net[c].frozen
  BY RowOf
<1>4. PICK d : d = IF held > 0 THEN [avail |-> held, frozen |-> -held] ELSE Zero
  OBVIOUS
<1>5. contract[c].status = "ACTIVE" /\ Atomic!Post(p, c, d, FALSE, row)
  BY <1>1, <1>2, <1>3, <1>4, SameData DEF Atomic!Settle
<1>6. d \in Deltas
  BY <1>4, ZeroType DEF Deltas
<1>7. row \in ContractRow /\ row.status = "SETTLED" /\ row.section = "completed"
  BY <1>1, RowOf DEF ContractRow, Status, SectionStatus
<1>8. Follows(row) /\ Clears(p, c, d, row)
  BY <1>7 DEF Follows, Clears
<1>9. Plus(ledger[p].net[c], d).frozen <= 0
  <2>1. CASE held > 0
    BY <1>3, <1>4, <2>1 DEF Plus
  <2>2. CASE ~(held > 0)
    BY <1>3, <1>4, <2>2 DEF Plus, Zero
  <2> QED
    BY <2>1, <2>2
<1>10. Posted(p, c, d, row)
  BY <1>5 DEF Posted
<1>11. /\ BooksOK' /\ contract'[c] = row
       /\ ledger'[p].net[c] = Plus(ledger[p].net[c], d)
       /\ \A k \in Contracts \ {c} : contract'[k] = contract[k]
  BY <1>6, <1>7, <1>8, <1>10, PostKeepsBooks
<1> QED
  BY <1>2, <1>5, <1>9, <1>11 DEF Moves

\* A cancellation.
LEMMA CancelKeeps ==
    ASSUME BooksOK, NEW c \in Contracts, Atomic!Cancel(c)
    PROVE  BooksOK' /\ Moves(c) /\ \A k \in Contracts \ {c} : contract'[k] = contract[k]
<1>1. PICK row \in ContractRow :
        /\ row = [contract[c] EXCEPT !.status = "CANCELLED", !.section = "cancelled"]
        /\ row.status = "CANCELLED" /\ row.section = "cancelled"
        /\ row.teacher = contract[c].teacher
  BY MovedRow DEF Status, SectionStatus
<1>2. PICK p \in Teachers : p = contract[c].teacher
  BY RowOf
<1>3. PICK d \in Deltas : d = Minus(ledger[p].net[c]) /\ Plus(ledger[p].net[c], d) = Zero
  BY RowOf, MinusType, PlusMinus
<1>4. contract[c].status = "ACTIVE" /\ Atomic!Post(p, c, d, FALSE, row)
  BY <1>1, <1>2, <1>3, SameData DEF Atomic!Cancel
<1>5. Follows(row)
  BY <1>1 DEF Follows
<1>6. Clears(p, c, d, row)
  BY <1>1, <1>2, <1>3 DEF Clears
<1>7. Posted(p, c, d, row)
  BY <1>4 DEF Posted
<1>8. /\ BooksOK' /\ contract'[c] = row
      /\ \A k \in Contracts \ {c} : contract'[k] = contract[k]
  BY <1>5, <1>6, <1>7, PostKeepsBooks
<1> QED
  BY <1>1, <1>4, <1>8 DEF Moves

\* A deactivation.
LEMMA DeactivateKeeps ==
    ASSUME BooksOK, NEW c \in Contracts, Atomic!Deactivate(c)
    PROVE  BooksOK' /\ Moves(c) /\ \A k \in Contracts \ {c} : contract'[k] = contract[k]
<1>1. PICK row : row = [contract[c] EXCEPT !.status = "ASSIGNED", !.section = "pending"]
  OBVIOUS
<1>2. PICK p \in Teachers : p = contract[c].teacher
  BY RowOf
<1>3. PICK d \in Deltas : d = Minus(ledger[p].credit[c])
  BY RowOf, MinusType
<1>4. contract[c].status = "ACTIVE" /\ Atomic!Post(p, c, d, FALSE, row)
  BY <1>1, <1>2, <1>3, SameData DEF Atomic!Deactivate
<1>5. row \in ContractRow /\ row.status = "ASSIGNED" /\ row.section = "pending"
  BY <1>1, RowOf DEF ContractRow, Status, SectionStatus
<1>6. Follows(row) /\ Clears(p, c, d, row)
  BY <1>5 DEF Follows, Clears
<1>7. Posted(p, c, d, row)
  BY <1>4 DEF Posted
<1>8. /\ BooksOK' /\ contract'[c] = row
      /\ \A k \in Contracts \ {c} : contract'[k] = contract[k]
  BY <1>5, <1>6, <1>7, PostKeepsBooks
<1> QED
  BY <1>4, <1>5, <1>8 DEF Moves

\* An approved amendment.
LEMMA AmendKeeps ==
    ASSUME BooksOK, NEW c \in Contracts, Atomic!Amend(c)
    PROVE  BooksOK' /\ Moves(c) /\ \A k \in Contracts \ {c} : contract'[k] = contract[k]
<1>1. PICK p \in Teachers : p = contract[c].teacher
  BY RowOf
<1>2. PICK fee \in Fees :
        Atomic!Post(p, c, IF contract[c].status = "ACTIVE" THEN Split(fee - contract[c].fee)
                          ELSE Zero, FALSE, [contract[c] EXCEPT !.fee = fee])
  BY <1>1, SameData DEF Atomic!Amend
<1>3. PICK row \in ContractRow :
        /\ row = [contract[c] EXCEPT !.fee = fee]
        /\ row.status = contract[c].status /\ row.section = contract[c].section
        /\ row.teacher = contract[c].teacher
  <2>1. PICK row : row = [contract[c] EXCEPT !.fee = fee]
    OBVIOUS
  <2>2. /\ row \in ContractRow
        /\ row.status = contract[c].status /\ row.section = contract[c].section
        /\ row.teacher = contract[c].teacher
    BY <2>1, RowOf DEF ContractRow
  <2> QED
    BY <2>1, <2>2
<1>4. PICK d \in Deltas :
        d = IF contract[c].status = "ACTIVE" THEN Split(fee - contract[c].fee) ELSE Zero
  <2>1. fee - contract[c].fee \in Int
    BY RowOf, FeesNat
  <2> QED
    BY <2>1, SplitType, ZeroType
<1>5. Posted(p, c, d, row)
  BY <1>2, <1>3, <1>4 DEF Posted
<1>6. Follows(row)
  BY <1>3, RowOf DEF Follows
<1>7. Clears(p, c, d, row)
  BY <1>1, <1>3, <1>4, RowOf, PlusZero, ZeroType DEF Clears
<1>8. /\ BooksOK' /\ contract'[c] = row
      /\ \A k \in Contracts \ {c} : contract'[k] = contract[k]
  BY <1>5, <1>6, <1>7, PostKeepsBooks
<1> QED
  BY <1>3, <1>8 DEF Moves

\* A new assignment: money stays where it is, and no cancelled contract moves.
LEMMA AssignKeeps ==
    ASSUME BooksOK, NEW c \in Contracts, Atomic!Assign(c)
    PROVE  BooksOK' /\ Moves(c) /\ \A k \in Contracts \ {c} : contract'[k] = contract[k]
<1>1. PICK p \in Teachers, fee \in Fees \cup {Percentage} :
        Atomic!Post(p, c, Zero, FALSE, [contract[c] EXCEPT
          !.fee = fee, !.status = "ASSIGNED", !.teacher = p, !.lecturer = p])
  BY SameData DEF Atomic!Assign
<1>2. contract[c].section = "pending" /\ contract[c].status = "ASSIGNED"
  BY RowOf DEF Atomic!Assign, Follows
<1>3. PICK row \in ContractRow :
        /\ row = [contract[c] EXCEPT
             !.fee = fee, !.status = "ASSIGNED", !.teacher = p, !.lecturer = p]
        /\ row.status = "ASSIGNED" /\ row.section = "pending"
  <2>1. PICK row : row = [contract[c] EXCEPT
          !.fee = fee, !.status = "ASSIGNED", !.teacher = p, !.lecturer = p]
    OBVIOUS
  <2>2. row \in ContractRow /\ row.status = "ASSIGNED" /\ row.section = "pending"
    BY <1>2, <2>1, RowOf DEF ContractRow, Status
  <2> QED
    BY <2>1, <2>2
<1>4. PICK d \in Deltas : d = Zero
  BY ZeroType
<1>5. Follows(row) /\ Clears(p, c, d, row)
  BY <1>3 DEF Follows, Clears
<1>6. Posted(p, c, d, row)
  BY <1>1, <1>3, <1>4 DEF Posted
<1>7. /\ BooksOK' /\ contract'[c] = row
      /\ \A k \in Contracts \ {c} : contract'[k] = contract[k]
  BY <1>5, <1>6, PostKeepsBooks
<1> QED
  BY <1>2, <1>3, <1>7 DEF Moves

\* Another teacher for the section alone.
LEMMA EditKeeps ==
    ASSUME BooksOK, NEW c \in Contracts, Atomic!Edit(c)
    PROVE  BooksOK' /\ Moves(c) /\ \A k \in Contracts \ {c} : contract'[k] = contract[k]
<1>1. PICK p \in Teachers :
        Atomic!Post(p, c, Zero, FALSE, [contract[c] EXCEPT !.lecturer = p])
  BY SameData DEF Atomic!Edit
<1>2. contract[c].section = "pending" /\ contract[c].status = "ASSIGNED"
  BY RowOf DEF Atomic!Edit, Follows
<1>3. PICK row \in ContractRow :
        /\ row = [contract[c] EXCEPT !.lecturer = p]
        /\ row.status = "ASSIGNED" /\ row.section = "pending"
  <2>1. PICK row : row = [contract[c] EXCEPT !.lecturer = p]
    OBVIOUS
  <2>2. row \in ContractRow /\ row.status = "ASSIGNED" /\ row.section = "pending"
    BY <1>2, <2>1, RowOf DEF ContractRow
  <2> QED
    BY <2>1, <2>2
<1>4. PICK d \in Deltas : d = Zero
  BY ZeroType
<1>5. Follows(row) /\ Clears(p, c, d, row)
  BY <1>3 DEF Follows, Clears
<1>6. Posted(p, c, d, row)
  BY <1>1, <1>3, <1>4 DEF Posted
<1>7. /\ BooksOK' /\ contract'[c] = row
      /\ \A k \in Contracts \ {c} : contract'[k] = contract[k]
  BY <1>5, <1>6, PostKeepsBooks
<1> QED
  BY <1>2, <1>3, <1>7 DEF Moves

\* Every atomic operation keeps the books, leaves what is final alone and
\* settles without a remainder.
LEMMA AtomicKeeps ==
    ASSUME BooksOK, Atomic!Next
    PROVE  BooksOK' /\ \A c \in Contracts : Moves(c)
<1>1. PICK c \in Contracts :
        \/ Atomic!Pay(c)    \/ Atomic!Activate(c)   \/ Atomic!Settle(c) \/ Atomic!Cancel(c)
        \/ Atomic!Amend(c)  \/ Atomic!Deactivate(c) \/ Atomic!Assign(c) \/ Atomic!Edit(c)
  BY DEF Atomic!Next
<1>2. BooksOK' /\ Moves(c) /\ \A k \in Contracts \ {c} : contract'[k] = contract[k]
  BY <1>1, PayKeeps, ActivateKeeps, SettleKeeps, CancelKeeps, AmendKeeps, DeactivateKeeps,
     AssignKeeps, EditKeeps
<1>3. \A k \in Contracts \ {c} : Moves(k)
  BY <1>2 DEF Moves
<1> QED
  BY <1>2, <1>3

-----------------------------------------------------------------------------
(***************************************************************************)
(* The inductive invariant.  A request reads, computes and writes in many  *)
(* steps; as nothing commits in between, what it has read is still there   *)
(* when it commits, and what it posts is what the atomic operation posts.  *)
(***************************************************************************)

\* The contract row as a request reads it.
RowAsRead(c) == [status   |-> contract[c].status,  fee      |-> contract[c].fee,
                 teacher  |-> contract[c].teacher, lecturer |-> contract[c].lecturer]

\* The contract is as the request has read it.
SeenIsCurrent(t) == t.kind \notin {"none", "withdraw"} => t.seen = RowAsRead(t.c)

\* A payment works on the wallet of who teaches the section, the rest on that
\* of the contract's teacher.
WorksOn(t) ==
    /\ t.kind = "payment" => t.teacher = contract[t.c].lecturer
    /\ t.kind \in {"activate", "complete", "forceComplete", "cancel", "deactivate", "amend"}
         => t.teacher = contract[t.c].teacher

\* The wallet is as the request has read it, from the read to the commit.
SnapIsCurrent(t) ==
    /\ t.step \in {"sum", "post", "flush"}      => t.snap = wallet[t.teacher]
    /\ t.step = "finish" /\ t.post # Zero       => t.snap = wallet[t.teacher]

\* What the handler has checked first still holds.
MayGoOn(t) ==
    /\ t.kind = "payment"    => contract[t.c].section # "cancelled"
    /\ t.kind = "activate"   => contract[t.c].status = "ASSIGNED"
    /\ t.kind \in {"complete", "forceComplete"} => contract[t.c].status = "ACTIVE"
    /\ t.kind = "deactivate" => contract[t.c].section = "active"
    /\ t.kind = "amend"      => contract[t.c].fee # Percentage /\ t.amount \in Fees
    /\ t.kind \in {"assign", "edit"} => contract[t.c].section = "pending"

\* The holdback that a settlement releases from p's wallet.
Release(p, c) ==
    IF ledger[p].net[c].frozen > 0
      THEN [avail |-> ledger[p].net[c].frozen, frozen |-> -ledger[p].net[c].frozen] ELSE Zero

\* The request posts what it should, once it has worked it out.
PostIsDue(t) ==
    /\ t.kind = "payment"  => \E s \in Shares : t.post = Split(s)
    /\ t.kind = "activate" => t.post = Split(contract[t.c].fee)
    /\ t.kind = "withdraw" => /\ t.post = [avail |-> -t.amount, frozen |-> 0]
                              /\ t.total = t.amount /\ t.amount > 0
    /\ t.kind \in {"assign", "edit"} => t.post = Zero
    /\ t.kind \in {"complete", "forceComplete"} /\ t.step \in {"post", "flush", "finish"}
           => t.post = Release(t.teacher, t.c)
    /\ t.kind = "deactivate" /\ t.step \in {"post", "flush", "finish"}
           => t.post = Minus(ledger[t.teacher].credit[t.c])
    /\ t.kind = "amend" /\ t.step \in {"fetch", "flush", "finish"}
           => IF contract[t.c].status = "ACTIVE"
                THEN /\ t.post = Split(t.amount - contract[t.c].fee)
                     /\ t.amount # contract[t.c].fee
                            => t.total = Magnitude(t.amount - contract[t.c].fee)
                ELSE t.post = Zero

ReadsHold(t) ==
    SeenIsCurrent(t) /\ WorksOn(t) /\ SnapIsCurrent(t) /\ MayGoOn(t) /\ PostIsDue(t)

SerialInv == IInv /\ BooksOK /\ \A w \in Workers : ReadsHold(txn[w])

\* A worker without a request has read nothing.
LEMMA IdleHolds == ReadsHold(Idle)
  BY DEF Idle, ReadsHold, SeenIsCurrent, WorksOn, SnapIsCurrent, MayGoOn, PostIsDue

\* It holds before the first request.
LEMMA InitSerialInv == Init => SerialInv
<1> SUFFICES ASSUME Init PROVE SerialInv
  OBVIOUS
<1>1. IInv
  BY InitIInv
<1>2. \A w \in Workers : txn[w] = Idle
  BY DEF Init
<1>3. \A c \in Contracts : contract[c].status = "ASSIGNED" /\ contract[c].section = "pending"
  BY DEF Init, AssignedRows
<1>4. \A p \in Teachers : wallet[p] = [balance |-> 0, frozen |-> 0] /\ ledger[p].total = Zero
  BY DEF Init, EmptyWallet, EmptyLedger
<1>5. WalletMatchesLedger /\ FrozenIsCovered
  BY <1>4 DEF WalletMatchesLedger, Drift, FrozenIsCovered, Available, Zero
<1>6. StatusFollowsSection /\ CancelledHoldsNothing
  BY <1>3 DEF StatusFollowsSection, CancelledHoldsNothing
<1>7. BooksOK
  BY <1>1, <1>5, <1>6 DEF BooksOK, IInv, TypeOK
<1> QED
  BY <1>1, <1>2, <1>7, IdleHolds DEF SerialInv

\* A step of one worker leaves the requests of the others as they are.
LEMMA OthersStay ==
    ASSUME SerialInv, NEW w \in Workers, Receive(w) \/ Step(w) \/ Crash(w)
    PROVE  \A v \in Workers \ {w} : txn'[v] = txn[v]
<1>1. txn \in [Workers -> Txn]
  BY DEF SerialInv, IInv, TypeOK
<1>2. ASSUME NEW t, txn' = [txn EXCEPT ![w] = t]
      PROVE  \A v \in Workers \ {w} : txn'[v] = txn[v]
  BY <1>1, <1>2
<1>3. CASE Receive(w)
  BY <1>2, <1>3 DEF Receive, BeginPayment, BeginActivate, BeginComplete, BeginCancel,
     BeginForceComplete, BeginDeactivate, BeginWithdraw, BeginAmend, BeginAssign, BeginEdit, Begin
<1>4. CASE LockContract(w) \/ FetchWallet(w) \/ SumEntries(w) \/ LockWallet(w) \/ Flush(w)
  BY <1>2, <1>4 DEF LockContract, FetchWallet, SumEntries, LockWallet, Flush, Goto
<1>5. CASE Fail(w) \/ RefusePosting(w) \/ DeadlockAbort(w)
  BY <1>2, <1>5 DEF RefusePosting, DeadlockAbort, Fail, Goto
<1>6. CASE Rollback(w) \/ Crash(w)
  BY <1>2, <1>6 DEF Rollback, Crash
<1>7. CASE Finish(w) /\ ~Fail(w)
  <2>1. PICK row : Commit(w, row)
    BY <1>7, FinishCommits DEF SerialInv
  <2> QED
    BY <1>2, <2>1 DEF Commit
<1> QED
  BY <1>3, <1>4, <1>5, <1>6, <1>7 DEF Step

\* A step that commits nothing keeps it if the request's reads hold after it:
\* the others have nothing to notice.
LEMMA ReadsSuffice ==
    ASSUME SerialInv, NEW w \in Workers, UNCHANGED committed, IInv',
           ReadsHold(txn'[w]), \A v \in Workers \ {w} : txn'[v] = txn[v]
    PROVE  SerialInv'
<1>1. wallet' = wallet /\ ledger' = ledger /\ contract' = contract
  BY DEF committed
<1>2. BooksOK'
  BY <1>1 DEF SerialInv, BooksOK, StatusFollowsSection, FrozenIsCovered, WalletMatchesLedger,
     Drift, CancelledHoldsNothing
<1>3. \A v \in Workers : ReadsHold(txn'[v])
  BY DEF SerialInv
<1>4. ASSUME NEW v \in Workers PROVE ReadsHold(txn[v])'
  <2>1. ReadsHold(txn'[v])
    BY <1>3
  <2>2. SeenIsCurrent(txn[v])' /\ WorksOn(txn[v])'
    BY <1>1, <2>1 DEF ReadsHold, SeenIsCurrent, RowAsRead, WorksOn
  <2>3. SnapIsCurrent(txn[v])' /\ MayGoOn(txn[v])'
    BY <1>1, <2>1 DEF ReadsHold, SnapIsCurrent, MayGoOn
  <2>4. PostIsDue(txn[v])'
    BY <1>1, <2>1 DEF ReadsHold, PostIsDue, Release
  <2> QED
    BY <2>2, <2>3, <2>4 DEF ReadsHold
<1> QED
  BY <1>2, <1>4 DEF SerialInv

\* A request as its handler begins it has just read the contract.
LEMMA RequestReads ==
    ASSUME NEW kind, NEW step, NEW c
    PROVE  /\ Request(kind, step, c).seen = RowAsRead(c)
           /\ Request(kind, step, c).teacher = contract[c].teacher
           /\ Request(kind, step, c).kind = kind /\ Request(kind, step, c).step = step
           /\ Request(kind, step, c).c = c /\ Request(kind, step, c).post = Zero
  BY DEF Request, Idle, RowAsRead

\* What Posting sets, and what it leaves.
LEMMA PostingIs ==
    ASSUME NEW r \in Txn, NEW total, NEW post
    PROVE  /\ Posting(r, total, post).kind = r.kind /\ Posting(r, total, post).step = r.step
           /\ Posting(r, total, post).c = r.c /\ Posting(r, total, post).seen = r.seen
           /\ Posting(r, total, post).amount = r.amount /\ Posting(r, total, post).snap = r.snap
           /\ Posting(r, total, post).teacher = r.teacher
           /\ Posting(r, total, post).total = total /\ Posting(r, total, post).post = post
  BY DEF Posting, Txn

\* Every handler begins with what it has just read.
LEMMA ReceiveHolds ==
    ASSUME SerialInv, NEW w \in Workers, Receive(w)
    PROVE  UNCHANGED committed /\ ReadsHold(txn'[w])
<1> USE DEF AllKinds, Steps
<1>1. IInv /\ txn \in [Workers -> Txn]
  BY DEF SerialInv, IInv, TypeOK
<1>2. ASSUME NEW t, Begin(w, t) PROVE UNCHANGED committed /\ txn'[w] = t
  BY <1>1, <1>2 DEF Begin
<1>3. \A c \in Contracts : contract[c].section = "active" => contract[c].status = "ACTIVE"
  BY DEF SerialInv, BooksOK, StatusFollowsSection
<1>4. CASE BeginPayment(w)
  <2>1. PICK c \in Contracts, s \in Shares :
          /\ contract[c].section # "cancelled"
          /\ Begin(w, Posting([Request("payment", "fetch", c) EXCEPT
                                 !.teacher = contract[c].lecturer], s, Split(s)))
    BY <1>4 DEF BeginPayment
  <2>2. PICK r \in Txn :
          /\ r = [Request("payment", "fetch", c) EXCEPT !.teacher = contract[c].lecturer]
          /\ r.kind = "payment" /\ r.step = "fetch" /\ r.c = c /\ r.seen = RowAsRead(c)
          /\ r.teacher = contract[c].lecturer
    <3>1. PICK p \in Teachers : p = contract[c].lecturer
      BY RowOf DEF SerialInv
    <3>2. PICK q \in Txn :
            /\ q = Request("payment", "fetch", c) /\ q.kind = "payment" /\ q.step = "fetch"
            /\ q.c = c /\ q.seen = RowAsRead(c)
      BY <1>1, RequestType, RequestReads
    <3>3. PICK r : r = [q EXCEPT !.teacher = p]
      OBVIOUS
    <3>4. /\ r \in Txn /\ r.kind = "payment" /\ r.step = "fetch"
          /\ r.c = c /\ r.seen = RowAsRead(c) /\ r.teacher = p
      BY <3>2, <3>3, ForTeacher
    <3> QED
      BY <3>1, <3>2, <3>3, <3>4
  <2>3. PICK u : u = Posting(r, s, Split(s))
    OBVIOUS
  <2>4. /\ u.kind = "payment" /\ u.step = "fetch" /\ u.c = c /\ u.post = Split(s)
        /\ u.seen = RowAsRead(c) /\ u.teacher = contract[c].lecturer
    <3>1. /\ u.kind = r.kind /\ u.step = r.step /\ u.c = r.c /\ u.seen = r.seen
          /\ u.teacher = r.teacher /\ u.post = Split(s)
      BY <2>3, PostingIs
    <3> QED
      BY <2>2, <3>1
  <2>5. ReadsHold(u)
    BY <2>1, <2>4 DEF ReadsHold, SeenIsCurrent, WorksOn, SnapIsCurrent, MayGoOn, PostIsDue
  <2> QED
    BY <1>2, <2>1, <2>2, <2>3, <2>5
<1>5. CASE BeginActivate(w)
  <2>1. PICK c \in Contracts :
          /\ contract[c].status = "ASSIGNED"
          /\ Begin(w, Posting(Request("activate", "lock", c),
                              contract[c].fee, Split(contract[c].fee)))
    BY <1>5 DEF BeginActivate
  <2>2. PICK u : u = Posting(Request("activate", "lock", c),
                             contract[c].fee, Split(contract[c].fee))
    OBVIOUS
  <2>3. /\ u.kind = "activate" /\ u.step = "lock" /\ u.c = c
        /\ u.post = Split(contract[c].fee)
        /\ u.seen = RowAsRead(c) /\ u.teacher = contract[c].teacher
    BY <1>1, <2>2, RequestType, RequestReads, PostingIs
  <2>4. ReadsHold(u)
    BY <2>1, <2>3 DEF ReadsHold, SeenIsCurrent, WorksOn, SnapIsCurrent, MayGoOn, PostIsDue
  <2> QED
    BY <1>2, <2>1, <2>2, <2>4
<1>6. CASE BeginComplete(w) \/ BeginForceComplete(w)
  <2>1. PICK c \in Contracts, kind \in {"complete", "forceComplete"}, step \in {"lock", "fetch"} :
          contract[c].status = "ACTIVE" /\ Begin(w, Request(kind, step, c))
    BY <1>6 DEF BeginComplete, BeginForceComplete
  <2>2. PICK u : u = Request(kind, step, c)
    OBVIOUS
  <2>3. /\ u.kind = kind /\ u.step = step /\ u.c = c
        /\ u.seen = RowAsRead(c) /\ u.teacher = contract[c].teacher
    BY <2>2, RequestReads
  <2>4. ReadsHold(u)
    BY <2>1, <2>3 DEF ReadsHold, SeenIsCurrent, WorksOn, SnapIsCurrent, MayGoOn, PostIsDue
  <2> QED
    BY <1>2, <2>1, <2>2, <2>4
<1>7. CASE BeginCancel(w)
  <2>1. PICK c \in Contracts, force \in BOOLEAN :
          Begin(w, [Request("cancel", "fetch", c) EXCEPT !.force = force])
    BY <1>7 DEF BeginCancel
  <2>2. PICK u : u = [Request("cancel", "fetch", c) EXCEPT !.force = force]
    OBVIOUS
  <2>3. /\ u.kind = "cancel" /\ u.step = "fetch" /\ u.c = c
        /\ u.seen = RowAsRead(c) /\ u.teacher = contract[c].teacher
    BY <1>1, <2>2, RequestType, RequestReads DEF Txn
  <2>4. ReadsHold(u)
    BY <2>1, <2>3 DEF ReadsHold, SeenIsCurrent, WorksOn, SnapIsCurrent, MayGoOn, PostIsDue
  <2> QED
    BY <1>2, <2>1, <2>2, <2>4
<1>8. CASE BeginDeactivate(w)
  <2>1. PICK c \in Contracts :
          /\ contract[c].section = "active"
          /\ Begin(w, Request("deactivate", "fetch", c))
    BY <1>3, <1>8 DEF BeginDeactivate
  <2>2. PICK u : u = Request("deactivate", "fetch", c)
    OBVIOUS
  <2>3. /\ u.kind = "deactivate" /\ u.step = "fetch" /\ u.c = c
        /\ u.seen = RowAsRead(c) /\ u.teacher = contract[c].teacher
    BY <2>2, RequestReads
  <2>4. ReadsHold(u)
    BY <2>1, <2>3 DEF ReadsHold, SeenIsCurrent, WorksOn, SnapIsCurrent, MayGoOn, PostIsDue
  <2> QED
    BY <1>2, <2>1, <2>2, <2>4
<1>9. CASE BeginWithdraw(w)
  <2>1. PICK p \in Teachers, a \in Draws :
          Begin(w, Posting([Idle EXCEPT !.kind = "withdraw", !.step = "fetch",
                                        !.teacher = p, !.amount = a],
                           a, [avail |-> -a, frozen |-> 0]))
    BY <1>9 DEF BeginWithdraw
  <2>2. PICK r \in Txn : r = [Idle EXCEPT !.kind = "withdraw", !.step = "fetch",
                                          !.teacher = p, !.amount = a]
    BY FeesNat, IdleType DEF Txn
  <2>3. PICK u : u = Posting(r, a, [avail |-> -a, frozen |-> 0])
    OBVIOUS
  <2>4. r.kind = "withdraw" /\ r.step = "fetch" /\ r.amount = a
    BY <2>2, IdleType DEF Txn
  <2>5. /\ u.kind = "withdraw" /\ u.step = "fetch" /\ u.amount = a /\ u.total = a
        /\ u.post = [avail |-> -a, frozen |-> 0] /\ a > 0
    BY <2>3, <2>4, PostingIs, DrawsAssumption
  <2>6. ReadsHold(u)
    BY <2>5 DEF ReadsHold, SeenIsCurrent, WorksOn, SnapIsCurrent, MayGoOn, PostIsDue
  <2> QED
    BY <1>2, <2>1, <2>2, <2>3, <2>6
<1>10. CASE BeginAmend(w)
  <2>1. PICK c \in Contracts, fee \in Fees :
          /\ contract[c].fee # Percentage
          /\ Begin(w, [Request("amend", "lock", c) EXCEPT !.amount = fee])
    BY <1>10 DEF BeginAmend
  <2>2. PICK u : u = [Request("amend", "lock", c) EXCEPT !.amount = fee]
    OBVIOUS
  <2>3. /\ u.kind = "amend" /\ u.step = "lock" /\ u.c = c /\ u.amount = fee
        /\ u.seen = RowAsRead(c) /\ u.teacher = contract[c].teacher
    BY <1>1, <2>2, RequestType, RequestReads DEF Txn
  <2>4. ReadsHold(u)
    BY <2>1, <2>3 DEF ReadsHold, SeenIsCurrent, WorksOn, SnapIsCurrent, MayGoOn, PostIsDue
  <2> QED
    BY <1>2, <2>1, <2>2, <2>4
<1>11. CASE BeginAssign(w)
  <2>1. PICK c \in Contracts, p \in Teachers, fee \in Fees \cup {Percentage} :
          /\ contract[c].section = "pending"
          /\ Begin(w, [Request("assign", "lock", c) EXCEPT !.teacher = p, !.amount = fee])
    BY <1>11 DEF BeginAssign
  <2>2. PICK u : u = [Request("assign", "lock", c) EXCEPT !.teacher = p, !.amount = fee]
    OBVIOUS
  <2>3. /\ u.kind = "assign" /\ u.step = "lock" /\ u.c = c /\ u.post = Zero
        /\ u.seen = RowAsRead(c)
    BY <1>1, <2>2, RequestType, RequestReads DEF Txn
  <2>4. ReadsHold(u)
    BY <2>1, <2>3 DEF ReadsHold, SeenIsCurrent, WorksOn, SnapIsCurrent, MayGoOn, PostIsDue
  <2> QED
    BY <1>2, <2>1, <2>2, <2>4
<1>12. CASE BeginEdit(w)
  <2>1. PICK c \in Contracts, p \in Teachers :
          /\ contract[c].section = "pending"
          /\ Begin(w, [Request("edit", "finish", c) EXCEPT !.teacher = p])
    BY <1>12 DEF BeginEdit
  <2>2. PICK u : u = [Request("edit", "finish", c) EXCEPT !.teacher = p]
    OBVIOUS
  <2>3. /\ u.kind = "edit" /\ u.step = "finish" /\ u.c = c /\ u.post = Zero
        /\ u.seen = RowAsRead(c)
    BY <1>1, <2>2, RequestType, RequestReads, ForTeacher
  <2>4. ReadsHold(u)
    BY <2>1, <2>3 DEF ReadsHold, SeenIsCurrent, WorksOn, SnapIsCurrent, MayGoOn, PostIsDue
  <2> QED
    BY <1>2, <2>1, <2>2, <2>4
<1> QED
  BY <1>4, <1>5, <1>6, <1>7, <1>8, <1>9, <1>10, <1>11, <1>12 DEF Receive

\* A statement that only moves on: what the request has read is still there.
LEMMA LockContractHolds ==
    ASSUME SerialInv, NEW w \in Workers, LockContract(w)
    PROVE  UNCHANGED committed /\ ReadsHold(txn'[w])
<1> DEFINE t == txn[w]
<1> DEFINE delta == t.amount - t.seen.fee
<1> DEFINE posts == t.seen.status = "ACTIVE" /\ t.amount # t.seen.fee
<1>1. t \in Txn /\ txn \in [Workers -> Txn] /\ t.step = "lock"
  BY DEF SerialInv, IInv, TypeOK, LockContract
<1>2. ReadsHold(t) /\ WorkerInv(w)
  BY DEF SerialInv, IInv
<1>3. UNCHANGED committed
  BY DEF LockContract
<1>4. txn'[w] = CASE t.kind = "assign" -> [t EXCEPT !.step = "finish"]
                  [] t.kind = "amend" /\ ~posts -> [t EXCEPT !.step = "finish"]
                  [] t.kind = "amend" /\ posts ->
                       Posting([t EXCEPT !.step = "fetch"], Magnitude(delta), Split(delta))
                  [] OTHER -> [t EXCEPT !.step = "fetch"]
  BY <1>1 DEF LockContract
<1>5. t.post # Zero => t.kind \in {"payment", "activate", "withdraw"}
  BY <1>1, <1>2 DEF WorkerInv, NothingYet
<1>6. CASE t.kind = "assign"
  <2>1. PICK u : u = [t EXCEPT !.step = "finish"]
    OBVIOUS
  <2>2. u.kind = "assign" /\ u.step = "finish" /\ u.c = t.c /\ u.seen = t.seen /\ u.teacher = t.teacher /\ u.post = t.post
    BY <1>1, <1>6, <2>1 DEF Txn
  <2>3. ReadsHold(u)
    BY <1>2, <1>6, <2>2 DEF ReadsHold, SeenIsCurrent, WorksOn, SnapIsCurrent, MayGoOn, PostIsDue
  <2> QED
    BY <1>3, <1>4, <1>6, <2>1, <2>3
<1>7. CASE t.kind = "amend" /\ ~posts
  <2>1. PICK u : u = [t EXCEPT !.step = "finish"]
    OBVIOUS
  <2>2. /\ u.kind = "amend" /\ u.step = "finish" /\ u.c = t.c /\ u.seen = t.seen /\ u.teacher = t.teacher
        /\ u.amount = t.amount /\ u.post = Zero
    BY <1>1, <1>5, <1>7, <2>1 DEF Txn
  <2>3. SeenIsCurrent(u) /\ WorksOn(u) /\ SnapIsCurrent(u) /\ MayGoOn(u)
    BY <1>2, <1>7, <2>2 DEF ReadsHold, SeenIsCurrent, WorksOn, SnapIsCurrent, MayGoOn
  <2>4. contract[t.c].status = "ACTIVE" => t.amount = contract[t.c].fee
    BY <1>2, <1>7 DEF ReadsHold, SeenIsCurrent, RowAsRead
  <2>5. contract[t.c].fee \in Nat
    <3>1. t.c \in Contracts
      BY <1>2, <1>7 DEF WorkerInv, ArgumentsOK
    <3> QED
      BY <3>1, RowOf DEF SerialInv
  <2>6. contract[t.c].status = "ACTIVE" => Split(t.amount - contract[t.c].fee) = Zero
    BY <2>4, <2>5 DEF Split, Holdback, Zero
  <2>7. PostIsDue(u)
    BY <2>2, <2>4, <2>6 DEF PostIsDue
  <2> QED
    BY <1>3, <1>4, <1>7, <2>1, <2>3, <2>7 DEF ReadsHold
<1>8. CASE t.kind = "amend" /\ posts
  <2>1. PICK r \in Txn : r = [t EXCEPT !.step = "fetch"]
    BY <1>1 DEF Txn, Steps
  <2>2. PICK u : u = Posting(r, Magnitude(delta), Split(delta))
    OBVIOUS
  <2>3. /\ r.kind = "amend" /\ r.step = "fetch" /\ r.c = t.c /\ r.seen = t.seen /\ r.teacher = t.teacher
        /\ r.amount = t.amount
    BY <1>1, <1>8, <2>1 DEF Txn
  <2>4. /\ u.kind = "amend" /\ u.step = "fetch" /\ u.c = t.c /\ u.seen = t.seen /\ u.teacher = t.teacher
        /\ u.amount = t.amount /\ u.total = Magnitude(delta) /\ u.post = Split(delta)
    BY <2>2, <2>3, PostingIs
  <2>5. contract[t.c].status = "ACTIVE" /\ contract[t.c].fee = t.seen.fee
    BY <1>2, <1>8 DEF ReadsHold, SeenIsCurrent, RowAsRead
  <2>6. SeenIsCurrent(u) /\ WorksOn(u) /\ SnapIsCurrent(u) /\ MayGoOn(u)
    BY <1>2, <1>8, <2>4 DEF ReadsHold, SeenIsCurrent, WorksOn, SnapIsCurrent, MayGoOn
  <2>7. PostIsDue(u)
    BY <2>4, <2>5 DEF PostIsDue
  <2>8. txn'[w] = u
    BY <1>4, <1>8, <2>1, <2>2
  <2> QED
    BY <1>3, <2>6, <2>7, <2>8 DEF ReadsHold
<1>9. CASE t.kind \notin {"assign", "amend"}
  <2>1. PICK u : u = [t EXCEPT !.step = "fetch"]
    OBVIOUS
  <2>2. /\ u.kind = t.kind /\ u.step = "fetch" /\ u.c = t.c /\ u.seen = t.seen /\ u.teacher = t.teacher
        /\ u.amount = t.amount /\ u.post = t.post /\ u.total = t.total
    BY <1>1, <2>1 DEF Txn
  <2>3. ReadsHold(u)
    BY <1>2, <1>9, <2>2 DEF ReadsHold, SeenIsCurrent, WorksOn, SnapIsCurrent, MayGoOn, PostIsDue
  <2> QED
    BY <1>3, <1>4, <1>9, <2>1, <2>3
<1> QED
  BY <1>6, <1>7, <1>8, <1>9

\* get_or_create_wallet reads the row as it is.
LEMMA FetchWalletHolds ==
    ASSUME SerialInv, NEW w \in Workers, FetchWallet(w)
    PROVE  UNCHANGED committed /\ ReadsHold(txn'[w])
<1> DEFINE t == txn[w]
<1>1. t \in Txn /\ txn \in [Workers -> Txn] /\ t.step = "fetch"
  BY DEF SerialInv, IInv, TypeOK, FetchWallet
<1>2. ReadsHold(t)
  BY DEF SerialInv
<1>3. UNCHANGED committed
  BY DEF FetchWallet
<1>4. PICK step \in {"sum", "post", "finish", "flush", "failed"} :
        /\ txn'[w] = [t EXCEPT !.snap = wallet[t.teacher], !.step = step]
        /\ step \in {"post", "finish", "flush"}
             => t.kind \notin {"complete", "forceComplete", "cancel", "deactivate"}
  <2>1. PICK next \in {"sum", "post", "finish", "flush"} :
          /\ txn'[w] = [t EXCEPT !.snap = wallet[t.teacher],
                          !.step = IF t.kind = "withdraw" /\ Available(wallet[t.teacher]) < t.amount
                                     THEN "failed" ELSE next]
          /\ next = CASE t.kind \in {"complete", "forceComplete", "cancel", "deactivate"} -> "sum"
                      [] t.kind = "payment" -> "post"
                      [] t.kind = "activate" -> IF t.post = Zero THEN "finish" ELSE "post"
                      [] OTHER -> "flush"
    <3>1. PICK next : 
            next = CASE t.kind \in {"complete", "forceComplete", "cancel", "deactivate"} -> "sum"
                      [] t.kind = "payment" -> "post"
                      [] t.kind = "activate" -> IF t.post = Zero THEN "finish" ELSE "post"
                      [] OTHER -> "flush"
      OBVIOUS
    <3>2. next \in {"sum", "post", "finish", "flush"}
      BY <3>1
    <3>3. txn'[w] = [t EXCEPT !.snap = wallet[t.teacher],
                       !.step = IF t.kind = "withdraw" /\ Available(wallet[t.teacher]) < t.amount
                                  THEN "failed" ELSE next]
      BY <1>1, <3>1 DEF FetchWallet
    <3> QED
      BY <3>1, <3>2, <3>3
  <2>2. CASE t.kind = "withdraw" /\ Available(wallet[t.teacher]) < t.amount
    BY <2>1, <2>2
  <2>3. CASE ~(t.kind = "withdraw" /\ Available(wallet[t.teacher]) < t.amount)
    BY <2>1, <2>3
  <2> QED
    BY <2>2, <2>3
<1>5. PICK u : u = [t EXCEPT !.snap = wallet[t.teacher], !.step = step]
  OBVIOUS
<1>6. /\ u.kind = t.kind /\ u.step = step /\ u.c = t.c /\ u.seen = t.seen /\ u.teacher = t.teacher /\ u.snap = wallet[t.teacher]
      /\ u.amount = t.amount /\ u.post = t.post /\ u.total = t.total
  BY <1>1, <1>5 DEF Txn
<1>7. SeenIsCurrent(u) /\ WorksOn(u) /\ SnapIsCurrent(u) /\ MayGoOn(u)
  BY <1>2, <1>6 DEF ReadsHold, SeenIsCurrent, WorksOn, SnapIsCurrent, MayGoOn
<1>8. PostIsDue(u)
  BY <1>1, <1>2, <1>4, <1>6 DEF ReadsHold, PostIsDue
<1> QED
  BY <1>3, <1>4, <1>5, <1>7, <1>8 DEF ReadsHold

\* The SUM statement finds what the operation has to take back.
LEMMA SumEntriesHolds ==
    ASSUME SerialInv, NEW w \in Workers, SumEntries(w)
    PROVE  UNCHANGED committed /\ ReadsHold(txn'[w])
<1> DEFINE t == txn[w]
<1> DEFINE c == t.c
<1> DEFINE p == t.teacher
<1>1. t \in Txn /\ txn \in [Workers -> Txn] /\ t.step = "sum"
  BY DEF SerialInv, IInv, TypeOK, SumEntries
<1>2. ReadsHold(t) /\ WorkerInv(w)
  BY DEF SerialInv, IInv
<1>3. UNCHANGED committed
  BY DEF SumEntries
<1>4. /\ t.kind \in {"complete", "forceComplete", "cancel", "deactivate"}
      /\ c \in Contracts /\ p \in Teachers /\ t.post = Zero /\ t.snap = wallet[p]
  BY <1>1, <1>2 DEF WorkerInv, NothingYet, SumKinds, ArgumentsOK, ReadsHold, SnapIsCurrent
<1>5. /\ ledger[p].net[c] \in Deltas /\ ledger[p].credit[c] \in Deltas
      /\ ledger[p].net[c].frozen \in Int
  BY <1>4, RowOf DEF SerialInv
<1>6. PICK sum : sum = Summed(t)
  OBVIOUS
<1>7. \/ /\ t.kind = "deactivate" => sum = Zero
         /\ t.kind \in {"complete", "forceComplete"} => sum.frozen <= 0
         /\ txn'[w] = [t EXCEPT !.step = IF t.kind = "forceComplete" THEN "failed" ELSE "finish"]
      \/ txn'[w] = [t EXCEPT !.step = "failed"]
      \/ /\ t.kind \in {"complete", "forceComplete"} => ~(sum.frozen <= 0)
         /\ txn'[w] = Posting([t EXCEPT !.step = IF t.kind = "cancel" THEN "flush" ELSE "post"],
                              -(sum.avail + sum.frozen), Minus(sum))
  <2>1. CASE t.kind \in {"cancel", "deactivate"}
    BY <1>1, <1>6, <2>1 DEF SumEntries
  <2>2. CASE t.kind \notin {"cancel", "deactivate"}
    BY <1>1, <1>6, <2>2 DEF SumEntries
  <2> QED
    BY <2>1, <2>2
<1>held. PICK n \in Int :
           /\ n = ledger[p].net[c].frozen
           /\ Release(p, c) = IF n > 0 THEN [avail |-> n, frozen |-> -n] ELSE Zero
  BY <1>5 DEF Release
<1>8. t.kind \in {"complete", "forceComplete"} => sum = [avail |-> -n, frozen |-> n]
  BY <1>6, <1>held DEF Summed
<1>9. t.kind = "deactivate" => sum = ledger[p].credit[c]
  BY <1>6 DEF Summed
<1>10. ASSUME NEW u, u.kind = t.kind, u.c = c, u.seen = t.seen, u.teacher = p, u.snap = wallet[p]
       PROVE  SeenIsCurrent(u) /\ WorksOn(u) /\ SnapIsCurrent(u) /\ MayGoOn(u)
  BY <1>2, <1>4, <1>10 DEF ReadsHold, SeenIsCurrent, WorksOn, SnapIsCurrent, MayGoOn
<1>11. CASE /\ t.kind = "deactivate" => sum = Zero
            /\ t.kind \in {"complete", "forceComplete"} => sum.frozen <= 0
            /\ txn'[w] = [t EXCEPT !.step = IF t.kind = "forceComplete" THEN "failed" ELSE "finish"]
  <2>1. PICK u : u = txn'[w]
    OBVIOUS
  <2>2. /\ u.kind = t.kind /\ u.c = c /\ u.seen = t.seen /\ u.teacher = p /\ u.snap = wallet[p] /\ u.post = Zero
    BY <1>1, <1>4, <1>11, <2>1 DEF Txn
  <2>3. t.kind \in {"complete", "forceComplete"} => Release(p, c) = Zero
    <3>1. ASSUME t.kind \in {"complete", "forceComplete"} PROVE Release(p, c) = Zero
      <4>1. sum.frozen = n /\ sum.frozen <= 0
        BY <1>8, <1>11, <3>1
      <4>2. ~(n > 0)
        BY <4>1
      <4> QED
        BY <1>held, <4>2
    <3> QED
      BY <3>1
  <2>4. t.kind = "deactivate" => Minus(ledger[p].credit[c]) = Zero
    BY <1>9, <1>11, MinusZero
  <2>5. PostIsDue(u)
    BY <1>4, <2>2, <2>3, <2>4 DEF PostIsDue
  <2> QED
    BY <1>3, <1>10, <2>1, <2>2, <2>5 DEF ReadsHold
<1>12. CASE txn'[w] = [t EXCEPT !.step = "failed"]
  <2>1. PICK u : u = txn'[w]
    OBVIOUS
  <2>2. /\ u.kind = t.kind /\ u.c = c /\ u.seen = t.seen /\ u.teacher = p /\ u.snap = wallet[p] /\ u.step = "failed"
    BY <1>1, <1>4, <1>12, <2>1 DEF Txn
  <2>3. PostIsDue(u)
    BY <1>4, <2>2 DEF PostIsDue
  <2> QED
    BY <1>3, <1>10, <2>1, <2>2, <2>3 DEF ReadsHold
<1>13. CASE /\ t.kind \in {"complete", "forceComplete"} => ~(sum.frozen <= 0)
            /\ txn'[w] = Posting([t EXCEPT !.step = IF t.kind = "cancel" THEN "flush" ELSE "post"],
                                 -(sum.avail + sum.frozen), Minus(sum))
  <2>1. PICK u : u = txn'[w]
    OBVIOUS
  <2>2. PICK r \in Txn : r = [t EXCEPT !.step = IF t.kind = "cancel" THEN "flush" ELSE "post"]
    BY <1>1 DEF Txn, Steps
  <2>3. r.kind = t.kind /\ r.c = c /\ r.seen = t.seen /\ r.teacher = p /\ r.snap = wallet[p]
    BY <1>1, <1>4, <2>2 DEF Txn
  <2>4. /\ u.kind = t.kind /\ u.c = c /\ u.seen = t.seen /\ u.teacher = p /\ u.snap = wallet[p]
        /\ u.post = Minus(sum)
    <3>1. u = Posting(r, -(sum.avail + sum.frozen), Minus(sum))
      BY <1>13, <2>1, <2>2
    <3> QED
      BY <2>3, <3>1, PostingIs
  <2>5. t.kind \in {"complete", "forceComplete"} => Minus(sum) = Release(p, c)
    <3>1. ASSUME t.kind \in {"complete", "forceComplete"} PROVE Minus(sum) = Release(p, c)
      <4>1. /\ sum = [avail |-> -n, frozen |-> n] /\ sum.avail = -n /\ sum.frozen = n
            /\ ~(sum.frozen <= 0)
        BY <1>8, <1>13, <3>1
      <4>2. n > 0
        BY <4>1
      <4>3. Minus(sum) = [avail |-> n, frozen |-> -n]
        BY <4>1 DEF Minus
      <4> QED
        BY <1>held, <4>2, <4>3
    <3> QED
      BY <3>1
  <2>6. PostIsDue(u)
    BY <1>4, <1>9, <2>4, <2>5 DEF PostIsDue
  <2> QED
    BY <1>3, <1>10, <2>1, <2>4, <2>6 DEF ReadsHold
<1> QED
  BY <1>7, <1>11, <1>12, <1>13

\* A transaction that only goes on to another of its statements.
LEMMA GotoHolds ==
    ASSUME SerialInv, NEW w \in Workers, NEW step, Goto(w, step),
           \/ step = "failed"
           \/ step = "flush" /\ txn[w].step = "post"
           \/ step = "finish" /\ txn[w].step = "flush"
    PROVE  ReadsHold(txn'[w])
<1> DEFINE t == txn[w]
<1>1. t \in Txn /\ txn \in [Workers -> Txn]
  BY DEF SerialInv, IInv, TypeOK
<1>2. ReadsHold(t) /\ WorkerInv(w)
  BY DEF SerialInv, IInv
<1>3. PICK u : u = txn'[w]
  OBVIOUS
<1>4. /\ u.kind = t.kind /\ u.step = step /\ u.c = t.c /\ u.seen = t.seen /\ u.teacher = t.teacher /\ u.snap = t.snap
      /\ u.amount = t.amount /\ u.post = t.post /\ u.total = t.total
  BY <1>1, <1>3 DEF Goto, Txn
<1>5. step = "flush" => t.kind # "amend"
  BY <1>2 DEF WorkerInv, LocksOnce, LocksAtFetch
<1>6. SeenIsCurrent(u) /\ WorksOn(u) /\ SnapIsCurrent(u) /\ MayGoOn(u)
  BY <1>2, <1>4 DEF ReadsHold, SeenIsCurrent, WorksOn, SnapIsCurrent, MayGoOn
<1>7. PostIsDue(u)
  BY <1>2, <1>4, <1>5 DEF ReadsHold, PostIsDue
<1> QED
  BY <1>3, <1>6, <1>7 DEF ReadsHold

\* No step but a commit writes committed state, and every other step leaves
\* the request with reads that hold.
LEMMA QuietHolds ==
    ASSUME SerialInv, NEW w \in Workers,
           \/ Receive(w)    \/ LockContract(w) \/ FetchWallet(w) \/ SumEntries(w)
           \/ LockWallet(w) \/ Flush(w)        \/ RefusePosting(w) \/ Fail(w)
           \/ Rollback(w)   \/ Crash(w)
    PROVE  UNCHANGED committed /\ ReadsHold(txn'[w])
<1>1. txn \in [Workers -> Txn]
  BY DEF SerialInv, IInv, TypeOK
<1>2. CASE Fail(w) \/ RefusePosting(w)
  <2>1. Goto(w, "failed") /\ UNCHANGED committed
    BY <1>2 DEF Fail, RefusePosting
  <2> QED
    BY <2>1, GotoHolds
<1>3. CASE LockWallet(w)
  <2>1. Goto(w, "flush") /\ txn[w].step = "post" /\ UNCHANGED committed
    BY <1>3 DEF LockWallet
  <2> QED
    BY <2>1, GotoHolds
<1>4. CASE Flush(w)
  <2>1. Goto(w, "finish") /\ txn[w].step = "flush" /\ UNCHANGED committed
    BY <1>4 DEF Flush
  <2> QED
    BY <2>1, GotoHolds
<1>5. CASE Rollback(w) \/ Crash(w)
  <2>1. txn'[w] = Idle /\ UNCHANGED committed
    BY <1>1, <1>5 DEF Rollback, Crash
  <2> QED
    BY <2>1, IdleHolds
<1> QED
  BY <1>2, <1>3, <1>4, <1>5, ReceiveHolds, LockContractHolds, FetchWalletHolds, SumEntriesHolds

-----------------------------------------------------------------------------
(* The refinement: a commit is the atomic operation, every other step a    *)
(* stutter.                                                                *)

\* A commit adds what it posts to the wallet as it is, and keeps the frozen
\* part covered.
LEMMA CommitPosts ==
    ASSUME SerialInv, NEW w \in Workers, txn[w].step = "finish", txn[w].c \in Contracts,
           NEW row, Commit(w, row), NEW b, txn[w].kind = "activate" <=> b
    PROVE  Atomic!Post(txn[w].teacher, txn[w].c, txn[w].post, b, row)
<1> DEFINE t == txn[w]
<1> DEFINE p == t.teacher
<1>1. /\ t \in Txn /\ p \in Teachers /\ t.post \in Deltas /\ wallet[p] \in Row
      /\ t.post.avail \in Int /\ t.post.frozen \in Int
      /\ wallet[p].balance \in Nat /\ wallet[p].frozen \in Nat
  <2>1. t \in Txn /\ p \in Teachers /\ wallet[p] \in Row
    BY DEF SerialInv, IInv, TypeOK, WorkerInv, ArgumentsOK
  <2> QED
    BY <2>1 DEF Txn, Deltas, Row
<1>2. /\ wallet' = [wallet EXCEPT ![p] = NewRow(t)]
      /\ ledger' = [ledger EXCEPT ![p] = Entered(ledger[p], t.c, t.post, t.kind = "activate")]
      /\ contract' = [contract EXCEPT ![t.c] = row]
  BY DEF Commit
<1>3. NewRow(t) \in Row
  <2>1. wallet'[p] = NewRow(t)
    BY <1>1, <1>2 DEF SerialInv, IInv, TypeOK
  <2> QED
    BY <1>1, <2>1, CommitWrites DEF SerialInv
<1>4. Entered(ledger[p], t.c, t.post, t.kind = "activate") = Entered(ledger[p], t.c, t.post, b)
  BY DEF Entered
<1>5. NewRow(t) = Written(p, t.post) /\ Available(NewRow(t)) >= 0
  <2>1. CASE t.post = Zero
    <3>1. t.post.avail = 0 /\ t.post.frozen = 0
      BY <2>1 DEF Zero
    <3>2. wallet[p] = [balance |-> wallet[p].balance, frozen |-> wallet[p].frozen]
      BY <1>1 DEF Row
    <3>3. Available(wallet[p]) >= 0
      BY <1>1 DEF SerialInv, BooksOK, FrozenIsCovered
    <3> QED
      BY <1>1, <3>1, <3>2, <3>3 DEF NewRow, Written
  <2>2. CASE t.post # Zero
    <3>1. t.snap = wallet[p] /\ DatabaseAccepts(t)
      BY <2>2 DEF SerialInv, IInv, WorkerInv, StillAccepted, ReadsHold, SnapIsCurrent
    <3>2. NewRow(t).frozen <= NewRow(t).balance
      BY <3>1 DEF DatabaseAccepts
    <3>3. NewRow(t) = Written(p, t.post)
      BY <1>1, <3>1 DEF NewRow, Written
    <3>4. NewRow(t).balance \in Nat /\ NewRow(t).frozen \in Nat
      BY <1>3 DEF Row
    <3>5. Available(NewRow(t)) >= 0
      BY <3>2, <3>4 DEF Available
    <3> QED
      BY <3>3, <3>5
  <2> QED
    BY <2>1, <2>2
<1> QED
  BY <1>2, <1>3, <1>4, <1>5, PostIs

\* What a request of some kind knows when it is about to commit.
LEMMA AtFinish ==
    ASSUME SerialInv, NEW w \in Workers, txn[w].step = "finish", txn[w].kind # "withdraw"
    PROVE  /\ txn[w].c \in Contracts /\ txn[w].teacher \in Teachers /\ ReadsHold(txn[w])
           /\ contract[txn[w].c] \in ContractRow
           /\ Follows(contract[txn[w].c])
           /\ contract[txn[w].c].fee \in Nat
           /\ txn[w].kind \in {"amend", "assign"} => txn[w].amount \in Fees \cup {Percentage}
           /\ txn[w].kind = "cancel"
                => txn[w].post = Minus(ledger[txn[w].teacher].net[txn[w].c])
           /\ txn[w].post # Zero => txn[w].post.avail + txn[w].post.frozen = txn[w].total
<1>1. WorkerInv(w) /\ BooksOK /\ ReadsHold(txn[w])
  BY DEF SerialInv, IInv
<1>2. txn[w].c \in Contracts
  BY <1>1 DEF WorkerInv, ArgumentsOK
<1> QED
  BY <1>1, <1>2, RowOf
     DEF WorkerInv, ArgumentsOK, ReversalIsExact, StillAccepted, DatabaseAccepts

\* No withdrawal reaches its commit: its entry does not pass the CHECK that
\* compares the parts of an entry with its total.
LEMMA WithdrawalsAreRefused ==
    ASSUME SerialInv, NEW w \in Workers, txn[w].step = "finish"
    PROVE  txn[w].kind # "withdraw"
<1>1. SUFFICES ASSUME txn[w].kind = "withdraw" PROVE FALSE
  OBVIOUS
<1> DEFINE t == txn[w]
<1>2. /\ t.post = [avail |-> -t.amount, frozen |-> 0] /\ t.total = t.amount /\ t.amount > 0
      /\ t.amount \in Nat
  BY <1>1 DEF SerialInv, ReadsHold, PostIsDue, IInv, TypeOK, Txn
<1>3. t.post # Zero
  BY <1>2 DEF Zero
<1>4. t.post.avail + t.post.frozen = t.total
  BY <1>3 DEF SerialInv, IInv, WorkerInv, StillAccepted, DatabaseAccepts
<1> QED
  BY <1>2, <1>4

\* The commit of a request is the atomic operation it asked for.
LEMMA FinishSimulates ==
    ASSUME SerialInv, NEW w \in Workers, Finish(w), ~Fail(w)
    PROVE  Atomic!Next
<1> DEFINE t == txn[w]
<1> DEFINE c == t.c
<1> DEFINE p == t.teacher
<1>1. t.step = "finish" /\ t.kind # "withdraw"
  BY FinishCommits, WithdrawalsAreRefused DEF SerialInv
<1>2. c \in Contracts /\ p \in Teachers /\ contract[c] \in ContractRow /\ Follows(contract[c])
  BY <1>1, AtFinish
<1>3. SeenIsCurrent(t) /\ WorksOn(t) /\ MayGoOn(t) /\ PostIsDue(t)
  BY <1>1, AtFinish DEF ReadsHold
<1>4. ASSUME NEW row, Commit(w, row), t.kind # "activate"
      PROVE  Atomic!Post(p, c, t.post, FALSE, row)
  BY <1>1, <1>2, <1>4, CommitPosts
<1>5. ASSUME Atomic!Pay(c) \/ Atomic!Activate(c) \/ Atomic!Settle(c) \/ Atomic!Cancel(c)
             \/ Atomic!Amend(c) \/ Atomic!Deactivate(c) \/ Atomic!Assign(c)
             \/ Atomic!Edit(c)
      PROVE  Atomic!Next
  BY <1>2, <1>5 DEF Atomic!Next
<1>6. CASE FinishPosting(w)
  <2>1. t.kind = "payment" /\ Commit(w, contract[c])
    BY <1>1, <1>2, <1>6 DEF FinishPosting, Finishing
  <2>2. /\ contract[c].section # "cancelled" /\ \E s \in Shares : t.post = Split(s)
        /\ p = contract[c].lecturer
    BY <1>3, <2>1 DEF MayGoOn, PostIsDue, WorksOn
  <2>3. Atomic!Pay(c)
    BY <1>4, <2>1, <2>2, SameData DEF Atomic!Pay
  <2> QED
    BY <1>5, <2>3
<1>7. CASE FinishActivate(w)
  <2>1. PICK row : row = [contract[c] EXCEPT !.status = "ACTIVE", !.section = "active"]
    OBVIOUS
  <2>2. t.kind = "activate" /\ contract[c].status = "ASSIGNED" /\ Commit(w, row)
    BY <1>7, <2>1 DEF FinishActivate, Finishing
  <2>3. t.post = Split(contract[c].fee) /\ p = contract[c].teacher
    BY <1>3, <2>2 DEF PostIsDue, WorksOn
  <2>4. Atomic!Post(p, c, t.post, TRUE, row)
    BY <1>1, <1>2, <2>2, CommitPosts
  <2>5. Atomic!Activate(c)
    BY <2>1, <2>2, <2>3, <2>4, SameData DEF Atomic!Activate
  <2> QED
    BY <1>5, <2>5
<1>8. CASE FinishComplete(w)
  <2>1. PICK row : row = [contract[c] EXCEPT !.status = "SETTLED", !.section = "completed"]
    OBVIOUS
  <2>2. t.kind \in {"complete", "forceComplete"} /\ Commit(w, row)
    BY <1>8, <2>1 DEF FinishComplete, Finishing
  <2>3. contract[c].status = "ACTIVE" /\ t.post = Release(p, c) /\ p = contract[c].teacher
    BY <1>1, <1>3, <2>2 DEF MayGoOn, PostIsDue, WorksOn
  <2>4. Atomic!Post(p, c, t.post, FALSE, row)
    BY <1>4, <2>2
  <2>5. Atomic!Settle(c)
    BY <2>1, <2>3, <2>4, SameData DEF Atomic!Settle, Release
  <2> QED
    BY <1>5, <2>5
<1>9. CASE FinishCancel(w)
  <2>1. PICK row : row = [contract[c] EXCEPT !.status = "CANCELLED", !.section = "cancelled"]
    OBVIOUS
  <2>2. t.kind = "cancel" /\ contract[c].status = "ACTIVE" /\ Commit(w, row)
    BY <1>9, <2>1 DEF FinishCancel, Finishing
  <2>3. t.post = Minus(ledger[p].net[c]) /\ p = contract[c].teacher
    BY <1>1, <1>3, <2>2, AtFinish DEF WorksOn
  <2>4. Atomic!Post(p, c, t.post, FALSE, row)
    BY <1>4, <2>2
  <2>5. Atomic!Cancel(c)
    BY <2>1, <2>2, <2>3, <2>4, SameData DEF Atomic!Cancel
  <2> QED
    BY <1>5, <2>5
<1>10. CASE FinishDeactivate(w)
  <2>1. PICK row : row = [contract[c] EXCEPT !.status = "ASSIGNED", !.section = "pending"]
    OBVIOUS
  <2>2. t.kind = "deactivate"
    BY <1>10 DEF FinishDeactivate, Finishing
  <2>3. contract[c].section = "active" /\ contract[c].status = "ACTIVE"
    BY <1>2, <1>3, <2>2 DEF MayGoOn, Follows
  <2>4. /\ t.seen.status = "ACTIVE" /\ t.post = Minus(ledger[p].credit[c])
        /\ p = contract[c].teacher
    BY <1>1, <1>3, <2>2, <2>3 DEF SeenIsCurrent, RowAsRead, PostIsDue, WorksOn
  <2>5. [[contract[c] EXCEPT !.section = "pending"] EXCEPT !.status = "ASSIGNED"] = row
    BY <1>2, <2>1 DEF ContractRow
  <2>6. Commit(w, row)
    BY <1>10, <2>4, <2>5 DEF FinishDeactivate
  <2>7. Atomic!Post(p, c, t.post, FALSE, row)
    BY <1>4, <2>2, <2>6
  <2>8. Atomic!Deactivate(c)
    BY <2>1, <2>3, <2>4, <2>7, SameData DEF Atomic!Deactivate
  <2> QED
    BY <1>5, <2>8
<1>11. CASE FinishAmend(w)
  <2>1. PICK row : row = [contract[c] EXCEPT !.fee = t.amount]
    OBVIOUS
  <2>2. t.kind = "amend" /\ Commit(w, row)
    BY <1>11, <2>1 DEF FinishAmend, Finishing
  <2>3. PICK fee \in Fees : fee = t.amount
    BY <1>3, <2>2 DEF MayGoOn
  <2>4. contract[c].fee # Percentage /\ p = contract[c].teacher
    BY <1>3, <2>2 DEF MayGoOn, WorksOn
  <2>5. fee \in Nat /\ contract[c].fee \in Nat
    BY <1>1, FeesNat, AtFinish
  <2>6. t.post = IF contract[c].status = "ACTIVE" THEN Split(fee - contract[c].fee) ELSE Zero
    BY <1>1, <1>3, <2>2, <2>3 DEF PostIsDue
  <2>7. contract[c].status = "ACTIVE" => fee >= contract[c].fee
    <3>1. SUFFICES ASSUME contract[c].status = "ACTIVE", fee # contract[c].fee
                   PROVE  fee >= contract[c].fee
      BY <2>5
    <3>2. PICK delta \in Int : delta = fee - contract[c].fee
      BY <2>5
    <3>3. t.post = Split(delta) /\ t.total = Magnitude(delta) /\ delta # 0
      BY <1>1, <1>3, <2>2, <2>3, <2>5, <3>1, <3>2 DEF PostIsDue
    <3>4. t.post.avail + t.post.frozen = delta
      BY <3>2, <3>3 DEF Split, Holdback
    <3>5. t.post # Zero
      BY <3>3, <3>4 DEF Zero
    <3>6. t.post.avail + t.post.frozen = t.total
      BY <1>1, <3>5, AtFinish
    <3> QED
      BY <2>5, <3>2, <3>3, <3>4, <3>6 DEF Magnitude
  <2>8. Atomic!Post(p, c, t.post, FALSE, row)
    BY <1>4, <2>2
  <2>9. Atomic!Amend(c)
    BY <2>1, <2>3, <2>4, <2>6, <2>7, <2>8, SameData DEF Atomic!Amend
  <2> QED
    BY <1>5, <2>9
<1>12. CASE FinishAssign(w)
  <2>1. PICK row : row = [contract[c] EXCEPT
          !.fee = t.amount, !.status = "ASSIGNED", !.teacher = p, !.lecturer = p]
    OBVIOUS
  <2>2. t.kind = "assign"
    BY <1>12 DEF FinishAssign, Finishing
  <2>3. t.amount \in Fees \cup {Percentage}
    BY <1>1, <2>2, AtFinish
  <2>4. /\ t.seen.status = contract[c].status /\ t.seen.fee = contract[c].fee
        /\ t.seen.teacher = contract[c].teacher /\ t.seen.lecturer = contract[c].lecturer
    BY <1>3, <2>2 DEF SeenIsCurrent, RowAsRead
  <2>5. [contract[c] EXCEPT
            !.fee = IF t.seen.fee = t.amount THEN @ ELSE t.amount,
            !.status = IF t.seen.status = "ASSIGNED" THEN @ ELSE "ASSIGNED",
            !.teacher = IF t.seen.teacher = p THEN @ ELSE p,
            !.lecturer = IF t.seen.lecturer = p THEN @ ELSE p] = row
    BY <1>2, <2>1, <2>4 DEF ContractRow
  <2>6. Commit(w, row)
    BY <1>12, <2>5 DEF FinishAssign
  <2>7. Atomic!Post(p, c, t.post, FALSE, row) /\ t.post = Zero /\ contract[c].section = "pending"
    BY <1>3, <1>4, <2>2, <2>6 DEF PostIsDue, MayGoOn
  <2>8. Atomic!Assign(c)
    BY <1>2, <2>1, <2>3, <2>7, SameData DEF Atomic!Assign
  <2> QED
    BY <1>5, <2>8
<1>13. CASE FinishEdit(w)
  <2>1. PICK row : row = [contract[c] EXCEPT !.lecturer = p]
    OBVIOUS
  <2>2. t.kind = "edit"
    BY <1>13 DEF FinishEdit, Finishing
  <2>3. t.seen.lecturer = contract[c].lecturer
    BY <1>3, <2>2 DEF SeenIsCurrent, RowAsRead
  <2>4. [contract[c] EXCEPT !.lecturer = IF t.seen.lecturer = p THEN @ ELSE p] = row
    BY <1>2, <2>1, <2>3 DEF ContractRow
  <2>5. Commit(w, row)
    BY <1>13, <2>4 DEF FinishEdit
  <2>6. Atomic!Post(p, c, t.post, FALSE, row) /\ t.post = Zero /\ contract[c].section = "pending"
    BY <1>3, <1>4, <2>2, <2>5 DEF PostIsDue, MayGoOn
  <2>7. Atomic!Edit(c)
    BY <1>2, <2>1, <2>6, SameData DEF Atomic!Edit
  <2> QED
    BY <1>5, <2>7
<1> QED
  BY <1>6, <1>7, <1>8, <1>9, <1>10, <1>11, <1>12, <1>13 DEF Finish

\* A step either commits one atomic operation or commits nothing and leaves
\* the request with reads that hold; the other requests are left alone.
LEMMA StepIs ==
    ASSUME SerialInv, Next
    PROVE  \E w \in Workers :
             /\ \A v \in Workers \ {w} : txn'[v] = txn[v]
             /\ \/ Atomic!Next /\ txn[w] # Idle /\ txn'[w] = Idle
                \/ UNCHANGED committed /\ ReadsHold(txn'[w])
<1>1. PICK w \in Workers : Receive(w) \/ Step(w) \/ Crash(w)
  BY DEF Next
<1>2. \A v \in Workers \ {w} : txn'[v] = txn[v]
  BY <1>1, OthersStay
<1>3. CASE Finish(w) /\ ~Fail(w)
  <2>1. Atomic!Next
    BY <1>3, FinishSimulates
  <2>2. PICK row : Commit(w, row) /\ txn[w].step = "finish"
    BY <1>3, FinishCommits DEF SerialInv
  <2>3. txn'[w] = Idle
    BY <2>2 DEF Commit, SerialInv, IInv, TypeOK
  <2>4. txn[w] # Idle
    BY <2>2 DEF Idle
  <2> QED
    BY <1>2, <2>1, <2>3, <2>4
<1>4. CASE ~(Finish(w) /\ ~Fail(w))
  <2>1. \/ Receive(w)    \/ LockContract(w) \/ FetchWallet(w) \/ SumEntries(w)
        \/ LockWallet(w) \/ Flush(w)        \/ RefusePosting(w) \/ Fail(w)
        \/ Rollback(w)   \/ Crash(w)
    BY <1>1, <1>4 DEF Step, DeadlockAbort
  <2>2. UNCHANGED committed /\ ReadsHold(txn'[w])
    BY <2>1, QuietHolds
  <2> QED
    BY <1>2, <2>2
<1> QED
  BY <1>3, <1>4

\* The invariant is inductive as long as requests do not overlap: a commit
\* finds no other request with reads it could make stale.
LEMMA NextSerialInv ==
    ASSUME SerialInv, NoOverlap, [Next]_vars
    PROVE  SerialInv'
<1>1. IInv'
  BY NextKeeps DEF SerialInv
<1>2. CASE Next
  <2>1. PICK w \in Workers :
          /\ \A v \in Workers \ {w} : txn'[v] = txn[v]
          /\ \/ Atomic!Next /\ txn[w] # Idle /\ txn'[w] = Idle
             \/ UNCHANGED committed /\ ReadsHold(txn'[w])
    BY <1>2, StepIs
  <2>2. CASE Atomic!Next /\ txn[w] # Idle /\ txn'[w] = Idle
    <3>1. BooksOK'
      BY <2>2, AtomicKeeps DEF SerialInv
    <3>2. \A v \in Workers : txn'[v] = Idle
      BY <2>1, <2>2 DEF NoOverlap
    <3>3. \A v \in Workers : ReadsHold(txn[v])'
      BY <3>2 DEF Idle, ReadsHold, SeenIsCurrent, WorksOn, SnapIsCurrent, MayGoOn, PostIsDue
    <3> QED
      BY <1>1, <3>1, <3>3 DEF SerialInv
  <2>3. CASE UNCHANGED committed /\ ReadsHold(txn'[w])
    BY <1>1, <2>1, <2>3, ReadsSuffice
  <2> QED
    BY <2>1, <2>2, <2>3
<1>3. CASE UNCHANGED vars
  <2>1. UNCHANGED <<wallet, ledger, contract, txn>>
    BY <1>3 DEF vars
  <2>2. BooksOK'
    BY <2>1 DEF SerialInv, BooksOK, StatusFollowsSection, FrozenIsCovered, WalletMatchesLedger,
       Drift, CancelledHoldsNothing
  <2>3. ASSUME NEW w \in Workers PROVE ReadsHold(txn[w])'
    <3>1. ReadsHold(txn[w]) /\ txn'[w] = txn[w]
      BY <2>1 DEF SerialInv
    <3>2. SeenIsCurrent(txn[w])' /\ WorksOn(txn[w])' /\ SnapIsCurrent(txn[w])' /\ MayGoOn(txn[w])'
      BY <2>1, <3>1 DEF ReadsHold, SeenIsCurrent, RowAsRead, WorksOn, SnapIsCurrent, MayGoOn
    <3>3. PostIsDue(txn[w])'
      BY <2>1, <3>1 DEF ReadsHold, PostIsDue, Release
    <3> QED
      BY <3>2, <3>3 DEF ReadsHold
  <2> QED
    BY <1>1, <2>2, <2>3 DEF SerialInv
<1> QED
  BY <1>2, <1>3

\* Every step is a step of AtomicLedger or leaves its state alone.
LEMMA NextSimulates ==
    ASSUME SerialInv, [Next]_vars
    PROVE  [Atomic!Next]_(Atomic!vars)
<1>1. CASE Next
  BY <1>1, StepIs DEF committed, Atomic!vars
<1>2. CASE UNCHANGED vars
  BY <1>2 DEF vars, Atomic!vars
<1> QED
  BY <1>1, <1>2

\* Whatever a step does to a contract, an atomic operation may do.
LEMMA NextMoves ==
    ASSUME SerialInv, [Next]_vars
    PROVE  \A c \in Contracts : Moves(c)
<1>1. CASE Atomic!Next
  BY <1>1, AtomicKeeps DEF SerialInv
<1>2. CASE UNCHANGED Atomic!vars
  <2>1. contract' = contract
    BY <1>2 DEF Atomic!vars
  <2> QED
    BY <2>1 DEF Moves
<1> QED
  BY <1>1, <1>2, NextSimulates

\* The initial states are those of AtomicLedger.
LEMMA InitSimulates == Init => Atomic!Init
  BY DEF Init, Atomic!Init, EmptyWallet, Atomic!EmptyWallet, EmptyLedger, Atomic!EmptyLedger,
     AssignedRows, Atomic!AssignedRows, Zero, Atomic!Zero, Percentage, Atomic!Percentage,
     ContractRow, Atomic!ContractRow, Status, Atomic!Status, SectionStatus, Atomic!SectionStatus

-----------------------------------------------------------------------------
(* The theorems.                                                           *)

\* The invariant holds in every state of every behaviour without overlap.
LEMMA SerialInvariance == Spec /\ []NoOverlap => []SerialInv
<1>1. SerialInv /\ NoOverlap /\ [Next]_vars => SerialInv'
  BY NextSerialInv
<1> QED
  BY InitSerialInv, <1>1, PTL DEF Spec

\* record() keeps each wallet row equal to the sum of its ledger entries, for
\* any sequence of requests that do not overlap.
THEOREM SerialBooksCorrect == Spec /\ []NoOverlap => []WalletMatchesLedger
<1>1. SerialInv => WalletMatchesLedger
  BY DEF SerialInv, BooksOK
<1> QED
  BY SerialInvariance, <1>1, PTL

\* After cancel_contract the contract holds no money of its teacher's, and no
\* later entry gives it any.
THEOREM SerialCancelledCorrect == Spec /\ []NoOverlap => []CancelledHoldsNothing
<1>1. SerialInv => CancelledHoldsNothing
  BY DEF SerialInv, BooksOK
<1> QED
  BY SerialInvariance, <1>1, PTL

\* No handler takes a contract out of SETTLED or CANCELLED.
THEOREM SerialTerminalCorrect == Spec /\ []NoOverlap => TerminalIsFinal
<1>1. SerialInv /\ [Next]_vars
        => [\A c \in Contracts : contract[c].status \in {"SETTLED", "CANCELLED"}
              => contract'[c].status = contract[c].status]_vars
  BY NextMoves DEF Moves
<1> QED
  BY SerialInvariance, <1>1, PTL DEF Spec, TerminalIsFinal

\* settle_contract releases everything the contract still has frozen in the
\* wallet of its teacher.
THEOREM SerialSettlementCorrect == Spec /\ []NoOverlap => SettlementReleasesHoldback
<1>1. SerialInv /\ [Next]_vars
        => [\A c \in Contracts :
              contract[c].status # "SETTLED" /\ contract'[c].status = "SETTLED"
                => ledger'[contract[c].teacher].net[c].frozen <= 0]_vars
  BY NextMoves DEF Moves
<1> QED
  BY SerialInvariance, <1>1, PTL DEF Spec, SettlementReleasesHoldback

\* Requests that do not overlap take effect as single indivisible operations:
\* every behaviour of the ledger service is one of AtomicLedger.
THEOREM SerialRefinement == Spec /\ []NoOverlap => ImplementsAtomicLedger
<1>1. SerialInv /\ [Next]_vars => [Atomic!Next]_(Atomic!vars)
  BY NextSimulates
<1> QED
  BY SerialInvariance, InitSimulates, <1>1, PTL DEF Spec, ImplementsAtomicLedger, Atomic!Spec
=============================================================================
