--------------------------- MODULE CashDay_proofs ---------------------------
(* Proofs about CashDay for any number of workers, refunds and requests.   *)
EXTENDS CashDay, FiniteSetTheorems, TLAPS

(***************************************************************************)
(* The inductive invariant.  A number is read long before it is committed, *)
(* and the rows it was read from may be overtaken; what keeps the numbers  *)
(* of a day in order is the unique index for all documents, and for        *)
(* receipts the advisory lock.                                             *)
(***************************************************************************)

ClosureKinds == {"close", "requestUnlock", "approve", "reject"}

\* The last number committed, as long as there are no gaps.
Top(d) == Cardinality(used[d])

\* The transactions that have begun and not ended.
Busy == {w \in Workers : txn[w].step # "idle"}

ClaimedRefunds == {r \in Refunds : pending[r] = "CLAIMED"}

\* Every number committed was asked for by a request, and so was every
\* transaction under way: there is room for its number below the bound.
NumbersAreCounted ==
    /\ IsFiniteSet(Busy)
    /\ \A d \in Documents : Top(d) + Cardinality(Busy) <= begun

\* Each statement belongs to some operations only, a refund to one.
KindOfStep(w) ==
    LET t == txn[w] IN
    /\ t.kind = "none" <=> t.step = "idle"
    /\ t.kind = "refund" <=> t.refund \in Refunds
    /\ t.step = "check" => t.kind \in Documents \cup {"requestUnlock"}
    /\ t.step \in {"number", "insert"} => t.kind \in Documents
    /\ t.step = "lock" => t.kind \in {"payment", "close"}
    /\ t.step = "claim" => t.kind = "refund"
    /\ t.step = "write" => t.kind \in ClosureKinds

\* A payment holds the advisory lock from the read of its number on.
PaysUnderLock(w) ==
    txn[w].kind = "payment" /\ txn[w].step \in {"number", "insert", "commit"}
        => dateLock = w

\* A number that was read is the next one or has been overtaken.
NumberInReach(w) ==
    txn[w].kind \in Documents /\ txn[w].step \in {"claim", "insert", "commit"}
        => txn[w].number \in 1 .. Top(txn[w].kind) + 1

\* The index has admitted the number of an inserted row.
NumberIsNew(w) ==
    txn[w].kind \in Documents /\ txn[w].step = "commit"
        => txn[w].number \notin used[txn[w].kind]

\* The number of a receipt is not overtaken.
ReceiptIsNew(w) ==
    txn[w].kind = "payment" /\ txn[w].step = "insert"
        => txn[w].number \notin used["payment"]

\* A refund that is being paid is locked, and nobody has claimed it.
RefundIsHeld(w) ==
    txn[w].kind = "refund" /\ txn[w].step \in {"insert", "commit"}
        => claimLock[txn[w].refund] = w /\ pending[txn[w].refund] = "UNCLAIMED"

\* What was decided about the day's row is decided under its lock.
ClosureIsHeld(w) ==
    txn[w].kind \in ClosureKinds /\ txn[w].step = "commit"
        => /\ closureLock = w
           /\ txn[w].kind \in {"approve", "reject"} => closure = "unlock_requested"

WorkerInv(w) ==
    /\ KindOfStep(w) /\ PaysUnderLock(w)
    /\ NumberInReach(w) /\ NumberIsNew(w) /\ ReceiptIsNew(w)
    /\ RefundIsHeld(w) /\ ClosureIsHeld(w)

\* No two inserted rows have the same number.
NumbersDiffer ==
    \A v, w \in Workers :
        v # w /\ txn[v].kind \in Documents /\ txn[v].kind = txn[w].kind
          /\ txn[v].step = "commit" /\ txn[w].step = "commit"
        => txn[v].number # txn[w].number

IInv ==
    /\ TypeOK
    /\ NumbersAreCounted /\ NumbersHaveNoGap /\ NumbersDiffer
    /\ IsFiniteSet(ClaimedRefunds) /\ ClaimsMatchRefunds
    /\ \A w \in Workers : WorkerInv(w)

-----------------------------------------------------------------------------
(* Facts about numbers and sets.                                           *)

\* The highest of the first n numbers is n.
LEMMA MaxOfInterval == ASSUME NEW n \in Nat PROVE Max({0} \cup 1 .. n) = n
<1>1. n \in {0} \cup 1 .. n /\ \A y \in {0} \cup 1 .. n : n >= y
  OBVIOUS
<1>2. \A x \in {0} \cup 1 .. n : (\A y \in {0} \cup 1 .. n : x >= y) => x = n
  OBVIOUS
<1> QED
  BY <1>1, <1>2 DEF Max

\* The numbers of a day are finitely many.
LEMMA TopType ==
    ASSUME TypeOK, NEW d \in Documents
    PROVE  IsFiniteSet(used[d]) /\ Top(d) \in Nat
<1>1. used[d] \in SUBSET (1 .. MaxTxns) /\ MaxTxns \in Nat
  BY BoundAssumption DEF TypeOK
<1>2. IsFiniteSet(1 .. MaxTxns)
  BY <1>1, FS_Interval
<1>3. IsFiniteSet(used[d])
  BY <1>1, <1>2, FS_Subset
<1> QED
  BY <1>3, FS_CardinalityType DEF Top

\* Without gaps, the next number is the one after the last.
LEMMA NextNumberIsNext ==
    ASSUME TypeOK, NumbersHaveNoGap, NEW d \in Documents
    PROVE  NextNumber(d) = Top(d) + 1
<1>1. used[d] = 1 .. Top(d) /\ Top(d) \in Nat
  BY TopType DEF NumbersHaveNoGap, Top
<1> QED
  BY <1>1, MaxOfInterval DEF NextNumber

\* A transaction under way finds room for its number.
LEMMA RoomForOne ==
    ASSUME TypeOK, NumbersAreCounted, NEW w \in Workers, txn[w].step # "idle",
           NEW d \in Documents
    PROVE  Top(d) + 1 <= MaxTxns
<1>1. w \in Busy /\ IsFiniteSet(Busy) /\ Cardinality(Busy) \in Nat
  BY FS_CardinalityType DEF Busy, NumbersAreCounted
<1>2. Cardinality(Busy) # 0
  BY <1>1, FS_EmptySet
<1>3. Top(d) \in Nat /\ Top(d) + Cardinality(Busy) <= begun /\ begun \in Nat /\ begun <= MaxTxns
  BY TopType, BoundAssumption DEF NumbersAreCounted, TypeOK
<1> QED
  BY <1>1, <1>2, <1>3, BoundAssumption

\* The state of a worker without a request.
LEMMA IdleType ==
    Idle \in [kind : AllKinds \cup {"none"}, step : Steps,
              refund : Refunds \cup {NoRefund}, number : 0 .. MaxTxns]
  BY BoundAssumption DEF Idle, Steps

-----------------------------------------------------------------------------
(* What the steps have in common.                                          *)

\* The invariant holds before the first request.
LEMMA InitIInv == Init => IInv
<1> SUFFICES ASSUME Init PROVE IInv
  OBVIOUS
<1>1. TypeOK
  BY IdleType, BoundAssumption DEF Init, TypeOK, Closure
<1>2. Busy = {} /\ ClaimedRefunds = {}
  BY DEF Init, Busy, Idle, ClaimedRefunds
<1>3. \A d \in Documents : used[d] = {} /\ Top(d) = 0
  BY FS_EmptySet DEF Init, Top
<1>4. NumbersAreCounted
  BY <1>2, <1>3, FS_EmptySet DEF NumbersAreCounted, Init
<1>5. NumbersHaveNoGap
  <2>1. 1 .. 0 = {}
    OBVIOUS
  <2> QED
    BY <1>3, <2>1, FS_EmptySet, Zenon DEF NumbersHaveNoGap
<1>6. IsFiniteSet(ClaimedRefunds) /\ ClaimsMatchRefunds
  BY <1>2, <1>3, FS_EmptySet DEF ClaimsMatchRefunds, ClaimedRefunds, Top, Documents
<1>7. NumbersDiffer /\ \A w \in Workers : WorkerInv(w)
  BY DistinctAssumption DEF Init, Idle, NumbersDiffer, WorkerInv, KindOfStep, PaysUnderLock,
     NumberInReach, NumberIsNew, ReceiptIsNew, RefundIsHeld, ClosureIsHeld, Documents,
     ClosureKinds
<1> QED
  BY <1>1, <1>4, <1>5, <1>6, <1>7 DEF IInv

\* A step of w that commits nothing and takes no lock from anybody leaves the
\* other transactions as they were.
LEMMA OthersKept ==
    ASSUME IInv, NEW w \in Workers, UNCHANGED committed,
           \A v \in Workers \ {w} :
               /\ txn'[v] = txn[v]
               /\ dateLock = v => dateLock' = v
               /\ closureLock = v => closureLock' = v
               /\ \A r \in Refunds : claimLock[r] = v => claimLock'[r] = v
    PROVE  \A v \in Workers \ {w} : WorkerInv(v)'
<1> SUFFICES ASSUME NEW v \in Workers \ {w} PROVE WorkerInv(v)'
  OBVIOUS
<1>1. WorkerInv(v) /\ txn'[v] = txn[v] /\ UNCHANGED <<closure, used, pending>>
  BY DEF IInv, committed
<1>2. KindOfStep(v)' /\ PaysUnderLock(v)' /\ ClosureIsHeld(v)'
  BY <1>1 DEF WorkerInv, KindOfStep, PaysUnderLock, ClosureIsHeld
<1>3. NumberInReach(v)' /\ NumberIsNew(v)' /\ ReceiptIsNew(v)'
  BY <1>1 DEF WorkerInv, NumberInReach, NumberIsNew, ReceiptIsNew, Top
<1>4. RefundIsHeld(v)'
  BY <1>1 DEF WorkerInv, RefundIsHeld, KindOfStep
<1> QED
  BY <1>2, <1>3, <1>4 DEF WorkerInv

\* A statement of a transaction under way keeps the invariant if it keeps the
\* types and w's part of it, and gives w no number that is in flight.
LEMMA StatementKeeps ==
    ASSUME IInv, NEW w \in Workers, UNCHANGED <<committed, begun>>,
           \A v \in Workers \ {w} :
               /\ txn'[v] = txn[v]
               /\ dateLock = v => dateLock' = v
               /\ closureLock = v => closureLock' = v
               /\ \A r \in Refunds : claimLock[r] = v => claimLock'[r] = v,
           txn[w].step # "idle", txn'[w].step # "idle",
           TypeOK', WorkerInv(w)',
           txn'[w].step = "commit" /\ txn'[w].kind \in Documents
               => txn'[w].number \notin InFlight(txn'[w].kind)
    PROVE  IInv'
<1>1. \A v \in Workers : WorkerInv(v)'
  BY OthersKept
<1>2. UNCHANGED <<closure, used, pending>>
  BY DEF committed
<1>3. Busy' = Busy
  BY DEF Busy
<1>4. NumbersAreCounted' /\ NumbersHaveNoGap'
  BY <1>2, <1>3 DEF IInv, NumbersAreCounted, NumbersHaveNoGap, Top
<1>5. IsFiniteSet(ClaimedRefunds)' /\ ClaimsMatchRefunds'
  BY <1>2 DEF IInv, ClaimedRefunds, ClaimsMatchRefunds
<1>6. NumbersDiffer'
  BY DEF IInv, NumbersDiffer, InFlight
<1> QED
  BY <1>1, <1>4, <1>5, <1>6 DEF IInv

\* A transaction that ends without a commit gives its locks back.
LEMMA AbortKeeps ==
    ASSUME IInv, NEW w \in Workers, txn[w].step # "idle", Released(w), UNCHANGED committed
    PROVE  IInv'
<1>1. /\ txn' = [txn EXCEPT ![w] = Idle] /\ begun' = begun
      /\ UNCHANGED <<closure, used, pending>>
      /\ \A v \in Workers \ {w} :
            /\ txn'[v] = txn[v]
            /\ dateLock = v => dateLock' = v
            /\ closureLock = v => closureLock' = v
            /\ \A r \in Refunds : claimLock[r] = v => claimLock'[r] = v
  BY DEF IInv, TypeOK, Released, Free, committed
<1>2. TypeOK'
  BY <1>1, IdleType DEF IInv, TypeOK, Released, Free
<1>3. txn'[w] = Idle
  BY <1>1 DEF IInv, TypeOK
<1>4. WorkerInv(w)'
  BY <1>3, DistinctAssumption DEF Idle, WorkerInv, KindOfStep, PaysUnderLock, NumberInReach,
     NumberIsNew, ReceiptIsNew, RefundIsHeld, ClosureIsHeld, Documents, ClosureKinds
<1>5. \A v \in Workers : WorkerInv(v)'
  BY <1>1, <1>4, OthersKept
<1>6. NumbersAreCounted'
  <2>1. Busy' = Busy \ {w} /\ w \in Busy
    BY <1>1, <1>3 DEF Busy, Idle
  <2>2. IsFiniteSet(Busy') /\ Cardinality(Busy') = Cardinality(Busy) - 1
    BY <2>1, FS_RemoveElement DEF IInv, NumbersAreCounted
  <2>3. Cardinality(Busy) \in Nat /\ begun \in Nat
    BY FS_CardinalityType, BoundAssumption DEF IInv, NumbersAreCounted, TypeOK
  <2>4. ASSUME NEW d \in Documents PROVE Top(d)' + Cardinality(Busy') <= begun'
    <3>1. Top(d)' = Top(d) /\ Top(d) \in Nat /\ Top(d) + Cardinality(Busy) <= begun
      BY <1>1, TopType DEF Top, IInv, NumbersAreCounted
    <3> QED
      BY <3>1, <2>2, <2>3, <1>1
  <2> QED
    BY <2>2, <2>4 DEF NumbersAreCounted
<1>7. NumbersHaveNoGap'
  BY <1>1 DEF IInv, NumbersHaveNoGap
<1>8. IsFiniteSet(ClaimedRefunds)' /\ ClaimsMatchRefunds'
  BY <1>1 DEF IInv, ClaimedRefunds, ClaimsMatchRefunds
<1>9. NumbersDiffer'
  BY <1>1, <1>3 DEF IInv, NumbersDiffer, Idle
<1> QED
  BY <1>2, <1>5, <1>6, <1>7, <1>8, <1>9 DEF IInv

-----------------------------------------------------------------------------
(* One lemma per action.                                                   *)

\* A request that arrives has done nothing yet.
LEMMA ReceiveStep == ASSUME IInv, NEW w \in Workers, Receive(w) PROVE IInv'
<1>1. PICK kind \in Kinds, r \in Refunds \cup {NoRefund} :
        /\ txn[w] = Idle /\ begun < MaxTxns
        /\ kind = "refund" <=> r # NoRefund
        /\ txn' = [txn EXCEPT ![w] = [Idle EXCEPT !.kind = kind, !.refund = r,
                                                  !.step = FirstStep(kind)]]
        /\ begun' = begun + 1
        /\ UNCHANGED <<committed, locks>>
  BY DEF Receive
<1>2. UNCHANGED <<closure, used, pending, dateLock, closureLock, claimLock>>
  BY <1>1 DEF committed, locks
<1>3. kind \in AllKinds /\ FirstStep(kind) \in {"check", "lock", "write"}
  BY KindsAssumption DEF FirstStep
<1>4. /\ \A v \in Workers \ {w} : txn'[v] = txn[v]
      /\ txn'[w] = [kind |-> kind, step |-> FirstStep(kind), refund |-> r, number |-> 0]
  BY <1>1 DEF IInv, TypeOK, Idle
<1>5. TypeOK'
  <2>1. begun' \in 0 .. MaxTxns
    BY <1>1, BoundAssumption DEF IInv, TypeOK
  <2>2. txn'[w] \in [kind : AllKinds \cup {"none"}, step : Steps,
                     refund : Refunds \cup {NoRefund}, number : 0 .. MaxTxns]
    BY <1>3, <1>4, BoundAssumption DEF Steps
  <2> QED
    BY <1>1, <1>2, <2>1, <2>2 DEF IInv, TypeOK
<1>6. WorkerInv(w)'
  <2>1. KindOfStep(w)'
    BY <1>1, <1>3, <1>4, DistinctAssumption
       DEF KindOfStep, FirstStep, AllKinds, Documents, ClosureKinds
  <2> QED
    BY <2>1, <1>3, <1>4 DEF WorkerInv, PaysUnderLock, NumberInReach, NumberIsNew, ReceiptIsNew,
       RefundIsHeld, ClosureIsHeld
<1>7. \A v \in Workers : WorkerInv(v)'
  BY <1>1, <1>2, <1>4, <1>6, OthersKept
<1>8. NumbersAreCounted'
  <2>1. Busy' = Busy \cup {w} /\ w \notin Busy
    BY <1>1, <1>3, <1>4 DEF Busy, Idle
  <2>2. IsFiniteSet(Busy') /\ Cardinality(Busy') = Cardinality(Busy) + 1
    BY <2>1, FS_AddElement DEF IInv, NumbersAreCounted
  <2>3. Cardinality(Busy) \in Nat /\ begun \in Nat
    BY FS_CardinalityType, BoundAssumption DEF IInv, NumbersAreCounted, TypeOK
  <2>4. ASSUME NEW d \in Documents PROVE Top(d)' + Cardinality(Busy') <= begun'
    <3>1. Top(d)' = Top(d) /\ Top(d) \in Nat /\ Top(d) + Cardinality(Busy) <= begun
      BY <1>2, TopType DEF Top, IInv, NumbersAreCounted
    <3> QED
      BY <3>1, <2>2, <2>3, <1>1
  <2> QED
    BY <2>2, <2>4 DEF NumbersAreCounted
<1>9. NumbersHaveNoGap' /\ IsFiniteSet(ClaimedRefunds)' /\ ClaimsMatchRefunds'
  BY <1>2 DEF IInv, NumbersHaveNoGap, ClaimedRefunds, ClaimsMatchRefunds
<1>10. NumbersDiffer'
  BY <1>3, <1>4 DEF IInv, NumbersDiffer
<1> QED
  BY <1>5, <1>7, <1>8, <1>9, <1>10 DEF IInv

\* What Goto does to the transactions.
LEMMA GotoMoves ==
    ASSUME TypeOK, NEW w \in Workers, NEW step \in Steps, Goto(w, step)
    PROVE  /\ txn' \in [Workers -> [kind : AllKinds \cup {"none"}, step : Steps,
                              refund : Refunds \cup {NoRefund}, number : 0 .. MaxTxns]]
           /\ txn'[w] = [txn[w] EXCEPT !.step = step]
           /\ txn'[w].step = step /\ txn'[w].kind = txn[w].kind
           /\ txn'[w].number = txn[w].number /\ txn'[w].refund = txn[w].refund
           /\ \A v \in Workers \ {w} : txn'[v] = txn[v]
  BY DEF Goto, TypeOK

\* A request that is refused keeps the invariant.
LEMMA RefusalKeeps ==
    ASSUME IInv, NEW w \in Workers, txn[w].step # "idle", Goto(w, "failed"),
           UNCHANGED <<committed, locks, begun>>
    PROVE  IInv'
<1>1. "failed" \in Steps
  BY DEF Steps
<1>2. UNCHANGED <<closure, used, pending, dateLock, closureLock, claimLock, begun>>
  BY DEF committed, locks
<1>3. TypeOK'
  BY <1>1, <1>2, GotoMoves DEF IInv, TypeOK
<1>4. WorkerInv(w)'
  BY <1>1, GotoMoves DEF IInv, WorkerInv, KindOfStep, PaysUnderLock, NumberInReach,
     NumberIsNew, ReceiptIsNew, RefundIsHeld, ClosureIsHeld
<1> QED
  BY <1>1, <1>2, <1>3, <1>4, GotoMoves, StatementKeeps DEF IInv

\* The check of the day lets a request go on to its next statement.
LEMMA CheckStep == ASSUME IInv, NEW w \in Workers, Check(w) PROVE IInv'
<1>1. txn[w].step = "check" /\ UNCHANGED <<committed, locks, begun>>
  BY DEF Check
<1>2. CASE Goto(w, "failed")
  BY <1>1, <1>2, RefusalKeeps
<1>3. CASE \E step \in {"write", "lock", "number"} :
             /\ Goto(w, step)
             /\ step = "write" <=> txn[w].kind = "requestUnlock"
             /\ step = "lock" <=> txn[w].kind = "payment"
  <2>1. PICK step \in {"write", "lock", "number"} :
             /\ Goto(w, step)
             /\ step = "write" <=> txn[w].kind = "requestUnlock"
             /\ step = "lock" <=> txn[w].kind = "payment"
    BY <1>3
  <2>2. step \in Steps
    BY DEF Steps
  <2>3. UNCHANGED <<closure, used, pending, dateLock, closureLock, claimLock, begun>>
    BY <1>1 DEF committed, locks
  <2>4. TypeOK'
    BY <2>1, <2>2, <2>3, GotoMoves DEF IInv, TypeOK
  <2>5. WorkerInv(w)'
    BY <2>1, <2>2, <2>3, <1>1, GotoMoves DEF IInv, WorkerInv, KindOfStep, PaysUnderLock, NumberInReach,
       NumberIsNew, ReceiptIsNew, RefundIsHeld, ClosureIsHeld, ClosureKinds
  <2> QED
    BY <1>1, <2>1, <2>2, <2>3, <2>4, <2>5, GotoMoves, StatementKeeps DEF IInv
<1> QED
  BY <1>2, <1>3 DEF Check

\* The advisory lock is taken by a close or a payment.
LEMMA LockDateStep == ASSUME IInv, NEW w \in Workers, LockDate(w) PROVE IInv'
<1> DEFINE next == IF txn[w].kind = "close" THEN "write" ELSE "number"
<1>1. /\ txn[w].step = "lock" /\ dateLock = NoWorker /\ dateLock' = w /\ Goto(w, next)
      /\ UNCHANGED <<closure, used, pending, closureLock, claimLock, begun>>
  BY DEF LockDate, committed
<1>2. next \in Steps /\ next \in {"write", "number"} /\ (next = "write" <=> txn[w].kind = "close")
  BY DEF Steps
<1> HIDE DEF next
<1>3. TypeOK'
  BY <1>1, <1>2, GotoMoves DEF IInv, TypeOK
<1>4. WorkerInv(w)'
  BY <1>1, <1>2, GotoMoves DEF IInv, WorkerInv, KindOfStep, PaysUnderLock, NumberInReach,
     NumberIsNew, ReceiptIsNew, RefundIsHeld, ClosureIsHeld, ClosureKinds, Documents
<1>5. \A v \in Workers \ {w} : dateLock # v
  BY <1>1, DistinctAssumption
<1> QED
  BY <1>1, <1>2, <1>3, <1>4, <1>5, GotoMoves, StatementKeeps DEF IInv, committed

\* The number that is read is the next one.
LEMMA ReadNumberStep == ASSUME IInv, NEW w \in Workers, ReadNumber(w) PROVE IInv'
<1> DEFINE next == IF txn[w].kind = "refund" THEN "claim" ELSE "insert"
<1>1. /\ txn[w].step = "number"
      /\ txn' = [txn EXCEPT ![w] = [txn[w] EXCEPT !.number = NextNumber(txn[w].kind),
                                                  !.step = next]]
      /\ UNCHANGED <<closure, used, pending, dateLock, closureLock, claimLock, begun>>
  BY DEF ReadNumber, committed, locks
<1>2. next \in Steps /\ next \in {"claim", "insert"} /\ (next = "claim" <=> txn[w].kind = "refund")
  BY DEF Steps
<1> HIDE DEF next
<1>3. txn[w].kind \in Documents
  BY <1>1 DEF IInv, WorkerInv, KindOfStep
<1>4. /\ NextNumber(txn[w].kind) = Top(txn[w].kind) + 1
      /\ Top(txn[w].kind) \in Nat
      /\ Top(txn[w].kind) + 1 \in 0 .. MaxTxns
      /\ used[txn[w].kind] = 1 .. Top(txn[w].kind)
  BY <1>1, <1>3, NextNumberIsNext, RoomForOne, TopType, BoundAssumption
     DEF IInv, NumbersHaveNoGap, Top
<1>5. /\ txn'[w] = [kind |-> txn[w].kind, step |-> next, refund |-> txn[w].refund,
                    number |-> Top(txn[w].kind) + 1]
      /\ \A v \in Workers \ {w} : txn'[v] = txn[v]
  BY <1>1, <1>4 DEF IInv, TypeOK
<1>6. TypeOK'
  BY <1>1, <1>2, <1>4 DEF IInv, TypeOK
<1>7. UNCHANGED <<Top("payment"), Top(txn[w].kind)>>
  BY <1>1, <1>5 DEF Top
<1>8. Top(txn[w].kind) + 1 \notin used[txn[w].kind]
  BY <1>4
<1>9. WorkerInv(w)'
  <2>1. KindOfStep(w)' /\ PaysUnderLock(w)' /\ RefundIsHeld(w)' /\ ClosureIsHeld(w)'
    BY <1>1, <1>2, <1>3, <1>5 DEF IInv, WorkerInv, KindOfStep, PaysUnderLock, RefundIsHeld,
       ClosureIsHeld, ClosureKinds, Documents
  <2>2. NumberInReach(w)'
    BY <1>4, <1>5, <1>7 DEF NumberInReach
  <2>3. txn'[w].number \notin used[txn[w].kind] /\ txn'[w].kind = txn[w].kind
    BY <1>5, <1>8
  <2>4. NumberIsNew(w)' /\ ReceiptIsNew(w)'
    BY <1>1, <1>2, <1>5, <2>3 DEF NumberIsNew, ReceiptIsNew
  <2> QED
    BY <2>1, <2>2, <2>4 DEF WorkerInv
<1> QED
  BY <1>1, <1>2, <1>5, <1>6, <1>9, StatementKeeps DEF IInv, committed

\* A refund is claimed by the transaction that gets the lock of its row.
LEMMA ClaimStep == ASSUME IInv, NEW w \in Workers, Claim(w) PROVE IInv'
<1>1. txn[w].step = "claim" /\ txn[w].kind = "refund" /\ txn[w].refund \in Refunds
  BY DEF Claim, IInv, WorkerInv, KindOfStep
<1>2. CASE pending[txn[w].refund] # "UNCLAIMED"
  BY <1>1, <1>2, RefusalKeeps DEF Claim, Fail
<1>3. CASE pending[txn[w].refund] = "UNCLAIMED"
  <2>1. /\ claimLock[txn[w].refund] = NoWorker
        /\ claimLock' = [claimLock EXCEPT ![txn[w].refund] = w]
        /\ Goto(w, "insert")
        /\ UNCHANGED <<closure, used, pending, dateLock, closureLock, begun>>
    BY <1>3 DEF Claim, committed
  <2>2. "insert" \in Steps
    BY DEF Steps
  <2>3. TypeOK'
    BY <1>1, <2>1, <2>2, GotoMoves DEF IInv, TypeOK
  <2>4. claimLock'[txn[w].refund] = w
    BY <1>1, <2>1 DEF IInv, TypeOK
  <2>5. WorkerInv(w)'
    BY <1>1, <1>3, <2>1, <2>2, <2>4, GotoMoves DEF IInv, WorkerInv, KindOfStep, PaysUnderLock,
       NumberInReach, NumberIsNew, ReceiptIsNew, RefundIsHeld, ClosureIsHeld, Documents, Top
  <2>6. \A v \in Workers \ {w}, r \in Refunds : claimLock[r] = v => claimLock'[r] = v
    BY <1>1, <2>1, DistinctAssumption DEF IInv, TypeOK
  <2> QED
    BY <1>1, <2>1, <2>2, <2>3, <2>5, <2>6, GotoMoves, StatementKeeps DEF IInv, committed
<1> QED
  BY <1>2, <1>3

\* A row is inserted if nobody has, or is about to have, its number.
LEMMA InsertStep == ASSUME IInv, NEW w \in Workers, Insert(w) PROVE IInv'
<1>1. /\ txn[w].step = "insert" /\ txn[w].kind \in Documents
      /\ txn[w].number \notin InFlight(txn[w].kind)
      /\ UNCHANGED <<committed, locks, begun>>
  BY DEF Insert, IInv, WorkerInv, KindOfStep
<1>2. CASE txn[w].number \in used[txn[w].kind]
  BY <1>1, <1>2, RefusalKeeps DEF Insert
<1>3. CASE txn[w].number \notin used[txn[w].kind]
  <2>1. Goto(w, "commit")
    BY <1>3 DEF Insert
  <2>2. "commit" \in Steps
    BY DEF Steps
  <2>3. UNCHANGED <<closure, used, pending, dateLock, closureLock, claimLock, begun>>
    BY <1>1 DEF committed, locks
  <2>4. TypeOK'
    BY <2>1, <2>2, <2>3, GotoMoves DEF IInv, TypeOK
  <2>5. WorkerInv(w)'
    BY <1>1, <1>3, <2>1, <2>2, <2>3, GotoMoves DEF IInv, WorkerInv, KindOfStep, PaysUnderLock,
       NumberInReach, NumberIsNew, ReceiptIsNew, RefundIsHeld, ClosureIsHeld, Documents,
       ClosureKinds, Top
  <2> QED
    BY <1>1, <2>1, <2>2, <2>3, <2>4, <2>5, GotoMoves, StatementKeeps DEF IInv
<1> QED
  BY <1>2, <1>3

\* The row of the day is locked before it is changed, and an answer to an
\* unlock request finds one.
LEMMA WriteClosureStep == ASSUME IInv, NEW w \in Workers, WriteClosure(w) PROVE IInv'
<1>1. txn[w].step = "write" /\ txn[w].kind \in ClosureKinds
  BY DEF WriteClosure, IInv, WorkerInv, KindOfStep
<1>2. CASE Fail(w)
  BY <1>1, <1>2, RefusalKeeps DEF Fail
<1>3. CASE /\ closureLock = NoWorker /\ closureLock' = w
           /\ Goto(w, "commit")
           /\ UNCHANGED <<committed, dateLock, claimLock, begun>>
           /\ txn[w].kind \in {"approve", "reject"} => closure = "unlock_requested"
  <2>1. "commit" \in Steps
    BY DEF Steps
  <2>2. UNCHANGED <<closure, used, pending, dateLock, claimLock, begun>>
    BY <1>3 DEF committed
  <2>3. TypeOK'
    BY <1>3, <2>1, <2>2, GotoMoves DEF IInv, TypeOK
  <2>4. WorkerInv(w)'
    BY <1>1, <1>3, <2>1, <2>2, GotoMoves DEF IInv, WorkerInv, KindOfStep, PaysUnderLock,
       NumberInReach, NumberIsNew, ReceiptIsNew, RefundIsHeld, ClosureIsHeld, Documents,
       ClosureKinds
  <2>5. \A v \in Workers \ {w} : closureLock # v
    BY <1>3, DistinctAssumption
  <2>6. txn[w].kind \notin Documents
    BY <1>1 DEF ClosureKinds, Documents
  <2> QED
    BY <1>1, <1>3, <2>1, <2>2, <2>3, <2>4, <2>5, <2>6, GotoMoves, StatementKeeps DEF IInv
<1> QED
  BY <1>2, <1>3 DEF WriteClosure

\* A request that failed is rolled back.
LEMMA RollbackStep == ASSUME IInv, NEW w \in Workers, Rollback(w) PROVE IInv'
  BY AbortKeeps DEF Rollback

\* A worker that dies has its transaction rolled back.
LEMMA CrashStep == ASSUME IInv, NEW w \in Workers, Crash(w) PROVE IInv'
  BY AbortKeeps DEF Crash

\* What a commit does to the transactions and the locks.
LEMMA CommitReleases ==
    ASSUME IInv, NEW w \in Workers, Commit(w)
    PROVE  /\ txn[w].step = "commit" /\ txn[w].kind \in AllKinds
           /\ txn' = [txn EXCEPT ![w] = Idle] /\ begun' = begun
           /\ txn'[w] = Idle
           /\ \A v \in Workers \ {w} :
                 /\ txn'[v] = txn[v]
                 /\ dateLock = v => dateLock' = v
                 /\ closureLock = v => closureLock' = v
                 /\ \A r \in Refunds : claimLock[r] = v => claimLock'[r] = v
           /\ dateLock' \in Workers \cup {NoWorker}
           /\ closureLock' \in Workers \cup {NoWorker}
           /\ claimLock' \in [Refunds -> Workers \cup {NoWorker}]
<1>1. txn[w].kind \in AllKinds
  BY DEF Commit, IInv, TypeOK, WorkerInv, KindOfStep
<1> QED
  BY <1>1 DEF Commit, Released, Free, IInv, TypeOK

\* The number that is committed is the one after the last.
LEMMA CommitsNext ==
    ASSUME IInv, NEW w \in Workers, txn[w].step = "commit", txn[w].kind \in Documents
    PROVE  /\ txn[w].number = Top(txn[w].kind) + 1
           /\ txn[w].number \notin used[txn[w].kind]
           /\ used[txn[w].kind] \cup {txn[w].number} = 1 .. Top(txn[w].kind) + 1
           /\ Top(txn[w].kind) \in Nat /\ txn[w].number \in 1 .. MaxTxns
<1>1. Top(txn[w].kind) \in Nat
  BY TopType DEF IInv
<1>2. used[txn[w].kind] = 1 .. Top(txn[w].kind)
  BY DEF IInv, NumbersHaveNoGap, Top
<1>3. /\ txn[w].number \in 1 .. Top(txn[w].kind) + 1
      /\ txn[w].number \notin used[txn[w].kind]
  BY DEF IInv, WorkerInv, NumberInReach, NumberIsNew
<1>4. txn[w].number = Top(txn[w].kind) + 1
  BY <1>1, <1>2, <1>3
<1>5. used[txn[w].kind] \cup {txn[w].number} = 1 .. Top(txn[w].kind) + 1
  BY <1>1, <1>2, <1>4
<1>6. Top(txn[w].kind) + 1 <= MaxTxns
  BY RoomForOne DEF IInv
<1> QED
  BY <1>1, <1>3, <1>4, <1>5, <1>6, BoundAssumption

\* The numbers after a commit, with one more of the kind committed.
LEMMA CommitNumbers ==
    ASSUME IInv, NEW w \in Workers, Commit(w)
    PROVE  /\ used' \in [Documents -> SUBSET (1 .. MaxTxns)]
           /\ \A d \in Documents :
                IF d = txn[w].kind
                THEN /\ used'[d] = used[d] \cup {txn[w].number}
                     /\ used'[d] = 1 .. Top(d) + 1
                     /\ Top(d)' = Top(d) + 1
                ELSE used'[d] = used[d] /\ Top(d)' = Top(d)
<1>1. CASE txn[w].kind \in Documents
  <2>1. used' = [used EXCEPT ![txn[w].kind] = @ \cup {txn[w].number}]
    BY <1>1 DEF Commit
  <2>2. /\ txn[w].number \in 1 .. MaxTxns
        /\ used[txn[w].kind] \cup {txn[w].number} = 1 .. Top(txn[w].kind) + 1
        /\ Top(txn[w].kind) \in Nat
    BY <1>1, CommitsNext, CommitReleases
  <2>3. used' \in [Documents -> SUBSET (1 .. MaxTxns)]
    BY <1>1, <2>1, <2>2 DEF IInv, TypeOK
  <2>4. used'[txn[w].kind] = 1 .. Top(txn[w].kind) + 1
    BY <1>1, <2>1, <2>2 DEF IInv, TypeOK
  <2>5. Cardinality(1 .. Top(txn[w].kind) + 1) = Top(txn[w].kind) + 1
    BY <2>2, FS_Interval
  <2>6. ASSUME NEW d \in Documents, d = txn[w].kind
        PROVE  /\ used'[d] = used[d] \cup {txn[w].number}
               /\ used'[d] = 1 .. Top(d) + 1
               /\ Top(d)' = Top(d) + 1
    BY <1>1, <2>1, <2>4, <2>5, <2>6 DEF IInv, TypeOK, Top
  <2>7. ASSUME NEW d \in Documents, d # txn[w].kind
        PROVE  used'[d] = used[d] /\ Top(d)' = Top(d)
    BY <2>1, <2>7 DEF IInv, TypeOK, Top
  <2> QED
    BY <2>3, <2>6, <2>7
<1>2. CASE txn[w].kind \notin Documents
  <2>1. used' = used
    BY <1>2 DEF Commit
  <2> QED
    BY <1>2, <2>1 DEF IInv, TypeOK, Top
<1> QED
  BY <1>1, <1>2

\* A commit of another transaction takes nothing from under this one: it
\* holds the locks that this one's facts do not depend on.
LEMMA CommitLeavesOthers ==
    ASSUME IInv, NEW w \in Workers, Commit(w), NEW v \in Workers \ {w}
    PROVE  WorkerInv(v)'
<1> DEFINE d == txn[v].kind
<1>1. /\ txn[w].step = "commit" /\ txn'[v] = txn[v]
      /\ dateLock = v => dateLock' = v
      /\ closureLock = v => closureLock' = v
      /\ \A r \in Refunds : claimLock[r] = v => claimLock'[r] = v
  BY CommitReleases
<1>2. WorkerInv(v) /\ WorkerInv(w)
  BY DEF IInv
<1>3. KindOfStep(v)' /\ PaysUnderLock(v)'
  BY <1>1, <1>2 DEF WorkerInv, KindOfStep, PaysUnderLock
<1>4. NumberInReach(v)'
  <2>1. \A k \in Documents : /\ Cardinality(used[k]) \in Nat
                              /\ \/ Cardinality(used'[k]) = Cardinality(used[k])
                                 \/ Cardinality(used'[k]) = Cardinality(used[k]) + 1
    BY CommitNumbers, TopType DEF IInv, Top
  <2> QED
    BY <1>1, <1>2, <2>1 DEF WorkerInv, NumberInReach, Top
<1>5. NumberIsNew(v)'
  <2> SUFFICES ASSUME d \in Documents, txn[v].step = "commit"
               PROVE  txn[v].number \notin used'[d]
    BY <1>1 DEF NumberIsNew
  <2>1. txn[v].number \notin used[d]
    BY <1>2 DEF WorkerInv, NumberIsNew
  <2>2. CASE d = txn[w].kind
    BY <1>1, <2>1, <2>2, CommitNumbers DEF IInv, NumbersDiffer
  <2>3. CASE d # txn[w].kind
    BY <2>1, <2>3, CommitNumbers
  <2> QED
    BY <2>2, <2>3
<1>6. ReceiptIsNew(v)'
  <2> SUFFICES ASSUME d = "payment", txn[v].step = "insert"
               PROVE  txn[v].number \notin used'["payment"]
    BY <1>1 DEF ReceiptIsNew
  <2>1. dateLock = v /\ txn[v].number \notin used["payment"]
    BY <1>2 DEF WorkerInv, PaysUnderLock, ReceiptIsNew
  <2>2. txn[w].kind # "payment"
    BY <1>1, <1>2, <2>1 DEF WorkerInv, PaysUnderLock
  <2> QED
    BY <2>1, <2>2, CommitNumbers DEF Documents
<1>7. RefundIsHeld(v)'
  <2> SUFFICES ASSUME d = "refund", txn[v].step \in {"insert", "commit"}
               PROVE  claimLock'[txn[v].refund] = v /\ pending'[txn[v].refund] = "UNCLAIMED"
    BY <1>1 DEF RefundIsHeld
  <2>1. /\ txn[v].refund \in Refunds
        /\ claimLock[txn[v].refund] = v /\ pending[txn[v].refund] = "UNCLAIMED"
    BY <1>2 DEF WorkerInv, KindOfStep, RefundIsHeld
  <2>2. txn[w].kind = "refund" => txn[w].refund # txn[v].refund
    BY <1>1, <1>2, <2>1 DEF WorkerInv, RefundIsHeld
  <2>3. pending'[txn[v].refund] = pending[txn[v].refund]
    BY <2>1, <2>2 DEF Commit, IInv, TypeOK
  <2> QED
    BY <1>1, <2>1, <2>3
<1>8. ClosureIsHeld(v)'
  <2> SUFFICES ASSUME d \in ClosureKinds, txn[v].step = "commit"
               PROVE  closureLock' = v
                      /\ (d \in {"approve", "reject"} => closure' = "unlock_requested")
    BY <1>1 DEF ClosureIsHeld
  <2>1. closureLock = v /\ (d \in {"approve", "reject"} => closure = "unlock_requested")
    BY <1>2 DEF WorkerInv, ClosureIsHeld
  <2>2. txn[w].kind \notin ClosureKinds
    BY <1>1, <1>2, <2>1 DEF WorkerInv, ClosureIsHeld
  <2>3. closure' = closure
    BY <2>2 DEF Commit, NewClosure, ClosureKinds
  <2> QED
    BY <1>1, <2>1, <2>3
<1> QED
  BY <1>3, <1>4, <1>5, <1>6, <1>7, <1>8 DEF WorkerInv

\* The claim of a refund and its receipt are committed together.
LEMMA CommitClaims ==
    ASSUME IInv, NEW w \in Workers, Commit(w)
    PROVE  IsFiniteSet(ClaimedRefunds)' /\ ClaimsMatchRefunds'
<1> DEFINE r == txn[w].refund
<1>1. txn[w].step = "commit" /\ WorkerInv(w) /\ "refund" \in Documents
  BY CommitReleases DEF IInv, Documents
<1>2. Cardinality(ClaimedRefunds) = Top("refund")
  BY DEF IInv, ClaimsMatchRefunds, ClaimedRefunds, Top
<1>3. CASE txn[w].kind = "refund"
  <2>1. r \in Refunds /\ pending[r] = "UNCLAIMED"
    BY <1>1, <1>3 DEF WorkerInv, KindOfStep, RefundIsHeld
  <2>2. pending' = [pending EXCEPT ![r] = "CLAIMED"]
    BY <1>3 DEF Commit
  <2>3. ClaimedRefunds' = ClaimedRefunds \cup {r} /\ r \notin ClaimedRefunds
    BY <2>1, <2>2 DEF ClaimedRefunds, IInv, TypeOK
  <2>4. /\ IsFiniteSet(ClaimedRefunds')
        /\ Cardinality(ClaimedRefunds') = Cardinality(ClaimedRefunds) + 1
    BY <2>3, FS_AddElement DEF IInv
  <2>5. Top("refund")' = Top("refund") + 1
    BY <1>1, <1>3, CommitNumbers
  <2> QED
    BY <1>2, <2>4, <2>5 DEF ClaimsMatchRefunds, ClaimedRefunds, Top
<1>4. CASE txn[w].kind # "refund"
  <2>1. ClaimedRefunds' = ClaimedRefunds
    BY <1>4 DEF Commit, ClaimedRefunds
  <2>2. Top("refund")' = Top("refund")
    BY <1>1, <1>4, CommitNumbers
  <2> QED
    BY <1>2, <2>1, <2>2 DEF IInv, ClaimsMatchRefunds, ClaimedRefunds, Top
<1> QED
  BY <1>3, <1>4

\* A commit publishes the number, the claim or the new state of the day.
LEMMA CommitStep == ASSUME IInv, NEW w \in Workers, Commit(w) PROVE IInv'
<1>1. /\ txn[w].step = "commit" /\ txn[w].kind \in AllKinds
      /\ txn'[w] = Idle /\ begun' = begun
      /\ \A v \in Workers \ {w} : txn'[v] = txn[v]
  BY CommitReleases
<1>2. TypeOK'
  <2>1. closure' \in Closure
    BY DEF Commit, NewClosure, Closure, IInv, TypeOK
  <2>2. pending' \in [Refunds -> {"UNCLAIMED", "CLAIMED"}]
    BY DEF Commit, IInv, TypeOK
  <2>3. txn' \in [Workers -> [kind : AllKinds \cup {"none"}, step : Steps,
                              refund : Refunds \cup {NoRefund}, number : 0 .. MaxTxns]]
    BY CommitReleases, IdleType DEF IInv, TypeOK
  <2> QED
    BY <2>1, <2>2, <2>3, CommitNumbers, CommitReleases DEF IInv, TypeOK
<1>3. NumbersAreCounted'
  <2>1. Busy' = Busy \ {w} /\ w \in Busy
    BY <1>1 DEF Busy, Idle
  <2>2. IsFiniteSet(Busy') /\ Cardinality(Busy') = Cardinality(Busy) - 1
    BY <2>1, FS_RemoveElement DEF IInv, NumbersAreCounted
  <2>3. Cardinality(Busy) \in Nat /\ begun \in Nat
    BY FS_CardinalityType, BoundAssumption DEF IInv, NumbersAreCounted, TypeOK
  <2>4. ASSUME NEW d \in Documents PROVE Top(d)' + Cardinality(Busy') <= begun'
    <3>1. /\ Top(d)' = Top(d) \/ Top(d)' = Top(d) + 1
          /\ Top(d) \in Nat /\ Top(d) + Cardinality(Busy) <= begun
      BY CommitNumbers, TopType DEF IInv, NumbersAreCounted
    <3> QED
      BY <3>1, <2>2, <2>3, <1>1
  <2> QED
    BY <2>2, <2>4 DEF NumbersAreCounted
<1>4. NumbersHaveNoGap'
  <2> SUFFICES ASSUME NEW d \in Documents PROVE used'[d] = 1 .. Top(d)'
    BY DEF NumbersHaveNoGap, Top
  <2>1. CASE d = txn[w].kind
    BY <2>1, CommitNumbers
  <2>2. CASE d # txn[w].kind
    BY <2>2, CommitNumbers DEF IInv, NumbersHaveNoGap, Top
  <2> QED
    BY <2>1, <2>2
<1>5. NumbersDiffer'
  BY <1>1 DEF IInv, NumbersDiffer, Idle
<1>6. WorkerInv(w)'
  BY <1>1, DistinctAssumption DEF Idle, WorkerInv, KindOfStep, PaysUnderLock, NumberInReach,
     NumberIsNew, ReceiptIsNew, RefundIsHeld, ClosureIsHeld, Documents, ClosureKinds
<1>7. \A v \in Workers : WorkerInv(v)'
  BY <1>6, CommitLeavesOthers
<1> QED
  BY <1>2, <1>3, <1>4, <1>5, <1>7, CommitClaims DEF IInv

-----------------------------------------------------------------------------
(* The theorems.                                                           *)

\* Every step keeps the invariant.
LEMMA NextKeeps == IInv /\ [Next]_vars => IInv'
<1> SUFFICES ASSUME IInv, [Next]_vars PROVE IInv'
  OBVIOUS
<1>1. CASE Next
  <2>1. PICK w \in Workers : Receive(w) \/ Step(w) \/ Crash(w)
    BY <1>1 DEF Next
  <2> QED
    BY <2>1, ReceiveStep, CheckStep, LockDateStep, ReadNumberStep, ClaimStep, InsertStep,
       WriteClosureStep, CommitStep, RollbackStep, CrashStep DEF Step
<1>2. CASE UNCHANGED vars
  <2>1. UNCHANGED <<closure, used, pending, dateLock, closureLock, claimLock, txn, begun>>
    BY <1>2 DEF vars
  <2>2. TypeOK' /\ NumbersHaveNoGap' /\ NumbersDiffer'
    BY <2>1 DEF IInv, TypeOK, NumbersHaveNoGap, NumbersDiffer
  <2>3. NumbersAreCounted'
    BY <2>1 DEF IInv, NumbersAreCounted, Busy, Top
  <2>4. IsFiniteSet(ClaimedRefunds)' /\ ClaimsMatchRefunds'
    BY <2>1 DEF IInv, ClaimedRefunds, ClaimsMatchRefunds
  <2>5. \A w \in Workers : WorkerInv(w)'
    BY <2>1 DEF IInv, WorkerInv, KindOfStep, PaysUnderLock, NumberInReach, NumberIsNew,
       ReceiptIsNew, RefundIsHeld, ClosureIsHeld, Top
  <2> QED
    BY <2>2, <2>3, <2>4, <2>5 DEF IInv
<1> QED
  BY <1>1, <1>2

\* The inductive invariant of the cash desk's day.
THEOREM Invariance == Spec => []IInv
  BY InitIInv, NextKeeps, PTL DEF Spec

\* The state of the day, its locks and its transactions keep their types, and
\* no number goes beyond the number of requests.
THEOREM TypeCorrect == Spec => []TypeOK
<1>1. IInv => TypeOK
  BY DEF IInv
<1> QED
  BY <1>1, Invariance, PTL

\* The numbers of receipts, vouchers and refund receipts have no gap, however
\* many requests fail, collide or die.
THEOREM NoGap == Spec => []NumbersHaveNoGap
<1>1. IInv => NumbersHaveNoGap
  BY DEF IInv
<1> QED
  BY <1>1, Invariance, PTL

\* No payment is refused for its receipt number.
THEOREM NoCollision == Spec => []ReceiptsNeverCollide
<1>1. IInv => ReceiptsNeverCollide
  <2> SUFFICES ASSUME IInv, NEW w \in Workers, txn[w].kind = "payment", txn[w].step = "insert"
               PROVE  txn[w].number \notin used["payment"] \cup InFlight("payment")
    BY DEF ReceiptsNeverCollide
  <2>1. dateLock = w /\ txn[w].number \notin used["payment"]
    BY DEF IInv, WorkerInv, PaysUnderLock, ReceiptIsNew
  <2>2. \A v \in Workers : ~(txn[v].kind = "payment" /\ txn[v].step = "commit")
    BY <2>1 DEF IInv, WorkerInv, PaysUnderLock
  <2> QED
    BY <2>1, <2>2 DEF InFlight
<1> QED
  BY <1>1, Invariance, PTL

\* As many pending refunds are claimed as refund receipts are booked.
THEOREM ClaimsCorrect == Spec => []ClaimsMatchRefunds
<1>1. IInv => ClaimsMatchRefunds
  BY DEF IInv
<1> QED
  BY <1>1, Invariance, PTL

\* Only a commit changes the state of the day, and the commit of an approval
\* finds the request it approves.
LEMMA ReopeningStep ==
    ASSUME IInv, [Next]_vars
    PROVE  closure \in Shut /\ closure' \notin Shut => closure = "unlock_requested"
<1> SUFFICES ASSUME closure' # closure, closure' \notin Shut
             PROVE  closure = "unlock_requested"
  OBVIOUS
<1>1. PICK w \in Workers : Receive(w) \/ Step(w) \/ Crash(w)
  BY DEF Next, vars
<1>2. Commit(w)
  BY <1>1 DEF Receive, Step, Crash, Check, LockDate, ReadNumber, Claim, Insert, WriteClosure,
     Fail, Rollback, committed
<1>3. txn[w].step = "commit" /\ closure' = NewClosure(txn[w].kind)
  BY <1>2 DEF Commit
<1>4. txn[w].kind = "approve"
  BY <1>3 DEF NewClosure, Shut
<1> QED
  BY <1>3, <1>4 DEF IInv, WorkerInv, ClosureIsHeld, ClosureKinds

\* A shut day is opened again only while an unlock request is on it.
THEOREM ReopeningCorrect == Spec => ReopensOnRequest
<1>1. IInv /\ [Next]_vars
        => [(closure \in Shut /\ closure' \notin Shut) => closure = "unlock_requested"]_vars
  BY ReopeningStep
<1> QED
  BY <1>1, Invariance, PTL DEF Spec, ReopensOnRequest
=============================================================================
