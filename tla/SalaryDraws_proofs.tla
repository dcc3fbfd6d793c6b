------------------------- MODULE SalaryDraws_proofs -------------------------
(* Proofs about SalaryDraws for any number of workers, days and requests   *)
(* and any salary.                                                         *)
EXTENDS SalaryDraws, FiniteSetTheorems, TLAPS

(***************************************************************************)
(* The inductive invariant.  The payroll page adds up what was drawn and   *)
(* commits much later; what it found still leaves room for the draw,       *)
(* because whatever else could take that room on this page waits for the   *)
(* employee.  The expenses page takes no lock, and no fact about it says   *)
(* more than that its numbers are new.                                     *)
(***************************************************************************)

Txn == [page : AllPages \cup {"none"}, step : Steps, day : {0} \cup Days,
        amount : 0 .. Ceiling, number : 0 .. MaxTxns]

\* The last voucher number committed on a day, as long as there are no gaps.
Top(d) == Cardinality(used[d])

\* The transactions that have begun and not ended.
Busy == {w \in Workers : txn[w].step # "idle"}

\* Every number committed was asked for by a request, and so was every
\* transaction under way: there is room for its number below the bound.
NumbersAreCounted ==
    /\ IsFiniteSet(Busy)
    /\ \A d \in Days : Top(d) + Cardinality(Busy) <= begun

\* A request has a page, a day and an amount; only the payroll page locks.
RequestIsWhole(w) ==
    LET t == txn[w] IN
    /\ t.step # "idle" => t.page \in AllPages /\ t.day \in Days /\ t.amount > 0
    /\ t.step = "lock" => t.page = "payroll"

\* The payroll page holds the employee from the sum on.
SumsUnderLock(w) ==
    txn[w].page = "payroll"
      /\ txn[w].step \in {"sum", "number", "insert", "reference", "commit"}
    => updater = w

\* What the sum left room for still fits.
RoomIsLeft(w) ==
    txn[w].page = "payroll" /\ txn[w].step \in {"number", "insert", "reference", "commit"}
    => drawn.payroll[txn[w].day] + txn[w].amount <= Ceiling

\* A number that was read is the next one or has been overtaken.
NumberInReach(w) ==
    txn[w].step \in {"insert", "reference", "commit"}
    => txn[w].number \in 1 .. Top(txn[w].day) + 1

\* The index has admitted the number of an inserted row.
NumberIsNew(w) ==
    txn[w].step \in {"reference", "commit"} => txn[w].number \notin used[txn[w].day]

WorkerInv(w) ==
    /\ RequestIsWhole(w) /\ SumsUnderLock(w) /\ RoomIsLeft(w)
    /\ NumberInReach(w) /\ NumberIsNew(w)

\* No two inserted rows of a day have the same number.
NumbersDiffer ==
    \A v, w \in Workers :
        v # w /\ txn[v].day = txn[w].day
          /\ txn[v].step \in {"reference", "commit"} /\ txn[w].step \in {"reference", "commit"}
        => txn[v].number # txn[w].number

IInv ==
    /\ TypeOK
    /\ NumbersAreCounted /\ VouchersCoverDraws /\ NumbersDiffer
    /\ \A w \in Workers : WorkerInv(w)

-----------------------------------------------------------------------------
(* Facts about numbers and sets.                                           *)

\* The bounds are numbers.
LEMMA Bounds == LastDay \in Nat \ {0} /\ Ceiling \in Nat \ {0} /\ MaxTxns \in Nat \ {0}
  BY BoundsAssumption

\* The highest of the first n numbers is n.
LEMMA MaxOfInterval == ASSUME NEW n \in Nat PROVE Max({0} \cup 1 .. n) = n
<1>1. n \in {0} \cup 1 .. n /\ \A y \in {0} \cup 1 .. n : n >= y
  OBVIOUS
<1>2. \A x \in {0} \cup 1 .. n : (\A y \in {0} \cup 1 .. n : x >= y) => x = n
  OBVIOUS
<1> QED
  BY <1>1, <1>2 DEF Max

\* The voucher numbers of a day are finitely many.
LEMMA TopType ==
    ASSUME TypeOK, NEW d \in Days
    PROVE  IsFiniteSet(used[d]) /\ Top(d) \in Nat
<1>1. used[d] \in SUBSET (1 .. MaxTxns) /\ MaxTxns \in Nat
  BY Bounds DEF TypeOK
<1>2. IsFiniteSet(1 .. MaxTxns)
  BY <1>1, FS_Interval
<1>3. IsFiniteSet(used[d])
  BY <1>1, <1>2, FS_Subset
<1> QED
  BY <1>3, FS_CardinalityType DEF Top

\* A transaction under way finds room for its number.
LEMMA RoomForOne ==
    ASSUME TypeOK, NumbersAreCounted, NEW w \in Workers, txn[w].step # "idle",
           NEW d \in Days
    PROVE  Top(d) + 1 <= MaxTxns
<1>1. w \in Busy /\ IsFiniteSet(Busy) /\ Cardinality(Busy) \in Nat
  BY FS_CardinalityType DEF Busy, NumbersAreCounted
<1>2. Cardinality(Busy) # 0
  BY <1>1, FS_EmptySet
<1>3. Top(d) \in Nat /\ Top(d) + Cardinality(Busy) <= begun /\ begun \in Nat /\ begun <= MaxTxns
  BY TopType, Bounds DEF NumbersAreCounted, TypeOK
<1> QED
  BY <1>1, <1>2, <1>3, Bounds

\* The state of a worker without a request.
LEMMA IdleType == Idle \in Txn
  BY Bounds DEF Idle, Txn, Steps

-----------------------------------------------------------------------------
(* What the steps have in common.                                          *)

\* The invariant holds before the first request.
LEMMA InitIInv == Init => IInv
<1> SUFFICES ASSUME Init PROVE IInv
  OBVIOUS
<1>1. TypeOK
  BY IdleType, Bounds DEF Init, TypeOK, Txn
<1>2. Busy = {}
  BY DEF Init, Busy, Idle
<1>3. \A d \in Days : used[d] = {} /\ Top(d) = 0
  BY FS_EmptySet DEF Init, Top
<1>4. NumbersAreCounted
  BY <1>2, <1>3, FS_EmptySet DEF NumbersAreCounted, Init
<1>5. VouchersCoverDraws
  <2> SUFFICES ASSUME NEW d \in Days
               PROVE  /\ used[d] = 1 .. Cardinality(used[d])
                      /\ OnDay("payroll", d) + OnDay("expenses", d) >= Cardinality(used[d])
                      /\ OnDay("payroll", d) + OnDay("expenses", d)
                            <= Ceiling * Cardinality(used[d])
    BY DEF VouchersCoverDraws
  <2>1. 1 .. 0 = {} /\ Ceiling * 0 = 0
    BY Bounds
  <2>2. OnDay("payroll", d) = 0 /\ OnDay("expenses", d) = 0
    BY Bounds DEF Init, OnDay, AllPages, Days
  <2>3. Cardinality(used[d]) = 0 /\ used[d] = {}
    BY <1>3 DEF Top
  <2> QED
    BY <2>1, <2>2, <2>3
<1>6. NumbersDiffer /\ \A w \in Workers : WorkerInv(w)
  BY DEF Init, Idle, NumbersDiffer, WorkerInv, RequestIsWhole, SumsUnderLock, RoomIsLeft,
     NumberInReach, NumberIsNew
<1> QED
  BY <1>1, <1>4, <1>5, <1>6 DEF IInv

\* A step of w that commits nothing and does not take the employee from
\* anybody leaves the other transactions as they were.
LEMMA OthersKept ==
    ASSUME IInv, NEW w \in Workers, UNCHANGED <<drawn, used>>,
           \A v \in Workers \ {w} : txn'[v] = txn[v] /\ (updater = v => updater' = v)
    PROVE  \A v \in Workers \ {w} : WorkerInv(v)'
  BY DEF IInv, WorkerInv, RequestIsWhole, SumsUnderLock, RoomIsLeft, NumberInReach, NumberIsNew,
     Top

\* A statement of a transaction under way keeps the invariant if it keeps the
\* types and w's part of it, and gives w no number that is in flight.
LEMMA StatementKeeps ==
    ASSUME IInv, NEW w \in Workers, UNCHANGED <<drawn, used, begun>>,
           \A v \in Workers \ {w} : txn'[v] = txn[v] /\ (updater = v => updater' = v),
           txn[w].step # "idle", txn'[w].step # "idle",
           TypeOK', WorkerInv(w)',
           txn'[w].step \in {"reference", "commit"} =>
               /\ txn'[w].day = txn[w].day /\ txn'[w].number = txn[w].number
               /\ txn[w].step \in {"reference", "commit"} \/ Rivals(txn[w]) = {}
    PROVE  IInv'
<1>1. \A v \in Workers : WorkerInv(v)'
  BY OthersKept
<1>2. Busy' = Busy
  BY DEF Busy
<1>3. NumbersAreCounted' /\ VouchersCoverDraws'
  BY <1>2 DEF IInv, NumbersAreCounted, VouchersCoverDraws, OnDay, Top
<1>4. NumbersDiffer'
  BY DEF IInv, NumbersDiffer, Rivals
<1> QED
  BY <1>1, <1>3, <1>4 DEF IInv

\* A transaction that ends without a commit gives its locks back.
LEMMA AbortKeeps ==
    ASSUME IInv, NEW w \in Workers, txn[w].step # "idle", Released(w), UNCHANGED <<drawn, used>>
    PROVE  IInv'
<1>1. /\ txn' = [txn EXCEPT ![w] = Idle] /\ begun' = begun /\ txn'[w] = Idle
      /\ \A v \in Workers \ {w} : txn'[v] = txn[v] /\ (updater = v => updater' = v)
  BY DEF IInv, TypeOK, Released
<1>2. TypeOK'
  BY <1>1, IdleType DEF IInv, TypeOK, Released, Txn
<1>3. WorkerInv(w)'
  BY <1>1 DEF Idle, WorkerInv, RequestIsWhole, SumsUnderLock, RoomIsLeft, NumberInReach,
     NumberIsNew
<1>4. \A v \in Workers : WorkerInv(v)'
  BY <1>1, <1>3, OthersKept
<1>5. NumbersAreCounted'
  <2>1. Busy' = Busy \ {w} /\ w \in Busy
    BY <1>1 DEF Busy, Idle
  <2>2. IsFiniteSet(Busy') /\ Cardinality(Busy') = Cardinality(Busy) - 1
    BY <2>1, FS_RemoveElement DEF IInv, NumbersAreCounted
  <2>3. Cardinality(Busy) \in Nat /\ begun \in Nat
    BY FS_CardinalityType, Bounds DEF IInv, NumbersAreCounted, TypeOK
  <2>4. ASSUME NEW d \in Days PROVE Top(d)' + Cardinality(Busy') <= begun'
    <3>1. Top(d)' = Top(d) /\ Top(d) \in Nat /\ Top(d) + Cardinality(Busy) <= begun
      BY TopType DEF Top, IInv, NumbersAreCounted
    <3> QED
      BY <3>1, <2>2, <2>3, <1>1
  <2> QED
    BY <2>2, <2>4 DEF NumbersAreCounted
<1>6. VouchersCoverDraws'
  BY DEF IInv, VouchersCoverDraws, OnDay
<1>7. NumbersDiffer'
  BY <1>1 DEF IInv, NumbersDiffer, Idle
<1> QED
  BY <1>2, <1>4, <1>5, <1>6, <1>7 DEF IInv

-----------------------------------------------------------------------------
(* One lemma per action.                                                   *)

\* A request that arrives has done nothing yet.
LEMMA ReceiveStep == ASSUME IInv, NEW w \in Workers, Receive(w) PROVE IInv'
<1>1. PICK page \in Pages, day \in Days, amount \in 1 .. Ceiling :
        /\ txn[w] = Idle /\ begun < MaxTxns
        /\ txn' = [txn EXCEPT ![w] =
             [page |-> page, day |-> day, amount |-> amount, number |-> 0,
              step |-> IF page = "payroll" THEN "lock" ELSE "sum"]]
        /\ begun' = begun + 1
        /\ UNCHANGED <<drawn, used, updater, sharers>>
  BY DEF Receive
<1>2. page \in AllPages
  BY PagesAssumption
<1>3. /\ \A v \in Workers \ {w} : txn'[v] = txn[v]
      /\ txn'[w] = [page |-> page, day |-> day, amount |-> amount, number |-> 0,
                    step |-> IF page = "payroll" THEN "lock" ELSE "sum"]
  BY <1>1 DEF IInv, TypeOK
<1>4. TypeOK'
  <2>1. begun' \in 0 .. MaxTxns
    BY <1>1, Bounds DEF IInv, TypeOK
  <2>2. txn'[w] \in Txn
    BY <1>2, <1>3, Bounds DEF Txn, Steps
  <2> QED
    BY <1>1, <2>1, <2>2 DEF IInv, TypeOK, Txn
<1>5. WorkerInv(w)'
  BY <1>2, <1>3, Bounds DEF WorkerInv, RequestIsWhole, SumsUnderLock, RoomIsLeft,
     NumberInReach, NumberIsNew, AllPages
<1>6. \A v \in Workers : WorkerInv(v)'
  BY <1>1, <1>3, <1>5, OthersKept
<1>7. NumbersAreCounted'
  <2>1. Busy' = Busy \cup {w} /\ w \notin Busy
    BY <1>1, <1>3 DEF Busy, Idle
  <2>2. IsFiniteSet(Busy') /\ Cardinality(Busy') = Cardinality(Busy) + 1
    BY <2>1, FS_AddElement DEF IInv, NumbersAreCounted
  <2>3. Cardinality(Busy) \in Nat /\ begun \in Nat
    BY FS_CardinalityType, Bounds DEF IInv, NumbersAreCounted, TypeOK
  <2>4. ASSUME NEW d \in Days PROVE Top(d)' + Cardinality(Busy') <= begun'
    <3>1. Top(d)' = Top(d) /\ Top(d) \in Nat /\ Top(d) + Cardinality(Busy) <= begun
      BY <1>1, TopType DEF Top, IInv, NumbersAreCounted
    <3> QED
      BY <3>1, <2>2, <2>3, <1>1
  <2> QED
    BY <2>2, <2>4 DEF NumbersAreCounted
<1>8. VouchersCoverDraws'
  BY <1>1 DEF IInv, VouchersCoverDraws, OnDay
<1>9. NumbersDiffer'
  BY <1>3 DEF IInv, NumbersDiffer
<1> QED
  BY <1>4, <1>6, <1>7, <1>8, <1>9 DEF IInv

\* What Goto does to the transactions.
LEMMA GotoMoves ==
    ASSUME TypeOK, NEW w \in Workers, NEW step \in Steps, Goto(w, step)
    PROVE  /\ txn' \in [Workers -> Txn]
           /\ txn'[w] = [txn[w] EXCEPT !.step = step]
           /\ txn'[w].step = step /\ txn'[w].page = txn[w].page
           /\ txn'[w].day = txn[w].day /\ txn'[w].amount = txn[w].amount
           /\ txn'[w].number = txn[w].number
           /\ \A v \in Workers \ {w} : txn'[v] = txn[v]
  BY DEF Goto, TypeOK, Txn

\* A request that is refused keeps the invariant.
LEMMA RefusalKeeps ==
    ASSUME IInv, NEW w \in Workers, txn[w].step # "idle", Goto(w, "failed"),
           UNCHANGED <<drawn, used, updater, sharers, begun>>
    PROVE  IInv'
<1>1. "failed" \in Steps
  BY DEF Steps
<1>2. TypeOK'
  BY <1>1, GotoMoves DEF IInv, TypeOK, Txn
<1>3. WorkerInv(w)'
  BY <1>1, GotoMoves DEF IInv, WorkerInv, RequestIsWhole, SumsUnderLock, RoomIsLeft,
     NumberInReach, NumberIsNew
<1> QED
  BY <1>1, <1>2, <1>3, GotoMoves, StatementKeeps DEF IInv

\* The employee is free when the payroll page takes the lock.
LEMMA LockEmployeeStep == ASSUME IInv, NEW w \in Workers, LockEmployee(w) PROVE IInv'
<1>1. /\ txn[w].step = "lock" /\ updater = NoWorker /\ updater' = w /\ Goto(w, "sum")
      /\ "sum" \in Steps /\ UNCHANGED <<drawn, used, sharers, begun>>
  BY DEF LockEmployee, Steps
<1>2. TypeOK'
  BY <1>1, GotoMoves DEF IInv, TypeOK, Txn
<1>3. WorkerInv(w)'
  BY <1>1, GotoMoves DEF IInv, WorkerInv, RequestIsWhole, SumsUnderLock, RoomIsLeft,
     NumberInReach, NumberIsNew
<1>4. \A v \in Workers \ {w} : updater # v
  BY <1>1, DistinctAssumption
<1> QED
  BY <1>1, <1>2, <1>3, <1>4, GotoMoves, StatementKeeps DEF IInv

\* The sum refuses a draw or finds room for it.
LEMMA SumDrawsStep == ASSUME IInv, NEW w \in Workers, SumDraws(w) PROVE IInv'
<1>1. txn[w].step = "sum" /\ UNCHANGED <<drawn, used, updater, sharers, begun>>
  BY DEF SumDraws
<1>2. CASE txn[w].amount + DrawnTo(txn[w].day) > Ceiling
  BY <1>1, <1>2, RefusalKeeps DEF SumDraws
<1>3. CASE ~(txn[w].amount + DrawnTo(txn[w].day) > Ceiling)
  <2>1. Goto(w, "number") /\ "number" \in Steps
    BY <1>3 DEF SumDraws, Steps
  <2>2. TypeOK'
    BY <1>1, <2>1, GotoMoves DEF IInv, TypeOK, Txn
  <2>3. drawn.payroll[txn[w].day] + txn[w].amount <= Ceiling
    <3>1. txn[w].day \in Days /\ txn[w].amount \in Nat
      BY <1>1, Bounds DEF IInv, WorkerInv, RequestIsWhole, TypeOK
    <3>2. drawn.payroll[txn[w].day] \in Nat /\ drawn.expenses[txn[w].day] \in Nat
      BY <3>1 DEF IInv, TypeOK, AllPages
    <3> QED
      BY <1>3, <3>1, <3>2, Bounds DEF DrawnTo
  <2>4. WorkerInv(w)'
    BY <1>1, <2>1, <2>3, GotoMoves DEF IInv, WorkerInv, RequestIsWhole, SumsUnderLock,
       RoomIsLeft, NumberInReach, NumberIsNew
  <2> QED
    BY <1>1, <2>1, <2>2, <2>4, GotoMoves, StatementKeeps DEF IInv
<1> QED
  BY <1>2, <1>3

\* The number that is read is the next one.
LEMMA ReadNumberStep == ASSUME IInv, NEW w \in Workers, ReadNumber(w) PROVE IInv'
<1> DEFINE t == txn[w]
<1>1. /\ t.step = "number" /\ t.day \in Days
      /\ UNCHANGED <<drawn, used, updater, sharers, begun>>
      /\ txn' = [txn EXCEPT ![w] = [t EXCEPT !.step = "insert",
                                             !.number = 1 + Max({0} \cup used[t.day])]]
  BY DEF ReadNumber, IInv, WorkerInv, RequestIsWhole
<1>2. Top(t.day) \in Nat /\ used[t.day] = 1 .. Top(t.day)
  BY <1>1, TopType DEF IInv, VouchersCoverDraws, Top
<1>3. 1 + Max({0} \cup used[t.day]) = Top(t.day) + 1
  BY <1>2, MaxOfInterval
<1>4. Top(t.day) + 1 \in 0 .. MaxTxns
  BY <1>1, <1>2, RoomForOne, Bounds DEF IInv
<1>5. /\ \A v \in Workers \ {w} : txn'[v] = txn[v]
      /\ txn'[w] = [t EXCEPT !.step = "insert", !.number = Top(t.day) + 1]
  BY <1>1, <1>3 DEF IInv, TypeOK
<1>6. TypeOK'
  <2>1. t \in Txn
    BY DEF IInv, TypeOK, Txn
  <2>2. txn'[w] \in Txn
    BY <1>4, <1>5, <2>1 DEF Txn, Steps
  <2> QED
    BY <1>1, <2>2 DEF IInv, TypeOK, Txn
<1>7. /\ txn'[w].step = "insert" /\ txn'[w].number = Top(t.day) + 1
      /\ txn'[w].page = t.page /\ txn'[w].day = t.day /\ txn'[w].amount = t.amount
  BY <1>5 DEF IInv, TypeOK
<1>8. WorkerInv(w)'
  BY <1>1, <1>2, <1>7 DEF IInv, WorkerInv, RequestIsWhole, SumsUnderLock, RoomIsLeft,
     NumberInReach, NumberIsNew, Top
<1> QED
  BY <1>1, <1>5, <1>6, <1>7, <1>8, StatementKeeps

\* The index admits a number that no committed row and no row in flight has.
LEMMA InsertStep == ASSUME IInv, NEW w \in Workers, Insert(w) PROVE IInv'
<1>1. /\ txn[w].step = "insert" /\ Rivals(txn[w]) = {}
      /\ UNCHANGED <<drawn, used, updater, sharers, begun>>
  BY DEF Insert
<1>2. CASE txn[w].number \in used[txn[w].day]
  BY <1>1, <1>2, RefusalKeeps DEF Insert
<1>3. CASE txn[w].number \notin used[txn[w].day]
  <2>1. Goto(w, "reference") /\ "reference" \in Steps
    BY <1>3 DEF Insert, Steps
  <2>2. TypeOK'
    BY <1>1, <2>1, GotoMoves DEF IInv, TypeOK, Txn
  <2>3. WorkerInv(w)'
    BY <1>1, <1>3, <2>1, GotoMoves DEF IInv, WorkerInv, RequestIsWhole, SumsUnderLock,
       RoomIsLeft, NumberInReach, NumberIsNew, Top
  <2> QED
    BY <1>1, <2>1, <2>2, <2>3, GotoMoves, StatementKeeps DEF IInv
<1> QED
  BY <1>2, <1>3

\* The foreign key shares the employee and takes it from nobody.
LEMMA ReferenceStep == ASSUME IInv, NEW w \in Workers, Reference(w) PROVE IInv'
<1>1. /\ txn[w].step = "reference" /\ sharers' = sharers \cup {w}
      /\ Goto(w, "commit") /\ "commit" \in Steps
      /\ UNCHANGED <<drawn, used, updater, begun>>
  BY DEF Reference, Steps
<1>2. TypeOK'
  BY <1>1, GotoMoves DEF IInv, TypeOK, Txn
<1>3. WorkerInv(w)'
  BY <1>1, GotoMoves DEF IInv, WorkerInv, RequestIsWhole, SumsUnderLock, RoomIsLeft,
     NumberInReach, NumberIsNew, Top
<1> QED
  BY <1>1, <1>2, <1>3, GotoMoves, StatementKeeps DEF IInv

\* A request that failed is rolled back.
LEMMA RollbackStep == ASSUME IInv, NEW w \in Workers, Rollback(w) PROVE IInv'
  BY AbortKeeps DEF Rollback

\* A worker that dies has its transaction rolled back.
LEMMA CrashStep == ASSUME IInv, NEW w \in Workers, Crash(w) PROVE IInv'
  BY AbortKeeps DEF Crash

\* The victim of a deadlock is in the middle of its statements.
LEMMA DeadlockAbortStep == ASSUME IInv, NEW w \in Workers, DeadlockAbort(w) PROVE IInv'
  BY RefusalKeeps DEF DeadlockAbort, Deadlocked

-----------------------------------------------------------------------------
(* The commit.                                                             *)

\* What a commit does to the transactions and the locks.
LEMMA CommitReleases ==
    ASSUME IInv, NEW w \in Workers, Commit(w)
    PROVE  /\ txn[w].step = "commit" /\ txn[w].page \in AllPages /\ txn[w].day \in Days
           /\ txn[w].amount \in 1 .. Ceiling
           /\ txn' = [txn EXCEPT ![w] = Idle] /\ begun' = begun
           /\ txn'[w] = Idle
           /\ \A v \in Workers \ {w} : txn'[v] = txn[v] /\ (updater = v => updater' = v)
           /\ updater' \in Workers \cup {NoWorker} /\ sharers' \subseteq Workers
<1>1. txn[w].page \in AllPages /\ txn[w].day \in Days /\ txn[w].amount \in 1 .. Ceiling
  BY Bounds DEF Commit, IInv, TypeOK, WorkerInv, RequestIsWhole
<1> QED
  BY <1>1 DEF Commit, Released, IInv, TypeOK

\* The number that is committed is the one after the last, and it is the only
\* number of any day that the commit adds.
LEMMA CommitNumbers ==
    ASSUME IInv, NEW w \in Workers, Commit(w)
    PROVE  /\ used' \in [Days -> SUBSET (1 .. MaxTxns)]
           /\ \A d \in Days :
                IF d = txn[w].day
                THEN /\ used'[d] = used[d] \cup {txn[w].number}
                     /\ used'[d] = 1 .. Top(d) + 1
                     /\ Top(d)' = Top(d) + 1
                ELSE used'[d] = used[d] /\ Top(d)' = Top(d)
<1> DEFINE t == txn[w]
<1>1. /\ t.step = "commit" /\ t.day \in Days
      /\ used' = [used EXCEPT ![t.day] = @ \cup {t.number}]
  BY CommitReleases DEF Commit
<1>2. Top(t.day) \in Nat /\ used[t.day] = 1 .. Top(t.day)
  BY <1>1, TopType DEF IInv, VouchersCoverDraws, Top
<1>3. t.number \in 1 .. Top(t.day) + 1 /\ t.number \notin used[t.day]
  BY <1>1 DEF IInv, WorkerInv, NumberInReach, NumberIsNew
<1>4. t.number = Top(t.day) + 1
  BY <1>2, <1>3
<1>5. used[t.day] \cup {t.number} = 1 .. Top(t.day) + 1
  BY <1>2, <1>4
<1>6. t.number \in 1 .. MaxTxns
  BY <1>1, <1>2, <1>4, RoomForOne, Bounds DEF IInv
<1>7. used' \in [Days -> SUBSET (1 .. MaxTxns)]
  BY <1>1, <1>6 DEF IInv, TypeOK
<1>8. used'[t.day] = 1 .. Top(t.day) + 1
  BY <1>1, <1>5 DEF IInv, TypeOK
<1>9. Cardinality(1 .. Top(t.day) + 1) = Top(t.day) + 1
  BY <1>2, FS_Interval
<1>10. ASSUME NEW d \in Days, d = t.day
       PROVE  /\ used'[d] = used[d] \cup {t.number}
              /\ used'[d] = 1 .. Top(d) + 1
              /\ Top(d)' = Top(d) + 1
  BY <1>1, <1>8, <1>9, <1>10 DEF IInv, TypeOK, Top
<1>11. ASSUME NEW d \in Days, d # t.day
       PROVE  used'[d] = used[d] /\ Top(d)' = Top(d)
  BY <1>1, <1>11 DEF IInv, TypeOK, Top
<1> QED
  BY <1>7, <1>10, <1>11

\* The sums after a commit: they grow by the amount on the page and from the
\* day of the draw on, so that the day itself is the only one that gains.
LEMMA CommitMoney ==
    ASSUME IInv, NEW w \in Workers, Commit(w)
    PROVE  /\ drawn' \in [AllPages -> [Days -> Nat]]
           /\ \A p \in AllPages, d \in Days :
                /\ drawn'[p][d] = drawn[p][d]
                      + (IF p = txn[w].page /\ d >= txn[w].day THEN txn[w].amount ELSE 0)
                /\ OnDay(p, d)' = OnDay(p, d)
                      + (IF p = txn[w].page /\ d = txn[w].day THEN txn[w].amount ELSE 0)
<1> DEFINE t == txn[w]
           gain(p, d) == IF p = t.page /\ d >= t.day THEN t.amount ELSE 0
<1>1. /\ t.page \in AllPages /\ t.day \in Days /\ t.amount \in Nat /\ t.day \in Nat
      /\ drawn' = [drawn EXCEPT ![t.page] =
                      [d \in Days |-> IF d >= t.day THEN @[d] + t.amount ELSE @[d]]]
  <2>1. t.page \in AllPages /\ t.day \in Days /\ t.amount \in 1 .. Ceiling
    BY CommitReleases
  <2>2. t.amount \in Nat /\ t.day \in Nat
    BY <2>1, Bounds DEF Days
  <2> QED
    BY <2>1, <2>2 DEF Commit
<1>2. drawn \in [AllPages -> [Days -> Nat]]
  BY DEF IInv, TypeOK
<1>3. ASSUME NEW p \in AllPages, NEW d \in Days
      PROVE  drawn'[p][d] = drawn[p][d] + gain(p, d) /\ drawn[p][d] \in Nat
  <2>1. drawn[p][d] \in Nat /\ d \in Nat
    BY <1>2, Bounds DEF Days
  <2>2. CASE p = t.page
    <3>1. drawn'[p][d] = IF d >= t.day THEN drawn[p][d] + t.amount ELSE drawn[p][d]
      BY <1>1, <1>2, <2>2
    <3> QED
      BY <1>1, <2>1, <2>2, <3>1
  <2>3. CASE p # t.page
    BY <1>1, <1>2, <2>1, <2>3
  <2> QED
    BY <2>2, <2>3
<1>4. drawn' \in [AllPages -> [Days -> Nat]]
  <2>1. [d \in Days |-> IF d >= t.day THEN drawn[t.page][d] + t.amount ELSE drawn[t.page][d]]
           \in [Days -> Nat]
    BY <1>1, <1>2, Bounds DEF Days
  <2> QED
    BY <1>1, <1>2, <2>1
<1>5. ASSUME NEW p \in AllPages, NEW d \in Days
      PROVE  OnDay(p, d)' = OnDay(p, d) + (IF p = t.page /\ d = t.day THEN t.amount ELSE 0)
  <2>1. /\ d \in Nat /\ d >= 1 /\ t.day >= 1 /\ drawn[p][d] \in Nat
        /\ drawn'[p][d] = drawn[p][d] + gain(p, d)
    BY <1>1, <1>3, Bounds DEF Days
  <2>2. CASE d = 1
    <3>1. OnDay(p, d)' = drawn'[p][d] - 0 /\ OnDay(p, d) = drawn[p][d] - 0
      BY <2>2 DEF OnDay
    <3> QED
      BY <1>1, <2>1, <2>2, <3>1
  <2>3. CASE d # 1
    <3>1. d - 1 \in Days
      BY <2>1, <2>3, Bounds DEF Days
    <3>2. drawn'[p][d - 1] = drawn[p][d - 1] + gain(p, d - 1) /\ drawn[p][d - 1] \in Nat
      BY <1>3, <3>1
    <3>3. /\ OnDay(p, d)' = drawn'[p][d] - drawn'[p][d - 1]
          /\ OnDay(p, d) = drawn[p][d] - drawn[p][d - 1]
      BY <2>3 DEF OnDay
    <3>4. gain(p, d) - gain(p, d - 1) = IF p = t.page /\ d = t.day THEN t.amount ELSE 0
      BY <1>1, <2>1
    <3>5. gain(p, d) \in Nat /\ gain(p, d - 1) \in Nat
      BY <1>1
    <3> HIDE DEF gain
    <3>6. OnDay(p, d)' = OnDay(p, d) + (gain(p, d) - gain(p, d - 1))
      BY <2>1, <3>2, <3>3, <3>5
    <3> QED
      BY <3>4, <3>6
  <2> QED
    BY <2>2, <2>3
<1> QED
  BY <1>3, <1>4, <1>5

\* Numbers and money are committed together.
LEMMA CommitCovers == ASSUME IInv, NEW w \in Workers, Commit(w) PROVE VouchersCoverDraws'
<1> SUFFICES ASSUME NEW d \in Days
             PROVE  /\ used'[d] = 1 .. Top(d)'
                    /\ (OnDay("payroll", d) + OnDay("expenses", d))' >= Top(d)'
                    /\ (OnDay("payroll", d) + OnDay("expenses", d))' <= Ceiling * Top(d)'
  BY DEF VouchersCoverDraws, Top
<1>1. /\ used[d] = 1 .. Top(d) /\ Top(d) \in Nat
      /\ OnDay("payroll", d) + OnDay("expenses", d) >= Top(d)
      /\ OnDay("payroll", d) + OnDay("expenses", d) <= Ceiling * Top(d)
  BY TopType DEF IInv, VouchersCoverDraws, Top
<1>2. /\ txn[w].page \in {"payroll", "expenses"} /\ txn[w].day \in Days
      /\ txn[w].amount \in 1 .. Ceiling
  BY CommitReleases DEF AllPages
<1>3. OnDay("payroll", d) \in Int /\ OnDay("expenses", d) \in Int
  <2>1. \A p \in AllPages : drawn[p][d] \in Nat /\ (d # 1 => drawn[p][d - 1] \in Nat)
    BY Bounds DEF IInv, TypeOK, Days
  <2> QED
    BY <2>1 DEF OnDay, AllPages
<1>4. CASE d = txn[w].day
  <2>1. used'[d] = 1 .. Top(d) + 1 /\ Top(d)' = Top(d) + 1
    BY <1>4, CommitNumbers
  <2>2. OnDay("payroll", d)' + OnDay("expenses", d)'
           = OnDay("payroll", d) + OnDay("expenses", d) + txn[w].amount
    BY <1>2, <1>3, <1>4, CommitMoney, Bounds DEF AllPages
  <2>3. Ceiling * (Top(d) + 1) = Ceiling * Top(d) + Ceiling /\ Ceiling * Top(d) \in Nat
    BY <1>1, Bounds
  <2> QED
    BY <1>1, <1>2, <1>3, <2>1, <2>2, <2>3, Bounds
<1>5. CASE d # txn[w].day
  <2>1. used'[d] = used[d] /\ Top(d)' = Top(d)
    BY <1>5, CommitNumbers
  <2>2. OnDay("payroll", d)' = OnDay("payroll", d)
        /\ OnDay("expenses", d)' = OnDay("expenses", d)
    BY <1>3, <1>5, CommitMoney DEF AllPages
  <2> QED
    BY <1>1, <2>1, <2>2
<1> QED
  BY <1>4, <1>5

\* A commit of another transaction takes neither the number nor the room of
\* this one: only one payroll request at a time is past the lock.
LEMMA CommitLeavesOthers ==
    ASSUME IInv, NEW w \in Workers, Commit(w), NEW v \in Workers \ {w}
    PROVE  WorkerInv(v)'
<1>1. /\ txn[w].step = "commit" /\ txn'[v] = txn[v] /\ (updater = v => updater' = v)
      /\ txn[w].page \in AllPages
  BY CommitReleases
<1>2. WorkerInv(v) /\ WorkerInv(w) /\ "payroll" \in AllPages
  BY DEF IInv, AllPages
<1>3. RequestIsWhole(v)' /\ SumsUnderLock(v)'
  BY <1>1, <1>2 DEF WorkerInv, RequestIsWhole, SumsUnderLock
<1>4. RoomIsLeft(v)'
  <2> SUFFICES ASSUME txn[v].page = "payroll",
                      txn[v].step \in {"number", "insert", "reference", "commit"}
               PROVE  drawn'.payroll[txn[v].day] + txn[v].amount <= Ceiling
    BY <1>1 DEF RoomIsLeft
  <2>1. /\ updater = v /\ txn[v].day \in Days
        /\ drawn.payroll[txn[v].day] + txn[v].amount <= Ceiling
    BY <1>2 DEF WorkerInv, RequestIsWhole, SumsUnderLock, RoomIsLeft
  <2>2. txn[w].page # "payroll"
    BY <1>1, <1>2, <2>1 DEF WorkerInv, SumsUnderLock
  <2>3. drawn' = [drawn EXCEPT ![txn[w].page] =
                     [d \in Days |-> IF d >= txn[w].day THEN @[d] + txn[w].amount ELSE @[d]]]
    BY DEF Commit
  <2>4. drawn'.payroll = drawn.payroll
    BY <1>2, <2>2, <2>3 DEF IInv, TypeOK
  <2> QED
    BY <2>1, <2>4
<1>5. NumberInReach(v)'
  <2>1. \A d \in Days : /\ Cardinality(used[d]) \in Nat
                         /\ \/ Cardinality(used'[d]) = Cardinality(used[d])
                            \/ Cardinality(used'[d]) = Cardinality(used[d]) + 1
    BY CommitNumbers, TopType DEF IInv, Top
  <2> QED
    BY <1>1, <1>2, <2>1 DEF WorkerInv, RequestIsWhole, NumberInReach, Top
<1>6. NumberIsNew(v)'
  <2> SUFFICES ASSUME txn[v].step \in {"reference", "commit"}
               PROVE  txn[v].number \notin used'[txn[v].day]
    BY <1>1 DEF NumberIsNew
  <2>1. txn[v].number \notin used[txn[v].day] /\ txn[v].day \in Days
    BY <1>2 DEF WorkerInv, RequestIsWhole, NumberIsNew
  <2>2. CASE txn[v].day = txn[w].day
    BY <1>1, <2>1, <2>2, CommitNumbers DEF IInv, NumbersDiffer
  <2>3. CASE txn[v].day # txn[w].day
    BY <2>1, <2>3, CommitNumbers
  <2> QED
    BY <2>2, <2>3
<1> QED
  BY <1>3, <1>4, <1>5, <1>6 DEF WorkerInv

\* A commit publishes the voucher and the money.
LEMMA CommitStep == ASSUME IInv, NEW w \in Workers, Commit(w) PROVE IInv'
<1>1. /\ txn[w].step = "commit" /\ txn'[w] = Idle /\ begun' = begun
      /\ \A v \in Workers \ {w} : txn'[v] = txn[v]
  BY CommitReleases
<1>2. TypeOK'
  <2>1. txn' \in [Workers -> Txn]
    BY CommitReleases, IdleType DEF IInv, TypeOK, Txn
  <2> QED
    BY <2>1, CommitNumbers, CommitMoney, CommitReleases DEF IInv, TypeOK, Txn
<1>3. NumbersAreCounted'
  <2>1. Busy' = Busy \ {w} /\ w \in Busy
    BY <1>1 DEF Busy, Idle
  <2>2. IsFiniteSet(Busy') /\ Cardinality(Busy') = Cardinality(Busy) - 1
    BY <2>1, FS_RemoveElement DEF IInv, NumbersAreCounted
  <2>3. Cardinality(Busy) \in Nat /\ begun \in Nat
    BY FS_CardinalityType, Bounds DEF IInv, NumbersAreCounted, TypeOK
  <2>4. ASSUME NEW d \in Days PROVE Top(d)' + Cardinality(Busy') <= begun'
    <3>1. /\ Top(d)' = Top(d) \/ Top(d)' = Top(d) + 1
          /\ Top(d) \in Nat /\ Top(d) + Cardinality(Busy) <= begun
      BY CommitNumbers, TopType DEF IInv, NumbersAreCounted
    <3> QED
      BY <3>1, <2>2, <2>3, <1>1
  <2> QED
    BY <2>2, <2>4 DEF NumbersAreCounted
<1>4. NumbersDiffer'
  BY <1>1 DEF IInv, NumbersDiffer, Idle
<1>5. WorkerInv(w)'
  BY <1>1 DEF Idle, WorkerInv, RequestIsWhole, SumsUnderLock, RoomIsLeft, NumberInReach,
     NumberIsNew
<1>6. \A v \in Workers : WorkerInv(v)'
  BY <1>5, CommitLeavesOthers
<1> QED
  BY <1>2, <1>3, <1>4, <1>6, CommitCovers DEF IInv

-----------------------------------------------------------------------------
(* The theorems.                                                           *)

\* Every step keeps the invariant.
LEMMA NextKeeps == IInv /\ [Next]_vars => IInv'
<1> SUFFICES ASSUME IInv, [Next]_vars PROVE IInv'
  OBVIOUS
<1>1. CASE Next
  <2>1. PICK w \in Workers : Receive(w) \/ Step(w) \/ Crash(w)
    BY <1>1 DEF Next
  <2> QED
    BY <2>1, ReceiveStep, LockEmployeeStep, SumDrawsStep, ReadNumberStep, InsertStep,
       ReferenceStep, CommitStep, RollbackStep, DeadlockAbortStep, CrashStep DEF Step
<1>2. CASE UNCHANGED vars
  <2>1. UNCHANGED <<drawn, used, updater, sharers, txn, begun>>
    BY <1>2 DEF vars
  <2>2. TypeOK' /\ VouchersCoverDraws' /\ NumbersDiffer'
    BY <2>1 DEF IInv, TypeOK, VouchersCoverDraws, OnDay, NumbersDiffer
  <2>3. NumbersAreCounted'
    BY <2>1 DEF IInv, NumbersAreCounted, Busy, Top
  <2>4. \A w \in Workers : WorkerInv(w)'
    BY <2>1 DEF IInv, WorkerInv, RequestIsWhole, SumsUnderLock, RoomIsLeft, NumberInReach,
       NumberIsNew, Top
  <2> QED
    BY <2>2, <2>3, <2>4 DEF IInv
<1> QED
  BY <1>1, <1>2

\* The inductive invariant of the salary draws.
THEOREM Invariance == Spec => []IInv
  BY InitIInv, NextKeeps, PTL DEF Spec

\* The sums, the vouchers, the locks and the transactions keep their types,
\* and no voucher number goes beyond the number of requests.
THEOREM TypeCorrect == Spec => []TypeOK
<1>1. IInv => TypeOK
  BY DEF IInv
<1> QED
  BY <1>1, Invariance, PTL

\* Every day has a draw within the salary for every voucher, and no voucher
\* number is skipped, whatever requests collide, fail or die.
THEOREM VouchersCorrect == Spec => []VouchersCoverDraws
<1>1. IInv => VouchersCoverDraws
  BY DEF IInv
<1> QED
  BY <1>1, Invariance, PTL

\* Only a commit moves the sums, and one of the payroll page kept its room.
LEMMA CeilingStep ==
    ASSUME IInv, [Next]_vars, NEW d \in Days, OnDay("payroll", d)' # OnDay("payroll", d)
    PROVE  drawn'.payroll[d] <= Ceiling
<1>1. drawn' # drawn
  BY DEF OnDay
<1>2. PICK w \in Workers : Receive(w) \/ Step(w) \/ Crash(w)
  BY <1>1 DEF Next, vars
<1>3. Commit(w)
  BY <1>1, <1>2 DEF Receive, Step, Crash, LockEmployee, SumDraws, ReadNumber, Insert,
     Reference, Rollback, DeadlockAbort
<1>4. OnDay("payroll", d) \in Int /\ "payroll" \in AllPages /\ drawn["payroll"][d] \in Nat
  <2>1. \A p \in AllPages : drawn[p][d] \in Nat /\ (d # 1 => drawn[p][d - 1] \in Nat)
    BY Bounds DEF IInv, TypeOK, Days
  <2> QED
    BY <2>1 DEF OnDay, AllPages
<1>5. txn[w].page = "payroll" /\ d = txn[w].day
  BY <1>3, <1>4, CommitMoney
<1>6. txn[w].step = "commit" /\ drawn.payroll[d] + txn[w].amount <= Ceiling
  BY <1>3, <1>5, CommitReleases DEF IInv, WorkerInv, RoomIsLeft
<1>7. drawn'["payroll"][d] = drawn["payroll"][d] + txn[w].amount
  BY <1>3, <1>4, <1>5, CommitMoney, Bounds DEF Days
<1> QED
  BY <1>6, <1>7

\* A draw of the payroll page leaves what the page has paid up to its day
\* within the salary.
THEOREM CeilingCorrect == Spec => DrawKeepsCeiling
<1>1. IInv /\ [Next]_vars
        => [\A d \in Days : OnDay("payroll", d)' # OnDay("payroll", d)
                               => drawn'.payroll[d] <= Ceiling]_vars
  BY CeilingStep
<1> QED
  BY <1>1, Invariance, PTL DEF Spec, DrawKeepsCeiling
=============================================================================
