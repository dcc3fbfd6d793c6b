------------------------- MODULE Enrollments_proofs -------------------------
(* Proofs about Enrollments, for any workers, students, bounds and price:  *)
(* what the locks guarantee when requests interleave, and what the reads   *)
(* guarantee when they do not.                                             *)
EXTENDS Enrollments, FiniteSetTheorems, TLAPS

(***************************************************************************)
(* The inductive invariant.  A request has checked something under a lock  *)
(* and writes later; the check still holds because whatever would spoil it *)
(* needs that lock, or a row that no other request can name.               *)
(***************************************************************************)

Txn == [kind : AllKinds \cup {"none"}, step : Steps, row : Rows \cup {NoRow},
        amount : 0 .. Price, seen : Section, listed : SUBSET Rows, refund : Amounts]

\* The statements an operation has, the failure of one of them included.
StepFits(kind, step) ==
    /\ kind = "none"         => step = "idle"
    /\ kind = "enroll"       => step \in {"read", "section", "commit", "failed"}
    /\ kind = "enrollPaying" => step \in {"read", "section", "check", "commit", "failed"}
    /\ kind = "pay"          => step \in {"row", "check", "commit", "failed"}
    /\ kind = "unenroll"     => step \in {"read", "sum", "share", "section", "row", "commit",
                                          "failed"}
    /\ kind = "delete"       => step \in {"read", "count", "section", "row", "commit", "failed"}
    /\ Cancels(kind)         => step \in {"read", "sum", "section", "share", "commit", "failed"}

\* A request is about one enrollment, unless it cancels the section, and has
\* an amount if it pays.
RequestIsWhole(w) ==
    LET t == txn[w] IN
    /\ StepFits(t.kind, t.step)
    /\ t.kind = "none" => t = Idle
    /\ t.row = NoRow <=> t.kind = "none" \/ Cancels(t.kind)
    /\ t.amount > 0 <=> t.kind \in {"pay", "enrollPaying"}

\* Who has found the student without a seat holds the section until the seat
\* is taken.
SeatIsGuarded(w) ==
    Enrolls(txn[w].kind) /\ txn[w].step \in {"check", "commit"}
        => /\ sectionLock = w
           /\ Owner(txn[w].row) \notin {Owner(e) : e \in Active}

\* Who has read what an enrollment has paid holds its row.
PaymentIsGuarded(w) ==
    txn[w].kind = "pay" /\ txn[w].step \in {"check", "commit"}
        => rowLock[txn[w].row][w] = "full"

\* What the check has found room for still fits.
RoomIsLeft(w) ==
    txn[w].kind \in {"pay", "enrollPaying"} /\ txn[w].step = "commit"
        => txn[w].amount + paid[txn[w].row] <= Price

\* Nobody else has to do with an enrollment that is being made.
RowIsFresh(w) ==
    Enrolls(txn[w].kind) => /\ row[txn[w].row] = "none"
                            /\ \A v \in Workers \ {w} : txn[v].row # txn[w].row

\* A deletion goes on only if the count it has read can be taken down.
CountIsPositive(w) ==
    txn[w].kind = "delete" /\ txn[w].step \in {"row", "commit"} => txn[w].seen.count > 0

WorkerInv(w) ==
    /\ RequestIsWhole(w) /\ SeatIsGuarded(w) /\ PaymentIsGuarded(w) /\ RoomIsLeft(w)
    /\ RowIsFresh(w) /\ CountIsPositive(w)

\* No two requests hold locks on one enrollment that exclude each other.
LocksAgree ==
    \A e \in Rows, v, w \in Workers : v # w => Compatible(rowLock[e][v], rowLock[e][w])

IInv ==
    /\ TypeOK
    /\ LocksAgree /\ PaidWithinPrice
    /\ \A w \in Workers : WorkerInv(w)

-----------------------------------------------------------------------------
(* Facts about the operators of the model.                                 *)

\* The bounds are positive numbers.
LEMMA Bounds ==
    /\ MaxRows \in Nat \ {0} /\ Capacity \in Nat \ {0}
    /\ Price \in Nat \ {0} /\ MaxTxns \in Nat \ {0}
  BY BoundsAssumption

\* The statement an operation begins with.
LEMMA FirstStep ==
    ASSUME NEW kind \in AllKinds
    PROVE  Head(Path(kind)) = IF kind = "pay" THEN "row" ELSE "read"
<1>1. CASE kind = "enroll"
  BY <1>1 DEF Path, Cancels
<1>2. CASE kind = "enrollPaying"
  BY <1>2 DEF Path, Cancels
<1>3. CASE kind = "pay"
  BY <1>3 DEF Path, Cancels
<1>4. CASE kind = "unenroll"
  BY <1>4 DEF Path, Cancels
<1>5. CASE kind = "delete"
  BY <1>5 DEF Path, Cancels
<1>6. CASE kind \in {"cancel", "cancelRefunding"}
  <2>1. Path(kind) = <<"read", "sum", "section", "share", "commit">>
    BY <1>6 DEF Path, Cancels
  <2> QED
    BY <1>6, <2>1
<1> QED
  BY <1>1, <1>2, <1>3, <1>4, <1>5, <1>6 DEF AllKinds

\* The statement that follows each of those of enrolling.
LEMMA AfterEnroll ==
    ASSUME NEW t, Enrolls(t.kind)
    PROVE  /\ t.step = "read" => After(t) = "section"
           /\ t.step = "section" => After(t) = IF t.kind = "enroll" THEN "commit" ELSE "check"
           /\ t.step = "check" /\ t.kind = "enrollPaying" => After(t) = "commit"
<1>1. CASE t.kind = "enroll"
  <2>1. Path(t.kind) = <<"read", "section", "commit">>
    BY <1>1 DEF Path, Cancels
  <2> QED
    BY <1>1, <2>1 DEF After
<1>2. CASE t.kind = "enrollPaying"
  <2>1. Path(t.kind) = <<"read", "section", "check", "commit">>
    BY <1>2 DEF Path, Cancels
  <2> QED
    BY <1>2, <2>1 DEF After
<1> QED
  BY <1>1, <1>2 DEF Enrolls

\* Of paying.
LEMMA AfterPay ==
    ASSUME NEW t, t.kind = "pay"
    PROVE  /\ t.step = "row" => After(t) = "check"
           /\ t.step = "check" => After(t) = "commit"
<1>1. Path(t.kind) = <<"row", "check", "commit">>
  BY DEF Path, Cancels
<1> QED
  BY <1>1 DEF After

\* Of unenrolling.
LEMMA AfterUnenroll ==
    ASSUME NEW t, t.kind = "unenroll"
    PROVE  /\ t.step = "read" => After(t) = "sum"
           /\ t.step = "sum" => After(t) = "share"
           /\ t.step = "share" => After(t) = "section"
           /\ t.step = "section" => After(t) = "row"
           /\ t.step = "row" => After(t) = "commit"
<1>1. Path(t.kind) = <<"read", "sum", "share", "section", "row", "commit">>
  BY DEF Path, Cancels
<1> QED
  BY <1>1 DEF After

\* Of deleting an enrollment.
LEMMA AfterDelete ==
    ASSUME NEW t, t.kind = "delete"
    PROVE  /\ t.step = "read" => After(t) = "count"
           /\ t.step = "count" => After(t) = "section"
           /\ t.step = "section" => After(t) = "row"
           /\ t.step = "row" => After(t) = "commit"
<1>1. Path(t.kind) = <<"read", "count", "section", "row", "commit">>
  BY DEF Path, Cancels
<1> QED
  BY <1>1 DEF After

\* Of cancelling the section.
LEMMA AfterCancel ==
    ASSUME NEW t, Cancels(t.kind)
    PROVE  /\ t.step = "read" => After(t) = "sum"
           /\ t.step = "sum" => After(t) = "section"
           /\ t.step = "section" => After(t) = "share"
           /\ t.step = "share" => After(t) = "commit"
<1>1. Path(t.kind) = <<"read", "sum", "section", "share", "commit">>
  BY DEF Path, Cancels
<1> QED
  BY <1>1 DEF After

\* A statement before the last is followed by another one of the operation,
\* which is not the first.
LEMMA AfterFits ==
    ASSUME NEW t, t.kind \in AllKinds, StepFits(t.kind, t.step),
           t.step \notin {"commit", "failed"}
    PROVE  /\ StepFits(t.kind, After(t))
           /\ After(t) \in {"count", "sum", "section", "share", "row", "check", "commit"}
<1>1. CASE Enrolls(t.kind)
  BY <1>1, AfterEnroll DEF StepFits, Enrolls, Cancels
<1>2. CASE t.kind = "pay"
  BY <1>2, AfterPay DEF StepFits, Cancels
<1>3. CASE t.kind = "unenroll"
  BY <1>3, AfterUnenroll DEF StepFits, Cancels
<1>4. CASE t.kind = "delete"
  BY <1>4, AfterDelete DEF StepFits, Cancels
<1>5. CASE Cancels(t.kind)
  BY <1>5, AfterCancel DEF StepFits, Cancels
<1> QED
  BY <1>1, <1>2, <1>3, <1>4, <1>5 DEF AllKinds, Enrolls, Cancels

\* The smaller of two numbers.
LEMMA MinOfTwo ==
    ASSUME NEW a \in Nat, NEW b \in Nat
    PROVE  /\ Min({a, b}) \in {a, b} /\ Min({a, b}) \in Nat
           /\ Min({a, b}) <= a /\ Min({a, b}) <= b
<1>1. \E x \in {a, b} : \A y \in {a, b} : x <= y
  OBVIOUS
<1> QED
  BY <1>1 DEF Min

\* A count that is taken down by one stays a number.
LEMMA OneLess ==
    ASSUME NEW n \in Nat
    PROVE  Max({n - 1, 0}) = IF n = 0 THEN 0 ELSE n - 1
<1>1. \A x \in {n - 1, 0} :
        (\A y \in {n - 1, 0} : x >= y) <=> x = IF n = 0 THEN 0 ELSE n - 1
  OBVIOUS
<1>2. (IF n = 0 THEN 0 ELSE n - 1) \in {n - 1, 0}
  OBVIOUS
<1> QED
  BY <1>1, <1>2 DEF Max

\* The state of a worker without a request.
LEMMA IdleType == Idle \in Txn
  BY Bounds DEF Idle, Txn, Steps, Section, Amounts, NothingOwed

-----------------------------------------------------------------------------
(* What the steps have in common.                                          *)

\* The invariant holds before the first request.
LEMMA InitIInv == Init => IInv
<1> SUFFICES ASSUME Init PROVE IInv
  OBVIOUS
<1>1. TypeOK
  BY IdleType, Bounds DEF Init, TypeOK, Txn, Section, Modes, NothingOwed
<1>2. LocksAgree /\ PaidWithinPrice
  BY Bounds DEF Init, LocksAgree, Compatible, PaidWithinPrice
<1>3. \A w \in Workers : WorkerInv(w)
  BY DEF Init, Idle, WorkerInv, RequestIsWhole, SeatIsGuarded, PaymentIsGuarded, RoomIsLeft,
     RowIsFresh, CountIsPositive, StepFits, Enrolls, Cancels
<1> QED
  BY <1>1, <1>2, <1>3 DEF IInv

\* What a transaction has done leaves the others as they were, if it writes
\* nothing and takes no lock and no new enrollment from them.
LEMMA OthersKept ==
    ASSUME IInv, NEW w \in Workers, UNCHANGED committed, TypeOK',
           \A v \in Workers \ {w} :
               /\ txn'[v] = txn[v]
               /\ sectionLock = v => sectionLock' = v
               /\ \A e \in Rows : rowLock'[e][v] = rowLock[e][v]
               /\ Enrolls(txn[v].kind) => txn'[w].row # txn[v].row
    PROVE  \A v \in Workers \ {w} : WorkerInv(v)'
<1> SUFFICES ASSUME NEW v \in Workers \ {w} PROVE WorkerInv(v)'
  OBVIOUS
<1>1. WorkerInv(v) /\ txn'[v] = txn[v] /\ Active' = Active
  BY DEF IInv, Active, committed
<1>2. RequestIsWhole(v)' /\ CountIsPositive(v)'
  BY <1>1 DEF WorkerInv, RequestIsWhole, CountIsPositive
<1>3. SeatIsGuarded(v)'
  BY <1>1 DEF WorkerInv, SeatIsGuarded
<1>4. PaymentIsGuarded(v)'
  <2>1. txn[v].kind = "pay" => txn[v].row \in Rows
    BY <1>1 DEF WorkerInv, RequestIsWhole, Cancels, IInv, TypeOK
  <2> QED
    BY <1>1, <2>1 DEF WorkerInv, PaymentIsGuarded
<1>5. RoomIsLeft(v)'
  BY <1>1 DEF WorkerInv, RoomIsLeft, committed
<1>6. RowIsFresh(v)'
  BY <1>1 DEF WorkerInv, RowIsFresh, committed
<1> QED
  BY <1>2, <1>3, <1>4, <1>5, <1>6 DEF WorkerInv

\* A new enrollment is nobody else's.
LEMMA FreshApart ==
    ASSUME IInv, NEW w \in Workers, NEW v \in Workers \ {w}
    PROVE  Enrolls(txn[v].kind) => txn[w].row # txn[v].row
  BY DEF IInv, WorkerInv, RowIsFresh

\* The transaction t of w has done a statement.
LEMMA Moves ==
    ASSUME TypeOK, NEW w \in Workers, NEW t \in Txn, After(t) \in Steps, Proceed(w, t)
    PROVE  /\ txn' \in [Workers -> Txn]
           /\ txn'[w] = [t EXCEPT !.step = After(t)]
           /\ txn'[w].kind = t.kind /\ txn'[w].step = After(t) /\ txn'[w].row = t.row
           /\ txn'[w].amount = t.amount /\ txn'[w].seen = t.seen
           /\ txn'[w].listed = t.listed /\ txn'[w].refund = t.refund
           /\ \A v \in Workers \ {w} : txn'[v] = txn[v]
<1>1. txn \in [Workers -> Txn]
  BY DEF TypeOK, Txn
<1>2. [t EXCEPT !.step = After(t)] \in Txn
  BY DEF Txn
<1> QED
  BY <1>1, <1>2 DEF Proceed, Txn

\* The statement of w has failed.
LEMMA Fails ==
    ASSUME TypeOK, NEW w \in Workers, Fail(w)
    PROVE  /\ txn' \in [Workers -> Txn]
           /\ txn'[w].kind = txn[w].kind /\ txn'[w].step = "failed"
           /\ txn'[w].row = txn[w].row /\ txn'[w].amount = txn[w].amount
           /\ \A v \in Workers \ {w} : txn'[v] = txn[v]
<1>1. txn \in [Workers -> Txn]
  BY DEF TypeOK, Txn
<1>2. [txn[w] EXCEPT !.step = "failed"] \in Txn
  BY <1>1 DEF Txn, Steps
<1> QED
  BY <1>1, <1>2 DEF Fail, Txn

\* A statement of a request under way keeps the invariant if it writes
\* nothing, touches no lock but w's own, and earns what w now relies on.
LEMMA StatementKeeps ==
    ASSUME IInv, NEW w \in Workers, UNCHANGED <<committed, begun>>,
           txn' \in [Workers -> Txn],
           txn[w].kind # "none",
           txn'[w].kind = txn[w].kind, txn'[w].row = txn[w].row,
           txn'[w].amount = txn[w].amount, StepFits(txn'[w].kind, txn'[w].step),
           SeatIsGuarded(w)', PaymentIsGuarded(w)', RoomIsLeft(w)', CountIsPositive(w)',
           sectionLock' \in Workers \cup {NoWorker},
           rowLock' \in [Rows -> [Workers -> Modes]], LocksAgree',
           \A v \in Workers \ {w} :
               /\ txn'[v] = txn[v]
               /\ sectionLock = v => sectionLock' = v
               /\ \A e \in Rows : rowLock'[e][v] = rowLock[e][v]
    PROVE  IInv'
<1>1. TypeOK'
  BY DEF IInv, TypeOK, Txn, committed
<1>2. \A v \in Workers \ {w} : WorkerInv(v)'
  <2>1. \A v \in Workers \ {w} : Enrolls(txn[v].kind) => txn'[w].row # txn[v].row
    BY FreshApart
  <2> QED
    BY <1>1, <2>1, OthersKept
<1>3. RequestIsWhole(w)'
  BY DEF IInv, WorkerInv, RequestIsWhole
<1>4. RowIsFresh(w)'
  BY DEF IInv, WorkerInv, RowIsFresh, committed
<1>5. WorkerInv(w)'
  BY <1>3, <1>4 DEF WorkerInv
<1>6. PaidWithinPrice'
  BY DEF IInv, PaidWithinPrice, committed
<1> QED
  BY <1>1, <1>2, <1>5, <1>6 DEF IInv

\* So does a statement that fails, the lock it had to wait for included.
LEMMA FailureKeeps ==
    ASSUME IInv, NEW w \in Workers, UNCHANGED <<committed, rowLock, begun>>,
           txn[w].kind # "none", Fail(w),
           sectionLock' # sectionLock => sectionLock = NoWorker /\ sectionLock' = w
    PROVE  IInv'
<1>1. TypeOK /\ LocksAgree
  BY DEF IInv
<1>2. LocksAgree'
  BY <1>1 DEF LocksAgree
<1>3. /\ sectionLock' \in Workers \cup {NoWorker}
      /\ rowLock' \in [Rows -> [Workers -> Modes]]
      /\ \A v \in Workers \ {w} : sectionLock = v => sectionLock' = v
  BY <1>1, DistinctAssumption DEF TypeOK
<1>4. StepFits(txn[w].kind, "failed")
  BY <1>1 DEF TypeOK, StepFits
<1>5. SeatIsGuarded(w)' /\ PaymentIsGuarded(w)' /\ RoomIsLeft(w)' /\ CountIsPositive(w)'
  BY <1>1, Fails DEF SeatIsGuarded, PaymentIsGuarded, RoomIsLeft, CountIsPositive
<1> QED
  BY <1>1, <1>2, <1>3, <1>4, <1>5, Fails, StatementKeeps

-----------------------------------------------------------------------------
(* Every action keeps the invariant.                                       *)

\* A request that has begun has an operation.
LEMMA Begun ==
    ASSUME IInv, NEW w \in Workers, txn[w].step # "idle"
    PROVE  /\ txn[w] \in Txn /\ txn[w].kind \in AllKinds /\ txn[w].kind # "none"
           /\ StepFits(txn[w].kind, txn[w].step)
           /\ txn[w].row \in Rows <=> ~Cancels(txn[w].kind)
<1>1. txn[w] \in Txn /\ RequestIsWhole(w)
  BY DEF IInv, TypeOK, Txn, WorkerInv
<1>2. txn[w].kind # "none"
  BY <1>1 DEF RequestIsWhole, Idle
<1> QED
  BY <1>1, <1>2, DistinctAssumption DEF RequestIsWhole, Txn

\* A request arrives.
LEMMA ReceiveKeeps == ASSUME IInv, NEW w \in Workers, Receive(w) PROVE IInv'
<1>1. PICK kind \in Kinds : \E amount \in 0 .. Price : \E e \in Targets(kind) :
        /\ txn[w] = Idle
        /\ begun < MaxTxns
        /\ amount > 0 <=> kind \in {"pay", "enrollPaying"}
        /\ txn' = [txn EXCEPT ![w] = [Idle EXCEPT !.kind = kind, !.row = e,
                                        !.amount = amount, !.step = Head(Path(kind))]]
        /\ begun' = begun + 1
        /\ UNCHANGED <<committed, locks>>
  BY DEF Receive
<1>2. PICK amount \in 0 .. Price, e \in Targets(kind) :
        /\ txn[w] = Idle
        /\ begun < MaxTxns
        /\ amount > 0 <=> kind \in {"pay", "enrollPaying"}
        /\ txn' = [txn EXCEPT ![w] = [Idle EXCEPT !.kind = kind, !.row = e,
                                        !.amount = amount, !.step = Head(Path(kind))]]
        /\ begun' = begun + 1
        /\ UNCHANGED <<committed, locks>>
  BY <1>1
<1>3. kind \in AllKinds /\ Head(Path(kind)) = IF kind = "pay" THEN "row" ELSE "read"
  BY KindsAssumption, FirstStep
<1>4. /\ e \in Rows \cup {NoRow}
      /\ e = NoRow <=> Cancels(kind)
      /\ e # NoRow /\ ~Enrolls(kind) => row[e] # "none"
      /\ Enrolls(kind) => row[e] = "none" /\ \A v \in Workers : txn[v].row # e
  <2>1. CASE Enrolls(kind)
    BY <2>1, DistinctAssumption DEF Targets, Unused, Enrolls, Cancels
  <2>2. CASE Cancels(kind)
    BY <2>2 DEF Targets, Enrolls, Cancels
  <2>3. CASE ~Enrolls(kind) /\ ~Cancels(kind)
    BY <2>3, DistinctAssumption DEF Targets
  <2> QED
    BY <2>1, <2>2, <2>3
<1>5. /\ txn' \in [Workers -> Txn]
      /\ txn'[w].kind = kind /\ txn'[w].row = e /\ txn'[w].amount = amount
      /\ txn'[w].step = IF kind = "pay" THEN "row" ELSE "read"
      /\ \A v \in Workers \ {w} : txn'[v] = txn[v]
  <2>1. txn \in [Workers -> Txn]
    BY DEF IInv, TypeOK, Txn
  <2>2. [Idle EXCEPT !.kind = kind, !.row = e, !.amount = amount,
                     !.step = Head(Path(kind))] \in Txn
    BY <1>3, <1>4, IdleType DEF Txn, Steps
  <2> QED
    BY <1>2, <1>3, <2>1, <2>2 DEF Idle
<1>6. TypeOK'
  BY <1>2, <1>5, Bounds DEF IInv, TypeOK, Txn, committed, locks
<1>7. \A v \in Workers \ {w} : Enrolls(txn[v].kind) => txn'[w].row # txn[v].row
  <2> SUFFICES ASSUME NEW v \in Workers \ {w}, Enrolls(txn[v].kind) PROVE e # txn[v].row
    BY <1>5
  <2>1. row[txn[v].row] = "none" /\ txn[v].row # NoRow
    BY DEF IInv, WorkerInv, RowIsFresh, RequestIsWhole, Enrolls, Cancels
  <2> QED
    BY <1>4, <2>1
<1>8. \A v \in Workers \ {w} : WorkerInv(v)'
  BY <1>2, <1>5, <1>6, <1>7, OthersKept DEF locks
<1>9. WorkerInv(w)'
  <2>1. RequestIsWhole(w)'
    BY <1>2, <1>3, <1>4, <1>5 DEF RequestIsWhole, StepFits, Cancels, AllKinds
  <2>2. SeatIsGuarded(w)' /\ PaymentIsGuarded(w)' /\ RoomIsLeft(w)' /\ CountIsPositive(w)'
    BY <1>5 DEF SeatIsGuarded, PaymentIsGuarded, RoomIsLeft, CountIsPositive
  <2>3. RowIsFresh(w)'
    BY <1>2, <1>4, <1>5 DEF RowIsFresh, committed
  <2> QED
    BY <2>1, <2>2, <2>3 DEF WorkerInv
<1>10. LocksAgree' /\ PaidWithinPrice'
  BY <1>2 DEF IInv, LocksAgree, PaidWithinPrice, committed, locks
<1> QED
  BY <1>6, <1>8, <1>9, <1>10 DEF IInv

\* A read writes nothing and takes no lock.
LEMMA PlainReadKeeps ==
    ASSUME IInv, NEW w \in Workers, UNCHANGED <<committed, locks, begun>>,
           txn[w].step \in {"read", "count", "sum"},
           NEW t \in Txn, t.kind = txn[w].kind, t.step = txn[w].step, t.row = txn[w].row,
           t.amount = txn[w].amount, Proceed(w, t)
    PROVE  IInv'
<1>1. /\ txn[w].kind \in AllKinds /\ txn[w].kind # "none"
      /\ StepFits(txn[w].kind, txn[w].step)
  BY Begun
<1>2. StepFits(t.kind, After(t)) /\ After(t) \in Steps
  BY <1>1, AfterFits DEF Steps
<1>3. After(t) \notin {"row", "check", "commit"}
  <2>1. CASE Enrolls(t.kind)
    BY <1>1, <2>1, AfterEnroll DEF StepFits, Enrolls, Cancels
  <2>2. CASE t.kind = "unenroll"
    BY <1>1, <2>2, AfterUnenroll DEF StepFits, Cancels
  <2>3. CASE t.kind = "delete"
    BY <1>1, <2>3, AfterDelete DEF StepFits, Cancels
  <2>4. CASE Cancels(t.kind)
    BY <1>1, <2>4, AfterCancel DEF StepFits, Cancels
  <2>5. t.kind # "pay"
    BY <1>1 DEF StepFits
  <2> QED
    BY <1>1, <2>1, <2>2, <2>3, <2>4, <2>5 DEF AllKinds, Enrolls, Cancels
<1>4. TypeOK /\ LocksAgree /\ LocksAgree'
  BY DEF IInv, LocksAgree, locks
<1>5. /\ sectionLock' = sectionLock /\ rowLock' = rowLock
      /\ sectionLock' \in Workers \cup {NoWorker}
      /\ rowLock' \in [Rows -> [Workers -> Modes]]
  BY <1>4 DEF TypeOK, locks
<1>6. SeatIsGuarded(w)' /\ PaymentIsGuarded(w)' /\ RoomIsLeft(w)' /\ CountIsPositive(w)'
  BY <1>2, <1>3, <1>4, Moves
     DEF SeatIsGuarded, PaymentIsGuarded, RoomIsLeft, CountIsPositive
<1> QED
  BY <1>1, <1>2, <1>4, <1>5, <1>6, Moves, StatementKeeps

\* The first read of a request.
LEMMA ReadKeeps == ASSUME IInv, NEW w \in Workers, Read(w) PROVE IInv'
<1>1. PICK t \in {[txn[w] EXCEPT !.seen = section, !.listed = Refundable(txn[w])]} : TRUE
  OBVIOUS
<1>2. txn[w].step = "read" /\ UNCHANGED <<committed, locks, begun>>
      /\ (Proceed(w, t) \/ Fail(w))
  BY <1>1 DEF Read, ProceedIf
<1>3. txn[w] \in Txn /\ txn[w].kind # "none" /\ (txn[w].kind = "unenroll" => txn[w].row \in Rows)
  BY <1>2, Begun DEF Cancels
<1>4. t \in Txn /\ t.kind = txn[w].kind /\ t.step = txn[w].step /\ t.row = txn[w].row
      /\ t.amount = txn[w].amount
  <2>1. Refundable(txn[w]) \in SUBSET Rows
    BY <1>3 DEF Refundable, Active
  <2>2. section \in Section
    BY DEF IInv, TypeOK
  <2> QED
    BY <1>1, <1>3, <2>1, <2>2 DEF Txn
<1>5. CASE Proceed(w, t)
  BY <1>2, <1>4, <1>5, PlainReadKeeps
<1>6. CASE Fail(w)
  <2>1. UNCHANGED <<committed, rowLock, begun>> /\ sectionLock' = sectionLock
    BY <1>2 DEF locks
  <2> QED
    BY <1>3, <1>6, <2>1, FailureKeeps
<1> QED
  BY <1>2, <1>5, <1>6

\* The second read of a deletion.
LEMMA ReadCountKeeps == ASSUME IInv, NEW w \in Workers, ReadCount(w) PROVE IInv'
<1>1. PICK t \in {[txn[w] EXCEPT !.seen = section]} : TRUE
  OBVIOUS
<1>2. txn[w].step = "count" /\ UNCHANGED <<committed, locks, begun>> /\ Proceed(w, t)
  BY <1>1 DEF ReadCount
<1>3. txn[w] \in Txn /\ section \in Section
  BY <1>2, Begun DEF IInv, TypeOK
<1>4. t \in Txn /\ t.kind = txn[w].kind /\ t.step = txn[w].step /\ t.row = txn[w].row
      /\ t.amount = txn[w].amount
  BY <1>1, <1>3 DEF Txn
<1> QED
  BY <1>2, <1>4, PlainReadKeeps

\* The sums of what was paid.
LEMMA SumPaymentsKeeps == ASSUME IInv, NEW w \in Workers, SumPayments(w) PROVE IInv'
<1>1. PICK part \in 0 .. Price :
        Proceed(w, [txn[w] EXCEPT !.listed = {}, !.refund =
            [e \in Rows |-> IF e \in txn[w].listed THEN Min({part, paid[e]}) ELSE 0]])
  BY DEF SumPayments
<1>2. PICK t \in {[txn[w] EXCEPT !.listed = {}, !.refund =
            [e \in Rows |-> IF e \in txn[w].listed THEN Min({part, paid[e]}) ELSE 0]]} : TRUE
  OBVIOUS
<1>3. txn[w].step = "sum" /\ UNCHANGED <<committed, locks, begun>> /\ Proceed(w, t)
  BY <1>1, <1>2 DEF SumPayments
<1>4. txn[w] \in Txn
  BY <1>3, Begun
<1>5. [e \in Rows |-> IF e \in txn[w].listed THEN Min({part, paid[e]}) ELSE 0] \in Amounts
  <2>1. \A e \in Rows : Min({part, paid[e]}) \in 0 .. Price
    <3> SUFFICES ASSUME NEW e \in Rows PROVE Min({part, paid[e]}) \in 0 .. Price
      OBVIOUS
    <3>1. part \in Nat /\ part <= Price /\ paid[e] \in Nat /\ Price \in Nat
      BY Bounds DEF IInv, TypeOK
    <3> QED
      BY <3>1, MinOfTwo
  <2> QED
    BY <2>1, Bounds DEF Amounts
<1>6. t \in Txn /\ t.kind = txn[w].kind /\ t.step = txn[w].step /\ t.row = txn[w].row
      /\ t.amount = txn[w].amount
  BY <1>2, <1>4, <1>5 DEF Txn
<1> QED
  BY <1>3, <1>6, PlainReadKeeps

\* The section is locked, and the student's seat searched for under that lock.
LEMMA LockSectionKeeps == ASSUME IInv, NEW w \in Workers, LockSection(w) PROVE IInv'
<1>1. /\ txn[w].step = "section" /\ sectionLock = NoWorker /\ sectionLock' = w
      /\ rowLock' = rowLock /\ UNCHANGED <<committed, rowLock, begun>>
      /\ Fail(w) \/ /\ Proceed(w, txn[w])
                    /\ Enrolls(txn[w].kind) =>
                          Owner(txn[w].row) \notin {Owner(e) : e \in Active}
                    /\ txn[w].kind = "delete" => txn[w].seen.count > 0
  BY DEF LockSection, ProceedIf
<1>2. /\ txn[w] \in Txn /\ txn[w].kind \in AllKinds /\ txn[w].kind # "none"
      /\ StepFits(txn[w].kind, "section")
  BY <1>1, Begun
<1>3. CASE Fail(w)
  BY <1>1, <1>2, <1>3, FailureKeeps
<1>4. CASE /\ Proceed(w, txn[w])
           /\ Enrolls(txn[w].kind) => Owner(txn[w].row) \notin {Owner(e) : e \in Active}
           /\ txn[w].kind = "delete" => txn[w].seen.count > 0
  <2>1. TypeOK /\ LocksAgree /\ LocksAgree'
    BY <1>1 DEF IInv, LocksAgree
  <2>2. StepFits(txn[w].kind, After(txn[w])) /\ After(txn[w]) \in Steps
    BY <1>1, <1>2, AfterFits DEF Steps
  <2>3. Active' = Active
    BY <1>1 DEF Active, committed
  <2>4. SeatIsGuarded(w)'
    BY <1>1, <1>4, <2>1, <2>2, <2>3, <1>2, Moves DEF SeatIsGuarded
  <2>5. PaymentIsGuarded(w)'
    BY <1>2, <1>4, <2>1, <2>2, Moves DEF PaymentIsGuarded, StepFits
  <2>6. RoomIsLeft(w)'
    <3>1. txn[w].kind # "pay"
      BY <1>2 DEF StepFits
    <3>2. txn[w].kind = "enrollPaying" => After(txn[w]) = "check"
      BY <1>1, AfterEnroll DEF Enrolls
    <3> QED
      BY <1>2, <1>4, <2>1, <2>2, <3>1, <3>2, Moves DEF RoomIsLeft
  <2>7. CountIsPositive(w)'
    BY <1>2, <1>4, <2>1, <2>2, Moves DEF CountIsPositive
  <2>8. /\ sectionLock' \in Workers \cup {NoWorker}
        /\ rowLock' \in [Rows -> [Workers -> Modes]]
        /\ \A v \in Workers \ {w} : /\ txn'[v] = txn[v]
                                    /\ sectionLock = v => sectionLock' = v
                                    /\ \A e \in Rows : rowLock'[e][v] = rowLock[e][v]
    <3>1. sectionLock' \in Workers \cup {NoWorker}
      BY <1>1, <1>2, <1>4, <2>1, <2>2 DEF TypeOK
    <3>2. rowLock' \in [Rows -> [Workers -> Modes]]
      BY <1>1, <1>2, <1>4, <2>1, <2>2 DEF TypeOK
    <3>3. \A v \in Workers \ {w} : txn'[v] = txn[v]
      BY <1>1, <1>2, <1>4, <2>1, <2>2, Moves
    <3>4. \A v \in Workers \ {w} : sectionLock = v => sectionLock' = v
      BY <1>1, <1>2, <1>4, <2>1, <2>2, DistinctAssumption DEF TypeOK
    <3>5. \A v \in Workers \ {w}, e \in Rows : rowLock'[e][v] = rowLock[e][v]
      BY <1>1, <1>2, <1>4, <2>1, <2>2 DEF TypeOK
    <3> QED
      BY <3>1, <3>2, <3>3, <3>4, <3>5
  <2>9. /\ txn' \in [Workers -> Txn] /\ StepFits(txn'[w].kind, txn'[w].step)
        /\ txn'[w].kind = txn[w].kind /\ txn'[w].row = txn[w].row
        /\ txn'[w].amount = txn[w].amount
    BY <1>2, <1>4, <2>1, <2>2, Moves
  <2> QED
    BY <1>1, <1>2, <2>1, <2>4, <2>5, <2>6, <2>7, <2>8, <2>9, StatementKeeps
<1> QED
  BY <1>1, <1>3, <1>4

\* A lock that is granted agrees with those of the others.
LEMMA GrantAgrees ==
    ASSUME LocksAgree, NEW w \in Workers, NEW S \in SUBSET Rows,
           \A e \in S : CanLock(w, e, rowLock'[e][w]),
           \A e \in Rows \ S : rowLock'[e] = rowLock[e],
           \A e \in Rows, v \in Workers \ {w} : rowLock'[e][v] = rowLock[e][v]
    PROVE  LocksAgree'
<1>1. \A a, b : Compatible(a, b) => Compatible(b, a)
  BY DEF Compatible
<1> SUFFICES ASSUME NEW e \in Rows, NEW v \in Workers, NEW u \in Workers, v # u
             PROVE  Compatible(rowLock'[e][v], rowLock'[e][u])
  BY DEF LocksAgree
<1>2. Compatible(rowLock[e][v], rowLock[e][u])
  BY DEF LocksAgree
<1>3. CASE e \notin S \/ w \notin {u, v}
  <2>1. rowLock'[e][v] = rowLock[e][v] /\ rowLock'[e][u] = rowLock[e][u]
    BY <1>3
  <2> QED
    BY <1>2, <2>1
<1>4. CASE e \in S /\ v = w
  <2>1. Compatible(rowLock'[e][w], rowLock'[e][u])
    BY <1>4 DEF CanLock
  <2> QED
    BY <1>4, <2>1
<1>5. CASE e \in S /\ u = w
  <2>1. Compatible(rowLock'[e][w], rowLock'[e][v])
    BY <1>5 DEF CanLock
  <2> QED
    BY <1>1, <1>5, <2>1
<1> QED
  BY <1>3, <1>4, <1>5

\* Refunds are inserted, each of which shares its enrollment.
LEMMA ShareRowsKeeps == ASSUME IInv, NEW w \in Workers, ShareRows(w) PROVE IInv'
<1>1. PICK S \in {{e \in Rows : txn[w].refund[e] > 0}} :
        /\ \A e \in S : CanLock(w, e, "share")
        /\ rowLock' = [e \in Rows |-> IF e \in S THEN [rowLock[e] EXCEPT ![w] = "share"]
                                      ELSE rowLock[e]]
  BY DEF ShareRows
<1>2. /\ txn[w].step = "share" /\ Proceed(w, txn[w])
      /\ UNCHANGED <<committed, begun>> /\ sectionLock' = sectionLock
  BY DEF ShareRows
<1>3. S \in SUBSET Rows /\ "share" \in Modes /\ TypeOK /\ LocksAgree
  BY DEF Modes, IInv
<1>4. /\ rowLock' \in [Rows -> [Workers -> Modes]] /\ LocksAgree'
      /\ \A e \in Rows, v \in Workers \ {w} : rowLock'[e][v] = rowLock[e][v]
  <2>1. /\ rowLock' \in [Rows -> [Workers -> Modes]]
        /\ \A e \in Rows, v \in Workers \ {w} : rowLock'[e][v] = rowLock[e][v]
        /\ \A e \in S : CanLock(w, e, rowLock'[e][w])
        /\ \A e \in Rows \ S : rowLock'[e] = rowLock[e]
    BY <1>1, <1>3 DEF TypeOK
  <2> QED
    BY <1>3, <2>1, GrantAgrees
<1>5. /\ txn[w] \in Txn /\ txn[w].kind \in AllKinds /\ txn[w].kind # "none"
      /\ StepFits(txn[w].kind, "share")
  BY <1>2, Begun
<1>6. txn[w].kind = "unenroll" \/ Cancels(txn[w].kind)
  BY <1>5 DEF StepFits, AllKinds, Cancels
<1>7. StepFits(txn[w].kind, After(txn[w])) /\ After(txn[w]) \in Steps
  BY <1>2, <1>5, AfterFits DEF Steps
<1>8. SeatIsGuarded(w)' /\ PaymentIsGuarded(w)' /\ RoomIsLeft(w)' /\ CountIsPositive(w)'
  BY <1>2, <1>3, <1>5, <1>6, <1>7, Moves
     DEF SeatIsGuarded, PaymentIsGuarded, RoomIsLeft, CountIsPositive, Enrolls, Cancels
<1>9. sectionLock' \in Workers \cup {NoWorker}
  BY <1>2, <1>3 DEF TypeOK
<1>10. /\ txn' \in [Workers -> Txn] /\ StepFits(txn'[w].kind, txn'[w].step)
       /\ txn'[w].kind = txn[w].kind /\ txn'[w].row = txn[w].row
       /\ txn'[w].amount = txn[w].amount
       /\ \A v \in Workers \ {w} : txn'[v] = txn[v]
  BY <1>2, <1>3, <1>5, <1>7, Moves
<1> QED
  BY <1>2, <1>4, <1>5, <1>8, <1>9, <1>10, StatementKeeps

\* The enrollment is locked, by a payment or by an UPDATE.
LEMMA LockRowKeeps == ASSUME IInv, NEW w \in Workers, LockRow(w) PROVE IInv'
<1>1. PICK mode \in {IF txn[w].kind = "pay" THEN "full" ELSE "update"} :
        /\ CanLock(w, txn[w].row, mode)
        /\ rowLock' = [rowLock EXCEPT ![txn[w].row][w] = mode]
  BY DEF LockRow
<1>2. /\ txn[w].step = "row" /\ Proceed(w, txn[w])
      /\ UNCHANGED <<committed, begun>> /\ sectionLock' = sectionLock
  BY DEF LockRow
<1>3. /\ txn[w] \in Txn /\ txn[w].kind \in AllKinds /\ txn[w].kind # "none"
      /\ StepFits(txn[w].kind, "row") /\ (txn[w].row \in Rows <=> ~Cancels(txn[w].kind))
  BY <1>2, Begun
<1>4. txn[w].kind \in {"pay", "unenroll", "delete"} /\ txn[w].row \in Rows
  BY <1>3 DEF StepFits, AllKinds, Cancels
<1>5. mode \in Modes /\ TypeOK /\ LocksAgree
  BY DEF Modes, IInv
<1>6. /\ rowLock' \in [Rows -> [Workers -> Modes]]
      /\ \A e \in Rows, v \in Workers \ {w} : rowLock'[e][v] = rowLock[e][v]
      /\ rowLock'[txn[w].row][w] = mode
      /\ \A e \in Rows \ {txn[w].row} : rowLock'[e] = rowLock[e]
  BY <1>1, <1>4, <1>5 DEF TypeOK
<1>7. LocksAgree'
  <2>1. PICK S \in SUBSET Rows : S = {txn[w].row}
    BY <1>4
  <2>2. /\ \A e \in S : CanLock(w, e, rowLock'[e][w])
        /\ \A e \in Rows \ S : rowLock'[e] = rowLock[e]
    BY <1>1, <1>6, <2>1
  <2> QED
    BY <1>5, <1>6, <2>2, GrantAgrees
<1>8. StepFits(txn[w].kind, After(txn[w])) /\ After(txn[w]) \in Steps
  BY <1>2, <1>3, AfterFits DEF Steps
<1>9. SeatIsGuarded(w)' /\ PaymentIsGuarded(w)'
  <2>1. txn'[w].kind = txn[w].kind /\ txn'[w].row = txn[w].row
    BY <1>2, <1>3, <1>5, <1>8, Moves
  <2>2. mode = IF txn[w].kind = "pay" THEN "full" ELSE "update"
    BY <1>1
  <2> QED
    BY <1>4, <1>6, <2>1, <2>2 DEF SeatIsGuarded, PaymentIsGuarded, Enrolls
<1>10. RoomIsLeft(w)'
  BY <1>2, <1>3, <1>4, <1>5, <1>8, Moves, AfterPay DEF RoomIsLeft
<1>11. CountIsPositive(w)'
  BY <1>2, <1>3, <1>4, <1>5, <1>8, Moves DEF IInv, WorkerInv, CountIsPositive
<1>12. sectionLock' \in Workers \cup {NoWorker}
  BY <1>2, <1>5 DEF TypeOK
<1>13. /\ txn' \in [Workers -> Txn] /\ StepFits(txn'[w].kind, txn'[w].step)
       /\ txn'[w].kind = txn[w].kind /\ txn'[w].row = txn[w].row
       /\ txn'[w].amount = txn[w].amount
       /\ \A v \in Workers \ {w} : txn'[v] = txn[v]
  BY <1>2, <1>3, <1>5, <1>8, Moves
<1> QED
  BY <1>2, <1>3, <1>6, <1>7, <1>9, <1>10, <1>11, <1>12, <1>13, StatementKeeps

\* The amount is compared with what is left to pay.
LEMMA CheckPaymentKeeps == ASSUME IInv, NEW w \in Workers, CheckPayment(w) PROVE IInv'
<1>1. /\ txn[w].step = "check" /\ UNCHANGED <<committed, locks, begun>>
      /\ \/ Fail(w)
         \/ Proceed(w, txn[w]) /\ txn[w].amount + paid[txn[w].row] <= Price
  BY DEF CheckPayment, ProceedIf
<1>2. /\ txn[w] \in Txn /\ txn[w].kind \in AllKinds /\ txn[w].kind # "none"
      /\ StepFits(txn[w].kind, "check")
  BY <1>1, Begun
<1>3. UNCHANGED <<committed, rowLock, begun>> /\ sectionLock' = sectionLock
  BY <1>1 DEF locks
<1>4. CASE Fail(w)
  BY <1>2, <1>3, <1>4, FailureKeeps
<1>5. CASE Proceed(w, txn[w]) /\ txn[w].amount + paid[txn[w].row] <= Price
  <2>1. TypeOK /\ LocksAgree /\ LocksAgree'
    BY <1>3 DEF IInv, LocksAgree
  <2>2. StepFits(txn[w].kind, After(txn[w])) /\ After(txn[w]) \in Steps
    BY <1>1, <1>2, AfterFits DEF Steps
  <2>3. SeatIsGuarded(w) /\ PaymentIsGuarded(w) /\ Active' = Active
    BY <1>3 DEF IInv, WorkerInv, Active, committed
  <2>4. SeatIsGuarded(w)' /\ PaymentIsGuarded(w)'
    BY <1>1, <1>2, <1>3, <1>5, <2>1, <2>2, <2>3, Moves DEF SeatIsGuarded, PaymentIsGuarded
  <2>5. RoomIsLeft(w)'
    BY <1>2, <1>3, <1>5, <2>1, <2>2, Moves DEF RoomIsLeft, committed
  <2>6. CountIsPositive(w)'
    BY <1>2, <1>5, <2>1, <2>2, Moves DEF CountIsPositive, StepFits
  <2>7. sectionLock' \in Workers \cup {NoWorker} /\ rowLock' \in [Rows -> [Workers -> Modes]]
    BY <1>3, <2>1 DEF TypeOK
  <2> QED
    BY <1>2, <1>3, <1>5, <2>1, <2>2, <2>4, <2>5, <2>6, <2>7, Moves, StatementKeeps
<1> QED
  BY <1>1, <1>4, <1>5

\* A transaction that ends gives its locks back.
LEMMA ReleaseFrees ==
    ASSUME TypeOK, LocksAgree, NEW w \in Workers, Released(w)
    PROVE  /\ begun' = begun /\ txn' \in [Workers -> Txn] /\ txn'[w] = Idle
           /\ sectionLock' \in Workers \cup {NoWorker}
           /\ rowLock' \in [Rows -> [Workers -> Modes]] /\ LocksAgree'
           /\ \A v \in Workers \ {w} : /\ txn'[v] = txn[v]
                                       /\ sectionLock = v => sectionLock' = v
                                       /\ \A e \in Rows : rowLock'[e][v] = rowLock[e][v]
<1>1. txn \in [Workers -> Txn] /\ rowLock \in [Rows -> [Workers -> Modes]]
  BY DEF TypeOK, Txn
<1>2. begun' = begun /\ txn' \in [Workers -> Txn] /\ txn'[w] = Idle
      /\ \A v \in Workers \ {w} : txn'[v] = txn[v]
  BY <1>1, IdleType DEF Released
<1>3. sectionLock' \in Workers \cup {NoWorker}
      /\ \A v \in Workers \ {w} : sectionLock = v => sectionLock' = v
  BY DEF Released, TypeOK
<1>4. /\ rowLock' \in [Rows -> [Workers -> Modes]]
      /\ \A e \in Rows : rowLock'[e][w] = "none"
      /\ \A e \in Rows, v \in Workers \ {w} : rowLock'[e][v] = rowLock[e][v]
  BY <1>1 DEF Released, Modes
<1>5. LocksAgree'
  <2>1. \A e \in Rows : CanLock(w, e, rowLock'[e][w])
    BY <1>4 DEF CanLock, Compatible
  <2>2. PICK S \in SUBSET Rows : S = Rows
    OBVIOUS
  <2>3. \A e \in S : CanLock(w, e, rowLock'[e][w])
    BY <2>1
  <2>4. \A e \in Rows \ S : rowLock'[e] = rowLock[e]
    BY <2>2
  <2> QED
    BY <1>4, <2>3, <2>4, GrantAgrees
<1> QED
  BY <1>2, <1>3, <1>4, <1>5

\* A worker without a request relies on nothing.
LEMMA IdleRelies ==
    ASSUME NEW w \in Workers, txn'[w] = Idle PROVE WorkerInv(w)'
  BY DEF Idle, WorkerInv, RequestIsWhole, SeatIsGuarded, PaymentIsGuarded, RoomIsLeft,
     RowIsFresh, CountIsPositive, StepFits, Enrolls, Cancels

\* A transaction ends without a commit.
LEMMA AbortKeeps ==
    ASSUME IInv, NEW w \in Workers, Released(w), UNCHANGED committed
    PROVE  IInv'
<1>1. TypeOK /\ LocksAgree
  BY DEF IInv
<1>2. TypeOK'
  BY <1>1, ReleaseFrees DEF TypeOK, Txn, committed
<1>3. \A v \in Workers \ {w} : Enrolls(txn[v].kind) => txn'[w].row # txn[v].row
  <2> SUFFICES ASSUME NEW v \in Workers \ {w}, Enrolls(txn[v].kind)
               PROVE  txn'[w].row # txn[v].row
    OBVIOUS
  <2>1. txn[v].row # NoRow
    BY DEF IInv, WorkerInv, RequestIsWhole, Enrolls, Cancels
  <2> QED
    BY <1>1, <2>1, ReleaseFrees DEF Idle
<1>4. \A v \in Workers \ {w} : WorkerInv(v)'
  BY <1>1, <1>2, <1>3, ReleaseFrees, OthersKept
<1>5. WorkerInv(w)'
  BY <1>1, ReleaseFrees, IdleRelies
<1>6. LocksAgree' /\ PaidWithinPrice'
  BY <1>1, ReleaseFrees DEF IInv, PaidWithinPrice, committed
<1> QED
  BY <1>2, <1>4, <1>5, <1>6 DEF IInv

\* The section a commit writes.
LEMMA NewSectionType ==
    ASSUME TypeOK, NEW t \in Txn, t.kind = "delete" => t.seen.count > 0
    PROVE  NewSection(t) \in Section
<1>1. section \in Section /\ t.seen \in Section /\ t.seen.count \in Nat
  BY DEF TypeOK, Txn, Section
<1>2. CASE Enrolls(t.kind)
  <2>1. PICK n \in Nat : n = t.seen.count + 1
    BY <1>1
  <2>2. NewSection(t) = [section EXCEPT !.count = n]
    BY <1>2, <2>1 DEF NewSection, Enrolls
  <2> QED
    BY <1>1, <2>2 DEF Section
<1>3. CASE t.kind = "unenroll"
  <2>1. Max({t.seen.count - 1, 0}) \in Nat
    BY <1>1, OneLess
  <2> QED
    BY <1>1, <1>3, <2>1 DEF NewSection, Section, Enrolls
<1>4. CASE t.kind = "delete"
  BY <1>1, <1>4 DEF NewSection, Section, Enrolls
<1>5. CASE t.kind = "cancel"
  BY <1>1, <1>5 DEF NewSection, Section, Enrolls
<1>6. CASE t.kind = "cancelRefunding"
  BY <1>1, <1>6 DEF NewSection, Section, Enrolls
<1>7. CASE ~Enrolls(t.kind) /\ t.kind \notin {"unenroll", "delete", "cancel", "cancelRefunding"}
  BY <1>1, <1>7 DEF NewSection
<1> QED
  BY <1>2, <1>3, <1>4, <1>5, <1>6, <1>7

\* The enrollments it writes: one that is new, one that is deleted, or none.
LEMMA NewRowIs ==
    ASSUME TypeOK, NEW t \in Txn, t.kind # "none", t.row \in Rows <=> ~Cancels(t.kind)
    PROVE  /\ NewRow(t) \in [Rows -> {"none", "active", "deleted"}]
           /\ \A e \in Rows : e # t.row => NewRow(t)[e] = row[e]
           /\ Enrolls(t.kind) => NewRow(t)[t.row] = "active"
           /\ t.kind \in {"unenroll", "delete"} => NewRow(t)[t.row] = "deleted"
           /\ ~Enrolls(t.kind) /\ t.kind \notin {"unenroll", "delete"} => NewRow(t) = row
<1>1. row \in [Rows -> {"none", "active", "deleted"}]
  BY DEF TypeOK
<1>2. CASE Enrolls(t.kind)
  BY <1>1, <1>2 DEF NewRow, Enrolls, Cancels
<1>3. CASE t.kind \in {"unenroll", "delete"}
  BY <1>1, <1>3 DEF NewRow, Enrolls, Cancels
<1>4. CASE ~Enrolls(t.kind) /\ t.kind \notin {"unenroll", "delete"}
  BY <1>1, <1>4 DEF NewRow
<1> QED
  BY <1>2, <1>3, <1>4
\* The request is done: everything it has written becomes visible.
LEMMA CommitKeeps == ASSUME IInv, NEW w \in Workers, Commit(w) PROVE IInv'
<1>1. PICK t \in {txn[w]} :
        /\ t.step = "commit" /\ section' = NewSection(t) /\ row' = NewRow(t)
        /\ paid' = IF t.amount > 0 THEN [paid EXCEPT ![t.row] = @ + t.amount] ELSE paid
        /\ owed' = [e \in Rows |-> owed[e] + t.refund[e]]
        /\ Released(w)
  BY DEF Commit
<1>2. TypeOK /\ LocksAgree /\ PaidWithinPrice /\ WorkerInv(w) /\ t = txn[w]
  BY <1>1 DEF IInv
<1>3. /\ t \in Txn /\ t.kind \in AllKinds /\ t.kind # "none"
      /\ StepFits(t.kind, "commit") /\ (t.row \in Rows <=> ~Cancels(t.kind))
      /\ t.amount \in Nat /\ t.refund \in [Rows -> Nat]
  BY <1>1, <1>2, Begun, Bounds DEF Txn, Amounts
<1>4. section' \in Section
  BY <1>1, <1>2, <1>3, NewSectionType DEF WorkerInv, CountIsPositive
<1>5. /\ row' \in [Rows -> {"none", "active", "deleted"}]
      /\ \A e \in Rows : e # t.row => row'[e] = row[e]
      /\ ~Enrolls(t.kind) /\ t.kind \notin {"unenroll", "delete"} => row' = row
      /\ t.kind \in {"unenroll", "delete"} => row'[t.row] = "deleted"
  BY <1>1, <1>2, <1>3, NewRowIs
<1>6. /\ paid' \in [Rows -> Nat]
      /\ \A e \in Rows : e # t.row => paid'[e] = paid[e]
      /\ t.amount = 0 => paid' = paid
      /\ t.amount > 0 => paid'[t.row] = paid[t.row] + t.amount
      /\ t.amount > 0 => t.kind \in {"pay", "enrollPaying"} /\ t.row \in Rows
  <2>1. t.amount > 0 => t.kind \in {"pay", "enrollPaying"} /\ t.row \in Rows
    BY <1>2, <1>3 DEF WorkerInv, RequestIsWhole, Cancels
  <2> QED
    BY <1>1, <1>2, <1>3, <2>1 DEF TypeOK
<1>7. owed' \in [Rows -> Nat]
  BY <1>1, <1>2, <1>3 DEF TypeOK
<1>8. TypeOK'
  BY <1>1, <1>2, <1>4, <1>5, <1>6, <1>7, ReleaseFrees DEF TypeOK, Txn
<1>9. PaidWithinPrice'
  <2> SUFFICES ASSUME NEW e \in Rows PROVE paid'[e] <= Price
    BY DEF PaidWithinPrice
  <2>1. CASE t.amount > 0 /\ e = t.row
    <3>1. t.amount + paid[t.row] <= Price
      BY <1>1, <1>2, <1>6, <2>1 DEF WorkerInv, RoomIsLeft
    <3>2. paid[t.row] \in Nat
      BY <1>2, <2>1 DEF TypeOK
    <3> QED
      BY <1>3, <1>6, <2>1, <3>1, <3>2
  <2>2. CASE ~(t.amount > 0 /\ e = t.row)
    <3>1. paid'[e] = paid[e]
      BY <1>3, <1>6, <2>2
    <3> QED
      BY <1>2, <3>1 DEF PaidWithinPrice
  <2> QED
    BY <2>1, <2>2
<1>10. ASSUME NEW v \in Workers \ {w} PROVE WorkerInv(v)'
  <2>1. /\ WorkerInv(v) /\ txn'[v] = txn[v]
        /\ sectionLock = v => sectionLock' = v
        /\ \A e \in Rows : rowLock'[e][v] = rowLock[e][v]
        /\ txn'[w] = Idle /\ \A u \in Workers \ {w} : txn'[u] = txn[u]
    BY <1>1, <1>2, ReleaseFrees DEF IInv
  <2>2. RequestIsWhole(v)' /\ CountIsPositive(v)'
    BY <2>1 DEF WorkerInv, RequestIsWhole, CountIsPositive
  <2>3. txn[v].kind # "none" /\ ~Cancels(txn[v].kind) => txn[v].row \in Rows
    BY <1>2, <2>1 DEF WorkerInv, RequestIsWhole, TypeOK
  <2>4. SeatIsGuarded(v)'
    <3> SUFFICES ASSUME Enrolls(txn[v].kind), txn[v].step \in {"check", "commit"}
                 PROVE  /\ sectionLock' = v
                        /\ Owner(txn[v].row) \notin {Owner(e) : e \in Active'}
      BY <2>1 DEF SeatIsGuarded
    <3>1. sectionLock = v /\ Owner(txn[v].row) \notin {Owner(e) : e \in Active}
      BY <2>1 DEF WorkerInv, SeatIsGuarded
    <3>2. ~Enrolls(t.kind)
      BY <1>1, <1>2, <3>1 DEF WorkerInv, SeatIsGuarded
    <3>3. \A e \in Rows : row'[e] = "active" => row[e] = "active"
      BY <1>3, <1>5, <3>2
    <3>4. Active' \subseteq Active
      BY <3>3 DEF Active
    <3> QED
      BY <2>1, <3>1, <3>4
  <2>5. PaymentIsGuarded(v)'
    BY <2>1, <2>3 DEF WorkerInv, PaymentIsGuarded, Cancels
  <2>6. RoomIsLeft(v)'
    <3> SUFFICES ASSUME txn[v].kind \in {"pay", "enrollPaying"}, txn[v].step = "commit"
                 PROVE  txn[v].amount + paid'[txn[v].row] <= Price
      BY <2>1 DEF RoomIsLeft
    <3>1. txn[v].amount + paid[txn[v].row] <= Price /\ txn[v].row \in Rows
      BY <2>1, <2>3 DEF WorkerInv, RoomIsLeft, Cancels
    <3>2. CASE t.amount > 0 /\ t.row = txn[v].row
      <4>1. t.kind = "pay" /\ txn[v].kind = "pay"
        BY <1>2, <1>6, <2>1, <3>2 DEF WorkerInv, RowIsFresh, Enrolls
      <4>2. rowLock[t.row][w] = "full" /\ rowLock[t.row][v] = "full"
        BY <1>1, <1>2, <2>1, <3>2, <4>1 DEF WorkerInv, PaymentIsGuarded
      <4>3. Compatible(rowLock[t.row][v], rowLock[t.row][w])
        BY <1>2, <1>6, <3>2 DEF LocksAgree
      <4> QED
        BY <4>2, <4>3 DEF Compatible
    <3>3. CASE ~(t.amount > 0 /\ t.row = txn[v].row)
      <4>1. paid'[txn[v].row] = paid[txn[v].row]
        BY <1>3, <1>6, <3>1, <3>3
      <4> QED
        BY <3>1, <4>1
    <3> QED
      BY <3>2, <3>3
  <2>7. RowIsFresh(v)'
    <3> SUFFICES ASSUME Enrolls(txn[v].kind)
                 PROVE  /\ row'[txn[v].row] = "none"
                        /\ \A u \in Workers \ {v} : txn'[u].row # txn[v].row
      BY <2>1 DEF RowIsFresh
    <3>1. /\ txn[v].row \in Rows /\ row[txn[v].row] = "none" /\ t.row # txn[v].row
          /\ \A u \in Workers \ {v} : txn[u].row # txn[v].row
      BY <1>2, <2>1, <2>3 DEF WorkerInv, RowIsFresh, Enrolls, Cancels
    <3>2. Idle.row # txn[v].row
      BY <3>1, DistinctAssumption DEF Idle
    <3> QED
      BY <1>5, <2>1, <3>1, <3>2
  <2> QED
    BY <2>2, <2>4, <2>5, <2>6, <2>7 DEF WorkerInv
<1>11. WorkerInv(w)' /\ LocksAgree'
  BY <1>1, <1>2, ReleaseFrees, IdleRelies
<1> QED
  BY <1>8, <1>9, <1>10, <1>11 DEF IInv

-----------------------------------------------------------------------------
(* Theorems.                                                               *)

\* Every step of a request keeps the invariant.
LEMMA StepKeeps == ASSUME IInv, NEW w \in Workers, Step(w) PROVE IInv'
<1>1. CASE Read(w)
  BY <1>1, ReadKeeps
<1>2. CASE ReadCount(w)
  BY <1>2, ReadCountKeeps
<1>3. CASE SumPayments(w)
  BY <1>3, SumPaymentsKeeps
<1>4. CASE LockSection(w)
  BY <1>4, LockSectionKeeps
<1>5. CASE ShareRows(w)
  BY <1>5, ShareRowsKeeps
<1>6. CASE LockRow(w)
  BY <1>6, LockRowKeeps
<1>7. CASE CheckPayment(w)
  BY <1>7, CheckPaymentKeeps
<1>8. CASE Commit(w)
  BY <1>8, CommitKeeps
<1>9. CASE Rollback(w)
  BY <1>9, AbortKeeps DEF Rollback
<1> QED
  BY <1>1, <1>2, <1>3, <1>4, <1>5, <1>6, <1>7, <1>8, <1>9 DEF Step

\* Whatever happens next keeps the invariant, stuttering included.
LEMMA NextIInv == IInv /\ [Next]_vars => IInv'
<1> SUFFICES ASSUME IInv, [Next]_vars PROVE IInv'
  OBVIOUS
<1>1. CASE UNCHANGED vars
  BY <1>1 DEF vars, IInv, TypeOK, LocksAgree, PaidWithinPrice, WorkerInv, RequestIsWhole,
     SeatIsGuarded, PaymentIsGuarded, RoomIsLeft, RowIsFresh, CountIsPositive, Active
<1>2. ASSUME NEW w \in Workers, Receive(w) PROVE IInv'
  BY <1>2, ReceiveKeeps
<1>3. ASSUME NEW w \in Workers, Step(w) PROVE IInv'
  BY <1>3, StepKeeps
<1>4. ASSUME NEW w \in Workers, Crash(w) PROVE IInv'
  BY <1>4, AbortKeeps DEF Crash
<1> QED
  BY <1>1, <1>2, <1>3, <1>4 DEF Next

\* The inductive invariant holds in every behaviour of the requests.
THEOREM Invariance == Spec => []IInv
  BY InitIInv, NextIInv, PTL DEF Spec

\* Every request and every lock keeps its type; in particular enrolled_count
\* is never written below zero.
THEOREM TypeCorrect == Spec => []TypeOK
<1>1. IInv => TypeOK
  BY DEF IInv
<1> QED
  BY <1>1, Invariance, PTL

\* create_payment and create_enrollment never take in more for an enrollment
\* than its price, however many of them run at once.
THEOREM PaymentsCorrect == Spec => []PaidWithinPrice
<1>1. IInv => PaidWithinPrice
  BY DEF IInv
<1> QED
  BY <1>1, Invariance, PTL

\* create_enrollment never inserts a second active enrollment of a student,
\* with any number of requests for that student at once.
THEOREM SeatsCorrect == Spec => []NoDuplicateSeat
<1>1. IInv => NoDuplicateSeat
  BY DEF IInv, WorkerInv, SeatIsGuarded, NoDuplicateSeat
<1> QED
  BY <1>1, Invariance, PTL

-----------------------------------------------------------------------------
(***************************************************************************)
(* Requests that do not overlap.  The count of a section and the refunds   *)
(* of its cancellation are worked out from plain reads, so they can be     *)
(* trusted only if nothing commits between the reads and the commit.  What *)
(* follows shows that this is all they need: any history of requests,      *)
(* failures and crashes is fine as long as no two are in flight at once.   *)
(***************************************************************************)

\* The section is still what the request has read.
SeenIsCurrent(w) ==
    txn[w].kind \notin {"none", "pay"} /\ txn[w].step \notin {"read", "failed"}
        => txn[w].seen = section

\* The enrollment to be given up is still active; the one to be paid exists.
TargetIsThere(w) ==
    /\ txn[w].kind \in {"unenroll", "delete"} /\ txn[w].step \notin {"read", "failed"}
           => row[txn[w].row] = "active"
    /\ txn[w].kind = "pay" => row[txn[w].row] # "none"

\* A cancellation with refunds has listed every enrollment, and then every
\* payment.
RefundsAreWhole(w) ==
    txn[w].kind = "cancelRefunding"
        => /\ txn[w].step = "sum" => \A e \in Rows : row[e] # "none" => e \in txn[w].listed
           /\ txn[w].step \in {"section", "share", "commit"}
                  => \A e \in Rows : txn[w].refund[e] >= paid[e]

\* A payment goes on only if the section is not cancelled.
NotCancelled(w) ==
    txn[w].kind \in {"pay", "enrollPaying"} /\ txn[w].step = "commit"
        => section.refunds = "none"

ReadsHold(w) == SeenIsCurrent(w) /\ TargetIsThere(w) /\ RefundsAreWhole(w) /\ NotCancelled(w)

\* Nobody has paid for an enrollment that was never made.
UnpaidBefore == \A e \in Rows : row[e] = "none" => paid[e] = 0

SerialInv ==
    /\ IInv
    /\ IsFiniteSet(Active) /\ CountMatchesActive
    /\ UnpaidBefore /\ CancellationRefundsAll
    /\ \A w \in Workers : ReadsHold(w)

\* It holds before the first request.
LEMMA InitSerialInv == Init => SerialInv
<1> SUFFICES ASSUME Init PROVE SerialInv
  OBVIOUS
<1>1. IInv
  BY InitIInv
<1>2. Active = {}
  BY DEF Init, Active
<1>3. IsFiniteSet(Active) /\ CountMatchesActive
  BY <1>2, FS_EmptySet DEF Init, CountMatchesActive
<1>4. UnpaidBefore /\ CancellationRefundsAll
  BY DEF Init, UnpaidBefore, CancellationRefundsAll
<1>5. \A w \in Workers : ReadsHold(w)
  BY DEF Init, Idle, ReadsHold, SeenIsCurrent, TargetIsThere, RefundsAreWhole, NotCancelled
<1> QED
  BY <1>1, <1>3, <1>4, <1>5 DEF SerialInv

\* A step of one worker leaves the requests of the others as they are.
LEMMA OthersStay ==
    ASSUME SerialInv, NEW w \in Workers, Receive(w) \/ Step(w) \/ Crash(w)
    PROVE  \A v \in Workers \ {w} : txn'[v] = txn[v]
<1>1. txn \in [Workers -> Txn]
  BY DEF SerialInv, IInv, TypeOK, Txn
<1>2. ASSUME NEW t, txn' = [txn EXCEPT ![w] = t]
      PROVE  \A v \in Workers \ {w} : txn'[v] = txn[v]
  BY <1>1, <1>2
<1>3. CASE Receive(w)
  BY <1>2, <1>3 DEF Receive
<1>4. CASE Read(w) \/ ReadCount(w) \/ SumPayments(w) \/ LockSection(w)
  BY <1>2, <1>4 DEF Read, ReadCount, SumPayments, LockSection, ProceedIf, Proceed, Fail
<1>5. CASE ShareRows(w) \/ LockRow(w) \/ CheckPayment(w)
  BY <1>2, <1>5 DEF ShareRows, LockRow, CheckPayment, ProceedIf, Proceed, Fail
<1>6. CASE Commit(w) \/ Rollback(w) \/ Crash(w)
  BY <1>2, <1>6 DEF Commit, Rollback, Crash, Released
<1> QED
  BY <1>3, <1>4, <1>5, <1>6 DEF Step

\* A step that writes nothing keeps it if w's reads still hold: the others
\* have nothing to notice.
LEMMA ReadsSuffice ==
    ASSUME SerialInv, NEW w \in Workers, UNCHANGED committed, IInv', ReadsHold(w)',
           \A v \in Workers \ {w} : txn'[v] = txn[v]
    PROVE  SerialInv'
<1>1. ASSUME NEW v \in Workers PROVE ReadsHold(v)'
  <2>1. CASE v # w
    <3>1. /\ ReadsHold(v) /\ txn'[v] = txn[v]
          /\ section' = section /\ row' = row /\ paid' = paid
      BY <2>1 DEF SerialInv, committed
    <3> QED
      BY <3>1 DEF ReadsHold, SeenIsCurrent, TargetIsThere, RefundsAreWhole, NotCancelled
  <2> QED
    BY <2>1
<1>2. Active' = Active
  BY DEF Active, committed
<1>3. IsFiniteSet(Active') /\ CountMatchesActive'
  BY <1>2 DEF SerialInv, CountMatchesActive, committed
<1>4. UnpaidBefore' /\ CancellationRefundsAll'
  BY DEF SerialInv, UnpaidBefore, CancellationRefundsAll, committed
<1> QED
  BY <1>1, <1>3, <1>4 DEF SerialInv

\* A statement that fails leaves nothing to rely on, nor does an end.
LEMMA FailureHolds ==
    ASSUME SerialInv, NEW w \in Workers, Fail(w), UNCHANGED committed PROVE ReadsHold(w)'
<1>1. TypeOK /\ ReadsHold(w)
  BY DEF SerialInv, IInv
<1>2. txn'[w].step = "failed" /\ txn'[w].kind = txn[w].kind /\ txn'[w].row = txn[w].row
  BY <1>1, Fails
<1> QED
  BY <1>1, <1>2 DEF ReadsHold, SeenIsCurrent, TargetIsThere, RefundsAreWhole, NotCancelled,
     committed

\* A worker without a request has read nothing.
LEMMA IdleHolds == ASSUME NEW w \in Workers, txn'[w] = Idle PROVE ReadsHold(w)'
  BY DEF Idle, ReadsHold, SeenIsCurrent, TargetIsThere, RefundsAreWhole, NotCancelled

\* A statement that reads nothing new leaves w's reads as they hold.
LEMMA StatementHolds ==
    ASSUME SerialInv, NEW w \in Workers, UNCHANGED committed, Proceed(w, txn[w]),
           txn[w].step \in {"section", "share", "row", "check"},
           txn[w].step = "check" => section.refunds = "none"
    PROVE  ReadsHold(w)'
<1>1. TypeOK /\ ReadsHold(w)
  BY DEF SerialInv, IInv
<1>2. /\ txn[w] \in Txn /\ txn[w].kind \in AllKinds /\ txn[w].kind # "none"
      /\ StepFits(txn[w].kind, txn[w].step)
  BY Begun DEF SerialInv
<1>3. StepFits(txn[w].kind, After(txn[w]))
      /\ After(txn[w]) \in {"count", "sum", "section", "share", "row", "check", "commit"}
  BY <1>2, AfterFits
<1>4. /\ txn'[w].step = After(txn[w]) /\ txn'[w].kind = txn[w].kind /\ txn'[w].row = txn[w].row
      /\ txn'[w].seen = txn[w].seen /\ txn'[w].refund = txn[w].refund
  BY <1>1, <1>2, <1>3, Moves DEF Steps
<1>5. SeenIsCurrent(w)' /\ TargetIsThere(w)'
  BY <1>1, <1>4 DEF ReadsHold, SeenIsCurrent, TargetIsThere, committed
<1>6. RefundsAreWhole(w)'
  <2> SUFFICES ASSUME txn[w].kind = "cancelRefunding" PROVE RefundsAreWhole(w)'
    BY <1>4 DEF RefundsAreWhole
  <2>1. txn[w].step \in {"section", "share"} /\ After(txn[w]) \in {"share", "commit"}
    BY <1>2, AfterCancel DEF StepFits, Cancels
  <2> QED
    BY <1>1, <1>4, <2>1 DEF ReadsHold, RefundsAreWhole, committed
<1>7. NotCancelled(w)'
  <2> SUFFICES ASSUME txn[w].kind \in {"pay", "enrollPaying"}, After(txn[w]) = "commit"
               PROVE  section.refunds = "none"
    BY <1>4 DEF NotCancelled, committed
  <2>1. txn[w].step = "check"
    BY <1>2, AfterEnroll, AfterPay DEF StepFits, Enrolls, Cancels
  <2> QED
    BY <2>1
<1> QED
  BY <1>5, <1>6, <1>7 DEF ReadsHold
\* A request that arrives has read nothing, and pays for what exists.
LEMMA ReceiveHolds ==
    ASSUME SerialInv, NEW w \in Workers, Receive(w) PROVE ReadsHold(w)'
<1>1. PICK kind \in Kinds : \E amount \in 0 .. Price : \E e \in Targets(kind) :
        /\ txn' = [txn EXCEPT ![w] = [Idle EXCEPT !.kind = kind, !.row = e,
                                        !.amount = amount, !.step = Head(Path(kind))]]
        /\ UNCHANGED committed
  BY DEF Receive
<1>2. PICK amount \in 0 .. Price, e \in Targets(kind) :
        /\ txn' = [txn EXCEPT ![w] = [Idle EXCEPT !.kind = kind, !.row = e,
                                        !.amount = amount, !.step = Head(Path(kind))]]
        /\ UNCHANGED committed
  BY <1>1
<1>3. kind \in AllKinds /\ Head(Path(kind)) = IF kind = "pay" THEN "row" ELSE "read"
  BY KindsAssumption, FirstStep
<1>4. txn'[w].kind = kind /\ txn'[w].row = e
      /\ txn'[w].step = IF kind = "pay" THEN "row" ELSE "read"
  BY <1>2, <1>3 DEF SerialInv, IInv, TypeOK, Idle
<1>5. kind = "pay" => row'[e] # "none"
  BY <1>2 DEF Targets, Enrolls, Cancels, committed
<1> QED
  BY <1>4, <1>5 DEF ReadsHold, SeenIsCurrent, TargetIsThere, RefundsAreWhole, NotCancelled

\* The first read finds the section and what is to be given up or refunded.
LEMMA ReadHolds == ASSUME SerialInv, NEW w \in Workers, Read(w) PROVE ReadsHold(w)'
<1>1. PICK t \in {[txn[w] EXCEPT !.seen = section, !.listed = Refundable(txn[w])]} : TRUE
  OBVIOUS
<1>2. /\ txn[w].step = "read" /\ UNCHANGED committed
      /\ \/ Fail(w)
         \/ /\ Proceed(w, t)
            /\ txn[w].kind \in {"unenroll", "delete"} => row[txn[w].row] = "active"
  BY <1>1 DEF Read, ProceedIf
<1>3. /\ txn[w] \in Txn /\ txn[w].kind \in AllKinds /\ txn[w].kind # "none"
      /\ StepFits(txn[w].kind, "read") /\ (txn[w].row \in Rows <=> ~Cancels(txn[w].kind))
  BY <1>2, Begun DEF SerialInv
<1>4. CASE Fail(w)
  BY <1>2, <1>4, FailureHolds
<1>5. CASE /\ Proceed(w, t)
           /\ txn[w].kind \in {"unenroll", "delete"} => row[txn[w].row] = "active"
  <2>1. /\ t \in Txn /\ t.kind = txn[w].kind /\ t.step = "read" /\ t.row = txn[w].row
        /\ t.seen = section /\ t.listed = Refundable(txn[w])
    <3>1. Refundable(txn[w]) \in SUBSET Rows
      BY <1>3 DEF Refundable, Active, Cancels
    <3>2. section \in Section
      BY DEF SerialInv, IInv, TypeOK
    <3> QED
      BY <1>1, <1>2, <1>3, <3>1, <3>2 DEF Txn
  <2>2. After(t) \in Steps /\ After(t) # "commit" /\ StepFits(t.kind, After(t))
    <3>1. StepFits(t.kind, After(t)) /\ After(t) \in Steps
      <4>1. t.kind \in AllKinds /\ StepFits(t.kind, t.step) /\ t.step \notin {"commit", "failed"}
        BY <1>3, <2>1
      <4> QED
        BY <4>1, AfterFits DEF Steps
    <3>2. Enrolls(t.kind) => After(t) = "section"
      BY <2>1, AfterEnroll
    <3>3. Cancels(t.kind) \/ t.kind = "unenroll" => After(t) = "sum"
      BY <2>1, AfterCancel, AfterUnenroll
    <3>4. t.kind = "delete" => After(t) = "count"
      BY <2>1, AfterDelete
    <3>5. t.kind # "pay"
      BY <1>3, <2>1 DEF StepFits
    <3> QED
      BY <1>3, <2>1, <3>1, <3>2, <3>3, <3>4, <3>5 DEF AllKinds, Enrolls, Cancels
  <2>3. /\ txn'[w].kind = txn[w].kind /\ txn'[w].row = txn[w].row /\ txn'[w].seen = section
        /\ txn'[w].listed = Refundable(txn[w]) /\ txn'[w].step = After(t)
    <3>1. TypeOK /\ t \in Txn /\ Proceed(w, t) /\ After(t) \in Steps
      BY <1>5, <2>1, <2>2 DEF SerialInv, IInv
    <3>2. /\ txn'[w].kind = t.kind /\ txn'[w].row = t.row /\ txn'[w].seen = t.seen
          /\ txn'[w].listed = t.listed /\ txn'[w].step = After(t)
      BY <3>1, Moves
    <3> QED
      BY <2>1, <3>2
  <2>4. SeenIsCurrent(w)' /\ NotCancelled(w)'
    BY <1>2, <2>2, <2>3 DEF SeenIsCurrent, NotCancelled, committed
  <2>5. TargetIsThere(w)'
    BY <1>2, <1>3, <1>5, <2>3 DEF TargetIsThere, StepFits, committed
  <2>6. RefundsAreWhole(w)'
    <3> SUFFICES ASSUME txn[w].kind = "cancelRefunding" PROVE RefundsAreWhole(w)'
      BY <2>3 DEF RefundsAreWhole
    <3>1. After(t) = "sum"
      <4>1. Cancels(t.kind) /\ t.step = "read"
        BY <2>1 DEF Cancels
      <4> QED
        BY <4>1, AfterCancel
    <3>2. Refundable(txn[w]) = {e \in Rows : row[e] # "none"}
      BY DEF Refundable
    <3> QED
      BY <1>2, <2>3, <3>1, <3>2 DEF RefundsAreWhole, committed
  <2> QED
    BY <2>4, <2>5, <2>6 DEF ReadsHold
<1> QED
  BY <1>2, <1>4, <1>5

\* The second read of a deletion finds the section again.
LEMMA ReadCountHolds == ASSUME SerialInv, NEW w \in Workers, ReadCount(w) PROVE ReadsHold(w)'
<1>1. PICK t \in {[txn[w] EXCEPT !.seen = section]} : TRUE
  OBVIOUS
<1>2. txn[w].step = "count" /\ UNCHANGED committed /\ Proceed(w, t)
  BY <1>1 DEF ReadCount
<1>3. /\ txn[w] \in Txn /\ txn[w].kind \in AllKinds /\ txn[w].kind # "none"
      /\ StepFits(txn[w].kind, "count")
  BY <1>2, Begun DEF SerialInv
<1>4. txn[w].kind = "delete"
  BY <1>3 DEF StepFits, AllKinds, Cancels
<1>5. /\ t \in Txn /\ t.kind = "delete" /\ t.step = "count" /\ t.row = txn[w].row
      /\ t.seen = section
  BY <1>1, <1>2, <1>3, <1>4 DEF Txn, SerialInv, IInv, TypeOK
<1>6. After(t) = "section"
  BY <1>5, AfterDelete
<1>7. /\ txn'[w].kind = "delete" /\ txn'[w].row = txn[w].row /\ txn'[w].seen = section
      /\ txn'[w].step = "section"
  BY <1>2, <1>5, <1>6, Moves DEF SerialInv, IInv, Steps
<1>8. row'[txn[w].row] = "active"
  BY <1>2, <1>4 DEF SerialInv, ReadsHold, TargetIsThere, committed
<1> QED
  BY <1>2, <1>7, <1>8
     DEF ReadsHold, SeenIsCurrent, TargetIsThere, RefundsAreWhole, NotCancelled, committed

\* A cancellation adds up everything that was paid.
LEMMA SumPaymentsHolds ==
    ASSUME SerialInv, NEW w \in Workers, SumPayments(w) PROVE ReadsHold(w)'
<1>1. PICK part \in 0 .. Price :
        /\ IF txn[w].kind = "unenroll" THEN part <= paid[txn[w].row] ELSE part = Price
        /\ Proceed(w, [txn[w] EXCEPT !.listed = {}, !.refund =
              [e \in Rows |-> IF e \in txn[w].listed THEN Min({part, paid[e]}) ELSE 0]])
  BY DEF SumPayments
<1>2. PICK sums \in [Rows -> Int] :
        sums = [e \in Rows |-> IF e \in txn[w].listed THEN Min({part, paid[e]}) ELSE 0]
  <2>1. ASSUME NEW e \in Rows
        PROVE  (IF e \in txn[w].listed THEN Min({part, paid[e]}) ELSE 0) \in Int
    <3>1. part \in Nat /\ paid[e] \in Nat
      BY Bounds DEF SerialInv, IInv, TypeOK
    <3> QED
      BY <3>1, MinOfTwo
  <2> QED
    BY <2>1
<1>3. PICK t \in {[txn[w] EXCEPT !.listed = {}, !.refund = sums]} : TRUE
  OBVIOUS
<1>4. txn[w].step = "sum" /\ UNCHANGED committed /\ Proceed(w, t)
  BY <1>1, <1>2, <1>3 DEF SumPayments
<1>5. /\ txn[w] \in Txn /\ txn[w].kind \in AllKinds /\ txn[w].kind # "none"
      /\ StepFits(txn[w].kind, "sum")
  BY <1>4, Begun DEF SerialInv
<1>6. sums \in Amounts
  <2> SUFFICES ASSUME NEW e \in Rows PROVE sums[e] \in 0 .. Price
    BY DEF Amounts
  <2>1. part \in Nat /\ part <= Price /\ paid[e] \in Nat /\ Price \in Nat
    BY Bounds DEF SerialInv, IInv, TypeOK
  <2> QED
    BY <1>2, <2>1, MinOfTwo
<1>7. /\ t \in Txn /\ t.kind = txn[w].kind /\ t.step = "sum" /\ t.row = txn[w].row
      /\ t.seen = txn[w].seen /\ t.refund = sums
  BY <1>3, <1>4, <1>5, <1>6 DEF Txn
<1>8. /\ t.kind = "unenroll" => After(t) = "share"
      /\ Cancels(t.kind) => After(t) = "section"
      /\ t.kind = "unenroll" \/ Cancels(t.kind)
  <2>1. t.kind = "unenroll" \/ Cancels(t.kind)
    BY <1>5, <1>7 DEF StepFits, AllKinds, Cancels
  <2>2. t.kind = "unenroll" => After(t) = "share"
    BY <1>7, AfterUnenroll
  <2>3. Cancels(t.kind) => After(t) = "section"
    BY <1>7, AfterCancel
  <2> QED
    BY <2>1, <2>2, <2>3
<1>9. /\ txn'[w].kind = txn[w].kind /\ txn'[w].row = txn[w].row /\ txn'[w].refund = sums
      /\ txn'[w].seen = txn[w].seen /\ txn'[w].step = After(t)
  <2>1. TypeOK /\ After(t) \in Steps
    BY <1>8 DEF SerialInv, IInv, Steps
  <2>2. t \in Txn /\ Proceed(w, t)
    BY <1>4, <1>7
  <2>3. /\ txn'[w].kind = t.kind /\ txn'[w].row = t.row /\ txn'[w].refund = t.refund
        /\ txn'[w].seen = t.seen /\ txn'[w].step = After(t)
    BY <2>1, <2>2, Moves
  <2> QED
    BY <1>7, <2>3
<1>10. ReadsHold(w)
  BY DEF SerialInv
<1>11. SeenIsCurrent(w)' /\ TargetIsThere(w)' /\ NotCancelled(w)'
  BY <1>4, <1>7, <1>8, <1>9, <1>10
     DEF ReadsHold, SeenIsCurrent, TargetIsThere, NotCancelled, committed, Cancels
<1>12. RefundsAreWhole(w)'
  <2> SUFFICES ASSUME txn[w].kind = "cancelRefunding" PROVE RefundsAreWhole(w)'
    BY <1>9 DEF RefundsAreWhole
  <2>1. \A e \in Rows : row[e] # "none" => e \in txn[w].listed
    BY <1>4, <1>10 DEF ReadsHold, RefundsAreWhole
  <2>2. part = Price
    BY <1>1
  <2>3. ASSUME NEW e \in Rows PROVE sums[e] >= paid[e]
    <3>1. /\ paid[e] \in Nat /\ paid[e] <= Price /\ Price \in Nat
          /\ row[e] = "none" => paid[e] = 0
      BY Bounds DEF SerialInv, IInv, TypeOK, PaidWithinPrice, UnpaidBefore
    <3>2. Min({part, paid[e]}) = paid[e]
      BY <2>2, <3>1, MinOfTwo
    <3>3. sums[e] = IF e \in txn[w].listed THEN paid[e] ELSE 0
      BY <1>2, <3>2
    <3> QED
      BY <2>1, <3>1, <3>3
  <2>4. After(t) = "section"
    BY <1>7, <1>8 DEF Cancels
  <2> QED
    BY <1>4, <1>9, <2>3, <2>4 DEF RefundsAreWhole, committed
<1> QED
  BY <1>11, <1>12 DEF ReadsHold

\* A commit keeps the count equal to the active enrollments: what it writes
\* was worked out from a count that is still right.
LEMMA CommitCounts ==
    ASSUME SerialInv, NEW w \in Workers, Commit(w)
    PROVE  IsFiniteSet(Active') /\ CountMatchesActive'
<1>1. PICK t \in {txn[w]} :
        t.step = "commit" /\ section' = NewSection(t) /\ row' = NewRow(t)
  BY DEF Commit
<1>2. /\ TypeOK /\ WorkerInv(w) /\ ReadsHold(w) /\ t = txn[w]
      /\ IsFiniteSet(Active) /\ section.count = Cardinality(Active)
  BY <1>1 DEF SerialInv, IInv, CountMatchesActive
<1>3. /\ t \in Txn /\ t.kind \in AllKinds /\ t.kind # "none"
      /\ StepFits(t.kind, "commit") /\ (t.row \in Rows <=> ~Cancels(t.kind))
  BY <1>1, <1>2, Begun DEF SerialInv
<1>4. /\ \A e \in Rows : e # t.row => row'[e] = row[e]
      /\ Enrolls(t.kind) => row'[t.row] = "active"
      /\ t.kind \in {"unenroll", "delete"} => row'[t.row] = "deleted"
      /\ ~Enrolls(t.kind) /\ t.kind \notin {"unenroll", "delete"} => row' = row
  BY <1>1, <1>2, <1>3, NewRowIs
<1>5. section \in Section /\ section.count \in Nat
  BY <1>2 DEF TypeOK, Section
<1>6. t.kind # "pay" => t.seen = section
  BY <1>1, <1>2, <1>3 DEF ReadsHold, SeenIsCurrent
<1>7. CASE Enrolls(t.kind)
  <2>1. t.row \in Rows /\ row[t.row] = "none"
    BY <1>2, <1>3, <1>7 DEF WorkerInv, RowIsFresh, Enrolls, Cancels
  <2>2. Active' = Active \cup {t.row} /\ t.row \notin Active
    BY <1>4, <1>7, <2>1 DEF Active
  <2>3. IsFiniteSet(Active') /\ Cardinality(Active') = Cardinality(Active) + 1
    BY <1>2, <2>2, FS_AddElement
  <2>4. section'.count = section.count + 1
    BY <1>1, <1>5, <1>6, <1>7 DEF NewSection, Enrolls, Section
  <2> QED
    BY <1>2, <2>3, <2>4 DEF CountMatchesActive
<1>8. CASE t.kind \in {"unenroll", "delete"}
  <2>1. t.row \in Active
    BY <1>1, <1>2, <1>3, <1>8 DEF ReadsHold, TargetIsThere, Active, Cancels
  <2>2. Active' = Active \ {t.row}
    BY <1>4, <1>8 DEF Active
  <2>3. IsFiniteSet(Active') /\ Cardinality(Active') = Cardinality(Active) - 1
    BY <1>2, <2>1, <2>2, FS_RemoveElement
  <2>4. section.count # 0
    BY <1>2, <2>1, FS_EmptySet
  <2>5. t.seen.count = section.count
    BY <1>6, <1>8
  <2>6. Max({t.seen.count - 1, 0}) = section.count - 1
    BY <1>5, <2>4, <2>5, OneLess
  <2>7. section'.count = section.count - 1
    <3>1. CASE t.kind = "unenroll"
      <4>1. section' = [section EXCEPT !.count = Max({t.seen.count - 1, 0})]
        BY <1>1, <3>1 DEF NewSection, Enrolls
      <4>2. section'.count = Max({t.seen.count - 1, 0})
        BY <1>5, <4>1 DEF Section
      <4> QED
        BY <2>6, <4>2
    <3>2. CASE t.kind = "delete"
      <4>1. section' = [section EXCEPT !.count = t.seen.count - 1]
        BY <1>1, <3>2 DEF NewSection, Enrolls
      <4> QED
        BY <1>5, <2>5, <4>1 DEF Section
    <3> QED
      BY <1>8, <3>1, <3>2
  <2> QED
    BY <1>2, <2>3, <2>7 DEF CountMatchesActive
<1>9. CASE ~Enrolls(t.kind) /\ t.kind \notin {"unenroll", "delete"}
  <2>1. Active' = Active
    BY <1>4, <1>9 DEF Active
  <2>2. section'.count = section.count
    <3>1. CASE t.kind = "cancel"
      BY <1>1, <1>5, <3>1 DEF NewSection, Enrolls, Section
    <3>2. CASE t.kind = "cancelRefunding"
      BY <1>1, <1>5, <3>2 DEF NewSection, Enrolls, Section
    <3>3. CASE t.kind \notin {"cancel", "cancelRefunding"}
      BY <1>1, <1>9, <3>3 DEF NewSection
    <3> QED
      BY <3>1, <3>2, <3>3
  <2> QED
    BY <1>2, <2>1, <2>2 DEF CountMatchesActive
<1> QED
  BY <1>7, <1>8, <1>9

\* A commit leaves no payment of a cancelled section without its refund, nor
\* one for an enrollment that was never made.
LEMMA CommitRefunds ==
    ASSUME SerialInv, NEW w \in Workers, Commit(w)
    PROVE  CancellationRefundsAll' /\ UnpaidBefore'
<1>1. PICK t \in {txn[w]} :
        /\ t.step = "commit" /\ section' = NewSection(t) /\ row' = NewRow(t)
        /\ paid' = IF t.amount > 0 THEN [paid EXCEPT ![t.row] = @ + t.amount] ELSE paid
        /\ owed' = [e \in Rows |-> owed[e] + t.refund[e]]
  BY DEF Commit
<1>2. /\ TypeOK /\ WorkerInv(w) /\ ReadsHold(w) /\ t = txn[w]
      /\ CancellationRefundsAll /\ UnpaidBefore
  BY <1>1 DEF SerialInv, IInv
<1>3. /\ t \in Txn /\ t.kind \in AllKinds /\ t.kind # "none"
      /\ StepFits(t.kind, "commit") /\ (t.row \in Rows <=> ~Cancels(t.kind))
      /\ t.amount \in Nat /\ t.refund \in [Rows -> Nat]
  BY <1>1, <1>2, Begun, Bounds DEF SerialInv, Txn, Amounts
<1>4. /\ \A e \in Rows : e # t.row => row'[e] = row[e]
      /\ Enrolls(t.kind) => row'[t.row] = "active"
      /\ t.kind \in {"unenroll", "delete"} => row'[t.row] = "deleted"
      /\ ~Enrolls(t.kind) /\ t.kind \notin {"unenroll", "delete"} => row' = row
  BY <1>1, <1>2, <1>3, NewRowIs
<1>5. t.amount > 0 <=> t.kind \in {"pay", "enrollPaying"}
  BY <1>2 DEF WorkerInv, RequestIsWhole
<1>6. \A e \in Rows : paid[e] \in Nat /\ owed[e] \in Nat /\ t.refund[e] \in Nat
  BY <1>2, <1>3 DEF TypeOK
<1>7. \A e \in Rows : owed'[e] = owed[e] + t.refund[e]
  BY <1>1
<1>8. CancellationRefundsAll'
  <2> SUFFICES ASSUME section'.refunds = "authorized", NEW e \in Rows
               PROVE  owed'[e] >= paid'[e]
    BY DEF CancellationRefundsAll
  <2>1. CASE t.kind = "cancelRefunding"
    <3>1. t.refund[e] >= paid[e] /\ paid' = paid
      BY <1>1, <1>2, <1>3, <1>5, <2>1 DEF ReadsHold, RefundsAreWhole
    <3> QED
      BY <1>6, <1>7, <3>1
  <2>2. CASE t.kind # "cancelRefunding"
    <3>1. section \in Section
      BY <1>2 DEF TypeOK
    <3>2. section.refunds = "authorized"
      <4>1. CASE Enrolls(t.kind)
        BY <1>1, <3>1, <4>1 DEF NewSection, Enrolls, Section
      <4>2. CASE t.kind = "unenroll"
        BY <1>1, <3>1, <4>2 DEF NewSection, Enrolls, Section
      <4>3. CASE t.kind = "delete"
        BY <1>1, <3>1, <4>3 DEF NewSection, Enrolls, Section
      <4>4. t.kind # "cancel"
        BY <1>1, <3>1 DEF NewSection, Enrolls, Section
      <4>5. CASE ~Enrolls(t.kind) /\ t.kind \notin {"unenroll", "delete", "cancel"}
        BY <1>1, <2>2, <4>5 DEF NewSection
      <4> QED
        BY <4>1, <4>2, <4>3, <4>4, <4>5
    <3>3. paid' = paid
      <4>1. t.kind \notin {"pay", "enrollPaying"}
        BY <1>1, <1>2, <3>2 DEF ReadsHold, NotCancelled
      <4> QED
        BY <1>1, <1>3, <1>5, <4>1
    <3>4. owed[e] >= paid[e]
      BY <1>2, <3>2 DEF CancellationRefundsAll
    <3> QED
      BY <1>6, <1>7, <3>3, <3>4
  <2> QED
    BY <2>1, <2>2
<1>9. UnpaidBefore'
  <2> SUFFICES ASSUME NEW e \in Rows, row'[e] = "none" PROVE paid'[e] = 0
    BY DEF UnpaidBefore
  <2>1. row[e] = "none" /\ (e = t.row => t.amount = 0)
    <3>1. CASE e # t.row
      BY <1>4, <3>1
    <3>2. CASE e = t.row
      <4>1. t.kind # "pay" \/ row[e] # "none"
        BY <1>2, <3>2 DEF ReadsHold, TargetIsThere
      <4>2. ~Enrolls(t.kind) /\ t.kind \notin {"unenroll", "delete"} /\ row'[e] = row[e]
        BY <1>4, <3>2
      <4>3. t.kind \notin {"pay", "enrollPaying"}
        BY <4>1, <4>2 DEF Enrolls
      <4> QED
        BY <1>3, <1>5, <4>2, <4>3
    <3> QED
      BY <3>1, <3>2
  <2>2. paid'[e] = paid[e]
    BY <1>1, <1>2, <1>3, <2>1 DEF TypeOK
  <2> QED
    BY <1>2, <2>1, <2>2 DEF UnpaidBefore
<1> QED
  BY <1>8, <1>9

\* Every step of a request keeps the serial invariant: a commit finds no
\* other request with reads it could make stale.
LEMMA SerialStepKeeps ==
    ASSUME NoOverlap, SerialInv, NEW w \in Workers, Step(w), IInv' PROVE SerialInv'
<1>0. \A v \in Workers \ {w} : txn'[v] = txn[v]
  BY OthersStay
<1>1. CASE Read(w)
  BY <1>1, ReadHolds, <1>0, ReadsSuffice DEF Read
<1>2. CASE ReadCount(w)
  BY <1>2, ReadCountHolds, <1>0, ReadsSuffice DEF ReadCount
<1>3. CASE SumPayments(w)
  BY <1>3, SumPaymentsHolds, <1>0, ReadsSuffice DEF SumPayments
<1>4. CASE LockSection(w)
  <2>1. txn[w].step = "section" /\ UNCHANGED committed /\ (Fail(w) \/ Proceed(w, txn[w]))
    BY <1>4 DEF LockSection, ProceedIf
  <2>2. ReadsHold(w)'
    BY <2>1, StatementHolds, FailureHolds
  <2> QED
    BY <2>1, <2>2, <1>0, ReadsSuffice
<1>5. CASE ShareRows(w)
  <2>1. txn[w].step = "share" /\ UNCHANGED committed /\ Proceed(w, txn[w])
    BY <1>5 DEF ShareRows
  <2> QED
    BY <2>1, StatementHolds, <1>0, ReadsSuffice
<1>6. CASE LockRow(w)
  <2>1. txn[w].step = "row" /\ UNCHANGED committed /\ Proceed(w, txn[w])
    BY <1>6 DEF LockRow
  <2> QED
    BY <2>1, StatementHolds, <1>0, ReadsSuffice
<1>7. CASE CheckPayment(w)
  <2>1. /\ txn[w].step = "check" /\ UNCHANGED committed
        /\ \/ Fail(w)
           \/ /\ Proceed(w, txn[w])
              /\ ~Cancelled(IF Enrolls(txn[w].kind) THEN txn[w].seen ELSE section)
    BY <1>7 DEF CheckPayment, ProceedIf
  <2>2. CASE Fail(w)
    BY <2>1, <2>2, FailureHolds, <1>0, ReadsSuffice
  <2>3. CASE /\ Proceed(w, txn[w])
             /\ ~Cancelled(IF Enrolls(txn[w].kind) THEN txn[w].seen ELSE section)
    <3>1. Enrolls(txn[w].kind) => txn[w].seen = section
      BY <2>1 DEF SerialInv, ReadsHold, SeenIsCurrent, Enrolls
    <3>2. section.refunds = "none"
      BY <2>3, <3>1 DEF Cancelled
    <3> QED
      BY <2>1, <2>3, <3>2, StatementHolds, <1>0, ReadsSuffice
  <2> QED
    BY <2>1, <2>2, <2>3
<1>8. CASE Commit(w)
  <2>1. txn'[w] = Idle
    BY <1>8, ReleaseFrees DEF Commit, SerialInv, IInv
  <2>2. \A v \in Workers : ReadsHold(v)'
    <3>1. txn[w] # Idle
      BY <1>8 DEF Commit, Idle
    <3>2. \A v \in Workers : txn'[v] = Idle
      BY <1>0, <2>1, <3>1 DEF NoOverlap
    <3> QED
      BY <3>2, IdleHolds
  <2>3. IsFiniteSet(Active') /\ CountMatchesActive' /\ CancellationRefundsAll' /\ UnpaidBefore'
    BY <1>8, CommitCounts, CommitRefunds
  <2> QED
    BY <2>2, <2>3 DEF SerialInv
<1>9. CASE Rollback(w)
  <2>1. UNCHANGED committed /\ txn'[w] = Idle
    BY <1>9, ReleaseFrees DEF Rollback, SerialInv, IInv
  <2> QED
    BY <2>1, IdleHolds, <1>0, ReadsSuffice
<1> QED
  BY <1>1, <1>2, <1>3, <1>4, <1>5, <1>6, <1>7, <1>8, <1>9 DEF Step

\* Whatever happens next keeps it, stuttering included.
LEMMA NextSerialInv == SerialInv /\ NoOverlap /\ [Next]_vars => SerialInv'
<1> SUFFICES ASSUME SerialInv, NoOverlap, [Next]_vars PROVE SerialInv'
  OBVIOUS
<1>1. IInv'
  BY NextIInv DEF SerialInv
<1>2. CASE UNCHANGED vars
  <2>1. section' = section /\ row' = row /\ paid' = paid /\ owed' = owed /\ txn' = txn
    BY <1>2 DEF vars
  <2>2. \A w \in Workers : ReadsHold(w)'
    BY <2>1 DEF SerialInv, ReadsHold, SeenIsCurrent, TargetIsThere, RefundsAreWhole,
       NotCancelled
  <2>3. IsFiniteSet(Active') /\ CountMatchesActive' /\ UnpaidBefore' /\ CancellationRefundsAll'
    BY <2>1 DEF SerialInv, Active, CountMatchesActive, UnpaidBefore, CancellationRefundsAll
  <2> QED
    BY <1>1, <2>2, <2>3 DEF SerialInv
<1>3. ASSUME NEW w \in Workers, Receive(w) PROVE SerialInv'
  BY <1>1, <1>3, ReceiveHolds, OthersStay, ReadsSuffice DEF Receive
<1>4. ASSUME NEW w \in Workers, Step(w) PROVE SerialInv'
  BY <1>1, <1>4, SerialStepKeeps
<1>5. ASSUME NEW w \in Workers, Crash(w) PROVE SerialInv'
  <2>1. UNCHANGED committed /\ txn'[w] = Idle
    BY <1>5, ReleaseFrees DEF Crash, SerialInv, IInv
  <2> QED
    BY <1>1, <1>5, <2>1, IdleHolds, OthersStay, ReadsSuffice
<1> QED
  BY <1>2, <1>3, <1>4, <1>5 DEF Next

\* The inductive invariant of requests that do not overlap.
THEOREM SerialInvariance == Spec /\ []NoOverlap => []SerialInv
  BY InitSerialInv, NextSerialInv, PTL DEF Spec

\* As long as the requests about a section do not overlap, its enrolled_count
\* is the number of its active enrollments: enrolling, unenrolling, deleting
\* and cancelling each move both by the same.
THEOREM SerialCountCorrect == Spec => SerialCountMatchesActive
<1>1. SerialInv => CountMatchesActive
  BY DEF SerialInv
<1> QED
  BY <1>1, SerialInvariance, PTL DEF SerialCountMatchesActive

\* As long as they do not overlap, cancelling a section with refunds leaves no
\* payment without one, those of enrollments given up before included.
THEOREM SerialRefundsCorrect == Spec => SerialCancellationRefundsAll
<1>1. SerialInv => CancellationRefundsAll
  BY DEF SerialInv
<1> QED
  BY <1>1, SerialInvariance, PTL DEF SerialCancellationRefundsAll
=============================================================================
