----------------------------- MODULE SalaryDraws -----------------------------
(***************************************************************************)
(* The salary advances of one employee in one month.  The payroll page     *)
(* locks the employee before it adds up what was drawn; the expenses page  *)
(* books the same kind of expense and does not.  Both number the voucher   *)
(* of the day after the highest one committed.  A request is one           *)
(* transaction; voided_at never comes into it, since void_expense raises.  *)
(***************************************************************************)
EXTENDS Naturals, FiniteSets, FiniteSetsExt

CONSTANTS
    Workers,        \* request handlers that run concurrently
    LastDay,        \* the days of the month are 1 .. LastDay
    Ceiling,        \* employees.default_salary, in some unit of money
    Pages,          \* where requests come from
    MaxTxns,        \* bound on the requests of one behaviour
    NoWorker        \* "nobody holds this lock"

Days     == 1 .. LastDay
AllPages == {"payroll", "expenses"}

ASSUME BoundsAssumption == {LastDay, Ceiling, MaxTxns} \subseteq Nat \ {0}
ASSUME PagesAssumption == Pages \subseteq AllPages
ASSUME DistinctAssumption == NoWorker \notin Workers

VARIABLES
    drawn,      \* what the committed salary_draw expenses of a page add up to, from
                \* the first of the month to each day
    used,       \* the voucher numbers committed on a day
    updater,    \* who holds the employee FOR UPDATE
    sharers,    \* who holds it FOR KEY SHARE, by a foreign key
    txn, begun

vars == <<drawn, used, updater, sharers, txn, begun>>

Steps == {"idle", "lock", "sum", "number", "insert", "reference", "commit", "failed"}

Idle == [page |-> "none", step |-> "idle", day |-> 0, amount |-> 0, number |-> 0]

Goto(w, step) == txn' = [txn EXCEPT ![w].step = step]

\* What was drawn from the first of the month to this day.
DrawnTo(day) == drawn.payroll[day] + drawn.expenses[day]

-----------------------------------------------------------------------------
Receive(w) ==
    \E page \in Pages, day \in Days, amount \in 1 .. Ceiling :
        /\ txn[w] = Idle
        /\ begun < MaxTxns
        /\ txn' = [txn EXCEPT ![w] =
             [page |-> page, day |-> day, amount |-> amount, number |-> 0,
              step |-> IF page = "payroll" THEN "lock" ELSE "sum"]]
        /\ begun' = begun + 1
        /\ UNCHANGED <<drawn, used, updater, sharers>>

\* Mutant: the payroll page selects the employee without FOR UPDATE.
LockEmployee_unlocked(w) ==
    /\ txn[w].step = "lock"
    /\ Goto(w, "sum")
    /\ UNCHANGED <<drawn, used, updater, sharers, begun>>

LockEmployee(w) ==
    /\ txn[w].step = "lock"
    /\ updater = NoWorker /\ sharers \subseteq {w}
    /\ updater' = w
    /\ Goto(w, "sum")
    /\ UNCHANGED <<drawn, used, sharers, begun>>

\* The draws dated up to the day of this one must leave room for it.
SumDraws(w) ==
    LET t == txn[w] IN
    /\ t.step = "sum"
    /\ Goto(w, IF t.amount + DrawnTo(t.day) > Ceiling THEN "failed" ELSE "number")
    /\ UNCHANGED <<drawn, used, updater, sharers, begun>>

ReadNumber(w) ==
    LET t == txn[w] IN
    /\ t.step = "number"
    /\ txn' = [txn EXCEPT ![w] = [t EXCEPT !.step = "insert",
                                           !.number = 1 + Max({0} \cup used[t.day])]]
    /\ UNCHANGED <<drawn, used, updater, sharers, begun>>

\* The workers whose uncommitted rows have the voucher number t is inserting.
Rivals(t) == {v \in Workers : /\ txn[v].step \in {"reference", "commit"}
                              /\ txn[v].day = t.day
                              /\ txn[v].number = t.number}

\* Mutant: receipt_number has no unique index.
Insert_noIndex(w) ==
    /\ txn[w].step = "insert"
    /\ Goto(w, "reference")
    /\ UNCHANGED <<drawn, used, updater, sharers, begun>>

\* The unique index waits for an uncommitted row with the same number and
\* refuses the number once it is committed.
Insert(w) ==
    LET t == txn[w] IN
    /\ t.step = "insert"
    /\ Rivals(t) = {}
    /\ Goto(w, IF t.number \in used[t.day] THEN "failed" ELSE "reference")
    /\ UNCHANGED <<drawn, used, updater, sharers, begun>>

\* The foreign key of the new row on its employee is checked last.
Reference(w) ==
    /\ txn[w].step = "reference"
    /\ updater \in {w, NoWorker}
    /\ sharers' = sharers \cup {w}
    /\ Goto(w, "commit")
    /\ UNCHANGED <<drawn, used, updater, begun>>

-----------------------------------------------------------------------------
\* Mutant: the employee stays locked when the request fails.
Rollback_keepsLock(w) ==
    /\ txn[w].step = "failed"
    /\ sharers' = sharers \ {w}
    /\ txn' = [txn EXCEPT ![w] = Idle]
    /\ UNCHANGED <<drawn, used, updater, begun>>

Released(w) ==
    /\ updater' = IF updater = w THEN NoWorker ELSE updater
    /\ sharers' = sharers \ {w}
    /\ txn' = [txn EXCEPT ![w] = Idle]
    /\ UNCHANGED begun

Rollback(w) ==
    /\ txn[w].step = "failed"
    /\ Released(w)
    /\ UNCHANGED <<drawn, used>>

\* The worker or its connection dies.
Crash(w) ==
    /\ txn[w].step \notin {"idle", "failed"}
    /\ Released(w)
    /\ UNCHANGED <<drawn, used>>

\* v has inserted the number w wants and waits for the employee w has locked.
Deadlocked(w, v) ==
    /\ txn[w].step = "insert" /\ v \in Rivals(txn[w])
    /\ txn[v].step = "reference" /\ updater = w

\* PostgreSQL aborts one of two transactions that wait for each other.
DeadlockAbort(w) ==
    /\ \E v \in Workers : Deadlocked(w, v) \/ Deadlocked(v, w)
    /\ Goto(w, "failed")
    /\ UNCHANGED <<drawn, used, updater, sharers, begun>>

Commit(w) ==
    LET t == txn[w] IN
    /\ t.step = "commit"
    /\ drawn' = [drawn EXCEPT ![t.page] =
                    [d \in Days |-> IF d >= t.day THEN @[d] + t.amount ELSE @[d]]]
    /\ used' = [used EXCEPT ![t.day] = @ \cup {t.number}]
    /\ Released(w)

-----------------------------------------------------------------------------
Init ==
    /\ drawn = [page \in AllPages |-> [d \in Days |-> 0]]
    /\ used = [d \in Days |-> {}]
    /\ updater = NoWorker
    /\ sharers = {}
    /\ txn = [w \in Workers |-> Idle]
    /\ begun = 0

\* A step of the transaction w has begun.
Step(w) ==
    \/ LockEmployee(w) \/ SumDraws(w) \/ ReadNumber(w) \/ Insert(w) \/ Reference(w)
    \/ Commit(w) \/ Rollback(w) \/ DeadlockAbort(w)

Next == \E w \in Workers : Receive(w) \/ Step(w) \/ Crash(w)

\* Workers run what they have begun, and PostgreSQL breaks deadlocks; requests
\* and crashes are not promised.
Spec == Init /\ [][Next]_vars /\ \A w \in Workers : WF_vars(Step(w))

-----------------------------------------------------------------------------
TypeOK ==
    /\ drawn \in [AllPages -> [Days -> Nat]]
    /\ used \in [Days -> SUBSET (1 .. MaxTxns)]
    /\ updater \in Workers \cup {NoWorker}
    /\ sharers \subseteq Workers
    /\ txn \in [Workers -> [page : AllPages \cup {"none"}, step : Steps, day : {0} \cup Days,
                            amount : 0 .. Ceiling, number : 0 .. MaxTxns]]
    /\ begun \in 0 .. MaxTxns

\* What was drawn on this day alone.
OnDay(page, day) == drawn[page][day] - (IF day = 1 THEN 0 ELSE drawn[page][day - 1])

\* A draw on the payroll page leaves what the page has paid from the first of
\* the month to its day within the salary, whatever draws run beside it: the
\* lock on the employee holds from the sum to the commit.
DrawKeepsCeiling ==
    [][\A d \in Days : OnDay("payroll", d)' # OnDay("payroll", d)
                          => drawn'.payroll[d] <= Ceiling]_vars

\* Numbers and money go together whichever transactions fail or collide: a
\* draw of one unit at least and of the salary at most for every voucher, and
\* no voucher number is skipped.
VouchersCoverDraws ==
    \A d \in Days :
        LET total == OnDay("payroll", d) + OnDay("expenses", d) IN
        /\ used[d] = 1 .. Cardinality(used[d])
        /\ total >= Cardinality(used[d])
        /\ total <= Ceiling * Cardinality(used[d])

\* Every transaction ends, a deadlock of the two pages included.
EveryRequestEnds ==
    \A w \in Workers : txn[w].step # "idle" ~> txn[w].step = "idle"
=============================================================================
