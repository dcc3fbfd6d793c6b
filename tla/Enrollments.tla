----------------------------- MODULE Enrollments -----------------------------
(***************************************************************************)
(* The seats of one course section and the money of its enrollments.  A    *)
(* request is one READ COMMITTED transaction: its plain reads happen at a  *)
(* moment of their own, its writes are seen by the others when it commits, *)
(* and the section it has once read stays as it was read, because SQL-     *)
(* Alchemy does not refresh an object of the session's identity map.       *)
(*                                                                         *)
(* The section has no contract: what its teacher earns is ContractLedger.  *)
(***************************************************************************)
EXTENDS Naturals, FiniteSets, FiniteSetsExt, Sequences

CONSTANTS
    Workers,        \* request handlers that run concurrently
    Students,
    MaxRows,        \* bound on the enrollments of one student, old ones included
    Capacity,       \* course_sections.capacity
    Price,          \* net price of the course, in some unit of money
    Kinds,          \* which operations requests ask for
    MaxTxns,        \* bound on the requests of one behaviour
    NoWorker,       \* "nobody holds this lock"
    NoRow           \* a request about no enrollment

Rows     == Students \X (1 .. MaxRows)
AllKinds == {"enroll", "enrollPaying", "pay", "unenroll", "delete",
             "cancel", "cancelRefunding"}

ASSUME BoundsAssumption ==
    {MaxRows, Capacity, Price, MaxTxns} \subseteq Nat \ {0}
ASSUME KindsAssumption == Kinds \subseteq AllKinds
ASSUME DistinctAssumption == NoWorker \notin Workers /\ NoRow \notin Rows

VARIABLES
    section,    \* the row of course_sections
    row,        \* the rows of enrollments
    paid,       \* what the payments of an enrollment add up to
    owed,       \* what its pending refunds add up to
    sectionLock, rowLock, txn, begun

committed == <<section, row, paid, owed>>
locks     == <<sectionLock, rowLock>>
vars      == <<section, row, paid, owed, sectionLock, rowLock, txn, begun>>

\* refunds is the policy of the section's cancellation, "none" before it.
Section == [count : Nat, refunds : {"none", "kept", "authorized"}]
Modes   == {"none", "share", "update", "full"}
Steps   == {"idle", "read", "count", "sum", "section", "share", "row", "check",
            "commit", "failed"}

Enrolls(kind) == kind \in {"enroll", "enrollPaying"}
Cancels(kind) == kind \in {"cancel", "cancelRefunding"}

\* Mutant: unenrolling flushes the enrollment before the section.
Path_rowFirst(kind) ==
    CASE kind = "enroll"       -> <<"read", "section", "commit">>
      [] kind = "enrollPaying" -> <<"read", "section", "check", "commit">>
      [] kind = "pay"          -> <<"row", "check", "commit">>
      [] kind = "unenroll"     -> <<"read", "sum", "share", "row", "section", "commit">>
      [] kind = "delete"       -> <<"read", "count", "section", "row", "commit">>
      [] Cancels(kind)         -> <<"read", "sum", "section", "share", "commit">>

\* The statements of each operation that matter here, in their order.  A
\* flush writes the section before its enrollments and refunds; unenrolling
\* flushes the refund by itself first.
Path(kind) ==
    CASE kind = "enroll"       -> <<"read", "section", "commit">>
      [] kind = "enrollPaying" -> <<"read", "section", "check", "commit">>
      [] kind = "pay"          -> <<"row", "check", "commit">>
      [] kind = "unenroll"     -> <<"read", "sum", "share", "section", "row", "commit">>
      [] kind = "delete"       -> <<"read", "count", "section", "row", "commit">>
      [] Cancels(kind)         -> <<"read", "sum", "section", "share", "commit">>

NothingOwed == [e \in Rows |-> 0]

Idle == [kind |-> "none", step |-> "idle", row |-> NoRow, amount |-> 0,
         seen |-> [count |-> 0, refunds |-> "none"], listed |-> {},
         refund |-> NothingOwed]

Owner(e)     == e[1]
Active       == {e \in Rows : row[e] = "active"}
Cancelled(s) == s.refunds # "none"

After(t) ==
    LET p == Path(t.kind)
        i == CHOOSE j \in DOMAIN p : p[j] = t.step
    IN  p[i + 1]

\* The transaction t of w has done its statement; or it raises an error.
Proceed(w, t) == txn' = [txn EXCEPT ![w] = [t EXCEPT !.step = After(t)]]
Fail(w)       == txn' = [txn EXCEPT ![w].step = "failed"]
ProceedIf(ok, w, t) == IF ok THEN Proceed(w, t) ELSE Fail(w)

-----------------------------------------------------------------------------
(* Requests.                                                               *)

\* The rows an INSERT may make: their ids are in nobody's hands.
Unused(s) == {e \in Rows : /\ Owner(e) = s
                           /\ row[e] = "none"
                           /\ \A w \in Workers : txn[w].row # e}

Targets(kind) ==
    CASE Enrolls(kind)   -> UNION {Unused(s) : s \in Students}
      [] Cancels(kind)   -> {NoRow}
      [] OTHER           -> {e \in Rows : row[e] # "none"}

Receive(w) ==
    \E kind \in Kinds, amount \in 0 .. Price :
      \E e \in Targets(kind) :
        /\ txn[w] = Idle
        /\ begun < MaxTxns
        /\ amount > 0 <=> kind \in {"pay", "enrollPaying"}
        /\ txn' = [txn EXCEPT ![w] = [Idle EXCEPT !.kind = kind, !.row = e,
                                        !.amount = amount, !.step = Head(Path(kind))]]
        /\ begun' = begun + 1
        /\ UNCHANGED <<committed, locks>>

-----------------------------------------------------------------------------
(* Reads, which take no lock.                                              *)

\* Mutant: cancelling skips the enrollments that are soft-deleted.
Refundable_activeOnly(t) ==
    CASE t.kind = "unenroll"        -> {t.row}
      [] t.kind = "cancelRefunding" -> Active
      [] OTHER                      -> {}

\* The enrollments to be refunded, listed with the section as it is read;
\* CourseSection.enrollments has no filter on deleted_at.
Refundable(t) ==
    CASE t.kind = "unenroll"        -> {t.row}
      [] t.kind = "cancelRefunding" -> {e \in Rows : row[e] # "none"}
      [] OTHER                      -> {}

\* The first read.  The enrolling endpoints read the section whatever its
\* state; unenrolling and cancelling refuse a cancelled one; unenrolling and
\* deleting refuse an enrollment that is deleted.
Read(w) ==
    LET t == txn[w] IN
    /\ t.step = "read"
    /\ ProceedIf(/\ t.kind = "unenroll" \/ Cancels(t.kind) => ~Cancelled(section)
                 /\ t.kind \in {"unenroll", "delete"} => row[t.row] = "active",
                 w, [t EXCEPT !.seen = section, !.listed = Refundable(t)])
    /\ UNCHANGED <<committed, locks, begun>>

\* delete_enrollment reads the section in a query of its own.
ReadCount(w) ==
    LET t == txn[w] IN
    /\ t.step = "count"
    /\ Proceed(w, [t EXCEPT !.seen = section])
    /\ UNCHANGED <<committed, locks, begun>>

\* What was paid, and how much of it is to be refunded: nothing, a part or
\* all when one student leaves, everything when the section is cancelled.
SumPayments(w) ==
    LET t == txn[w] IN
    /\ t.step = "sum"
    /\ \E part \in 0 .. Price :
         /\ IF t.kind = "unenroll" THEN part <= paid[t.row] ELSE part = Price
         /\ Proceed(w, [t EXCEPT !.listed = {}, !.refund =
                [e \in Rows |-> IF e \in t.listed THEN Min({part, paid[e]}) ELSE 0]])
    /\ UNCHANGED <<committed, locks, begun>>

-----------------------------------------------------------------------------
(* Statements that take locks, held until the transaction ends.            *)

\* Mutant: create_enrollment selects the section without FOR UPDATE.
LockSection_unlocked(w) ==
    LET t == txn[w] IN
    /\ t.step = "section"
    /\ IF Enrolls(t.kind)
         THEN UNCHANGED sectionLock
         ELSE sectionLock = NoWorker /\ sectionLock' = w
    /\ ProceedIf(/\ Enrolls(t.kind) => /\ t.seen.count < Capacity
                                       /\ Owner(t.row) \notin {Owner(e) : e \in Active}
                 /\ t.kind = "delete" => t.seen.count > 0, w, t)
    /\ UNCHANGED <<committed, rowLock, begun>>

\* SELECT ... FOR UPDATE by create_enrollment, whose capacity check then looks
\* at the section it has read before; UPDATE course_sections by the others,
\* which the CHECK on enrolled_count refuses to take below zero.
LockSection(w) ==
    LET t == txn[w] IN
    /\ t.step = "section"
    /\ sectionLock = NoWorker
    /\ sectionLock' = w
    /\ ProceedIf(/\ Enrolls(t.kind) => /\ t.seen.count < Capacity
                                       /\ Owner(t.row) \notin {Owner(e) : e \in Active}
                 /\ t.kind = "delete" => t.seen.count > 0, w, t)
    /\ UNCHANGED <<committed, rowLock, begun>>

Compatible(a, b) ==
    \/ "none" \in {a, b}
    \/ a = "share" /\ b # "full"
    \/ b = "share" /\ a # "full"

CanLock(w, e, mode) ==
    \A v \in Workers \ {w} : Compatible(mode, rowLock[e][v])

\* Inserting a pending refund takes FOR KEY SHARE on its enrollment.
ShareRows(w) ==
    LET t == txn[w]
        shared == {e \in Rows : t.refund[e] > 0}
    IN
    /\ t.step = "share"
    /\ \A e \in shared : CanLock(w, e, "share")
    /\ rowLock' = [e \in Rows |-> IF e \in shared THEN [rowLock[e] EXCEPT ![w] = "share"]
                                  ELSE rowLock[e]]
    /\ Proceed(w, t)
    /\ UNCHANGED <<committed, sectionLock, begun>>

\* Mutant: create_payment selects the enrollment without FOR UPDATE.
LockRow_unlockedPay(w) ==
    LET t == txn[w] IN
    /\ t.step = "row"
    /\ IF t.kind = "pay"
         THEN UNCHANGED rowLock
         ELSE /\ CanLock(w, t.row, "update")
              /\ rowLock' = [rowLock EXCEPT ![t.row][w] = "update"]
    /\ Proceed(w, t)
    /\ UNCHANGED <<committed, sectionLock, begun>>

\* SELECT ... FOR UPDATE by create_payment, UPDATE enrollments by the others.
LockRow(w) ==
    LET t    == txn[w]
        mode == IF t.kind = "pay" THEN "full" ELSE "update"
    IN
    /\ t.step = "row"
    /\ CanLock(w, t.row, mode)
    /\ rowLock' = [rowLock EXCEPT ![t.row][w] = mode]
    /\ Proceed(w, t)
    /\ UNCHANGED <<committed, sectionLock, begun>>

\* The section of an enrollment made by this very request is the one it has
\* read before; else it is read now, and so is what was paid.
CheckPayment(w) ==
    LET t == txn[w] IN
    /\ t.step = "check"
    /\ ProceedIf(/\ ~Cancelled(IF Enrolls(t.kind) THEN t.seen ELSE section)
                 /\ t.amount + paid[t.row] <= Price, w, t)
    /\ UNCHANGED <<committed, locks, begun>>

-----------------------------------------------------------------------------
(* The ends of a transaction.                                              *)

\* Mutant: delete_enrollment leaves the count alone.
NewSection_deleteKeeps(t) ==
    CASE Enrolls(t.kind)     -> [section EXCEPT !.count = t.seen.count + 1]
      [] t.kind = "unenroll" -> [section EXCEPT !.count = Max({t.seen.count - 1, 0})]
      [] t.kind = "cancel"   -> [section EXCEPT !.refunds = "kept"]
      [] t.kind = "cancelRefunding" -> [section EXCEPT !.refunds = "authorized"]
      [] OTHER               -> section

\* An UPDATE writes the columns the request has changed; the count it writes
\* was worked out from the section it has read.
NewSection(t) ==
    CASE Enrolls(t.kind)     -> [section EXCEPT !.count = t.seen.count + 1]
      [] t.kind = "unenroll" -> [section EXCEPT !.count = Max({t.seen.count - 1, 0})]
      [] t.kind = "delete"   -> [section EXCEPT !.count = t.seen.count - 1]
      [] t.kind = "cancel"   -> [section EXCEPT !.refunds = "kept"]
      [] t.kind = "cancelRefunding" -> [section EXCEPT !.refunds = "authorized"]
      [] OTHER               -> section

NewRow(t) ==
    CASE Enrolls(t.kind)                    -> [row EXCEPT ![t.row] = "active"]
      [] t.kind \in {"unenroll", "delete"} -> [row EXCEPT ![t.row] = "deleted"]
      [] OTHER                              -> row

Released(w) ==
    /\ sectionLock' = IF sectionLock = w THEN NoWorker ELSE sectionLock
    /\ rowLock' = [e \in Rows |-> [rowLock[e] EXCEPT ![w] = "none"]]
    /\ txn' = [txn EXCEPT ![w] = Idle]
    /\ UNCHANGED begun

Commit(w) ==
    LET t == txn[w] IN
    /\ t.step = "commit"
    /\ section' = NewSection(t)
    /\ row' = NewRow(t)
    /\ paid' = IF t.amount > 0 THEN [paid EXCEPT ![t.row] = @ + t.amount] ELSE paid
    /\ owed' = [e \in Rows |-> owed[e] + t.refund[e]]
    /\ Released(w)

\* get_db rolls back when the handler raises.
Rollback(w) ==
    /\ txn[w].step = "failed"
    /\ Released(w)
    /\ UNCHANGED committed

\* The worker or its connection dies.
Crash(w) ==
    /\ txn[w].step \notin {"idle", "failed"}
    /\ Released(w)
    /\ UNCHANGED committed

-----------------------------------------------------------------------------
Init ==
    /\ section = [count |-> 0, refunds |-> "none"]
    /\ row = [e \in Rows |-> "none"]
    /\ paid = [e \in Rows |-> 0]
    /\ owed = NothingOwed
    /\ sectionLock = NoWorker
    /\ rowLock = [e \in Rows |-> [w \in Workers |-> "none"]]
    /\ txn = [w \in Workers |-> Idle]
    /\ begun = 0

\* A step of the transaction w has begun.
Step(w) ==
    \/ Read(w) \/ ReadCount(w) \/ SumPayments(w) \/ LockSection(w) \/ ShareRows(w)
    \/ LockRow(w) \/ CheckPayment(w) \/ Commit(w) \/ Rollback(w)

Next == \E w \in Workers : Receive(w) \/ Step(w) \/ Crash(w)

\* Workers run what they have begun; requests and crashes are not promised.
Spec == Init /\ [][Next]_vars /\ \A w \in Workers : WF_vars(Step(w))

-----------------------------------------------------------------------------
Amounts == [Rows -> 0 .. Price]

TypeOK ==
    /\ section \in Section
    /\ row \in [Rows -> {"none", "active", "deleted"}]
    /\ paid \in [Rows -> Nat]
    /\ owed \in [Rows -> Nat]
    /\ sectionLock \in Workers \cup {NoWorker}
    /\ rowLock \in [Rows -> [Workers -> Modes]]
    /\ txn \in [Workers -> [kind : AllKinds \cup {"none"}, step : Steps,
                            row : Rows \cup {NoRow}, amount : 0 .. Price,
                            seen : Section, listed : SUBSET Rows, refund : Amounts]]
    /\ begun \in 0 .. MaxTxns

\* However payments for one enrollment interleave, the first one of a new
\* enrollment among them, they never add up to more than its price.
PaidWithinPrice == \A e \in Rows : paid[e] <= Price

\* The section's lock makes the search for the student's enrollment and the
\* insert of a new one indivisible: the unique index on active enrollments
\* never has to refuse a row.
NoDuplicateSeat ==
    \A w \in Workers : Enrolls(txn[w].kind) /\ txn[w].step \in {"check", "commit"}
        => Owner(txn[w].row) \notin {Owner(e) : e \in Active}

\* Every transaction ends: section and enrollment are locked in one order by
\* whoever needs both, and the early share lock of unenrolling conflicts only
\* with a payment, which never waits for anything else.
EveryRequestEnds ==
    \A w \in Workers : txn[w].step # "idle" ~> txn[w].step = "idle"

\* No two requests are under way at once.
NoOverlap == \A v, w \in Workers : txn[v] # Idle /\ txn[w] # Idle => v = w

\* enrolled_count is the number of active enrollments.
CountMatchesActive == section.count = Cardinality(Active)

\* Cancelling with refunds leaves no payment without one, those of students
\* who were unenrolled or deleted before included.
CancellationRefundsAll ==
    section.refunds = "authorized" => \A e \in Rows : owed[e] >= paid[e]

\* Whatever succeeds, fails or crashes, the count counts and the money of a
\* cancelled section is owed back as long as requests do not overlap.  When
\* they do, neither is so: the count that is written and the sums that are
\* refunded were read before the section was locked.
SerialCountMatchesActive     == []NoOverlap => []CountMatchesActive
SerialCancellationRefundsAll == []NoOverlap => []CancellationRefundsAll

=============================================================================
