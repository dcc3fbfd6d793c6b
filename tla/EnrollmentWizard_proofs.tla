----------------------- MODULE EnrollmentWizard_proofs -----------------------
(* Proofs about EnrollmentWizard for any students, sections and number of  *)
(* visits of the page.                                                     *)
EXTENDS EnrollmentWizard, TLAPS

(***************************************************************************)
(* The inductive invariant.  What the completion screen shows is the form  *)
(* as it is when the answer comes; it is what was sent because the form    *)
(* cannot change its student or its section while a submission of its own  *)
(* visit is under way.                                                     *)
(***************************************************************************)

\* The page is there only once it was opened, and later visits have not begun.
VisitsInOrder ==
    /\ page # "away" => visit \in Visits
    /\ \A v \in Visits : v > visit => calls[v] = NoCall

\* A page that still loads has nothing filled in.
LoadingIsEmpty ==
    page = "loading" => step = 1 /\ student = None /\ section = None /\ ~submitting

\* The flag of the page tells whether its call is under way.
FlagTellsOfCall == page # "away" => (submitting <=> calls[visit] # NoCall)

\* The later steps have what the earlier ones ask for.
StepsInOrder ==
    /\ step > 1 => student # None
    /\ step > 2 => section # None

\* The call of the page is about what its form still says.
CallMatchesForm ==
    page # "away" /\ calls[visit] # NoCall =>
        IF calls[visit].kind = "create" THEN step = 1 /\ student = None /\ mode = "create"
        ELSE step = 3 /\ calls[visit].student = student /\ calls[visit].section = section

\* What the server has agreed to is in the database.
AgreedIsDone(v) ==
    calls[v].at \in {"agreed", "summary"} /\ calls[v].kind # "create" =>
        /\ Seat(calls[v]) \in seats
        /\ calls[v].kind = "pay" => Seat(calls[v]) \in paid

\* An enrollment is of a section; only the student's creation has none.
CallHasSection(v) == calls[v].kind \in {"enroll", "pay"} => calls[v].section \in Sections

\* A summary is asked for after an enrollment.
SummaryOfEnrollment(v) == calls[v].at = "summary" => calls[v].kind # "create"

\* Enrollments are asked for the student who is chosen.
AskingForStudent == asking \subseteq (IF student = None THEN {} ELSE {student})

CallsInv == \A v \in Visits : AgreedIsDone(v) /\ CallHasSection(v) /\ SummaryOfEnrollment(v)

IInv ==
    /\ TypeOK
    /\ VisitsInOrder /\ LoadingIsEmpty /\ FlagTellsOfCall /\ StepsInOrder /\ CallMatchesForm
    /\ CallsInv
    /\ AskingForStudent
    /\ CompletionIsReal /\ TakenIsOfStudent /\ ProgressIsGuarded

-----------------------------------------------------------------------------
(* What the steps have in common.                                          *)

\* The invariant holds before the page is opened.
LEMMA InitIInv == Init => IInv
<1> SUFFICES ASSUME Init PROVE IInv
  OBVIOUS
<1>1. page = "away" /\ step = 1 /\ student = None /\ section = None /\ ~submitting
  BY DEF Init
<1>2. calls \in [Visits -> {NoCall}]
  BY DEF Init
<1>3. /\ mode = "select" /\ page = "away" /\ receipt \in BOOLEAN /\ submitting \in BOOLEAN
      /\ error \in BOOLEAN /\ dirty \in BOOLEAN /\ leaving \in BOOLEAN /\ haunted \in BOOLEAN
  BY Zenon DEF Init
<1>4. /\ listed = {} /\ offered = {} /\ asking = {} /\ taken = {} /\ paid = {}
      /\ students \subseteq Students /\ seats \subseteq Seats /\ visit = 0
  BY RegisteredAssumption DEF Init, Seats
<1>5. TypeOK
  BY <1>1, <1>2, <1>3, <1>4, VisitsAssumption DEF TypeOK
<1>6. VisitsInOrder /\ FlagTellsOfCall /\ CallMatchesForm
  BY <1>1, <1>2 DEF VisitsInOrder, FlagTellsOfCall, CallMatchesForm
<1>7. LoadingIsEmpty /\ StepsInOrder
  BY <1>1 DEF LoadingIsEmpty, StepsInOrder
<1>8. CallsInv
  BY <1>2 DEF CallsInv, AgreedIsDone, CallHasSection, SummaryOfEnrollment, NoCall
<1>9. AskingForStudent /\ TakenIsOfStudent /\ CompletionIsReal /\ ProgressIsGuarded
  BY <1>1, <1>4 DEF AskingForStudent, TakenIsOfStudent, CompletionIsReal, ProgressIsGuarded
<1> QED
  BY <1>5, <1>6, <1>7, <1>8, <1>9 DEF IInv

\* A call that goes on stays the call it is.
LEMMA Moved ==
    ASSUME TypeOK, NEW v \in Visits, calls[v].at # "ended",
           NEW where \in {"sent", "agreed", "refused", "summary"}, Move(v, where)
    PROVE  /\ calls' \in [Visits -> Call \cup {NoCall}]
           /\ calls[v] \in Call /\ calls[v] # NoCall /\ calls'[v] # NoCall
           /\ calls'[v].at = where
           /\ calls'[v].kind = calls[v].kind
           /\ calls'[v].student = calls[v].student
           /\ calls'[v].section = calls[v].section
           /\ \A u \in Visits \ {v} : calls'[u] = calls[u]
<1>1. calls[v] \in Call
  BY DEF TypeOK, NoCall
<1> QED
  BY <1>1 DEF Move, TypeOK, Call, NoCall

\* A call that ends is gone.
LEMMA Ended ==
    ASSUME TypeOK, NEW v \in Visits, End(v)
    PROVE  /\ calls' \in [Visits -> Call \cup {NoCall}]
           /\ calls'[v] = NoCall
           /\ \A u \in Visits \ {v} : calls'[u] = calls[u]
  BY DEF End, TypeOK

\* The page is opened on an empty form, and its call is not made yet.
LEMMA EnterStep == ASSUME IInv, Enter PROVE IInv'
<1> USE DEF Enter, form, status, lookup, guard, db
<1>1. visit' \in Visits /\ visit' > visit
  BY VisitsAssumption DEF IInv, TypeOK, Visits
<1>2. TypeOK'
  <2>1. page' \in {"away", "loading", "ready"} /\ visit' \in 0 .. MaxVisits
    BY <1>1, VisitsAssumption DEF IInv, TypeOK
  <2>2. step' \in 1 .. 4 /\ mode' \in {"select", "create"}
    BY <1>1, NoneAssumption DEF IInv, TypeOK
  <2>3. student' \in Students \cup {None} /\ section' \in Sections \cup {None}
    BY <1>1, NoneAssumption DEF IInv, TypeOK
  <2>4. receipt' \in BOOLEAN /\ submitting' \in BOOLEAN /\ error' \in BOOLEAN
    BY <1>1, Zenon DEF IInv, TypeOK
  <2>5. dirty' \in BOOLEAN /\ leaving' \in BOOLEAN /\ haunted' \in BOOLEAN
    BY <1>1, Zenon DEF IInv, TypeOK
  <2>6. /\ listed' \subseteq Students /\ offered' \subseteq Sections
        /\ asking' \subseteq Students /\ taken' \subseteq Sections
    BY <1>1, NoneAssumption DEF IInv, TypeOK
  <2>7. /\ calls' \in [Visits -> Call \cup {NoCall}]
        /\ students' \subseteq Students /\ seats' \subseteq Seats /\ paid' \subseteq seats'
    BY <1>1, NoneAssumption DEF IInv, TypeOK
  <2> QED
    BY <2>1, <2>2, <2>3, <2>4, <2>5, <2>6, <2>7 DEF TypeOK
<1>3. calls[visit'] = NoCall
  BY <1>1 DEF IInv, VisitsInOrder
<1>4. VisitsInOrder'
  BY <1>1 DEF IInv, TypeOK, VisitsInOrder, Visits
<1>5. LoadingIsEmpty' /\ StepsInOrder' /\ FlagTellsOfCall' /\ CallMatchesForm'
  BY <1>1, <1>3 DEF LoadingIsEmpty, StepsInOrder, FlagTellsOfCall, CallMatchesForm
<1>6. CallsInv'
  BY DEF IInv, CallsInv, AgreedIsDone, CallHasSection, SummaryOfEnrollment, Seat
<1>7. AskingForStudent' /\ TakenIsOfStudent' /\ CompletionIsReal' /\ ProgressIsGuarded'
  BY DEF AskingForStudent, TakenIsOfStudent, CompletionIsReal, ProgressIsGuarded
<1> QED
  BY <1>1, <1>2, <1>3, <1>4, <1>5, <1>6, <1>7 DEF IInv

\* The lookups come to a page that has nothing filled in.
LEMMA FetchLookupsStep == ASSUME IInv, FetchLookups PROVE IInv'
<1> USE DEF FetchLookups, form, status, lookup, guard, db
<1>1. TypeOK'
  <2>1. page' \in {"away", "loading", "ready"} /\ visit' \in 0 .. MaxVisits
    BY VisitsAssumption DEF IInv, TypeOK
  <2>2. step' \in 1 .. 4 /\ mode' \in {"select", "create"}
    BY NoneAssumption DEF IInv, TypeOK
  <2>3. student' \in Students \cup {None} /\ section' \in Sections \cup {None}
    BY NoneAssumption DEF IInv, TypeOK
  <2>4. receipt' \in BOOLEAN /\ submitting' \in BOOLEAN /\ error' \in BOOLEAN
    BY Zenon DEF IInv, TypeOK
  <2>5. dirty' \in BOOLEAN /\ leaving' \in BOOLEAN /\ haunted' \in BOOLEAN
    BY Zenon DEF IInv, TypeOK
  <2>6. /\ listed' \subseteq Students /\ offered' \subseteq Sections
        /\ asking' \subseteq Students /\ taken' \subseteq Sections
    BY NoneAssumption DEF IInv, TypeOK
  <2>7. /\ calls' \in [Visits -> Call \cup {NoCall}]
        /\ students' \subseteq Students /\ seats' \subseteq Seats /\ paid' \subseteq seats'
    BY NoneAssumption DEF IInv, TypeOK
  <2> QED
    BY <2>1, <2>2, <2>3, <2>4, <2>5, <2>6, <2>7 DEF TypeOK
<1>2. page = "loading" /\ page' = "ready"
  BY Zenon
<1>3. visit' = visit /\ calls' = calls
  BY Zenon
<1>4. VisitsInOrder'
  BY <1>2, <1>3, Zenon DEF IInv, VisitsInOrder
<1>5. LoadingIsEmpty' /\ StepsInOrder'
  BY NoneAssumption DEF IInv, TypeOK, LoadingIsEmpty, StepsInOrder
<1>6. FlagTellsOfCall' /\ CallMatchesForm'
  BY DEF IInv, FlagTellsOfCall, CallMatchesForm
<1>7. CallsInv'
  BY DEF IInv, CallsInv, AgreedIsDone, CallHasSection, SummaryOfEnrollment, Seat
<1>8. AskingForStudent' /\ TakenIsOfStudent'
  BY NoneAssumption DEF IInv, AskingForStudent, TakenIsOfStudent, SectionsOf
<1>9. CompletionIsReal' /\ ProgressIsGuarded'
  BY DEF IInv, CompletionIsReal, ProgressIsGuarded, LoadingIsEmpty
<1> QED
  BY <1>1, <1>2, <1>3, <1>4, <1>5, <1>6, <1>7, <1>8, <1>9 DEF IInv

\* The guard lets the page be left, or asks.
LEMMA GuardNavigationStep == ASSUME IInv, GuardNavigation PROVE IInv'
<1> USE DEF GuardNavigation, Leave, form, status, lookup, guard, db
<1>1. TypeOK'
  BY NoneAssumption DEF IInv, TypeOK, SectionsOf, Visits, Seats
<1>2. VisitsInOrder'
  BY DEF IInv, VisitsInOrder
<1>3. LoadingIsEmpty' /\ StepsInOrder'
  BY NoneAssumption DEF IInv, TypeOK, LoadingIsEmpty, StepsInOrder
<1>4. FlagTellsOfCall' /\ CallMatchesForm'
  BY DEF IInv, FlagTellsOfCall, CallMatchesForm
<1>5. CallsInv'
  BY DEF IInv, CallsInv, AgreedIsDone, CallHasSection, SummaryOfEnrollment, Seat
<1>6. AskingForStudent' /\ TakenIsOfStudent'
  BY NoneAssumption DEF IInv, AskingForStudent, TakenIsOfStudent, SectionsOf
<1>7. CompletionIsReal' /\ ProgressIsGuarded'
  BY DEF IInv, CompletionIsReal, ProgressIsGuarded, LoadingIsEmpty
<1> QED
  BY <1>1, <1>2, <1>3, <1>4, <1>5, <1>6, <1>7 DEF IInv

\* The page is left without its guard.
LEMMA ConfirmLeaveStep == ASSUME IInv, ConfirmLeave PROVE IInv'
<1> USE DEF ConfirmLeave, Leave, form, status, lookup, guard, db
<1>1. TypeOK'
  BY NoneAssumption DEF IInv, TypeOK, SectionsOf, Visits, Seats
<1>2. VisitsInOrder'
  BY DEF IInv, VisitsInOrder
<1>3. LoadingIsEmpty' /\ StepsInOrder'
  BY NoneAssumption DEF IInv, TypeOK, LoadingIsEmpty, StepsInOrder
<1>4. FlagTellsOfCall' /\ CallMatchesForm'
  BY DEF IInv, FlagTellsOfCall, CallMatchesForm
<1>5. CallsInv'
  BY DEF IInv, CallsInv, AgreedIsDone, CallHasSection, SummaryOfEnrollment, Seat
<1>6. AskingForStudent' /\ TakenIsOfStudent'
  BY NoneAssumption DEF IInv, AskingForStudent, TakenIsOfStudent, SectionsOf
<1>7. CompletionIsReal' /\ ProgressIsGuarded'
  BY DEF IInv, CompletionIsReal, ProgressIsGuarded, LoadingIsEmpty
<1> QED
  BY <1>1, <1>2, <1>3, <1>4, <1>5, <1>6, <1>7 DEF IInv

\* The page is not left.
LEMMA CancelLeaveStep == ASSUME IInv, CancelLeave PROVE IInv'
<1> USE DEF CancelLeave, form, status, lookup, guard, db
<1>1. TypeOK'
  BY NoneAssumption DEF IInv, TypeOK, SectionsOf, Visits, Seats
<1>2. VisitsInOrder'
  BY DEF IInv, VisitsInOrder
<1>3. LoadingIsEmpty' /\ StepsInOrder'
  BY NoneAssumption DEF IInv, TypeOK, LoadingIsEmpty, StepsInOrder
<1>4. FlagTellsOfCall' /\ CallMatchesForm'
  BY DEF IInv, FlagTellsOfCall, CallMatchesForm
<1>5. CallsInv'
  BY DEF IInv, CallsInv, AgreedIsDone, CallHasSection, SummaryOfEnrollment, Seat
<1>6. AskingForStudent' /\ TakenIsOfStudent'
  BY NoneAssumption DEF IInv, AskingForStudent, TakenIsOfStudent, SectionsOf
<1>7. CompletionIsReal' /\ ProgressIsGuarded'
  BY DEF IInv, CompletionIsReal, ProgressIsGuarded, LoadingIsEmpty
<1> QED
  BY <1>1, <1>2, <1>3, <1>4, <1>5, <1>6, <1>7 DEF IInv

\* The page is left behind the guard's back.
LEMMA NavigateStep == ASSUME IInv, Navigate PROVE IInv'
<1> USE DEF Navigate, Leave, form, status, lookup, guard, db
<1>1. TypeOK'
  BY NoneAssumption DEF IInv, TypeOK, SectionsOf, Visits, Seats
<1>2. VisitsInOrder'
  BY DEF IInv, VisitsInOrder
<1>3. LoadingIsEmpty' /\ StepsInOrder'
  BY NoneAssumption DEF IInv, TypeOK, LoadingIsEmpty, StepsInOrder
<1>4. FlagTellsOfCall' /\ CallMatchesForm'
  BY DEF IInv, FlagTellsOfCall, CallMatchesForm
<1>5. CallsInv'
  BY DEF IInv, CallsInv, AgreedIsDone, CallHasSection, SummaryOfEnrollment, Seat
<1>6. AskingForStudent' /\ TakenIsOfStudent'
  BY NoneAssumption DEF IInv, AskingForStudent, TakenIsOfStudent, SectionsOf
<1>7. CompletionIsReal' /\ ProgressIsGuarded'
  BY DEF IInv, CompletionIsReal, ProgressIsGuarded, LoadingIsEmpty
<1> QED
  BY <1>1, <1>2, <1>3, <1>4, <1>5, <1>6, <1>7 DEF IInv

\* Typing is progress.
LEMMA TypeStep == ASSUME IInv, Type PROVE IInv'
<1> USE DEF Type, AtStep, Unfilled, form, status, lookup, guard, db
<1>1. TypeOK'
  BY NoneAssumption DEF IInv, TypeOK, SectionsOf, Visits, Seats
<1>2. VisitsInOrder'
  BY DEF IInv, VisitsInOrder
<1>3. LoadingIsEmpty' /\ StepsInOrder'
  BY NoneAssumption DEF IInv, TypeOK, LoadingIsEmpty, StepsInOrder
<1>4. FlagTellsOfCall' /\ CallMatchesForm'
  BY DEF IInv, FlagTellsOfCall, CallMatchesForm
<1>5. CallsInv'
  BY DEF IInv, CallsInv, AgreedIsDone, CallHasSection, SummaryOfEnrollment, Seat
<1>6. AskingForStudent' /\ TakenIsOfStudent'
  BY NoneAssumption DEF IInv, AskingForStudent, TakenIsOfStudent, SectionsOf
<1>7. CompletionIsReal' /\ ProgressIsGuarded'
  BY DEF IInv, CompletionIsReal, ProgressIsGuarded, LoadingIsEmpty
<1> QED
  BY <1>1, <1>2, <1>3, <1>4, <1>5, <1>6, <1>7 DEF IInv

\* A student is searched for, or a new one filled in.
LEMMA SetModeStep == ASSUME IInv, NEW m \in {"select", "create"}, SetMode(m) PROVE IInv'
<1> USE DEF SetMode, AtStep, Unfilled, form, status, lookup, guard, db
<1>1. TypeOK'
  BY NoneAssumption DEF IInv, TypeOK, SectionsOf, Visits, Seats
<1>2. VisitsInOrder'
  BY DEF IInv, VisitsInOrder
<1>3. LoadingIsEmpty' /\ StepsInOrder'
  BY NoneAssumption DEF IInv, TypeOK, LoadingIsEmpty, StepsInOrder
<1>4. FlagTellsOfCall' /\ CallMatchesForm'
  BY DEF IInv, FlagTellsOfCall, CallMatchesForm
<1>5. CallsInv'
  BY DEF IInv, CallsInv, AgreedIsDone, CallHasSection, SummaryOfEnrollment, Seat
<1>6. AskingForStudent' /\ TakenIsOfStudent'
  BY NoneAssumption DEF IInv, AskingForStudent, TakenIsOfStudent, SectionsOf
<1>7. CompletionIsReal' /\ ProgressIsGuarded'
  BY DEF IInv, CompletionIsReal, ProgressIsGuarded, LoadingIsEmpty
<1> QED
  BY <1>1, <1>2, <1>3, <1>4, <1>5, <1>6, <1>7 DEF IInv

\* Nothing is asked for or held back before a student is chosen.
LEMMA HandleSelectStudentStep ==
    ASSUME IInv, NEW s \in Students, HandleSelectStudent(s)
    PROVE  IInv'
<1> USE DEF HandleSelectStudent, AtStep, Unfilled, form, status, lookup, guard, db
<1>1. TypeOK'
  <2>1. page' \in {"away", "loading", "ready"} /\ visit' \in 0 .. MaxVisits
    BY VisitsAssumption DEF IInv, TypeOK
  <2>2. step' \in 1 .. 4 /\ mode' \in {"select", "create"}
    BY NoneAssumption DEF IInv, TypeOK
  <2>3. student' \in Students \cup {None} /\ section' \in Sections \cup {None}
    BY NoneAssumption DEF IInv, TypeOK
  <2>4. receipt' \in BOOLEAN /\ submitting' \in BOOLEAN /\ error' \in BOOLEAN
    BY Zenon DEF IInv, TypeOK
  <2>5. dirty' \in BOOLEAN /\ leaving' \in BOOLEAN /\ haunted' \in BOOLEAN
    BY Zenon DEF IInv, TypeOK
  <2>6. /\ listed' \subseteq Students /\ offered' \subseteq Sections
        /\ asking' \subseteq Students /\ taken' \subseteq Sections
    BY NoneAssumption DEF IInv, TypeOK
  <2>7. /\ calls' \in [Visits -> Call \cup {NoCall}]
        /\ students' \subseteq Students /\ seats' \subseteq Seats /\ paid' \subseteq seats'
    BY NoneAssumption DEF IInv, TypeOK
  <2> QED
    BY <2>1, <2>2, <2>3, <2>4, <2>5, <2>6, <2>7 DEF TypeOK
<1>2. VisitsInOrder'
  BY DEF IInv, VisitsInOrder
<1>3. LoadingIsEmpty' /\ StepsInOrder'
  BY NoneAssumption DEF IInv, TypeOK, LoadingIsEmpty, StepsInOrder
<1>4. FlagTellsOfCall' /\ CallMatchesForm'
  BY DEF IInv, FlagTellsOfCall, CallMatchesForm
<1>5. CallsInv'
  BY DEF IInv, CallsInv, AgreedIsDone, CallHasSection, SummaryOfEnrollment, Seat
<1>6. AskingForStudent' /\ TakenIsOfStudent'
  BY NoneAssumption DEF IInv, AskingForStudent, TakenIsOfStudent, SectionsOf
<1>7. CompletionIsReal' /\ ProgressIsGuarded'
  BY DEF IInv, CompletionIsReal, ProgressIsGuarded, LoadingIsEmpty
<1> QED
  BY <1>1, <1>2, <1>3, <1>4, <1>5, <1>6, <1>7 DEF IInv

\* With the choice goes all that depends on it.
LEMMA ClearStudentStep == ASSUME IInv, ClearStudent PROVE IInv'
<1> USE DEF ClearStudent, AtStep, Unfilled, form, status, lookup, guard, db
<1>1. TypeOK'
  BY NoneAssumption DEF IInv, TypeOK, SectionsOf, Visits, Seats
<1>2. VisitsInOrder'
  BY DEF IInv, VisitsInOrder
<1>3. LoadingIsEmpty' /\ StepsInOrder'
  BY NoneAssumption DEF IInv, TypeOK, LoadingIsEmpty, StepsInOrder
<1>4. FlagTellsOfCall' /\ CallMatchesForm'
  BY DEF IInv, FlagTellsOfCall, CallMatchesForm
<1>5. CallsInv'
  BY DEF IInv, CallsInv, AgreedIsDone, CallHasSection, SummaryOfEnrollment, Seat
<1>6. AskingForStudent' /\ TakenIsOfStudent'
  BY NoneAssumption DEF IInv, AskingForStudent, TakenIsOfStudent, SectionsOf
<1>7. CompletionIsReal' /\ ProgressIsGuarded'
  BY DEF IInv, CompletionIsReal, ProgressIsGuarded, LoadingIsEmpty
<1> QED
  BY <1>1, <1>2, <1>3, <1>4, <1>5, <1>6, <1>7 DEF IInv

\* What is asked for is about the student who is chosen.
LEMMA FetchStudentEnrollmentsStep ==
    ASSUME IInv, NEW s \in Students, FetchStudentEnrollments(s)
    PROVE  IInv'
<1> USE DEF FetchStudentEnrollments, Unfilled, form, status, lookup, guard, db
<1>1. TypeOK'
  BY NoneAssumption DEF IInv, TypeOK, SectionsOf, Visits, Seats
<1>2. VisitsInOrder'
  BY DEF IInv, VisitsInOrder
<1>3. LoadingIsEmpty' /\ StepsInOrder'
  BY NoneAssumption DEF IInv, TypeOK, LoadingIsEmpty, StepsInOrder
<1>4. FlagTellsOfCall' /\ CallMatchesForm'
  BY DEF IInv, FlagTellsOfCall, CallMatchesForm
<1>5. CallsInv'
  BY DEF IInv, CallsInv, AgreedIsDone, CallHasSection, SummaryOfEnrollment, Seat
<1>6. AskingForStudent' /\ TakenIsOfStudent'
  BY NoneAssumption DEF IInv, AskingForStudent, TakenIsOfStudent, SectionsOf
<1>7. CompletionIsReal' /\ ProgressIsGuarded'
  BY DEF IInv, CompletionIsReal, ProgressIsGuarded, LoadingIsEmpty
<1> QED
  BY <1>1, <1>2, <1>3, <1>4, <1>5, <1>6, <1>7 DEF IInv

\* A section is chosen before anything is submitted.
LEMMA SetSectionStep ==
    ASSUME IInv, NEW c \in Sections \cup {None}, SetSection(c)
    PROVE  IInv'
<1> USE DEF SetSection, AtStep, Unfilled, form, status, lookup, guard, db
<1>1. TypeOK'
  BY NoneAssumption DEF IInv, TypeOK, SectionsOf, Visits, Seats
<1>2. VisitsInOrder'
  BY DEF IInv, VisitsInOrder
<1>3. LoadingIsEmpty' /\ StepsInOrder'
  BY NoneAssumption DEF IInv, TypeOK, LoadingIsEmpty, StepsInOrder
<1>4. FlagTellsOfCall' /\ CallMatchesForm'
  BY DEF IInv, FlagTellsOfCall, CallMatchesForm
<1>5. CallsInv'
  BY DEF IInv, CallsInv, AgreedIsDone, CallHasSection, SummaryOfEnrollment, Seat
<1>6. AskingForStudent' /\ TakenIsOfStudent'
  BY NoneAssumption DEF IInv, AskingForStudent, TakenIsOfStudent, SectionsOf
<1>7. CompletionIsReal' /\ ProgressIsGuarded'
  BY DEF IInv, CompletionIsReal, ProgressIsGuarded, LoadingIsEmpty
<1> QED
  BY <1>1, <1>2, <1>3, <1>4, <1>5, <1>6, <1>7 DEF IInv

\* The next step is taken with what it needs, and not while something is submitted.
LEMMA HandleNextStep == ASSUME IInv, HandleNext PROVE IInv'
<1> USE DEF HandleNext, AtStep, Unfilled, form, status, lookup, guard, db
<1>1. step' \in 1 .. 3 /\ StepsInOrder'
  BY NoneAssumption DEF IInv, TypeOK, StepsInOrder
<1>2. TypeOK'
  <2>1. page' \in {"away", "loading", "ready"} /\ visit' \in 0 .. MaxVisits
    BY <1>1, VisitsAssumption DEF IInv, TypeOK
  <2>2. step' \in 1 .. 4 /\ mode' \in {"select", "create"}
    BY <1>1, NoneAssumption DEF IInv, TypeOK
  <2>3. student' \in Students \cup {None} /\ section' \in Sections \cup {None}
    BY <1>1, NoneAssumption DEF IInv, TypeOK
  <2>4. receipt' \in BOOLEAN /\ submitting' \in BOOLEAN /\ error' \in BOOLEAN
    BY <1>1, Zenon DEF IInv, TypeOK
  <2>5. dirty' \in BOOLEAN /\ leaving' \in BOOLEAN /\ haunted' \in BOOLEAN
    BY <1>1, Zenon DEF IInv, TypeOK
  <2>6. /\ listed' \subseteq Students /\ offered' \subseteq Sections
        /\ asking' \subseteq Students /\ taken' \subseteq Sections
    BY <1>1, NoneAssumption DEF IInv, TypeOK
  <2>7. /\ calls' \in [Visits -> Call \cup {NoCall}]
        /\ students' \subseteq Students /\ seats' \subseteq Seats /\ paid' \subseteq seats'
    BY <1>1, NoneAssumption DEF IInv, TypeOK
  <2> QED
    BY <2>1, <2>2, <2>3, <2>4, <2>5, <2>6, <2>7 DEF TypeOK
<1>3. VisitsInOrder'
  BY DEF IInv, VisitsInOrder
<1>4. LoadingIsEmpty'
  BY DEF LoadingIsEmpty
<1>5. FlagTellsOfCall' /\ CallMatchesForm'
  BY DEF IInv, FlagTellsOfCall, CallMatchesForm
<1>6. CallsInv'
  BY Zenon DEF IInv, CallsInv, AgreedIsDone, CallHasSection, SummaryOfEnrollment, Seat
<1>7. AskingForStudent' /\ TakenIsOfStudent'
  BY NoneAssumption DEF IInv, AskingForStudent, TakenIsOfStudent, SectionsOf
<1>8. CompletionIsReal' /\ ProgressIsGuarded'
  BY <1>1 DEF IInv, CompletionIsReal, ProgressIsGuarded
<1> QED
  BY <1>1, <1>2, <1>3, <1>4, <1>5, <1>6, <1>7, <1>8 DEF IInv

\* Nor is the step before.
LEMMA BackStep == ASSUME IInv, Back PROVE IInv'
<1> USE DEF Back, AtStep, Unfilled, form, status, lookup, guard, db
<1>1. step' \in 1 .. 2 /\ StepsInOrder'
  BY DEF IInv, TypeOK, StepsInOrder
<1>2. TypeOK'
  <2>1. page' \in {"away", "loading", "ready"} /\ visit' \in 0 .. MaxVisits
    BY <1>1, VisitsAssumption DEF IInv, TypeOK
  <2>2. step' \in 1 .. 4 /\ mode' \in {"select", "create"}
    BY <1>1, NoneAssumption DEF IInv, TypeOK
  <2>3. student' \in Students \cup {None} /\ section' \in Sections \cup {None}
    BY <1>1, NoneAssumption DEF IInv, TypeOK
  <2>4. receipt' \in BOOLEAN /\ submitting' \in BOOLEAN /\ error' \in BOOLEAN
    BY <1>1, Zenon DEF IInv, TypeOK
  <2>5. dirty' \in BOOLEAN /\ leaving' \in BOOLEAN /\ haunted' \in BOOLEAN
    BY <1>1, Zenon DEF IInv, TypeOK
  <2>6. /\ listed' \subseteq Students /\ offered' \subseteq Sections
        /\ asking' \subseteq Students /\ taken' \subseteq Sections
    BY <1>1, NoneAssumption DEF IInv, TypeOK
  <2>7. /\ calls' \in [Visits -> Call \cup {NoCall}]
        /\ students' \subseteq Students /\ seats' \subseteq Seats /\ paid' \subseteq seats'
    BY <1>1, NoneAssumption DEF IInv, TypeOK
  <2> QED
    BY <2>1, <2>2, <2>3, <2>4, <2>5, <2>6, <2>7 DEF TypeOK
<1>3. VisitsInOrder'
  BY DEF IInv, VisitsInOrder
<1>4. LoadingIsEmpty'
  BY DEF LoadingIsEmpty
<1>5. FlagTellsOfCall' /\ CallMatchesForm'
  BY DEF IInv, FlagTellsOfCall, CallMatchesForm
<1>6. CallsInv'
  BY Zenon DEF IInv, CallsInv, AgreedIsDone, CallHasSection, SummaryOfEnrollment, Seat
<1>7. AskingForStudent' /\ TakenIsOfStudent'
  BY NoneAssumption DEF IInv, AskingForStudent, TakenIsOfStudent, SectionsOf
<1>8. CompletionIsReal' /\ ProgressIsGuarded'
  BY <1>1 DEF IInv, CompletionIsReal, ProgressIsGuarded
<1> QED
  BY <1>1, <1>2, <1>3, <1>4, <1>5, <1>6, <1>7, <1>8 DEF IInv

\* The wizard starts again on an empty form.
LEMMA HandleFinishStep == ASSUME IInv, HandleFinish PROVE IInv'
<1> USE DEF HandleFinish, AtStep, Unfilled, form, status, lookup, guard, db
<1>1. TypeOK'
  <2>1. page' \in {"away", "loading", "ready"} /\ visit' \in 0 .. MaxVisits
    BY VisitsAssumption DEF IInv, TypeOK
  <2>2. step' \in 1 .. 4 /\ mode' \in {"select", "create"}
    BY NoneAssumption DEF IInv, TypeOK
  <2>3. student' \in Students \cup {None} /\ section' \in Sections \cup {None}
    BY NoneAssumption DEF IInv, TypeOK
  <2>4. receipt' \in BOOLEAN /\ submitting' \in BOOLEAN /\ error' \in BOOLEAN
    BY Zenon DEF IInv, TypeOK
  <2>5. dirty' \in BOOLEAN /\ leaving' \in BOOLEAN /\ haunted' \in BOOLEAN
    BY Zenon DEF IInv, TypeOK
  <2>6. /\ listed' \subseteq Students /\ offered' \subseteq Sections
        /\ asking' \subseteq Students /\ taken' \subseteq Sections
    BY NoneAssumption DEF IInv, TypeOK
  <2>7. /\ calls' \in [Visits -> Call \cup {NoCall}]
        /\ students' \subseteq Students /\ seats' \subseteq Seats /\ paid' \subseteq seats'
    BY NoneAssumption DEF IInv, TypeOK
  <2> QED
    BY <2>1, <2>2, <2>3, <2>4, <2>5, <2>6, <2>7 DEF TypeOK
<1>2. VisitsInOrder'
  BY DEF IInv, VisitsInOrder
<1>3. LoadingIsEmpty' /\ StepsInOrder'
  BY DEF LoadingIsEmpty, StepsInOrder
<1>4. FlagTellsOfCall' /\ CallMatchesForm'
  BY DEF IInv, FlagTellsOfCall, CallMatchesForm
<1>5. CallsInv'
  BY DEF IInv, CallsInv, AgreedIsDone, CallHasSection, SummaryOfEnrollment, Seat
<1>6. AskingForStudent' /\ TakenIsOfStudent' /\ CompletionIsReal' /\ ProgressIsGuarded'
  BY DEF AskingForStudent, TakenIsOfStudent, CompletionIsReal, ProgressIsGuarded
<1> QED
  BY <1>1, <1>2, <1>3, <1>4, <1>5, <1>6 DEF IInv

\* A student is created from the first step, before one is chosen.
LEMMA HandleCreateStudentStep ==
    ASSUME IInv, NEW s \in Students, HandleCreateStudent(s)
    PROVE  IInv'
<1> DEFINE sent == [kind |-> "create", student |-> s, section |-> None, at |-> "sent"]
<1> USE DEF HandleCreateStudent, AtStep, Submit, form, status, lookup, guard, db
<1>1. page # "away" /\ visit \in Visits /\ calls[visit] = NoCall
  BY DEF IInv, VisitsInOrder, FlagTellsOfCall
<1>2. sent \in Call /\ (sent.kind # "create" => sent.section \in Sections)
  BY DEF Call
<1>3. /\ calls' \in [Visits -> Call \cup {NoCall}]
      /\ calls'[visit] = sent /\ sent # NoCall
      /\ \A u \in Visits \ {visit} : calls'[u] = calls[u]
  BY <1>1, <1>2 DEF IInv, TypeOK, NoCall
<1>4. TypeOK'
  BY <1>3 DEF IInv, TypeOK
<1>5. VisitsInOrder' /\ LoadingIsEmpty' /\ StepsInOrder'
  BY <1>1, <1>3 DEF IInv, VisitsInOrder, LoadingIsEmpty, StepsInOrder, Visits, TypeOK
<1>6. FlagTellsOfCall' /\ CallMatchesForm'
  BY <1>3 DEF FlagTellsOfCall, CallMatchesForm
<1>7. CallsInv'
  BY <1>2, <1>3 DEF IInv, CallsInv, AgreedIsDone, CallHasSection, SummaryOfEnrollment, Seat
<1>8. AskingForStudent' /\ TakenIsOfStudent'
  BY NoneAssumption DEF IInv, AskingForStudent, TakenIsOfStudent, SectionsOf
<1>9. CompletionIsReal' /\ ProgressIsGuarded'
  BY DEF IInv, CompletionIsReal, ProgressIsGuarded, LoadingIsEmpty
<1> QED
  BY <1>4, <1>5, <1>6, <1>7, <1>8, <1>9 DEF IInv

\* An enrollment is submitted as the form has it.
LEMMA HandleCommitStep ==
    ASSUME IInv, NEW kind \in {"enroll", "pay"}, HandleCommit(kind)
    PROVE  IInv'
<1> DEFINE sent == [kind |-> kind, student |-> student, section |-> section, at |-> "sent"]
<1> USE DEF HandleCommit, AtStep, Submit, form, status, lookup, guard, db
<1>1. page # "away" /\ visit \in Visits /\ calls[visit] = NoCall
  BY DEF IInv, VisitsInOrder, FlagTellsOfCall
<1>2. sent \in Call /\ (sent.kind # "create" => sent.section \in Sections)
  BY NoneAssumption DEF IInv, TypeOK, StepsInOrder, Call
<1>3. /\ calls' \in [Visits -> Call \cup {NoCall}]
      /\ calls'[visit] = sent /\ sent # NoCall
      /\ \A u \in Visits \ {visit} : calls'[u] = calls[u]
  BY <1>1, <1>2 DEF IInv, TypeOK, NoCall
<1>4. TypeOK'
  BY <1>3 DEF IInv, TypeOK
<1>5. VisitsInOrder' /\ LoadingIsEmpty' /\ StepsInOrder'
  BY <1>1, <1>3 DEF IInv, VisitsInOrder, LoadingIsEmpty, StepsInOrder, Visits, TypeOK
<1>6. FlagTellsOfCall' /\ CallMatchesForm'
  BY <1>3 DEF FlagTellsOfCall, CallMatchesForm
<1>7. CallsInv'
  BY <1>2, <1>3 DEF IInv, CallsInv, AgreedIsDone, CallHasSection, SummaryOfEnrollment, Seat
<1>8. AskingForStudent' /\ TakenIsOfStudent'
  BY NoneAssumption DEF IInv, AskingForStudent, TakenIsOfStudent, SectionsOf
<1>9. CompletionIsReal' /\ ProgressIsGuarded'
  BY DEF IInv, CompletionIsReal, ProgressIsGuarded, LoadingIsEmpty
<1> QED
  BY <1>4, <1>5, <1>6, <1>7, <1>8, <1>9 DEF IInv

\* What the server agrees to, it does.
LEMMA AgreeStep == ASSUME IInv, NEW v \in Visits, Agree(v) PROVE IInv'
<1> USE DEF Agree, form, status, lookup, guard, db
<1>1. PICK where \in {"agreed"} : Move(v, where)
  OBVIOUS
<1>2. /\ calls' \in [Visits -> Call \cup {NoCall}]
      /\ calls[v] \in Call /\ calls[v] # NoCall /\ calls'[v] # NoCall
      /\ calls'[v].at = where
      /\ calls'[v].kind = calls[v].kind
      /\ calls'[v].student = calls[v].student
      /\ calls'[v].section = calls[v].section
      /\ \A u \in Visits \ {v} : calls'[u] = calls[u]
  BY <1>1, Moved DEF IInv
<1>3. TypeOK'
  BY <1>2 DEF IInv, TypeOK, Call, Seat, Seats, CallsInv, CallHasSection
<1>4. VisitsInOrder' /\ LoadingIsEmpty' /\ StepsInOrder'
  BY <1>2 DEF IInv, VisitsInOrder, LoadingIsEmpty, StepsInOrder
<1>5. FlagTellsOfCall' /\ CallMatchesForm'
  BY <1>2 DEF IInv, FlagTellsOfCall, CallMatchesForm, VisitsInOrder
<1>6. CallsInv'
  BY <1>1, <1>2 DEF IInv, CallsInv, AgreedIsDone, CallHasSection, SummaryOfEnrollment, Seat
<1>7. AskingForStudent' /\ TakenIsOfStudent'
  BY NoneAssumption DEF IInv, AskingForStudent, TakenIsOfStudent, SectionsOf
<1>8. CompletionIsReal' /\ ProgressIsGuarded'
  BY DEF IInv, CompletionIsReal, ProgressIsGuarded, LoadingIsEmpty
<1> QED
  BY <1>3, <1>4, <1>5, <1>6, <1>7, <1>8 DEF IInv

\* A refusal promises nothing.
LEMMA RefuseStep == ASSUME IInv, NEW v \in Visits, Refuse(v) PROVE IInv'
<1> USE DEF Refuse, form, status, lookup, guard, db
<1>1. PICK where \in {"refused"} : Move(v, where)
  OBVIOUS
<1>2. /\ calls' \in [Visits -> Call \cup {NoCall}]
      /\ calls[v] \in Call /\ calls[v] # NoCall /\ calls'[v] # NoCall
      /\ calls'[v].at = where
      /\ calls'[v].kind = calls[v].kind
      /\ calls'[v].student = calls[v].student
      /\ calls'[v].section = calls[v].section
      /\ \A u \in Visits \ {v} : calls'[u] = calls[u]
  BY <1>1, Moved DEF IInv
<1>3. TypeOK'
  BY <1>2 DEF IInv, TypeOK
<1>4. VisitsInOrder' /\ LoadingIsEmpty' /\ StepsInOrder'
  BY <1>2 DEF IInv, VisitsInOrder, LoadingIsEmpty, StepsInOrder
<1>5. FlagTellsOfCall' /\ CallMatchesForm'
  BY <1>2 DEF IInv, FlagTellsOfCall, CallMatchesForm, VisitsInOrder
<1>6. CallsInv'
  BY <1>1, <1>2 DEF IInv, CallsInv, AgreedIsDone, CallHasSection, SummaryOfEnrollment, Seat
<1>7. AskingForStudent' /\ TakenIsOfStudent'
  BY NoneAssumption DEF IInv, AskingForStudent, TakenIsOfStudent, SectionsOf
<1>8. CompletionIsReal' /\ ProgressIsGuarded'
  BY DEF IInv, CompletionIsReal, ProgressIsGuarded, LoadingIsEmpty
<1> QED
  BY <1>3, <1>4, <1>5, <1>6, <1>7, <1>8 DEF IInv

\* Nor does an answer that is lost.
LEMMA LoseStep == ASSUME IInv, NEW v \in Visits, Lose(v) PROVE IInv'
<1> USE DEF Lose, form, status, lookup, guard, db
<1>1. PICK where \in {"sent", "refused"} : Move(v, where)
  OBVIOUS
<1>2. /\ calls' \in [Visits -> Call \cup {NoCall}]
      /\ calls[v] \in Call /\ calls[v] # NoCall /\ calls'[v] # NoCall
      /\ calls'[v].at = where
      /\ calls'[v].kind = calls[v].kind
      /\ calls'[v].student = calls[v].student
      /\ calls'[v].section = calls[v].section
      /\ \A u \in Visits \ {v} : calls'[u] = calls[u]
  BY <1>1, Moved DEF IInv
<1>3. TypeOK'
  BY <1>2 DEF IInv, TypeOK
<1>4. VisitsInOrder' /\ LoadingIsEmpty' /\ StepsInOrder'
  BY <1>2 DEF IInv, VisitsInOrder, LoadingIsEmpty, StepsInOrder
<1>5. FlagTellsOfCall' /\ CallMatchesForm'
  BY <1>2 DEF IInv, FlagTellsOfCall, CallMatchesForm, VisitsInOrder
<1>6. CallsInv'
  BY <1>1, <1>2 DEF IInv, CallsInv, AgreedIsDone, CallHasSection, SummaryOfEnrollment, Seat
<1>7. AskingForStudent' /\ TakenIsOfStudent'
  BY NoneAssumption DEF IInv, AskingForStudent, TakenIsOfStudent, SectionsOf
<1>8. CompletionIsReal' /\ ProgressIsGuarded'
  BY DEF IInv, CompletionIsReal, ProgressIsGuarded, LoadingIsEmpty
<1> QED
  BY <1>3, <1>4, <1>5, <1>6, <1>7, <1>8 DEF IInv

\* The summary is of an enrollment that is made.
LEMMA FetchSummaryStep == ASSUME IInv, NEW v \in Visits, FetchSummary(v) PROVE IInv'
<1> USE DEF FetchSummary, form, status, lookup, guard, db
<1>1. PICK where \in {"summary"} : Move(v, where)
  OBVIOUS
<1>2. /\ calls' \in [Visits -> Call \cup {NoCall}]
      /\ calls[v] \in Call /\ calls[v] # NoCall /\ calls'[v] # NoCall
      /\ calls'[v].at = where
      /\ calls'[v].kind = calls[v].kind
      /\ calls'[v].student = calls[v].student
      /\ calls'[v].section = calls[v].section
      /\ \A u \in Visits \ {v} : calls'[u] = calls[u]
  BY <1>1, Moved DEF IInv
<1>3. TypeOK'
  BY <1>2 DEF IInv, TypeOK
<1>4. VisitsInOrder' /\ LoadingIsEmpty' /\ StepsInOrder'
  BY <1>2 DEF IInv, VisitsInOrder, LoadingIsEmpty, StepsInOrder
<1>5. FlagTellsOfCall' /\ CallMatchesForm'
  BY <1>2 DEF IInv, FlagTellsOfCall, CallMatchesForm, VisitsInOrder
<1>6. CallsInv'
  BY <1>1, <1>2 DEF IInv, CallsInv, AgreedIsDone, CallHasSection, SummaryOfEnrollment, Seat
<1>7. AskingForStudent' /\ TakenIsOfStudent'
  BY NoneAssumption DEF IInv, AskingForStudent, TakenIsOfStudent, SectionsOf
<1>8. CompletionIsReal' /\ ProgressIsGuarded'
  BY DEF IInv, CompletionIsReal, ProgressIsGuarded, LoadingIsEmpty
<1> QED
  BY <1>3, <1>4, <1>5, <1>6, <1>7, <1>8 DEF IInv

\* An error gives the page back.
LEMMA HandleRefusalStep == ASSUME IInv, NEW v \in Visits, HandleRefusal(v) PROVE IInv'
<1> USE DEF HandleRefusal, Failed, Mounted, form, status, lookup, guard, db
<1>1. /\ calls' \in [Visits -> Call \cup {NoCall}]
      /\ calls'[v] = NoCall /\ calls[v] # NoCall
      /\ \A u \in Visits \ {v} : calls'[u] = calls[u]
  BY Ended DEF IInv, NoCall
<1>2. TypeOK'
  BY <1>1 DEF IInv, TypeOK
<1>3. VisitsInOrder'
  BY <1>1 DEF IInv, VisitsInOrder
<1>4. LoadingIsEmpty' /\ StepsInOrder'
  BY DEF IInv, LoadingIsEmpty, StepsInOrder
<1>5. FlagTellsOfCall' /\ CallMatchesForm'
  BY <1>1 DEF IInv, VisitsInOrder, FlagTellsOfCall, CallMatchesForm
<1>6. CallsInv'
  BY <1>1
  DEF IInv, CallsInv, AgreedIsDone, CallHasSection, SummaryOfEnrollment, Seat, NoCall
<1>7. AskingForStudent' /\ TakenIsOfStudent'
  BY NoneAssumption DEF IInv, AskingForStudent, TakenIsOfStudent, SectionsOf
<1>8. CompletionIsReal' /\ ProgressIsGuarded'
  BY DEF IInv, CompletionIsReal, ProgressIsGuarded, LoadingIsEmpty
<1> QED
  BY <1>2, <1>3, <1>4, <1>5, <1>6, <1>7, <1>8 DEF IInv

\* So does the loss of the summary.
LEMMA SummaryLostStep == ASSUME IInv, NEW v \in Visits, SummaryLost(v) PROVE IInv'
<1> USE DEF SummaryLost, Failed, Mounted, form, status, lookup, guard, db
<1>1. /\ calls' \in [Visits -> Call \cup {NoCall}]
      /\ calls'[v] = NoCall /\ calls[v] # NoCall
      /\ \A u \in Visits \ {v} : calls'[u] = calls[u]
  BY Ended DEF IInv, NoCall
<1>2. TypeOK'
  BY <1>1 DEF IInv, TypeOK
<1>3. VisitsInOrder'
  BY <1>1 DEF IInv, VisitsInOrder
<1>4. LoadingIsEmpty' /\ StepsInOrder'
  BY DEF IInv, LoadingIsEmpty, StepsInOrder
<1>5. FlagTellsOfCall' /\ CallMatchesForm'
  BY <1>1 DEF IInv, VisitsInOrder, FlagTellsOfCall, CallMatchesForm
<1>6. CallsInv'
  BY <1>1
  DEF IInv, CallsInv, AgreedIsDone, CallHasSection, SummaryOfEnrollment, Seat, NoCall
<1>7. AskingForStudent' /\ TakenIsOfStudent'
  BY NoneAssumption DEF IInv, AskingForStudent, TakenIsOfStudent, SectionsOf
<1>8. CompletionIsReal' /\ ProgressIsGuarded'
  BY DEF IInv, CompletionIsReal, ProgressIsGuarded, LoadingIsEmpty
<1> QED
  BY <1>2, <1>3, <1>4, <1>5, <1>6, <1>7, <1>8 DEF IInv

\* The student who was created is chosen where none was.
LEMMA StudentCreatedStep == ASSUME IInv, NEW v \in Visits, StudentCreated(v) PROVE IInv'
<1> USE DEF StudentCreated, MarkClean, Mounted, form, status, lookup, guard, db
<1>1. /\ calls' \in [Visits -> Call \cup {NoCall}]
      /\ calls'[v] = NoCall /\ calls[v] # NoCall
      /\ \A u \in Visits \ {v} : calls'[u] = calls[u]
  BY Ended DEF IInv, NoCall
<1>2. calls[v] \in Call
  BY <1>1 DEF IInv, TypeOK
<1>3. Mounted(v) => step = 1 /\ student = None
  BY <1>1 DEF IInv, CallMatchesForm
<1>4. TypeOK'
  BY <1>1, <1>2 DEF IInv, TypeOK, Call
<1>5. VisitsInOrder'
  BY <1>1 DEF IInv, VisitsInOrder
<1>6. LoadingIsEmpty' /\ StepsInOrder'
  BY <1>1, <1>3 DEF IInv, LoadingIsEmpty, StepsInOrder, FlagTellsOfCall
<1>7. FlagTellsOfCall' /\ CallMatchesForm'
  BY <1>1 DEF IInv, VisitsInOrder, FlagTellsOfCall, CallMatchesForm
<1>8. CallsInv'
  BY <1>1
  DEF IInv, CallsInv, AgreedIsDone, CallHasSection, SummaryOfEnrollment, Seat, NoCall
<1>9. student = None => taken = {}
  BY DEF IInv, TakenIsOfStudent
<1>10. AskingForStudent'
  BY <1>2, <1>3, NoneAssumption DEF IInv, AskingForStudent, Call
<1>11. TakenIsOfStudent'
  BY <1>3, <1>8, NoneAssumption DEF IInv, TakenIsOfStudent, SectionsOf
<1>12. CompletionIsReal'
  BY <1>3 DEF IInv, CompletionIsReal
<1>13. ~Mounted(v) => haunted'
  BY Zenon
<1>14. ProgressIsGuarded'
  BY <1>12, Zenon DEF IInv, ProgressIsGuarded
<1> QED
  BY <1>2, <1>3, <1>4, <1>5, <1>6, <1>7, <1>8, <1>9, <1>10, <1>11, <1>12, <1>13, <1>14
  DEF IInv

\* The form still says what was submitted and done.
LEMMA CommittedStep == ASSUME IInv, NEW v \in Visits, Committed(v) PROVE IInv'
<1> USE DEF Committed, MarkClean, Mounted, form, status, lookup, guard, db
<1>1. /\ calls' \in [Visits -> Call \cup {NoCall}]
      /\ calls'[v] = NoCall /\ calls[v] # NoCall
      /\ \A u \in Visits \ {v} : calls'[u] = calls[u]
  BY Ended DEF IInv, NoCall
<1>2. Mounted(v) => /\ step = 3 /\ <<student, section>> \in seats
                    /\ calls[v].kind = "pay" => <<student, section>> \in paid
  BY <1>1 DEF IInv, CallMatchesForm, CallsInv, AgreedIsDone, SummaryOfEnrollment, Seat
<1>3. TypeOK'
  <2>1. page' \in {"away", "loading", "ready"} /\ visit' \in 0 .. MaxVisits
    BY <1>1, VisitsAssumption DEF IInv, TypeOK
  <2>2. step' \in 1 .. 4 /\ mode' \in {"select", "create"}
    BY <1>1, NoneAssumption DEF IInv, TypeOK
  <2>3. student' \in Students \cup {None} /\ section' \in Sections \cup {None}
    BY <1>1, NoneAssumption DEF IInv, TypeOK
  <2>4. receipt' \in BOOLEAN /\ submitting' \in BOOLEAN /\ error' \in BOOLEAN
    BY <1>1, Zenon DEF IInv, TypeOK
  <2>5. dirty' \in BOOLEAN /\ leaving' \in BOOLEAN /\ haunted' \in BOOLEAN
    BY <1>1, Zenon DEF IInv, TypeOK
  <2>6. /\ listed' \subseteq Students /\ offered' \subseteq Sections
        /\ asking' \subseteq Students /\ taken' \subseteq Sections
    BY <1>1, NoneAssumption DEF IInv, TypeOK
  <2>7. /\ calls' \in [Visits -> Call \cup {NoCall}]
        /\ students' \subseteq Students /\ seats' \subseteq Seats /\ paid' \subseteq seats'
    BY <1>1, NoneAssumption DEF IInv, TypeOK
  <2> QED
    BY <2>1, <2>2, <2>3, <2>4, <2>5, <2>6, <2>7 DEF TypeOK
<1>4. VisitsInOrder'
  BY <1>1 DEF IInv, VisitsInOrder
<1>5. FlagTellsOfCall' /\ CallMatchesForm'
  BY <1>1 DEF IInv, VisitsInOrder, FlagTellsOfCall, CallMatchesForm
<1>6. CallsInv'
  BY <1>1
  DEF IInv, CallsInv, AgreedIsDone, CallHasSection, SummaryOfEnrollment, Seat, NoCall
<1>7. AskingForStudent' /\ TakenIsOfStudent'
  BY NoneAssumption DEF IInv, AskingForStudent, TakenIsOfStudent, SectionsOf
<1>8. ~Mounted(v) => haunted'
  BY Zenon
<1>9. ProgressIsGuarded'
  BY <1>2, <1>8 DEF IInv, ProgressIsGuarded
<1>10. /\ Mounted(v) => step' = 4 /\ (receipt' => calls[v].kind = "pay")
       /\ ~Mounted(v) => step' = step /\ receipt' = receipt
       /\ ~Mounted(v) => submitting' = submitting
       /\ page' = page /\ student' = student /\ section' = section
       /\ seats' = seats /\ paid' = paid
  BY Zenon
<1> HIDE DEF Committed, MarkClean, Mounted
<1>11. LoadingIsEmpty'
  BY <1>2, <1>10 DEF IInv, LoadingIsEmpty
<1>12. StepsInOrder'
  BY <1>2, <1>10 DEF IInv, StepsInOrder
<1>13. CompletionIsReal'
  BY <1>2, <1>10 DEF IInv, CompletionIsReal
<1> QED
  BY <1>2, <1>3, <1>4, <1>5, <1>6, <1>7, <1>8, <1>9, <1>10, <1>11, <1>12, <1>13 DEF IInv

\* Seats that others take take nothing away.
LEMMA EnrolledElsewhereStep ==
    ASSUME IInv, NEW e \in Seats, EnrolledElsewhere(e)
    PROVE  IInv'
<1> USE DEF EnrolledElsewhere, form, status, lookup, guard, db
<1>1. TypeOK'
  BY DEF IInv, TypeOK
<1>2. VisitsInOrder'
  BY DEF IInv, VisitsInOrder
<1>3. LoadingIsEmpty' /\ StepsInOrder'
  BY NoneAssumption DEF IInv, TypeOK, LoadingIsEmpty, StepsInOrder
<1>4. FlagTellsOfCall' /\ CallMatchesForm'
  BY DEF IInv, FlagTellsOfCall, CallMatchesForm
<1>5. CallsInv'
  BY DEF IInv, CallsInv, AgreedIsDone, CallHasSection, SummaryOfEnrollment, Seat
<1>6. AskingForStudent' /\ TakenIsOfStudent'
  BY NoneAssumption DEF IInv, AskingForStudent, TakenIsOfStudent, SectionsOf
<1>7. CompletionIsReal' /\ ProgressIsGuarded'
  BY DEF IInv, CompletionIsReal, ProgressIsGuarded, LoadingIsEmpty
<1> QED
  BY <1>1, <1>2, <1>3, <1>4, <1>5, <1>6, <1>7 DEF IInv

-----------------------------------------------------------------------------
(* The theorems.                                                           *)

\* Every step keeps the invariant.
LEMMA NextIInv == IInv /\ [Next]_vars => IInv'
<1> SUFFICES ASSUME IInv, [Next]_vars PROVE IInv'
  OBVIOUS
<1>1. ASSUME NEW v \in Visits, Answered(v) \/ Lose(v) PROVE IInv'
  BY <1>1, AgreeStep, RefuseStep, LoseStep, HandleRefusalStep, StudentCreatedStep,
     FetchSummaryStep, SummaryLostStep, CommittedStep DEF Answered
<1>2. CASE UNCHANGED vars
  BY <1>2 DEF vars, form, status, lookup, guard, db, IInv, TypeOK, VisitsInOrder,
     LoadingIsEmpty, FlagTellsOfCall, StepsInOrder, CallMatchesForm, CallsInv, AgreedIsDone,
     CallHasSection, SummaryOfEnrollment, AskingForStudent, CompletionIsReal,
     TakenIsOfStudent, ProgressIsGuarded, SectionsOf, Seat
<1>3. CASE Next
  BY <1>1, <1>3, EnterStep, FetchLookupsStep, GuardNavigationStep, ConfirmLeaveStep,
     CancelLeaveStep, NavigateStep, TypeStep, SetModeStep, HandleSelectStudentStep,
     ClearStudentStep, FetchStudentEnrollmentsStep, SetSectionStep, HandleNextStep,
     BackStep, HandleFinishStep, HandleCreateStudentStep, HandleCommitStep,
     EnrolledElsewhereStep DEF Next
<1> QED
  BY <1>2, <1>3

\* The invariant holds in every state of every behaviour.
THEOREM Invariance == Spec => []IInv
  BY InitIInv, NextIInv, PTL DEF Spec

\* The state is always of its type, and only seats that are taken are paid for.
THEOREM TypeCorrect == Spec => []TypeOK
<1>1. IInv => TypeOK
  BY DEF IInv
<1> QED
  BY <1>1, Invariance, PTL

\* What the completion screen says of the seat and of its payment is so in the
\* database, whatever became of the requests and however the page was left before.
THEOREM CompletionCorrect == Spec => []CompletionIsReal
<1>1. IInv => CompletionIsReal
  BY DEF IInv
<1> QED
  BY <1>1, Invariance, PTL

\* No answer about another student holds sections back.
THEOREM TakenCorrect == Spec => []TakenIsOfStudent
<1>1. IInv => TakenIsOfStudent
  BY DEF IInv
<1> QED
  BY <1>1, Invariance, PTL

\* A registration with a section is guarded until it is made, but for submissions
\* of earlier visits.
THEOREM GuardCorrect == Spec => []ProgressIsGuarded
<1>1. IInv => ProgressIsGuarded
  BY DEF IInv
<1> QED
  BY <1>1, Invariance, PTL
=============================================================================
