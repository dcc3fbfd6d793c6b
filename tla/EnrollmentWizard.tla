--------------------------- MODULE EnrollmentWizard ---------------------------
(***************************************************************************)
(* The wizard that registers a student, enrolls him and takes his first    *)
(* payment: the steps of the page, the requests it sends, and the guard in *)
(* the layout that asks before the page is left.  A request goes on when   *)
(* its page is gone, and its answer still reaches the guard.               *)
(*                                                                         *)
(* The server is two endpoints, each one transaction: a student's code is  *)
(* registered once, a seat is taken once, alone or with its payment.  How  *)
(* two such transactions interleave is in Enrollments, how a request is    *)
(* sent again is in ApiClient.  Prices, discounts and amounts are left     *)
(* out: the server may refuse any of them.                                 *)
(***************************************************************************)
EXTENDS Naturals

CONSTANTS
    Students,       \* the codes a student may have
    Registered,     \* the students there are to begin with
    Sections,
    MaxVisits,      \* bound: how often the page is opened
    None            \* no student, no section

Visits == 1 .. MaxVisits
Seats  == Students \X Sections

ASSUME RegisteredAssumption == Registered \subseteq Students
ASSUME NoneAssumption       == None \notin Students \cup Sections
ASSUME VisitsAssumption     == MaxVisits \in Nat \ {0}

VARIABLES
    page,           \* the wizard is not there, loads its lookups, is filled in
    visit,          \* which time the page is opened
    step, mode, student, section,   \* of the reducer's state
    submitting, error,
    receipt,        \* the payment of the completion screen
    listed,         \* the students and the sections of the lookups
    offered,
    asking,         \* the students whose enrollments are asked for
    taken,          \* enrolledSectionIds
    dirty,          \* the guard: isDirty, showLeaveConfirm
    leaving,
    calls,          \* the submission of each visit, while it is under way
    students,       \* of the database: students, seats and the paid ones
    seats,
    paid,
    haunted         \* history: a submission of an earlier visit ended in this one

form   == <<step, mode, student, section, receipt>>
status == <<submitting, error>>
lookup == <<listed, offered, asking, taken>>
guard  == <<dirty, leaving>>
db     == <<students, seats, paid>>
vars   == <<page, visit, form, status, lookup, guard, calls, db, haunted>>

Call   == [kind : {"create", "enroll", "pay"}, student : Students,
           section : Sections \cup {None}, at : {"sent", "agreed", "refused", "summary"}]
NoCall == [kind |-> "none", student |-> None, section |-> None, at |-> "ended"]

SectionsOf(s) == {c \in Sections : <<s, c>> \in seats}

Seat(call) == <<call.student, call.section>>

\* The page of a visit is still there.
Mounted(v) == v = visit /\ page # "away"

Init ==
    /\ page = "away"
    /\ visit = 0
    /\ step = 1
    /\ mode = "select"
    /\ student = None
    /\ section = None
    /\ receipt = FALSE
    /\ submitting = FALSE
    /\ error = FALSE
    /\ listed = {}
    /\ offered = {}
    /\ asking = {}
    /\ taken = {}
    /\ dirty = FALSE
    /\ leaving = FALSE
    /\ calls = [v \in Visits |-> NoCall]
    /\ students = Registered
    /\ seats \in SUBSET (Registered \X Sections)
    /\ paid = {}
    /\ haunted = FALSE

-----------------------------------------------------------------------------
\* The page is opened and left.

\* createInitialWizard1State; the guard outlives the page and keeps its state.
Enter ==
    /\ page = "away"
    /\ visit < MaxVisits
    /\ page' = "loading"
    /\ visit' = visit + 1
    /\ step' = 1
    /\ mode' = "select"
    /\ student' = None
    /\ section' = None
    /\ receipt' = FALSE
    /\ submitting' = FALSE
    /\ error' = FALSE
    /\ listed' = {}
    /\ offered' = {}
    /\ asking' = {}
    /\ taken' = {}
    /\ haunted' = FALSE
    /\ UNCHANGED <<guard, calls, db>>

\* A lookup that fails leaves its list empty.
FetchLookups ==
    /\ page = "loading"
    /\ page' = "ready"
    /\ listed' \in {students, {}}
    /\ offered' \in {Sections, {}}
    /\ UNCHANGED <<visit, form, status, asking, taken, guard, calls, db, haunted>>

Leave == page' = "away" /\ leaving' = FALSE

\* The sidebar, the language and the logout ask the guard first.
GuardNavigation ==
    /\ page # "away"
    /\ ~leaving
    /\ \/ dirty /\ leaving' = TRUE /\ UNCHANGED page
       \/ ~dirty /\ Leave
    /\ UNCHANGED <<visit, form, status, lookup, dirty, calls, db, haunted>>

ConfirmLeave ==
    /\ leaving
    /\ dirty' = FALSE
    /\ Leave
    /\ UNCHANGED <<visit, form, status, lookup, calls, db, haunted>>

CancelLeave ==
    /\ leaving
    /\ leaving' = FALSE
    /\ UNCHANGED <<page, visit, form, status, lookup, dirty, calls, db, haunted>>

\* The browser's own buttons, the search and the bell do not.
Navigate ==
    /\ page # "away"
    /\ ~leaving
    /\ Leave
    /\ UNCHANGED <<visit, form, status, lookup, dirty, calls, db, haunted>>

-----------------------------------------------------------------------------
\* What the user does on the page, unless the guard's question covers it.

AtStep(n) == page = "ready" /\ step = n /\ ~leaving

Unfilled == UNCHANGED <<page, visit, leaving, calls, db, haunted>>

\* The inputs stay open while a submission is under way.
Type ==
    /\ \/ AtStep(1) /\ student = None /\ mode = "create"
       \/ AtStep(2) \/ AtStep(3)
    /\ dirty' = TRUE
    /\ UNCHANGED <<form, status, lookup>>
    /\ Unfilled

SetMode(m) ==
    /\ AtStep(1)
    /\ student = None
    /\ m # mode
    /\ m = "select" => ~submitting
    /\ mode' = m
    /\ dirty' = TRUE
    /\ UNCHANGED <<step, student, section, receipt, status, lookup>>
    /\ Unfilled

\* Choosing a student asks for his enrollments.
HandleSelectStudent(s) ==
    /\ AtStep(1)
    /\ student = None
    /\ mode = "select"
    /\ s \in listed
    /\ student' = s
    /\ section' = None
    /\ error' = FALSE
    /\ asking' = asking \cup {s}
    /\ dirty' = TRUE
    /\ UNCHANGED <<step, mode, receipt, submitting, listed, offered, taken>>
    /\ Unfilled

\* Mutant: the answer about the student who was chosen before is kept.
ClearStudent_keepsAsking ==
    /\ AtStep(1)
    /\ student # None
    /\ ~submitting
    /\ student' = None
    /\ mode' = "select"
    /\ section' = None
    /\ error' = FALSE
    /\ taken' = {}
    /\ dirty' = TRUE
    /\ UNCHANGED <<step, receipt, submitting, listed, offered, asking>>
    /\ Unfilled

\* The effect's cleanup drops the answer that is under way.
ClearStudent ==
    /\ AtStep(1)
    /\ student # None
    /\ ~submitting
    /\ student' = None
    /\ mode' = "select"
    /\ section' = None
    /\ error' = FALSE
    /\ asking' = {}
    /\ taken' = {}
    /\ dirty' = TRUE
    /\ UNCHANGED <<step, receipt, submitting, listed, offered>>
    /\ Unfilled

\* A failure stands for no enrollments.
FetchStudentEnrollments(s) ==
    /\ page # "away"
    /\ s \in asking
    /\ asking' = asking \ {s}
    /\ taken' \in {SectionsOf(s), {}}
    /\ UNCHANGED <<form, status, listed, offered, dirty>>
    /\ Unfilled

\* Mutant: choosing a section is not progress.
SetSection_unmarked(c) ==
    /\ AtStep(2)
    /\ c \in (offered \ taken) \cup {None}
    /\ section' = c
    /\ error' = FALSE
    /\ UNCHANGED <<step, mode, student, receipt, submitting, lookup, dirty>>
    /\ Unfilled

SetSection(c) ==
    /\ AtStep(2)
    /\ c \in (offered \ taken) \cup {None}
    /\ section' = c
    /\ error' = FALSE
    /\ dirty' = TRUE
    /\ UNCHANGED <<step, mode, student, receipt, submitting, lookup>>
    /\ Unfilled

\* The buttons of the bar are disabled while something is submitted.
HandleNext ==
    /\ ~submitting
    /\ LET missing == IF step = 1 THEN student = None ELSE section = None
       IN  /\ AtStep(1) \/ AtStep(2)
           /\ step' = IF missing THEN step ELSE step + 1
           /\ error' = missing
    /\ UNCHANGED <<mode, student, section, receipt, submitting, lookup, dirty>>
    /\ Unfilled

\* Mutant: the button is not disabled while something is submitted.
Back_enabled ==
    /\ AtStep(2) \/ AtStep(3)
    /\ step' = step - 1
    /\ error' = FALSE
    /\ UNCHANGED <<mode, student, section, receipt, submitting, lookup, dirty>>
    /\ Unfilled

Back ==
    /\ AtStep(2) \/ AtStep(3)
    /\ ~submitting
    /\ step' = step - 1
    /\ error' = FALSE
    /\ UNCHANGED <<mode, student, section, receipt, submitting, lookup, dirty>>
    /\ Unfilled

HandleFinish ==
    /\ AtStep(4)
    /\ step' = 1
    /\ mode' = "select"
    /\ student' = None
    /\ section' = None
    /\ receipt' = FALSE
    /\ error' = FALSE
    /\ asking' = {}
    /\ taken' = {}
    /\ dirty' = FALSE
    /\ UNCHANGED <<submitting, listed, offered>>
    /\ Unfilled

-----------------------------------------------------------------------------
\* The submissions.

Submit(kind, s, c) ==
    /\ ~submitting
    /\ submitting' = TRUE
    /\ error' = FALSE
    /\ calls' = [calls EXCEPT ![visit] =
                    [kind |-> kind, student |-> s, section |-> c, at |-> "sent"]]
    /\ UNCHANGED <<page, visit, form, lookup, guard, db, haunted>>

HandleCreateStudent(s) ==
    /\ AtStep(1)
    /\ student = None
    /\ mode = "create"
    /\ Submit("create", s, None)

\* With the payment, or without it when the step is skipped.
HandleCommit(kind) ==
    /\ AtStep(3)
    /\ Submit(kind, student, section)

\* The call of visit v goes on to where it is next, or ends.
Move(v, where) == calls' = [calls EXCEPT ![v].at = where]
End(v)         == calls' = [calls EXCEPT ![v] = NoCall]

\* POST /students, /enrollments or /enrollments/with-payment commits.
Agree(v) ==
    LET call == calls[v] IN
    /\ call.at = "sent"
    /\ \/ /\ call.kind = "create"
          /\ call.student \notin students
          /\ students' = students \cup {call.student}
          /\ UNCHANGED <<seats, paid>>
       \/ /\ call.kind # "create"
          /\ Seat(call) \notin seats
          /\ seats' = seats \cup {Seat(call)}
          /\ paid' = IF call.kind = "pay" THEN paid \cup {Seat(call)} ELSE paid
          /\ UNCHANGED students
    /\ Move(v, "agreed")
    /\ UNCHANGED <<page, visit, form, status, lookup, guard, haunted>>

\* The request is refused or lost: to the page both are an error.
Refuse(v) ==
    /\ calls[v].at = "sent"
    /\ Move(v, "refused")
    /\ UNCHANGED <<page, visit, form, status, lookup, guard, db, haunted>>

\* The answer is lost: the client sends the request again, or gives up.
Lose(v) ==
    /\ calls[v].at = "agreed"
    /\ Move(v, "sent") \/ Move(v, "refused")
    /\ UNCHANGED <<page, visit, form, status, lookup, guard, db, haunted>>

\* Mutant: the error is shown, and the flag of the submission stays up.
Failed_submitting(v) ==
    /\ End(v)
    /\ error' = (error \/ Mounted(v))
    /\ UNCHANGED <<page, visit, form, submitting, lookup, guard, db, haunted>>

\* SET_ERROR, unless the page is gone.
Failed(v) ==
    /\ End(v)
    /\ submitting' = (submitting /\ ~Mounted(v))
    /\ error' = (error \/ Mounted(v))
    /\ UNCHANGED <<page, visit, form, lookup, guard, db, haunted>>

HandleRefusal(v) == calls[v].at = "refused" /\ Failed(v)

\* markClean reaches the guard from a page that is gone, too.
MarkClean(v) ==
    /\ dirty' = FALSE
    /\ haunted' = (haunted \/ ~Mounted(v))
    /\ UNCHANGED leaving

\* CREATE_STUDENT_SUCCESS: the student is chosen, and his enrollments asked for.
StudentCreated(v) ==
    /\ calls[v].at = "agreed"
    /\ calls[v].kind = "create"
    /\ End(v)
    /\ MarkClean(v)
    /\ \/ /\ Mounted(v)
          /\ submitting' = FALSE
          /\ student' = calls[v].student
          /\ section' = None
          /\ asking' = {calls[v].student}
       \/ /\ ~Mounted(v)
          /\ UNCHANGED <<submitting, student, section, asking>>
    /\ UNCHANGED <<page, visit, step, mode, receipt, error, listed, offered, taken, db>>

\* The enrollment is made; its summary is asked for before anything is shown.
FetchSummary(v) ==
    /\ calls[v].at = "agreed"
    /\ calls[v].kind # "create"
    /\ Move(v, "summary")
    /\ UNCHANGED <<page, visit, form, status, lookup, guard, db, haunted>>

SummaryLost(v) == calls[v].at = "summary" /\ Failed(v)

\* COMMIT_SUCCESS: the screen shows the student and the section of the form.
Committed(v) ==
    /\ calls[v].at = "summary"
    /\ End(v)
    /\ MarkClean(v)
    /\ \/ /\ Mounted(v)
          /\ step' = 4
          /\ submitting' = FALSE
          /\ receipt' = (calls[v].kind = "pay")
       \/ /\ ~Mounted(v)
          /\ UNCHANGED <<step, submitting, receipt>>
    /\ UNCHANGED <<page, visit, mode, student, section, error, lookup, db>>

\* Another desk enrolls a student.
EnrolledElsewhere(e) ==
    /\ e[1] \in students
    /\ e \notin seats
    /\ seats' = seats \cup {e}
    /\ UNCHANGED <<page, visit, form, status, lookup, guard, calls, students, paid, haunted>>

-----------------------------------------------------------------------------
Answered(v) ==
    \/ Agree(v) \/ Refuse(v) \/ HandleRefusal(v) \/ StudentCreated(v)
    \/ FetchSummary(v) \/ SummaryLost(v) \/ Committed(v)

Next ==
    \/ Enter \/ FetchLookups
    \/ GuardNavigation \/ ConfirmLeave \/ CancelLeave \/ Navigate
    \/ Type \/ ClearStudent \/ HandleNext \/ Back \/ HandleFinish
    \/ \E m \in {"select", "create"} : SetMode(m)
    \/ \E s \in Students :
          HandleSelectStudent(s) \/ FetchStudentEnrollments(s) \/ HandleCreateStudent(s)
    \/ \E c \in Sections \cup {None} : SetSection(c)
    \/ \E kind \in {"enroll", "pay"} : HandleCommit(kind)
    \/ \E v \in Visits : Answered(v) \/ Lose(v)
    \/ \E e \in Seats : EnrolledElsewhere(e)

\* The server and the network answer in the end.
Spec == Init /\ [][Next]_vars /\ \A v \in Visits : WF_vars(Answered(v))

-----------------------------------------------------------------------------
TypeOK ==
    /\ page \in {"away", "loading", "ready"}
    /\ visit \in 0 .. MaxVisits
    /\ step \in 1 .. 4
    /\ mode \in {"select", "create"}
    /\ student \in Students \cup {None}
    /\ section \in Sections \cup {None}
    /\ receipt \in BOOLEAN /\ submitting \in BOOLEAN /\ error \in BOOLEAN
    /\ listed \subseteq Students
    /\ offered \subseteq Sections
    /\ asking \subseteq Students
    /\ taken \subseteq Sections
    /\ dirty \in BOOLEAN /\ leaving \in BOOLEAN
    /\ calls \in [Visits -> Call \cup {NoCall}]
    /\ students \subseteq Students
    /\ seats \subseteq Seats
    /\ paid \subseteq seats
    /\ haunted \in BOOLEAN

\* What the completion screen says is so: the student it names has a seat in the
\* section it names, and a receipt stands for a payment of that seat.  The screen
\* shows the form as it is by then, not as it was sent.
CompletionIsReal ==
    step = 4 => /\ <<student, section>> \in seats
                /\ receipt => <<student, section>> \in paid

\* The sections that are held back are those of the student who is chosen, however
\* often the choice changed while answers were under way.
TakenIsOfStudent == taken \subseteq (IF student = None THEN {} ELSE SectionsOf(student))

\* The guard asks before a registration that has come as far as a section is left,
\* and so while it is submitted; only a submission that outlived an earlier visit
\* of the page can take the guard away.
ProgressIsGuarded == section # None /\ step < 4 /\ page = "ready" => dirty \/ haunted

\* A submission ends, well or badly, and gives the page back.
EverySubmissionEnds == submitting ~> ~submitting \/ page = "away"
=============================================================================
