---------------------------- MODULE AcademicScreens ----------------------------
(***************************************************************************)
(* The pages of the teaching: courses, sections, enrollments, students,    *)
(* certificates, attendance and grades.                                    *)
(***************************************************************************)
EXTENDS ScreenRules

-----------------------------------------------------------------------------
\* Courses.

Courses_fetchCourses ==
    Load({"mount", "asked", "reload"}, "loading", {"first", "clear"}, {"unspin"},
         {"unspin", "error"})

\* The button is disabled, the handler has no guard of its own.
Courses_handleSave ==
    Held(Handler("save_course", "submitting", {"lock"}, {"close", "unlock", "reload"},
                 {"unlock"}))

Courses_form == Changing({"courses"}, Form(Courses_handleSave, Staff, {}))

Courses_handleDelete ==
    Handler("delete_course", "", {}, {"close", "reload"}, {"close"})

Courses_delete == OnRow("courses", Form(Courses_handleDelete, Staff, {}))

Courses_table == Region({}, "courses", [delete |-> Courses_delete])

CoursesPage ==
    Screen(PageRoles.courses, {"loading"}, {}, [courses |-> Courses_fetchCourses],
           {Region({}, "", [save |-> Courses_form]), Courses_table})

-----------------------------------------------------------------------------
\* The dialogs about a section.  One that fails stays open.

CancelSection_loadPreview ==
    Load({"preview"}, "cancelling", {"spin", "forget"}, {"unspin"}, {"unspin"})

CancelSection_handleConfirm ==
    Held(Handler("cancel_section", "cancelling", {"lock"}, {"reload", "close", "unlock"},
                 {"unlock"}))

CancelSectionModal == Form(CancelSection_handleConfirm, Managers, {"preview"})

DeactivateSection_handleConfirm ==
    Held(Handler("deactivate_section", "deactivating", {"lock"}, {"reload", "close", "unlock"},
                 {"unlock"}))

DeactivateSectionModal == Form(DeactivateSection_handleConfirm, Superadmin, {})

CompleteSection_handleConfirm ==
    Held(Handler("complete_section", "overriding", {"lock"}, {"reload", "close", "unlock"},
                 {"unlock"}))

CompleteSectionModal == AfterRefusal(Form(CompleteSection_handleConfirm, Staff, {}))

Unenroll_loadPreview ==
    Load({"preview"}, "unenrolling", {"spin", "forget"}, {"unspin"}, {"unspin"})

Unenroll_handleConfirm ==
    Held(Handler("unenroll", "unenrolling", {"lock"}, {"reload", "close", "unlock"}, {"unlock"}))

UnenrollModal == Form(Unenroll_handleConfirm, Staff, {"preview"})

\* The two dialogs on their own: nothing can be confirmed before its preview.
Confirming(load, op) ==
    Screen(op.by, {}, {}, [preview |-> load],
           {Region({}, "", [confirm |-> Needing("preview", op)])})

CancelSectionDialog == Confirming(CancelSection_loadPreview, CancelSectionModal)
UnenrollDialog      == Confirming(Unenroll_loadPreview, UnenrollModal)

-----------------------------------------------------------------------------
\* The sections.

\* The courses, teachers and students of the forms: what fails is missing.
Sections_fetchLookups == Load({"mount"}, "", {}, {}, {})

Sections_fetchSections ==
    Load({"mount", "asked", "reload"}, "loading", {"first"}, {"unspin"}, {"unspin", "error"})

\* The section is saved, then the contract of its teacher if one is chosen.
Sections_handleSave ==
    Held(PerhapsThen(Handler("save_section", "submitting", {"lock"},
                             {"close", "reload", "unlock"}, {"unlock"}), {}))

Sections_form == Changing({"sections"}, Form(Sections_handleSave, Staff, {}))

\* The request for a raise, in a dialog inside that form.
SectionForm_amend ==
    Inside("save", Form(Held(Handler("amend", "saving", {"lock"}, {"close", "unlock"}, {"unlock"})),
                        Staff, {}))

Sections_handleDelete ==
    OnRow("sections", Form(Handler("delete_section", "", {}, {"close", "reload"}, {"close"}),
                           Superadmin, {}))

Sections_handleActivate ==
    OnRow("sections", Click(Handler("activate", "", {}, {"reload"}, {}), Staff))

Sections_handleRegister ==
    Held(Handler("enroll", "registering", {"lock"}, {"close", "reload", "unlock"}, {"unlock"}))

Sections_register == OnRow("sections", Form(Sections_handleRegister, Staff, {}))

\* The button shows a flag that nothing sets; some refusals ask for a reason.
SectionsTable_complete ==
    OnRow("sections",
          Click(Escalating("override", Handler("complete_section", "", {}, {"reload"}, {})), Staff))

SectionsTable ==
    Region({}, "sections",
           [delete   |-> Sections_handleDelete,   activate   |-> Sections_handleActivate,
            register |-> Sections_register,       complete   |-> SectionsTable_complete,
            cancel   |-> OnRow("sections", CancelSectionModal),
            deactivate |-> OnRow("sections", DeactivateSectionModal),
            override |-> OnRow("sections", CompleteSectionModal)])

SectionsPage ==
    Dismissible(
        Screen(PageRoles.sections, {"loading"}, {},
               [sections |-> Sections_fetchSections, lookups |-> Sections_fetchLookups],
               {Region({}, "", [save |-> Sections_form, amend |-> SectionForm_amend]),
                SectionsTable}))

-----------------------------------------------------------------------------
\* One section: it, its students and its contract are asked for together, and
\* only the section itself is missed when its answer does not come: the page then
\* says that there is none, even when it was shown before.  The page waits for all
\* of them: the one flag of the code is up while one of the two here is.

Section_fetchData ==
    Load({"mount", "asked", "reload"}, "loading", {"spin"}, {"unspin"}, {"unspin", "forget"})

Section_fetchStudents ==
    Load({"mount", "asked", "reload"}, "loadingStudents", {"spin"}, {"unspin"}, {"unspin"})

Section_loadUnenrollHistory ==
    Load({"asked"}, "loadingUnenrollHistory", {"spin"}, {"unspin"}, {"unspin"})

\* The contract is active, then the two are asked for again; one that does not
\* come is left as it was.
useSectionActivation ==
    Held(Following(Handler("activate", "activating", {"lock"}, {"patch", "unlock"}, {"unlock"}),
                   {}))

Section_handleCompleteClick ==
    Held(Escalating("override", Handler("complete_section", "submitting", {"lock"},
                                        {"reload", "unlock"}, {"unlock"})))

Section_actions ==
    Region({}, "",
           [activate   |-> Changing({"section"}, Click(useSectionActivation, Staff)),
            complete   |-> Changing({"section"}, Click(Section_handleCompleteClick, Staff)),
            cancel     |-> Changing({"section", "students"}, CancelSectionModal),
            deactivate |-> Changing({"section", "students"}, DeactivateSectionModal),
            override   |-> Changing({"section"}, CompleteSectionModal)])

Section_students ==
    Region({}, "students",
           [unenroll |-> Changing({"students", "history"}, OnRow("students", UnenrollModal))])

Section_history == Region({"loadingUnenrollHistory"}, "history", NoOps)

SectionPage ==
    Dismissible(
        Screen(PageRoles.sections, {"loading", "loadingStudents"}, {"section"},
               [section |-> Section_fetchData, students |-> Section_fetchStudents,
                history |-> Section_loadUnenrollHistory],
               {Section_actions, Section_students, Section_history}))

-----------------------------------------------------------------------------
\* The enrollments.

Enrollments_fetchLookups == Load({"mount", "lookup"}, "", {}, {}, {})

Enrollments_fetchEnrollments ==
    Load({"mount", "asked", "reload"}, "loading", {"first", "clear"}, {"unspin"},
         {"unspin", "error"})

\* A reference, and not the flag of the last rendering, is what both handlers ask.
Enrollments_handleSave ==
    Held(Handler("enroll", "submitting", {"lock"}, {"close", "lookup", "reload", "unlock"},
                 {"unlock"}))

Enrollments_form == Changing({"enrollments"}, Form(Enrollments_handleSave, Staff, {}))

Enrollments_handleCreateStudent ==
    Held(Handler("create_student", "submitting", {"lock"}, {"patch", "close", "unlock"},
                 {"unlock"}))

Enrollments_student ==
    Changing({"lookups"}, Inside("enroll", Form(Enrollments_handleCreateStudent, Staff, {})))

Enrollments_handleDelete ==
    Form(Handler("delete_enrollment", "", {}, {"close", "reload"}, {"close"}), Superadmin, {})

Enrollments_table ==
    Region({}, "enrollments", [unenroll |-> OnRow("enrollments", UnenrollModal),
                               delete   |-> OnRow("enrollments", Enrollments_handleDelete)])

EnrollmentsPage ==
    Screen(PageRoles.enrollments, {"loading"}, {},
           [enrollments |-> Enrollments_fetchEnrollments, lookups |-> Enrollments_fetchLookups],
           {Region({}, "", [enroll |-> Enrollments_form, student |-> Enrollments_student]),
            Enrollments_table})

\* The students.

Students_fetchStudents ==
    Load({"mount", "asked", "reload"}, "loading", {"first", "clear"}, {"unspin"},
         {"unspin", "error"})

Students_handleSave ==
    Held(Handler("save_student", "submitting", {"lock"}, {"close", "reload", "unlock"},
                 {"unlock"}))

Students_form == Changing({"students"}, Form(Students_handleSave, Staff, {}))

Students_handleDelete ==
    OnRow("students", Form(Handler("delete_student", "", {}, {"close", "reload"}, {"close"}),
                           Superadmin, {}))

Students_table ==
    Region({}, "students", [delete |-> Students_handleDelete])

StudentsPage ==
    Screen(PageRoles.students, {"loading"}, {}, [students |-> Students_fetchStudents],
           {Region({}, "", [save |-> Students_form]), Students_table})

-----------------------------------------------------------------------------
\* One student: one answer brings everything, and a failure says nothing.

Student_fetchStudent ==
    Load({"mount", "asked", "reload"}, "loading", {"first"}, {"unspin"}, {"unspin"})

Student_loadUnenrollHistory ==
    Load({"asked"}, "loadingUnenrollHistory", {"spin"}, {"unspin"}, {"unspin"})

\* Nothing marks that it is under way.
Student_handleQuickEnroll == Handler("enroll", "", {}, {"close", "reload"}, {})

Student_quickEnroll == Changing({"student"}, Form(Student_handleQuickEnroll, Staff, {}))

Student_enrollments  == Region({}, "student", NoOps)
Student_payments     == Region({}, "student", NoOps)
Student_certificates == Region({}, "student", NoOps)
Student_history      == Region({"loadingUnenrollHistory"}, "history", NoOps)

\* What the cash desk owes the student, in a badge that is not there otherwise.
PendingRefundBadge_fetchRefunds ==
    Load({"mount"}, "badge", {"first"}, {"unspin"}, {"unspin", "forget"})

PendingRefundBadge == Region({"badge"}, "", NoOps)

StudentPage ==
    Screen(PageRoles.students, {"loading"}, {"student"},
           [student |-> Student_fetchStudent, history |-> Student_loadUnenrollHistory,
            refunds |-> PendingRefundBadge_fetchRefunds],
           {Region({}, "", [enroll |-> Student_quickEnroll]), Student_enrollments,
            Student_payments, Student_certificates, Student_history, PendingRefundBadge})

-----------------------------------------------------------------------------
\* The certificates: every request has a number, and only the answer to the
\* last one counts.

Certificates_load ==
    Cancelling(Load({"mount", "asked", "reload"}, "initialLoading", {"first", "clear"},
                    {"unspin"}, {"unspin", "forget", "error"}))

Certificates_lookups == Load({"mount"}, "", {}, {}, {})

Certificates_handleDelete ==
    Held(Handler("delete_certificate", "submitting", {"lock"}, {"close", "reload", "unlock"},
                 {"close", "unlock"}))

Certificates_handleBulkDelete ==
    Held(Handler("delete_certificates", "bulkSubmitting", {"lock"},
                 {"close", "reload", "unlock"}, {"close", "unlock"}))

Certificates_table ==
    Region({}, "certificates",
           [delete |-> OnRow("certificates", Form(Certificates_handleDelete, Managers, {})),
            bulk   |-> OnRow("certificates", Form(Certificates_handleBulkDelete, Managers, {}))])

CertificatesPage ==
    Dismissible(
        Screen(PageRoles.certificates, {"initialLoading"}, {},
               [certificates |-> Certificates_load, lookups |-> Certificates_lookups],
               {Certificates_table}))

\* One certificate in a window of its own.
CertificatePreview_load ==
    Cancelling(Load({"mount"}, "loading", {"first"}, {"unspin"}, {"unspin", "error"}))

CertificatePreview ==
    Screen(PageRoles.certificates, {}, {}, [certificate |-> CertificatePreview_load],
           {Region({"loading"}, "certificate", NoOps)})

-----------------------------------------------------------------------------
\* The sheets of a section: the final grades, and the roll of a day.

Gradebook_fetchData ==
    Load({"mount", "asked"}, "loading", {"first"}, {"unspin"}, {"unspin", "error"})

Gradebook_loadSection == Load({"asked"}, "", {}, {}, {"error"})

\* What the teacher typed stays on the sheet.
Gradebook_handleSaveAll ==
    Held(Handler("save_grades", "saving", {"lock"}, {"patch", "unlock"}, {"unlock"}))

Gradebook_sheet ==
    Region({}, "sheet", [save |-> OnRow("sheet", Click(Gradebook_handleSaveAll, Teaching))])

GradebookPage ==
    Dismissible(
        Screen(PageRoles.gradebook, {"loading"}, {},
               [sections |-> Gradebook_fetchData, sheet |-> Gradebook_loadSection],
               {Gradebook_sheet}))

Attendance_fetchData ==
    Load({"mount", "asked"}, "loading", {"first"}, {"unspin"}, {"unspin", "error"})

Attendance_loadSection == Load({"asked"}, "", {}, {}, {"error"})

\* The session of the day is made when there is none, then the records.
Attendance_handleCreateOrSave ==
    Held(PerhapsThen(Handler("save_attendance", "saving", {"lock", "clear"},
                             {"patch", "unlock"}, {"error", "unlock"}), {"patch"}))

Attendance_save ==
    After("roll", Changing({"roll"}, Click(Attendance_handleCreateOrSave, Teaching)))

Attendance_roll == Region({}, "roll", NoOps)

AttendancePage ==
    Dismissible(
        Screen(PageRoles.attendance, {"loading"}, {},
               [sections |-> Attendance_fetchData, roll |-> Attendance_loadSection],
               {Region({}, "", [save |-> Attendance_save]), Attendance_roll}))

\* The sheet to print: what cannot be asked for is left blank.
AttendancePrint_fetchData ==
    Load({"mount"}, "loading", {"first"}, {"unspin"}, {"unspin"})

AttendancePrintPage ==
    Screen(PageRoles.attendance, {"loading"}, {}, [sheet |-> AttendancePrint_fetchData],
           {Region({}, "sheet", NoOps)})

AcademicScreens ==
    [courses |-> CoursesPage, sections |-> SectionsPage, section |-> SectionPage,
     cancel_section |-> CancelSectionDialog, unenroll |-> UnenrollDialog,
     enrollments |-> EnrollmentsPage, students |-> StudentsPage, student |-> StudentPage,
     certificates |-> CertificatesPage, certificate |-> CertificatePreview,
     gradebook |-> GradebookPage, attendance |-> AttendancePage,
     attendance_print |-> AttendancePrintPage]
=============================================================================
