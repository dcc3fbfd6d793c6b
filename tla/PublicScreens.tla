---------------------------- MODULE PublicScreens ----------------------------
(***************************************************************************)
(* The portal of students and parents, and the public site.                *)
(***************************************************************************)
EXTENDS ScreenRules

-----------------------------------------------------------------------------
\* The students of the account.  No page shows the error that comes with them.
useLinkedStudents == Load({"mount", "asked", "reload"}, "loading", {"first"}, {"unspin"}, {"unspin"})

\* What a page shows of the chosen student: choosing one drops the answers about
\* another, the first choice is made when the students come, and a failure leaves
\* an empty list.
OfStudent == Patient(Cancelling(Load({"asked"}, "dataLoading", {"spin"}, {"unspin"},
                                     {"unspin", "forget"})))

\* The button to refresh: its answer is shown whoever is chosen by then, and its
\* failure is not seen.
Refreshed(load) == Again(load, [start |-> {}, done |-> {}, fail |-> {}])

Attendance_records == Refreshed(OfStudent)
Grades_grades      == Refreshed(OfStudent)
Fees_payments      == Refreshed(OfStudent)

Courses_loadCourses ==
    Again(OfStudent, [start |-> {"spin"}, done |-> {"unspin"}, fail |-> {"unspin", "forget"}])

Listing(load) ==
    Screen(Family, {}, {}, [students |-> useLinkedStudents, data |-> load],
           {Region({"loading", "dataLoading"}, "data", NoOps)})

PortalAttendancePage == Listing(Attendance_records)
PortalGradesPage     == Listing(Grades_grades)
PortalFeesPage       == Listing(Fees_payments)
PortalCoursesPage    == Listing(Courses_loadCourses)

\* One child: a reference keeps it from being asked for twice, and whatever could
\* not be had is shown as nothing.
Dashboard_loadChild == Patient(Load({"asked"}, "child", {"spin"}, {"unspin"}, {"unspin", "forget"}))

Dashboard_announcements == Cancelling(Load({"mount"}, "", {}, {}, {"forget"}))

Dashboard_students == Region({"loading"}, "students", NoOps)
Dashboard_panels   == Region({"loading"}, "child", NoOps)

PortalDashboard ==
    Screen(Family, {}, {},
           [students |-> useLinkedStudents, child |-> Dashboard_loadChild,
            announcements |-> Dashboard_announcements],
           {Dashboard_students, Dashboard_panels})

\* The photo is shown by the page and by the header, which asks for itself.
Header_students == Load({"mount"}, "", {}, {}, {})

PortalSettings_handlePhotoChange ==
    Held(Handler("save_child_photo", "photoSaving", {"lock"}, {"reload", "unlock"}, {"unlock"}))

PortalSettings_handlePhotoRemove ==
    Held(Handler("save_child_photo", "photoSaving", {"lock"}, {"reload", "unlock"}, {"unlock"}))

PortalSettings_handleChangePassword ==
    Held(Handler("change_portal_password", "pwSaving", {"lock"}, {"unlock"}, {"unlock"}))

OfPhoto(handler) == Changing({"students", "header"}, Click(handler, Family))

PortalSettings_photo ==
    Region({}, "", [change |-> OfPhoto(PortalSettings_handlePhotoChange),
                    remove |-> OfPhoto(PortalSettings_handlePhotoRemove)])

PortalSettingsPage ==
    Screen(Family, {}, {}, [students |-> useLinkedStudents, header |-> Header_students],
           {PortalSettings_photo,
            Region({}, "", [password |-> Click(PortalSettings_handleChangePassword, Family)])})

\* The question to the tutor.
AiExplain_sections ==
    Patient(Cancelling(Load({"asked"}, "coursesLoading", {"spin"}, {"unspin"},
                            {"unspin", "forget"})))

AiExplain_handleSubmit ==
    Held(Handler("ask_tutor", "submitting", {"lock", "clear"}, {"unlock"}, {"unlock", "error"}))

AiExplainPage ==
    Screen(Family, {}, {}, [students |-> useLinkedStudents, sections |-> AiExplain_sections],
           {Region({"loading", "coursesLoading"}, "sections", NoOps),
            Region({}, "", [ask |-> Needing("sections", Click(AiExplain_handleSubmit, Family))])})

-----------------------------------------------------------------------------
\* The public site: texts of its own stand in for those that do not come.

Landing_content       == Load({"mount"}, "", {}, {}, {})
Landing_announcements == Load({"mount"}, "", {}, {}, {})

\* The form goes away when the message was sent.
Landing_submitContact == Handler("send_contact", "", {"clear"}, {"close"}, {"error"})

LandingPage ==
    Screen(Visitors, {}, {},
           [content |-> Landing_content, announcements |-> Landing_announcements],
           {Region({}, "", [contact |-> Form(Landing_submitContact, Visitors, {})])})

Book_submit ==
    Held(Handler("send_booking", "loading", {"lock", "clear"}, {"close", "unlock"},
                 {"unlock", "error"}))

BookPage ==
    Screen(Visitors, {}, {}, [program |-> Load({}, "", {}, {}, {})],
           {Region({}, "", [book |-> Form(Book_submit, Visitors, {})])})

PublicScreens ==
    [portal_dashboard |-> PortalDashboard, portal_courses |-> PortalCoursesPage,
     portal_grades |-> PortalGradesPage, portal_attendance |-> PortalAttendancePage,
     portal_fees |-> PortalFeesPage, portal_settings |-> PortalSettingsPage,
     portal_ai |-> AiExplainPage, landing |-> LandingPage, book |-> BookPage]
=============================================================================
