----------------------------- MODULE ScreenRules -----------------------------
(***************************************************************************)
(* The vocabulary in which the pages of the applications are described.  A *)
(* page keeps what its requests answered, flags that say that something is *)
(* under way, an error, a dialog and an offer to undo.  Its handlers touch *)
(* nothing else that matters here, so that a handler is the effects it has *)
(* when it starts, when the server agrees and when it does not, and a part *)
(* of the page is when it is shown and what it offers to whom.  Screens    *)
(* gives the rules their meaning.                                          *)
(*                                                                         *)
(* Effects:  "spin"/"unspin"   set or clear the flag of the load           *)
(*           "cover"           set it, unless a handler sends the load     *)
(*           "first"           set it when the page is opened              *)
(*           "clear"/"error"   the error that the page shows               *)
(*           "forget"          drop the rows that are shown                *)
(*           "lock"/"unlock"   set or clear the flag of the handler        *)
(*           "close"/"shut"    close the dialog of the operation, or any   *)
(*           "reload" and any other trigger of a load: send these loads    *)
(*           "patch"           change the rows that are shown by hand      *)
(*           "toast"/"untoast" offer to undo, or withdraw the offer        *)
(* Triggers of a load:  "mount" (the page is opened), "asked" (a filter, a *)
(*           search, a button) and the effects that send it                *)
(***************************************************************************)
EXTENDS Naturals, Sequences, FiniteSets, TLC

Superadmin == {"superadmin"}
Managers   == {"superadmin", "manager"}
Staff      == Managers \cup {"secretary"}
Cashiers   == Staff \cup {"accountant"}
Teaching   == {"teacher"}
Marketing  == {"superadmin", "marketing_manager"}
Employees  == Cashiers \cup Teaching \cup Marketing
Family     == {"student", "parent"}
Visitors   == {"visitor"}
Roles      == Employees \cup Family \cup Visitors

\* Who may open a page of the dashboard, before an administrator changes it.
PageRoles ==
    [dashboard      |-> Staff \cup Teaching \cup Marketing,
     users          |-> Superadmin,           portal_accounts |-> Staff,
     employees      |-> Managers,             roles           |-> Superadmin,
     courses        |-> Staff \cup Teaching, sections        |-> Staff \cup Teaching,
     certificates   |-> Staff \cup Teaching, students        |-> Staff,
     enrollments    |-> Staff \cup Teaching, attendance      |-> Staff \cup Teaching,
     gradebook      |-> Staff \cup Teaching, payments        |-> Staff,
     expenses       |-> Staff,                financial_records |-> Staff,
     revenue        |-> Managers,             teacher_wallet  |-> Managers \cup Teaching,
     daily_closures |-> Staff,                pos             |-> Staff,
     cashier_refunds |-> Cashiers,            health          |-> Superadmin,
     backups        |-> Superadmin,           settings        |-> Staff \cup Teaching,
     staff_payroll  |-> Staff,                reports         |-> Staff,
     notifications  |-> Staff \cup Teaching, wizards         |-> Staff,
     search         |-> Staff \cup Teaching, content         |-> Marketing,
     announcements  |-> Marketing,            contacts        |-> Marketing,
     bookings       |-> Staff \cup Marketing]

\* Whom the server lets change what: a superadmin always, and the rest of a list.
AcademicAdmits ==
    [save_course |-> Staff, delete_course |-> Staff, save_section |-> Staff,
     activate |-> Staff, complete_section |-> Staff, enroll |-> Staff, unenroll |-> Staff,
     create_student |-> Staff, save_student |-> Staff, cancel_section |-> Managers,
     delete_certificate |-> Managers, delete_certificates |-> Managers,
     delete_section |-> Superadmin, deactivate_section |-> Superadmin,
     delete_student |-> Superadmin, delete_enrollment |-> Superadmin,
     save_grades |-> Superadmin \cup Teaching]

LmsAdmits ==
    [save_attendance |-> Superadmin \cup Teaching, payments |-> Staff, expenses |-> Staff,
     void |-> Staff, close_day |-> Managers, unlock_request |-> Staff,
     approve_unlock |-> Managers, amend |-> Staff \cup Teaching,
     decide_amendment |-> Managers, decide_request |-> Managers, disburse |-> Cashiers,
     undo_disburse |-> Cashiers, withdraw |-> Managers]

IdentityAdmits ==
    [save_user |-> Managers, save_employee |-> Managers, delete_employee |-> Managers,
     grant_access |-> Managers, revoke_access |-> Managers,
     save_permissions |-> PageRoles.roles, save_photo |-> Employees,
     save_profile |-> Employees, change_password |-> Employees,
     read_notifications |-> Employees, delete_notification |-> Employees,
     reset_password |-> Staff, toggle_account |-> Staff, link_student |-> Staff,
     unlink_student |-> Staff, impersonate |-> Superadmin]

SiteAdmits ==
    [create_backup |-> Superadmin, delete_backup |-> Superadmin, undo_backup |-> Superadmin,
     save_settings |-> Superadmin, save_content |-> Marketing, save_contact |-> Marketing,
     save_announcement |-> Marketing, delete_announcement |-> Marketing,
     save_booking |-> Staff \cup Marketing, send_contact |-> Roles, send_booking |-> Roles,
     save_child_photo |-> Family, change_portal_password |-> Family, ask_tutor |-> Family]

Admits == AcademicAdmits @@ LmsAdmits @@ IdentityAdmits @@ SiteAdmits

-----------------------------------------------------------------------------
\* A request for data: when it is sent, and its effects.  An answer shows its
\* rows.  A cancelling load drops the answers of earlier requests of its own.
Load(by, flag, start, done, fail) ==
    [at |-> by, flag |-> flag, start |-> start, done |-> done, fail |-> fail,
     cancels |-> FALSE, abandons |-> FALSE, patient |-> FALSE, again |-> {}]

Cancelling(load) == [load EXCEPT !.cancels = TRUE]

\* A cancelling load that the user can take back by clearing the search.
Abandonable(load) == [Cancelling(load) EXCEPT !.abandons = TRUE]

\* A load that the user cannot ask for while its flag is set.
Patient(load) == [load EXCEPT !.patient = TRUE]

\* A load that a button repeats, with effects of its own: nothing cancels that.
Again(load, effects) == [load EXCEPT !.again = {effects}]

\* A handler that asks the server for a change.  One that is held refuses to
\* start while its flag is set, or its button is disabled; one that follows up,
\* always or perhaps, has the effects "late" when the change is made, asks for
\* something else before it goes on, and fails when that fails ("missed").
Handler(endpoint, flag, start, done, fail) ==
    [endpoint |-> endpoint, flag |-> flag, held |-> FALSE, start |-> start,
     done |-> done, fail |-> fail, follows |-> {FALSE}, late |-> {}, missed |-> fail,
     escalates |-> {}]

Held(handler) == [handler EXCEPT !.held = TRUE]

Following(handler, late)  == [handler EXCEPT !.follows = {TRUE}, !.late = late]
PerhapsThen(handler, late) == [handler EXCEPT !.follows = BOOLEAN, !.late = late]

\* It goes on, with effects of their own, when what it asked for last fails.
Ignoring(handler, effects) == [handler EXCEPT !.missed = effects]

\* Some refusals are answered with the dialog of another operation.
Escalating(operation, handler) == [handler EXCEPT !.escalates = {operation}]

\* An operation that is offered: by a dialog or a click, on the page or on a
\* row, and the loads whose rows it changes.  Opening a dialog has effects of
\* its own; a pinned dialog cannot be closed while the flag of its handler is set.
Form(handler, by, opens) ==
    [handler |-> handler, by |-> by, form |-> TRUE, opens |-> opens, pinned |-> FALSE,
     row |-> "", changes |-> {}, toast |-> FALSE, inside |-> {}, needs |-> {},
     after |-> {}]

\* A dialog that another one opens, or that answers a refusal.
Inside(outer, op) == [op EXCEPT !.inside = {outer}]
AfterRefusal(op)  == [op EXCEPT !.inside = {"refusal"}]

\* It cannot be sent before a load of its dialog has brought something.
Needing(load, op) == [op EXCEPT !.needs = {load}]

\* It is offered once the user has chosen what a load brings.
After(load, op) == [op EXCEPT !.after = {load}]

Pinned(op) == [op EXCEPT !.pinned = TRUE]

Click(handler, by) == [Form(handler, by, {}) EXCEPT !.form = FALSE]

OnRow(load, op)     == [op EXCEPT !.row = load, !.changes = {load}]
Changing(loads, op) == [op EXCEPT !.changes = loads]
OnToast(loads, op)  == [op EXCEPT !.toast = TRUE, !.changes = loads]

-----------------------------------------------------------------------------
\* A part of a page: the flags that hide it while they are set, the load whose
\* rows it lists, with a text when there are none, and the operations it offers.
Region(hiddenBy, lists, ops) == [hiddenBy |-> hiddenBy, lists |-> lists, ops |-> ops]

NoOps == [n \in {} |-> {}]

\* A page: who may open it, the flags that replace all of it while they are
\* set, what else replaces it (the "error", a load that brought nothing: the
\* page then says so), its loads and its parts.  hosts: the part that shows the
\* offer to undo is in the dialog of the operation or on the page.
Screen(roles, gates, broken, loads, regions) ==
    [roles |-> roles, gates |-> gates, broken |-> broken, loads |-> loads,
     regions |-> regions, hosts |-> "page", dismissible |-> FALSE]

\* The error has an x, or goes with something else that the user can take back.
Dismissible(screen) == [screen EXCEPT !.dismissible = TRUE]

UndoInDialog(screen) == [screen EXCEPT !.hosts = "dialog"]
=============================================================================
