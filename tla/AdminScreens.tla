----------------------------- MODULE AdminScreens -----------------------------
(***************************************************************************)
(* The pages of the administrator and of marketing: backups, the texts of  *)
(* the public site, what visitors sent, and the list of notifications.     *)
(***************************************************************************)
EXTENDS ScreenRules

-----------------------------------------------------------------------------
\* The backups.  What a handler could not do is said apart from the error of
\* the load, which replaces the page.

Backups_fetchBackups ==
    Load({"mount", "asked", "reload"}, "loading", {"spin", "clear"}, {"unspin"},
         {"unspin", "error"})

Backups_handleCreate ==
    Held(Handler("create_backup", "creating", {"lock"}, {"unlock", "reload"}, {"unlock"}))

Backups_create == Changing({"backups"}, Click(Backups_handleCreate, Superadmin))

\* The question is taken away by the answer, whichever row it is about by then.
Backups_handleDelete ==
    Handler("delete_backup", "", {}, {"toast", "reload", "close"}, {"close"})

Backups_handleUndoDelete == Handler("undo_backup", "", {"untoast"}, {"reload"}, {})

Backups_table ==
    Region({}, "backups",
           [delete |-> OnRow("backups", Form(Backups_handleDelete, Superadmin, {})),
            undo   |-> OnToast({"backups"}, Click(Backups_handleUndoDelete, Superadmin))])

BackupsPage ==
    Screen(PageRoles.backups, {"loading"}, {"error", "backups"},
           [backups |-> Backups_fetchBackups],
           {Region({}, "", [create |-> Backups_create]), Backups_table})

-----------------------------------------------------------------------------
\* The texts of the landing page: those that were loaded, or the defaults.

Content_load == Load({"mount"}, "loading", {"first"}, {"unspin"}, {"unspin"})

Content_save ==
    Held(Handler("save_content", "saving", {"lock"}, {"patch", "unlock"}, {"unlock"}))

ContentPage ==
    Screen(PageRoles.content, {"loading"}, {}, [content |-> Content_load],
           {Region({}, "", [save |-> Changing({"content"}, Click(Content_save, Marketing))])})

\* What visitors sent: a failure leaves an empty list, and nothing holds a
\* button that was pressed.
Inbox_load == Load({"mount", "asked", "reload"}, "loading", {"spin"}, {"unspin"},
                   {"unspin", "forget"})

Bookings_patch == Handler("save_booking", "", {}, {"reload"}, {})

Bookings_table ==
    Region({"loading"}, "rows",
           [patch |-> OnRow("rows", Click(Bookings_patch, PageRoles.bookings))])

BookingsPage ==
    Screen(PageRoles.bookings, {}, {}, [rows |-> Inbox_load], {Bookings_table})

Contacts_patch == Handler("save_contact", "", {}, {"reload"}, {})

Contacts_table ==
    Region({"loading"}, "rows",
           [patch |-> OnRow("rows", Click(Contacts_patch, PageRoles.contacts))])

ContactsPage ==
    Screen(PageRoles.contacts, {}, {}, [rows |-> Inbox_load], {Contacts_table})

-----------------------------------------------------------------------------
\* The announcements: the form is part of the page.

Announcements_load == Load({"mount", "reload"}, "loading", {"spin"}, {"unspin"},
                           {"unspin", "forget"})

Announcements_submit == Handler("save_announcement", "", {}, {"reload"}, {})
Announcements_del    == Handler("delete_announcement", "", {}, {"reload"}, {})

Announcements_form ==
    Region({}, "", [submit |-> Changing({"rows"}, Click(Announcements_submit, Marketing))])

Announcements_table ==
    Region({"loading"}, "rows",
           [delete |-> OnRow("rows", Click(Announcements_del, Marketing))])

AnnouncementsPage ==
    Screen(PageRoles.announcements, {}, {}, [rows |-> Announcements_load],
           {Announcements_form, Announcements_table})

-----------------------------------------------------------------------------
\* The list of notifications, some of which ask for a decision.

Notifications_fetchNotifications ==
    Load({"mount", "asked", "reload"}, "loading", {"spin", "clear"}, {"unspin"},
         {"unspin", "error"})

Notifications_handleMarkRead  == Handler("read_notifications", "", {}, {"patch"}, {})
Notifications_handleDeleteOne == Handler("delete_notification", "", {}, {"patch"}, {})

\* It raises the flag of the list, which only the list's own answer takes down.
Notifications_handleMarkAllRead ==
    Handler("read_notifications", "loading", {"lock"}, {"unlock", "reload"}, {})

\* The decision, and then the notification is marked as read.
Notifications_handleConfirmAction ==
    Following(Handler("decide_request", "actionLoading", {"close", "lock"},
                      {"patch", "unlock"}, {"unlock"}), {})

Notifications_list ==
    Region({}, "items",
           [read   |-> OnRow("items", Click(Notifications_handleMarkRead, PageRoles.notifications)),
            delete |-> OnRow("items", Click(Notifications_handleDeleteOne, PageRoles.notifications)),
            decide |-> OnRow("items", Form(Notifications_handleConfirmAction, Managers, {}))])

NotificationsPage ==
    Screen(PageRoles.notifications, {}, {}, [items |-> Notifications_fetchNotifications],
           {Notifications_list,
            Region({}, "", [readAll |-> OnRow("items",
                Click(Notifications_handleMarkAllRead, PageRoles.notifications))])})

\* The bell in the header: the short list, asked for when it is opened, and the
\* count beside it.  They keep one error between them, and either clears it.
Bell_fetchItems ==
    Load({"asked", "reload"}, "loading", {"spin"}, {"unspin", "clear"}, {"unspin", "error"})

Bell_fetchUnreadCount == Load({"asked", "recount"}, "", {}, {"clear"}, {"error"})

Bell_handleClickItem   == Handler("read_notifications", "", {}, {"recount"}, {})
Bell_handleDeleteOne   == Handler("delete_notification", "", {}, {"patch", "recount"}, {})
Bell_handleMarkAllRead == Handler("read_notifications", "", {}, {"reload"}, {})

Bell_handleConfirmAction ==
    Following(Handler("decide_request", "actionLoading", {"close", "lock"},
                      {"patch", "unlock"}, {"unlock"}), {})

Bell_dropdown ==
    Region({}, "", [readAll |-> OnRow("items", Click(Bell_handleMarkAllRead, Employees))])

Bell_items ==
    Region({}, "items",
           [open   |-> Changing({"count"}, OnRow("items", Click(Bell_handleClickItem, Employees))),
            delete |-> OnRow("items", Click(Bell_handleDeleteOne, Employees)),
            decide |-> OnRow("items", Form(Bell_handleConfirmAction, Managers, {}))])

NotificationBell ==
    Screen(Employees, {}, {}, [items |-> Bell_fetchItems, count |-> Bell_fetchUnreadCount],
           {Bell_dropdown, Bell_items})

-----------------------------------------------------------------------------
\* The report of a student in a section, which nothing on the page changes.

SectionReport_fetchData ==
    Load({"mount"}, "loading", {"spin", "clear"}, {"unspin"}, {"unspin", "error"})

SectionReportPage ==
    Screen(PageRoles.students, {"loading"}, {"error", "report"},
           [report |-> SectionReport_fetchData], {})

AdminScreens ==
    [backups |-> BackupsPage, content |-> ContentPage, bookings |-> BookingsPage,
     contacts |-> ContactsPage, announcements |-> AnnouncementsPage,
     notifications |-> NotificationsPage, bell |-> NotificationBell,
     section_report |-> SectionReportPage]
=============================================================================
