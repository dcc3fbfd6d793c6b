---------------------------- MODULE PeopleScreens ----------------------------
(***************************************************************************)
(* The pages about people and what they may do: users, employees, roles,   *)
(* accounts of the portal, one's own settings.                             *)
(***************************************************************************)
EXTENDS ScreenRules

-----------------------------------------------------------------------------
\* The users.

Users_fetchUsers ==
    Load({"mount", "asked", "reload"}, "loading", {"first", "clear"}, {"unspin"},
         {"unspin", "error"})

\* The employees without an account, asked for when the form is opened; the
\* form itself says when they do not come.
Users_openCreate ==
    Load({"lookup"}, "employeesLoading", {"spin", "forget"}, {"unspin"}, {"unspin"})

Users_handleSave ==
    Held(Handler("save_user", "submitting", {"lock"}, {"close", "unlock", "reload"}, {"unlock"}))

Users_create == Changing({"users"}, Form(Users_handleSave, Superadmin, {"lookup"}))
Users_edit   == OnRow("users", Form(Users_handleSave, Superadmin, {}))

Users_handleToggleActive ==
    Handler("save_user", "", {}, {"close", "reload"}, {"close"})

Users_table ==
    Region({}, "users", [edit   |-> Users_edit,
                         toggle |-> OnRow("users", Form(Users_handleToggleActive, Superadmin, {}))])

UsersPage ==
    Screen(PageRoles.users, {"loading"}, {},
           [users |-> Users_fetchUsers, employees |-> Users_openCreate],
           {Region({}, "", [create |-> Users_create]), Users_table})

-----------------------------------------------------------------------------
\* The employees: every letter that is typed in the search asks again.

Employees_fetchEmployees ==
    Load({"mount", "asked", "reload"}, "loading", {"first", "clear"}, {"unspin"},
         {"unspin", "error"})

Employees_handleSave ==
    Held(Handler("save_employee", "submitting", {"lock"}, {"close", "unlock", "reload"},
                 {"unlock"}))

Employees_form == Changing({"employees"}, Form(Employees_handleSave, Managers, {}))

Employees_handleDelete ==
    OnRow("employees", Form(Handler("delete_employee", "", {}, {"close", "reload"}, {"close"}),
                            Managers, {}))

Employees_handleGrantAccess ==
    Held(Handler("grant_access", "grantSubmitting", {"lock"}, {"close", "unlock", "reload"},
                 {"unlock"}))

Employees_grant == OnRow("employees", Form(Employees_handleGrantAccess, Managers, {}))

\* Refused, the question stays open.
Employees_handleRevokeAccess ==
    OnRow("employees", Form(Handler("revoke_access", "", {}, {"close", "reload"}, {}),
                            Managers, {}))

Employees_table ==
    Region({}, "employees", [delete |-> Employees_handleDelete, grant |-> Employees_grant,
                             revoke |-> Employees_handleRevokeAccess])

EmployeesPage ==
    Screen(PageRoles.employees, {"loading"}, {}, [employees |-> Employees_fetchEmployees],
           {Region({}, "", [save |-> Employees_form]), Employees_table})

Employee_load == Load({"mount"}, "loading", {"first"}, {"unspin"}, {"unspin"})

EmployeePage ==
    Screen(PageRoles.employees, {"loading"}, {"employee"}, [employee |-> Employee_load], {})

-----------------------------------------------------------------------------
\* The permissions of the roles.

Roles_load == Load({"mount"}, "loading", {"first"}, {"unspin"}, {"unspin"})

\* The permissions of the role that is chosen, and again to take edits back:
\* nothing is shown of a failure, and the switches are off meanwhile.
Roles_loadRole == Load({"asked"}, "", {}, {}, {})

Roles_handleSave ==
    Held(Handler("save_permissions", "saving", {"lock"}, {"patch", "unlock"},
                 {"error", "unlock"}))

Roles_save ==
    After("grants", Changing({"grants"}, Click(Roles_handleSave, Superadmin)))

Roles_permissions == Region({}, "permissions", [save |-> Roles_save])

RolesPage ==
    Dismissible(
        Screen(PageRoles.roles, {"loading"}, {},
               [permissions |-> Roles_load, grants |-> Roles_loadRole], {Roles_permissions}))

-----------------------------------------------------------------------------
\* The accounts of students and parents.

PortalAccounts_fetchAccounts ==
    Load({"mount", "asked", "reload"}, "loading", {"spin", "clear"}, {"unspin"},
         {"unspin", "error"})

PortalAccounts_handleResetSubmit ==
    Held(Handler("reset_password", "resetSubmitting", {"lock"}, {"close", "reload", "unlock"},
                 {"unlock"}))

PortalAccounts_reset == OnRow("accounts", Form(PortalAccounts_handleResetSubmit, Staff, {}))

\* The question is gone before the request is made.
PortalAccounts_handleToggle ==
    OnRow("accounts", Form(Handler("toggle_account", "", {"close"}, {"reload"}, {}), Staff, {}))

\* The flag is the account's: another account is not held by it.
PortalAccounts_handleImpersonate ==
    Handler("impersonate", "impersonating", {"lock"}, {"unlock"}, {"unlock"})

PortalAccounts_impersonate ==
    [OnRow("accounts", Click(PortalAccounts_handleImpersonate, Superadmin)) EXCEPT !.changes = {}]

PortalAccounts_table ==
    Region({"loading"}, "accounts",
           [reset |-> PortalAccounts_reset, toggle |-> PortalAccounts_handleToggle,
            impersonate |-> PortalAccounts_impersonate])

PortalAccountsPage ==
    Screen(PageRoles.portal_accounts, {}, {}, [accounts |-> PortalAccounts_fetchAccounts],
           {PortalAccounts_table})

\* The students of a parent, in a dialog that closes when they do not come.
PortalAccounts_openLinks ==
    Load({"mount"}, "linksLoading", {"first"}, {"unspin"}, {"unspin", "error"})

PortalAccounts_handleLink ==
    Held(Handler("link_student", "linksSubmitting", {"lock"}, {"patch", "unlock"}, {"unlock"}))

PortalAccounts_handleUnlink ==
    Held(Handler("unlink_student", "linksSubmitting", {"lock"}, {"patch", "unlock"}, {"unlock"}))

PortalAccounts_links ==
    Region({"linksLoading"}, "links",
           [link   |-> Changing({"links"}, Click(PortalAccounts_handleLink, Staff)),
            unlink |-> OnRow("links", Click(PortalAccounts_handleUnlink, Staff))])

PortalLinksDialog ==
    Screen(PageRoles.portal_accounts, {}, {"error"}, [links |-> PortalAccounts_openLinks],
           {PortalAccounts_links})

-----------------------------------------------------------------------------
\* The settings: the profile is what the session has of the user.

Settings_load == Load({"mount", "reload"}, "meLoading", {"first"}, {"unspin"}, {"unspin"})

Settings_handlePhotoChange ==
    Held(Handler("save_photo", "photoSaving", {"lock"}, {"reload", "unlock"}, {"unlock"}))

Settings_handlePhotoRemove ==
    Held(Handler("save_photo", "photoSaving", {"lock"}, {"reload", "unlock"}, {"unlock"}))

Settings_handleSavePrefs ==
    Held(Handler("save_profile", "prefsSaving", {"lock"}, {"reload", "unlock"}, {"unlock"}))

Settings_handleChangePassword ==
    Held(Handler("change_password", "pwSaving", {"lock"}, {"unlock"}, {"unlock"}))

OfUser(handler) == Changing({"user"}, Click(handler, PageRoles.settings))

Settings_profile ==
    Region({}, "", [photo |-> OfUser(Settings_handlePhotoChange),
                    remove |-> OfUser(Settings_handlePhotoRemove)])

Settings_security    ==
    Region({}, "", [password |-> Click(Settings_handleChangePassword, PageRoles.settings)])

Settings_preferences == Region({}, "", [prefs |-> OfUser(Settings_handleSavePrefs)])

SettingsPage ==
    Dismissible(
        Screen(PageRoles.settings, {"meLoading"}, {}, [user |-> Settings_load],
               {Settings_profile, Settings_security, Settings_preferences}))

\* The settings of the institute: a form of what was loaded, or of defaults.
SystemTab_load ==
    Cancelling(Load({"mount"}, "loading", {"first"}, {"unspin"}, {"unspin", "error"}))

SystemTab_handleSave ==
    Held(Handler("save_settings", "saving", {"lock", "clear"}, {"patch", "unlock"},
                 {"error", "unlock"}))

SystemTab ==
    Screen(Superadmin, {"loading"}, {}, [settings |-> SystemTab_load],
           {Region({}, "", [save |-> Changing({"settings"},
                                              Click(SystemTab_handleSave, Superadmin))])})

PeopleScreens ==
    [users |-> UsersPage, employees |-> EmployeesPage, employee |-> EmployeePage,
     roles |-> RolesPage, portal_accounts |-> PortalAccountsPage,
     portal_links |-> PortalLinksDialog, settings |-> SettingsPage, settings_system |-> SystemTab]
=============================================================================
