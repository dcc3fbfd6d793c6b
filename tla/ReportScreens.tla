---------------------------- MODULE ReportScreens ----------------------------
(***************************************************************************)
(* The pages that only show: the reports, the financial records, revenue,  *)
(* the health of the system, the dashboards of the roles and the search.   *)
(***************************************************************************)
EXTENDS ScreenRules

-----------------------------------------------------------------------------
\* A report: asked for when it is opened and when its dates change.

ReportFetch ==
    Load({"mount", "asked"}, "loading", {"spin", "clear"}, {"unspin"}, {"unspin", "error"})

\* A report without parameters is asked for once.
Once(load) == [load EXCEPT !.at = {"mount"}]

Shows(load) == Region({}, load, NoOps)

Report(fetch, parts) == Screen(PageRoles.reports, {"loading"}, {"error", "data"},
                               [data |-> fetch], parts)

Pnl_fetchData == ReportFetch
Pnl_content   == Shows("data")
PnlView       == Report(Pnl_fetchData, {Pnl_content})

Reconciliation_fetchData == ReportFetch
Reconciliation_content   == Shows("data")
ReconciliationView       == Report(Reconciliation_fetchData, {Reconciliation_content})

Ledger_fetchData == ReportFetch
Ledger_content   == Shows("data")
LedgerView       == Report(Ledger_fetchData, {Ledger_content})

TeacherPayouts_fetchData == ReportFetch
TeacherPayouts_content   == Shows("data")
TeacherPayoutsView       == Report(TeacherPayouts_fetchData, {TeacherPayouts_content})

SectionOccupancy_fetchData == Once(ReportFetch)
SectionOccupancy_content   == Shows("data")
SectionOccupancyView       == Report(SectionOccupancy_fetchData, {SectionOccupancy_content})

EnrollmentSummary_fetchData == ReportFetch
EnrollmentSummary_content   == Shows("data")
EnrollmentSummaryView       == Report(EnrollmentSummary_fetchData, {EnrollmentSummary_content})

GradeSummary_fetchData == Once(ReportFetch)
GradeSummary_content   == Shows("data")
GradeSummaryView       == Report(GradeSummary_fetchData, {GradeSummary_content})

AttendanceSummary_fetchData == ReportFetch
AttendanceSummary_content   == Shows("data")
AttendanceSummaryView       == Report(AttendanceSummary_fetchData, {AttendanceSummary_content})

StaffPayroll_fetchData == ReportFetch
StaffPayroll_content   == Shows("data")
StaffPayrollView       == Report(StaffPayroll_fetchData, {StaffPayroll_content})

StudentRegister_fetchData == Once(ReportFetch)
StudentRegister_content   == Shows("data")
StudentRegisterView       == Report(StudentRegister_fetchData, {StudentRegister_content})

TeacherWallets_fetchData == Once(ReportFetch)
TeacherWallets_content   == Shows("data")
TeacherWalletsView       == Report(TeacherWallets_fetchData, {TeacherWallets_content})

\* The list of closures replaces nothing: it has no data it cannot do without.
ClosuresReport_fetchData == ReportFetch
ClosuresReport_content   == Shows("rows")
ClosuresView ==
    Screen(PageRoles.reports, {"loading"}, {"error"},
           [rows |-> ClosuresReport_fetchData], {ClosuresReport_content})

\* The catalog of the reports, and the export of the one that is picked.
Reports_fetchCatalog ==
    Load({"mount", "asked"}, "loading", {"first", "clear"}, {"unspin"},
         {"unspin", "forget", "error"})

Reports_handleExportPdf == Load({"asked"}, "", {}, {}, {"error"})

Reports_cards == Shows("catalog")

Reports_period == Region({}, "catalog", NoOps)

ReportsPage ==
    Dismissible(
        Screen(PageRoles.reports, {"loading"}, {},
               [catalog |-> Reports_fetchCatalog, pdf |-> Reports_handleExportPdf],
               {Reports_cards, Reports_period}))

-----------------------------------------------------------------------------
\* Money that came and went.

Revenue_fetchData ==
    Load({"mount", "asked"}, "loading", {"cover", "clear"}, {"unspin"},
         {"unspin", "forget", "error"})

Revenue_cards  == Shows("data")
Revenue_charts == Shows("data")

RevenuePage ==
    Dismissible(
        Screen(PageRoles.revenue, {"loading"}, {}, [data |-> Revenue_fetchData],
               {Revenue_cards, Revenue_charts}))

Records_fetchRecords ==
    Load({"mount", "asked"}, "loading", {"cover"}, {"unspin", "clear"}, {"unspin", "error"})

Records_rows     == Region({"loading"}, "records", NoOps)
Records_receipts == Region({"loading"}, "records", NoOps)

FinancialRecordsPage ==
    Screen(PageRoles.financial_records, {}, {}, [records |-> Records_fetchRecords],
           {Records_rows, Records_receipts})

-----------------------------------------------------------------------------
\* The health of the system.

useSystemHealth ==
    Load({"mount", "asked"}, "loading", {"spin", "clear"}, {"unspin"}, {"unspin", "error"})

Health_resources == Shows("data")
Health_database  == Shows("data")
Health_redis     == Shows("data")
Health_services  == Shows("data")

HealthPage ==
    Screen(PageRoles.health, {"loading"}, {"error", "data"}, [data |-> useSystemHealth],
           {Health_resources, Health_database, Health_redis, Health_services})

-----------------------------------------------------------------------------
\* The dashboard of each role.

Superadmin_load == Load({"mount"}, "loading", {"spin"}, {"unspin"}, {"unspin"})

Superadmin_audit == Shows("data")

SuperadminDashboard ==
    Screen(Superadmin, {"loading"}, {"data"}, [data |-> Superadmin_load], {Superadmin_audit})

\* Three requests in one go, of which the last two fail in silence.
Manager_fetchDashboardData == Load({"mount", "reload"}, "loading", {"first"}, {"unspin"}, {"unspin"})

\* The dialog goes, then the list is changed by hand and asked for again.
Manager_confirmAmendment ==
    OnRow("amendments", Form(Handler("decide_amendment", "", {"close"}, {"patch", "reload"}, {}),
                             {"manager"}, {}))

Manager_approvals == Region({}, "amendments", [decide |-> Manager_confirmAmendment])

Manager_unenrollments == Shows("unenrollments")

ManagerDashboard ==
    Screen({"manager"}, {"loading"}, {"data"},
           [data |-> Manager_fetchDashboardData, amendments |-> Manager_fetchDashboardData,
            unenrollments |-> Manager_fetchDashboardData],
           {Manager_approvals, Manager_unenrollments})

Secretary_fetchDashboardData == Load({"mount"}, "loading", {"spin"}, {"unspin"}, {"unspin"})

Secretary_transactions == Shows("data")

SecretaryDashboard ==
    Screen({"secretary"}, {"loading"}, {"data"}, [data |-> Secretary_fetchDashboardData],
           {Secretary_transactions})

Teacher_load == Load({"mount"}, "loading", {"spin"}, {"unspin"}, {"unspin", "error"})

Teacher_sections == Shows("data")

TeacherDashboard ==
    Screen(Teaching, {"loading"}, {"error", "data"}, [data |-> Teacher_load], {Teacher_sections})

-----------------------------------------------------------------------------
\* The search box of the header and the page of the results.  Both drop the
\* answers of an earlier search; neither takes its flag back with the search.

GlobalSearch_search ==
    Abandonable(Load({"asked"}, "loading", {"spin"}, {"unspin"}, {"unspin", "forget"}))

GlobalSearch_hits == Shows("data")

GlobalSearch ==
    Screen(PageRoles.search, {}, {}, [data |-> GlobalSearch_search], {GlobalSearch_hits})

Search_search ==
    Abandonable(Load({"asked"}, "loading", {"spin"}, {"unspin"}, {"unspin", "forget"}))

Search_hits == Region({"loading"}, "data", NoOps)

SearchPage == Screen(PageRoles.search, {}, {}, [data |-> Search_search], {Search_hits})

ReportScreens ==
    [pnl |-> PnlView, reconciliation |-> ReconciliationView, ledger |-> LedgerView,
     payouts |-> TeacherPayoutsView, occupancy |-> SectionOccupancyView,
     enrollment_summary |-> EnrollmentSummaryView, grade_summary |-> GradeSummaryView,
     attendance_summary |-> AttendanceSummaryView, payroll_report |-> StaffPayrollView,
     student_register |-> StudentRegisterView, wallets_report |-> TeacherWalletsView,
     closures_report |-> ClosuresView, reports |-> ReportsPage, revenue |-> RevenuePage,
     financial_records |-> FinancialRecordsPage, health |-> HealthPage,
     superadmin |-> SuperadminDashboard, manager |-> ManagerDashboard,
     secretary |-> SecretaryDashboard, teacher |-> TeacherDashboard,
     global_search |-> GlobalSearch, search |-> SearchPage]
=============================================================================
