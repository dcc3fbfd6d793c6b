----------------------------- MODULE MoneyScreens -----------------------------
(***************************************************************************)
(* The pages that take and give money: payments, expenses, the point of    *)
(* sale, the wallets of the teachers, the draws of the staff, the closing  *)
(* of a day and the refunds at the cashier's desk.                         *)
(***************************************************************************)
EXTENDS ScreenRules

-----------------------------------------------------------------------------
\* Payments.

Payments_fetchPayments ==
    Load({"mount", "asked", "reload"}, "loading", {"cover"}, {"unspin"}, {"unspin", "error"})

\* The page waits for both: the one flag of the code is up while one of the two is.
Payments_fetchLookups ==
    Load({"mount", "lookup"}, "loadingLookups", {"cover"}, {"unspin"}, {"unspin", "error"})

\* The payment is made, the dialog closes, then the summary is asked for.
Payments_handleSave ==
    Held(Following(Handler("payments", "submitting", {"lock"}, {"unlock", "reload"}, {"unlock"}),
                   {"close"}))

Payments_form == Changing({"payments"}, Form(Payments_handleSave, Staff, {"lookup"}))

Payments_table == Region({}, "payments", NoOps)

PaymentsPage ==
    Screen(PageRoles.payments, {"loading", "loadingLookups"}, {},
           [payments |-> Payments_fetchPayments, lookups |-> Payments_fetchLookups],
           {Region({}, "", [pay |-> Payments_form]), Payments_table})

-----------------------------------------------------------------------------
\* Expenses.

Expenses_fetchExpenses ==
    Load({"mount", "asked", "reload"}, "loading", {"cover"}, {"unspin"}, {"unspin", "error"})

Expenses_fetchEligibleRecipients == Load({"lookup"}, "", {}, {}, {"forget", "error"})

Expenses_fetchClosedDates == Load({"lookup"}, "", {}, {}, {"error"})

Expenses_handleSave ==
    Held(Handler("expenses", "submitting", {"lock"}, {"close", "reload", "unlock"}, {"unlock"}))

Expenses_form == Changing({"expenses"}, Form(Expenses_handleSave, Staff, {"lookup"}))

Expenses_table == Region({}, "expenses", NoOps)

ExpensesPage ==
    Screen(PageRoles.expenses, {"loading"}, {},
           [expenses |-> Expenses_fetchExpenses, closedDates |-> Expenses_fetchClosedDates,
            recipients |-> Expenses_fetchEligibleRecipients],
           {Region({}, "", [spend |-> Expenses_form]), Expenses_table})

-----------------------------------------------------------------------------
\* The point of sale.

Pos_fetchStudents == Load({"mount", "asked"}, "", {}, {}, {"error"})

\* The enrollments of the student that was picked.
Pos_fetchEnrollments ==
    Load({"asked"}, "loadingEnrollments", {"spin"}, {"unspin"}, {"unspin", "error"})

Pos_handleSubmit ==
    Held(Following(Handler("payments", "submitting", {"lock"}, {"unlock"}, {"unlock"}), {}))

Pos_form == OnRow("enrollments", Form(Pos_handleSubmit, Staff, {}))

Pos_students == Region({}, "students", NoOps)

Pos_enrollments == Region({"loadingEnrollments"}, "enrollments", [pay |-> Pos_form])

PosPage ==
    Dismissible(
        Screen(PageRoles.pos \cap Staff, {}, {},
               [students |-> Pos_fetchStudents, enrollments |-> Pos_fetchEnrollments],
               {Pos_students, Pos_enrollments}))

-----------------------------------------------------------------------------
\* The wallet as its teacher sees it, and the wallets as the managers do.

\* The page waits for both, as above, and not when they are refreshed.
Wallet_fetchWallet ==
    Load({"mount", "asked"}, "loading", {"first"}, {"unspin"}, {"unspin", "forget"})

Wallet_fetchWithdrawals ==
    Load({"mount", "asked"}, "loadingList", {"first"}, {"unspin"}, {"unspin", "forget"})

Wallet_sections    == Region({}, "wallet", NoOps)
Wallet_withdrawals == Region({}, "withdrawals", NoOps)

TeacherWalletView ==
    Dismissible(
        Screen(Teaching, {"loading", "loadingList"}, {},
               [wallet |-> Wallet_fetchWallet, withdrawals |-> Wallet_fetchWithdrawals],
               {Wallet_sections, Wallet_withdrawals}))

Wallets_fetchAll ==
    Load({"mount", "asked", "reload"}, "loading", {"first"}, {"unspin"},
         {"unspin", "forget", "error"})

Wallets_handleToggleExpand ==
    Load({"asked"}, "loadingWithdrawals", {"spin", "forget"}, {"unspin"}, {"unspin", "forget"})

\* The dialog closes and the teachers are asked for; once they have come, the
\* withdrawals of the teacher whose row is expanded, taken to be the one that is
\* paid: their failure is ignored.  Success leaves modalSubmitting as it is.
Wallets_handleSubmitWithdrawal ==
    Held(Ignoring(Following(Handler("expenses", "modalSubmitting", {"lock"}, {"patch", "toast"},
                                    {"unlock"}),
                            {"close", "reload"}),
                  {"toast"}))

Wallets_modal ==
    Changing({"teachers", "withdrawals"},
             OnRow("teachers", Form(Wallets_handleSubmitWithdrawal, Managers, {})))

\* The withdrawals are not asked for again.
Wallets_handleUndo ==
    OnToast({"teachers", "withdrawals"},
            Click(Handler("void", "", {}, {"untoast", "reload"}, {"untoast"}), Managers))

Wallets_table == Region({}, "teachers", [withdraw |-> Wallets_modal])

Wallets_expanded == Region({"loadingWithdrawals"}, "withdrawals", NoOps)

AdminWalletOverview ==
    Dismissible(
        Screen(Managers, {"loading"}, {},
               [teachers |-> Wallets_fetchAll, withdrawals |-> Wallets_handleToggleExpand],
               {Wallets_table, Wallets_expanded, Region({}, "", [undo |-> Wallets_handleUndo])}))

-----------------------------------------------------------------------------
\* The salaries of the staff.

Payroll_fetchStaff ==
    Load({"mount", "asked", "reload"}, "loading", {"spin", "clear"}, {"unspin"}, {"unspin", "error"})

Payroll_handleWithdraw ==
    Held(Handler("withdraw", "submitting", {"lock"}, {"reload", "close", "toast", "unlock"},
                 {"unlock"}))

Payroll_modal == OnRow("staff", Form(Payroll_handleWithdraw, PageRoles.staff_payroll, {}))

Payroll_handleUndo ==
    OnToast({"staff"}, Click(Handler("void", "", {}, {"untoast", "reload"}, {"untoast"}),
                             PageRoles.staff_payroll))

Payroll_list == Region({}, "staff", [withdraw |-> Payroll_modal])

StaffPayrollPage ==
    Screen(PageRoles.staff_payroll, {"loading"}, {},
           [staff |-> Payroll_fetchStaff],
           {Payroll_list, Region({}, "", [undo |-> Payroll_handleUndo])})

-----------------------------------------------------------------------------
\* The closing of the days, and one day.

Closures_fetchClosures ==
    Load({"mount", "asked", "reload"}, "loading", {"cover"}, {"unspin"}, {"unspin"})

Closures_handleClose ==
    Form(Handler("close_day", "", {}, {"close", "reload"}, {}), Managers, {})

Closures_handleUnlockRequest ==
    Click(Handler("unlock_request", "", {}, {"reload"}, {}), Staff)

Closures_handleApproveUnlock ==
    Click(Handler("approve_unlock", "", {}, {"reload"}, {}), Managers)

Closures_table ==
    Region({}, "closures", [close   |-> OnRow("closures", Closures_handleClose),
                            request |-> OnRow("closures", Closures_handleUnlockRequest),
                            approve |-> OnRow("closures", Closures_handleApproveUnlock)])

DailyClosuresPage ==
    Screen(PageRoles.daily_closures, {"loading"}, {},
           [closures |-> Closures_fetchClosures], {Closures_table})

Day_fetchLedger ==
    Load({"mount", "asked", "reload"}, "loading", {"spin", "clear"}, {"unspin"}, {"unspin", "error"})

Day_handleClose ==
    Held(Handler("close_day", "closing", {"lock"}, {"reload", "close", "unlock"},
                 {"error", "unlock"}))

Day_ledger == Region({}, "ledger", NoOps)

Day_close == Region({}, "ledger", [close |-> OnRow("ledger", Form(Day_handleClose, Managers, {}))])

DailyLedgerPage ==
    Screen(PageRoles.daily_closures, {"loading"}, {"error", "ledger"},
           [ledger |-> Day_fetchLedger], {Day_ledger, Day_close})

-----------------------------------------------------------------------------
\* The cashier: refunds that wait and refunds that were paid out.

Refunds_fetchRefunds ==
    Load({"mount", "asked", "reload"}, "loadingRefunds", {"spin"}, {"unspin"}, {"unspin", "forget"})

Refunds_fetchHistory ==
    Load({"mount", "asked", "reload"}, "loadingHistory", {"spin"}, {"unspin"}, {"unspin", "forget"})

Refunds_handleConfirm ==
    Held(Handler("disburse", "disbursing", {"lock"}, {"reload", "close", "toast", "unlock"},
                 {"unlock"}))

Refunds_modal == OnRow("refunds", Form(Refunds_handleConfirm, Cashiers, {}))

\* onSuccess: the dialog goes, whichever refund it is about.
Refunds_handleUndo ==
    OnToast({"refunds", "history"},
            Click(Handler("undo_disburse", "", {}, {"untoast", "shut", "reload"}, {"untoast"}),
                  Cashiers))

PendingRefundsTable == Region({"loadingRefunds"}, "refunds", [disburse |-> Refunds_modal])

DisbursementHistory == Region({"loadingHistory"}, "history", NoOps)

\* DisburseRefundModal returns null without a refund, and its toast with it.
RefundsPage ==
    Dismissible(
        UndoInDialog(
            Screen(PageRoles.cashier_refunds, {}, {},
                   [refunds |-> Refunds_fetchRefunds, history |-> Refunds_fetchHistory],
                   {PendingRefundsTable, DisbursementHistory,
                    Region({}, "", [undo |-> Refunds_handleUndo])})))

MoneyScreens ==
    [payments |-> PaymentsPage, expenses |-> ExpensesPage, pos |-> PosPage,
     teacher_wallet |-> TeacherWalletView, wallets |-> AdminWalletOverview,
     staff_payroll |-> StaffPayrollPage, daily_closures |-> DailyClosuresPage,
     daily_ledger |-> DailyLedgerPage, refunds |-> RefundsPage]
=============================================================================
