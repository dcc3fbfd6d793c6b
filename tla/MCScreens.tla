------------------------------ MODULE MCScreens ------------------------------
(* Instances of Screens for TLC: every page of the three applications.     *)
EXTENDS ScreenHabits, AcademicScreens, AdminScreens, MoneyScreens, PeopleScreens, PublicScreens,
        ReportScreens

AllRules == AcademicScreens @@ AdminScreens @@ MoneyScreens @@ PeopleScreens
            @@ PublicScreens @@ ReportScreens
=============================================================================
