------------------------------- MODULE Screens -------------------------------
(***************************************************************************)
(* What the pages of the three applications have in common: one page, one  *)
(* user, a server that answers every request once, in any order, with the  *)
(* data or with a failure.  What a page does is in its rules, which the    *)
(* modules of the pages give.                                              *)
(***************************************************************************)
EXTENDS SequencesExt, ScreenRules

CONSTANTS
    Rules,          \* the rules of each page
    MaxBusy         \* bound: a user does not act while so many answers are out

Pages == DOMAIN Rules

ASSUME BusyAssumption == MaxBusy \in Nat \ {0}

\* The operations of a page, whichever part offers them.
OperationsOf(regions) ==
    [o \in UNION {DOMAIN region.ops : region \in regions} |->
        (CHOOSE region \in regions : o \in DOMAIN region.ops).ops[o]]

VARIABLES
    at,             \* the page that is open
    page,           \* its rules, and its operations
    operations,
    users,          \* the roles the user may have: the page treats them alike
    shown,          \* of each load: what the page has of it
    asked,          \* of each load: the requests that are not answered
    spin,           \* the loads that hold their flag up
    error,          \* the page shows an error
    told,           \* the loads that an error taken down by the user was shown for
    behind,         \* the loads whose rows are older than a change of the user's
    overtaken,      \* the loads that show an answer overtaken by a later one
    dialogs,        \* the operations whose dialogs are open, one inside the other
    locks,          \* the flags of handlers that are set
    calls,          \* of each operation: changes asked for and not answered
    toast           \* the offer to undo stands

place == <<at, page, operations, users>>
data == <<shown, asked, spin, behind, overtaken>>
vars == <<place, data, error, told, dialogs, locks, calls, toast>>

Loads == DOMAIN page.loads
Ops   == DOMAIN operations
Op(o) == operations[o]

Request  == [old : BOOLEAN, late : BOOLEAN, again : BOOLEAN]
New      == [old |-> FALSE, late |-> FALSE, again |-> FALSE]
NoCalls  == [here |-> 0, gone |-> 0, follow |-> 0]

InFlight(o) == calls[o].here + calls[o].gone + calls[o].follow

IsOpen(o)  == o \in Range(dialogs)
NoneOpen   == dialogs = <<>>

FlagUp(f) == f \in locks \/ \E l \in spin : page.loads[l].flag = f

Triggered(by) == {l \in Loads : by \in page.loads[l].at}

-----------------------------------------------------------------------------
\* What the user sees.

Whole ==
    /\ ~ \E f \in page.gates : FlagUp(f)
    /\ ~ ("error" \in page.broken /\ error)
    /\ \A l \in Loads \cap page.broken : shown[l] = "rows"

Visible(region) == Whole /\ ~ \E f \in region.hiddenBy : FlagUp(f)

ToastVisible == toast /\ (IF page.hosts = "page" THEN Whole ELSE ~ NoneOpen)

\* Mutant: the button is there for everybody, whatever the role.
Offered_toAll(o) ==
    /\ IF Op(o).toast THEN ToastVisible
       ELSE \E region \in page.regions : o \in DOMAIN region.ops /\ Visible(region)
    /\ Op(o).row # "" => shown[Op(o).row] = "rows"
    /\ \A l \in Op(o).after : shown[l] # "unasked" \/ asked[l] # <<>>

Offered(o) ==
    /\ users \subseteq Op(o).by
    /\ IF Op(o).toast THEN ToastVisible
       ELSE \E region \in page.regions : o \in DOMAIN region.ops /\ Visible(region)
    /\ Op(o).row # "" => shown[Op(o).row] = "rows"
    /\ \A l \in Op(o).after : shown[l] # "unasked" \/ asked[l] # <<>>

-----------------------------------------------------------------------------
\* Effects.

\* Mutant: a failure is only logged.
ErrorAfter_silent(effects) == error /\ "clear" \notin effects

ErrorAfter(effects) == "error" \in effects \/ (error /\ "clear" \notin effects)

OnMount   == {"spin", "cover", "first"}
ByUser    == {"spin", "cover"}
ByHandler == {"spin"}

Raised(ls, effects) == {l \in ls : page.loads[l].start \cap effects # {}}

\* What is in S of a queue, in its order.
Only(queue, S) ==
    LET kept[n \in 0 .. Len(queue)] ==
            IF n = 0 THEN <<>>
            ELSE IF queue[n] \in S THEN Append(kept[n - 1], queue[n]) ELSE kept[n - 1]
    IN  kept[Len(queue)]

\* What is left of the requests of a load when it is sent again.
Kept(l) ==
    IF page.loads[l].cancels THEN Only(asked[l], {request \in Request : request.again})
    ELSE asked[l]

\* The loads ls are sent; "covering" says which effects raise their flag.
Resend(ls, covering) ==
    /\ asked' = [l \in Loads |->
                    IF l \notin ls THEN asked[l]
                    ELSE Append(Kept(l), New)]
    /\ spin' = spin \cup Raised(ls, covering)
    /\ shown' = [l \in Loads |->
                    IF l \in ls /\ "forget" \in page.loads[l].start /\ shown[l] # "unasked"
                    THEN "failed" ELSE shown[l]]
    /\ told' = told \ ls
    /\ UNCHANGED overtaken

Send(ls, covering) == Resend(ls, covering) /\ UNCHANGED behind

Cleared(ls) == \E l \in ls : "clear" \in page.loads[l].start

\* The effects of the handler of o on all but the loads and the calls.
Affect(o, effects) ==
    LET flag == Op(o).handler.flag IN
    /\ locks' = IF "lock" \in effects THEN locks \cup {flag}
                ELSE IF "unlock" \in effects THEN locks \ {flag} ELSE locks
    /\ dialogs' = IF "shut" \in effects THEN <<>>
                  ELSE IF "close" \in effects THEN Only(dialogs, Range(dialogs) \ {o})
                  ELSE dialogs
    /\ toast' = ("toast" \in effects \/ (toast /\ "untoast" \notin effects))

\* The requests the effects of a handler send, and its error.
Sent(effects) == {l \in Loads : page.loads[l].at \cap effects # {}}

ErrorOf(effects) ==
    error' = ("error" \in effects
              \/ (error /\ "clear" \notin effects /\ ~ Cleared(Sent(effects))))

\* The dialog of the operation goes away: its calls go on without it.
Leaves(o) == IsOpen(o) /\ ~ IsOpen(o)'

Detached(count) ==
    [here |-> 0, gone |-> count.gone + count.here, follow |-> count.follow]

-----------------------------------------------------------------------------
Init ==
    /\ at \in Pages
    /\ page = Rules[at]
    /\ operations = OperationsOf(page.regions)
    /\ \E r \in page.roles :
          users = {q \in page.roles : \A o \in Ops : q \in Op(o).by <=> r \in Op(o).by}
    /\ shown = [l \in Loads |-> "unasked"]
    /\ asked = [l \in Loads |-> IF l \in Triggered("mount") THEN <<New>> ELSE <<>>]
    /\ spin = Raised(Triggered("mount"), OnMount)
    /\ error = FALSE
    /\ told = {}
    /\ behind = {}
    /\ overtaken = {}
    /\ dialogs = <<>>
    /\ locks = {}
    /\ calls = [o \in Ops |-> NoCalls]
    /\ toast = FALSE

\* The user waits while more answers are out.
Quiet ==
    Cardinality({out \in Loads \X (1 .. MaxBusy) : out[2] \in DOMAIN asked[out[1]]})
    + Cardinality({out \in Ops \X (1 .. MaxBusy) : out[2] <= InFlight(out[1])}) < MaxBusy

\* A page that an error replaces has a button to try again, or links elsewhere.
Reachable == ~ \E f \in page.gates : FlagUp(f)

\* A filter, a search, the refresh button.
Ask(l) ==
    /\ l \in Triggered("asked")
    /\ page.loads[l].patient => ~ FlagUp(page.loads[l].flag)
    /\ Reachable
    /\ NoneOpen
    /\ Quiet
    /\ Send({l}, ByUser)
    /\ error' = (error /\ ~ Cleared({l}))
    /\ UNCHANGED <<place, dialogs, locks, calls, toast>>

\* The button that repeats what was asked for.
Refresh(l) ==
    /\ \E effects \in page.loads[l].again :
          spin' = IF "spin" \in effects.start THEN spin \cup {l} ELSE spin
    /\ shown[l] # "unasked"
    /\ Reachable
    /\ NoneOpen
    /\ Quiet
    /\ asked' = [asked EXCEPT ![l] = Append(@, [New EXCEPT !.again = TRUE])]
    /\ told' = told \ {l}
    /\ UNCHANGED <<place, shown, behind, overtaken, error, dialogs, locks, calls, toast>>

\* The search is cleared: the effect returns early, after its clean-up.
Abandon(l) ==
    /\ page.loads[l].abandons
    /\ Whole
    /\ asked' = [asked EXCEPT ![l] = <<>>]
    /\ shown' = [shown EXCEPT ![l] = "unasked"]
    /\ UNCHANGED <<place, spin, behind, overtaken, error, told, dialogs, locks, calls, toast>>

Overtake(queue, i) ==
    [j \in 1 .. Len(queue) - 1 |->
        IF j < i THEN [queue[j] EXCEPT !.late = TRUE] ELSE queue[j + 1]]

Without(queue, i) ==
    [j \in 1 .. Len(queue) - 1 |-> IF j < i THEN queue[j] ELSE queue[j + 1]]

\* The effects of the answer of a request, or of its failure.
Outcome(l, request, kind) ==
    IF request.again THEN (CHOOSE effects \in page.loads[l].again : TRUE)[kind]
    ELSE page.loads[l][kind]

\* Mutant: the flag is taken down after the answer, and not in a finally.
Settle_keepsFlag(l, effects) ==
    LET lowered == IF "unspin" \in effects /\ "error" \notin effects
                   THEN {page.loads[l].flag} ELSE {} IN
    /\ spin' = {k \in spin : page.loads[k].flag \notin lowered}
    /\ locks' = locks \ lowered
    /\ error' = ErrorAfter(effects)
    /\ UNCHANGED <<place, dialogs, calls, toast>>

\* The flag is taken down, whoever raised it.
Settle(l, effects) ==
    LET lowered == IF "unspin" \in effects THEN {page.loads[l].flag} ELSE {} IN
    /\ spin' = {k \in spin : page.loads[k].flag \notin lowered}
    /\ locks' = locks \ lowered
    /\ error' = ErrorAfter(effects)
    /\ UNCHANGED <<place, dialogs, calls, toast>>

\* The server read the data for an old request before or after the change.
Answer(l, i) ==
    LET request == asked[l][i] IN
    /\ asked' = [asked EXCEPT ![l] = Overtake(@, i)]
    /\ shown' = [shown EXCEPT ![l] = "rows"]
    /\ overtaken' = IF request.late THEN overtaken \cup {l} ELSE overtaken \ {l}
    /\ \/ behind' = behind \ {l}
       \/ request.old /\ behind' = behind \cup {l}
    /\ UNCHANGED told
    /\ Settle(l, Outcome(l, request, "done"))

Fail(l, i) ==
    LET effects == Outcome(l, asked[l][i], "fail") IN
    /\ asked' = [asked EXCEPT ![l] = Without(@, i)]
    /\ shown' = [shown EXCEPT ![l] =
                    IF "forget" \in effects \/ @ = "unasked" THEN "failed" ELSE @]
    /\ told' = told \ {l}
    /\ UNCHANGED <<overtaken, behind>>
    /\ Settle(l, effects)

-----------------------------------------------------------------------------
Open(o) ==
    /\ Op(o).form
    /\ IF Op(o).inside = {} THEN NoneOpen ELSE ~ NoneOpen /\ Last(dialogs) \in Op(o).inside
    /\ Offered(o)
    /\ Quiet
    /\ dialogs' = Append(dialogs, o)
    /\ Send(Sent(Op(o).opens), ByHandler)
    /\ ErrorOf(Op(o).opens)
    /\ UNCHANGED <<place, locks, calls, toast>>

Close ==
    /\ ~ NoneOpen
    /\ Whole
    /\ Op(Last(dialogs)).pinned => Op(Last(dialogs)).handler.flag \notin locks
    /\ dialogs' = Front(dialogs)
    /\ calls' = [calls EXCEPT ![Last(dialogs)] = Detached(@)]
    /\ UNCHANGED <<place, data, error, told, locks, toast>>

\* What an error may be about: rows that did not come, or that may be too old.
Amiss(l) ==
    \/ shown[l] = "failed"
    \/ l \in behind
    \/ \E i \in DOMAIN asked[l] : asked[l][i].old

\* The user takes the error down: of what it was shown for, the page says nothing
\* more until that is asked for again, and a list that failed has its empty text.
Dismiss ==
    /\ page.dismissible
    /\ error
    /\ Whole
    /\ error' = FALSE
    /\ told' = told \cup {l \in Loads : Amiss(l)}
    /\ UNCHANGED <<place, data, dialogs, locks, calls, toast>>

\* Mutant: the handler sets its flag and nothing looks at it.
Free_always(handler) == TRUE

\* The flag of a handler disables its button, or the handler returns early.
Free(handler) == handler.held => ~ FlagUp(handler.flag)

Submit(o) ==
    LET handler == Op(o).handler
        more == [calls[o] EXCEPT !.here = @ + 1]
    IN
    /\ IF Op(o).form THEN Whole /\ ~ NoneOpen /\ Last(dialogs) = o
       ELSE Offered(o) /\ (NoneOpen \/ Op(o).toast)
    /\ Free(handler)
    /\ \A l \in Op(o).needs : shown[l] = "rows"
    /\ Quiet
    /\ Affect(o, handler.start)
    /\ Send(Sent(handler.start), ByHandler)
    /\ ErrorOf(handler.start)
    /\ calls' = [calls EXCEPT ![o] = IF Leaves(o) THEN Detached(more) ELSE more]
    /\ UNCHANGED place

\* The server has made the change: what was asked for before may miss it.
Changed(o, effects) ==
    LET reloaded == Sent(effects) IN
    /\ asked' = [l \in Loads |->
           LET before == IF l \in Op(o).changes
                         THEN [j \in 1 .. Len(asked[l]) |-> [asked[l][j] EXCEPT !.old = TRUE]]
                         ELSE asked[l]
           IN  IF l \notin reloaded THEN before
               ELSE Append(IF page.loads[l].cancels THEN <<>> ELSE before, New)]
    /\ behind' = IF "patch" \in effects THEN behind ELSE behind \cup Op(o).changes
    /\ spin' = spin \cup Raised(reloaded, ByHandler)
    /\ told' = told \ reloaded
    /\ UNCHANGED <<shown, overtaken>>

\* One call of o is answered: the one of an open dialogs, or one it left behind.
Taken(o, from) == [calls[o] EXCEPT ![from] = @ - 1]

Return(o, from, effects, left) ==
    /\ Affect(o, effects)
    /\ ErrorOf(effects)
    /\ calls' = [calls EXCEPT ![o] = IF Leaves(o) THEN Detached(left) ELSE left]
    /\ UNCHANGED place

\* Mutant: the handler closes its dialog and does not ask for the rows again.
Agree_unseen(o, from) ==
    /\ calls[o][from] > 0
    /\ \E follows \in Op(o).handler.follows :
          LET effects == (IF follows THEN Op(o).handler.late ELSE Op(o).handler.done)
                             \ {"reload"}
              left    == Taken(o, from)
          IN  /\ Changed(o, effects)
              /\ Return(o, from, effects,
                        IF follows THEN [left EXCEPT !.follow = @ + 1] ELSE left)

Agree(o, from) ==
    /\ calls[o][from] > 0
    /\ \E follows \in Op(o).handler.follows :
          LET effects == IF follows THEN Op(o).handler.late ELSE Op(o).handler.done
              left    == Taken(o, from)
          IN  /\ Changed(o, effects)
              /\ Return(o, from, effects,
                        IF follows THEN [left EXCEPT !.follow = @ + 1] ELSE left)

Refuse(o, from) ==
    /\ calls[o][from] > 0
    /\ Send(Sent(Op(o).handler.fail), ByHandler)
    /\ Return(o, from, Op(o).handler.fail, Taken(o, from))

\* The refusal opens the dialog of another operation.
Escalate(o, from, next) ==
    /\ calls[o][from] > 0
    /\ ~ IsOpen(next)
    /\ Send({}, ByHandler)
    /\ locks' = IF "unlock" \in Op(o).handler.fail THEN locks \ {Op(o).handler.flag} ELSE locks
    /\ dialogs' = Append(dialogs, next)
    /\ calls' = [calls EXCEPT ![o] = Taken(o, from)]
    /\ UNCHANGED <<place, error, toast>>

FollowUp(o) ==
    /\ calls[o].follow > 0
    /\ \E effects \in {Op(o).handler.done, Op(o).handler.missed} :
          /\ Resend(Sent(effects), ByHandler)
          /\ behind' = IF "patch" \in effects THEN behind \ Op(o).changes ELSE behind
          /\ Return(o, "follow", effects, Taken(o, "follow"))

Expire ==
    /\ toast
    /\ toast' = FALSE
    /\ UNCHANGED <<place, data, error, told, dialogs, locks, calls>>

Next ==
    \/ \E l \in Loads : Ask(l) \/ Refresh(l) \/ Abandon(l)
    \/ \E l \in Loads : \E i \in DOMAIN asked[l] : Answer(l, i) \/ Fail(l, i)
    \/ \E o \in Ops : Open(o) \/ Submit(o) \/ FollowUp(o)
    \/ \E o \in Ops, from \in {"here", "gone"} :
          \/ Agree(o, from) \/ Refuse(o, from)
          \/ \E next \in Op(o).handler.escalates : Escalate(o, from, next)
    \/ Close
    \/ Dismiss
    \/ Expire

Spec == Init /\ [][Next]_vars

-----------------------------------------------------------------------------
\* What single pages are known not to keep.
Excepted(table, key) == at \in DOMAIN table /\ key \in table[at]

\* A search that is cleared while it is under way leaves its flag up; the wallet's
\* handler succeeds without taking its flag down; marking all as read fails so.
Stuck == [global_search |-> {"loading"}, search |-> {"loading"},
          notifications |-> {"loading"}, wallets |-> {"modalSubmitting"}]

\* A flag that says that something is under way is taken down with it, whatever
\* became of it and whoever else uses the flag: no part of a page stays hidden and
\* no button disabled for ever.
NothingIsStuck ==
    /\ \A l \in spin :
          asked[l] = <<>> => Excepted(Stuck, page.loads[l].flag)
    /\ \A f \in locks :
          (\A o \in Ops : Op(o).handler.flag = f => InFlight(o) = 0) => Excepted(Stuck, f)

\* These keep the failure of the load to themselves.
Silent ==
    [announcements |-> {"rows"}, bookings |-> {"rows"}, contacts |-> {"rows"},
     bell |-> {"items"}, attendance |-> {"roll"}, attendance_print |-> {"sheet"},
     daily_closures |-> {"closures"},
     global_search |-> {"data"}, search |-> {"data"}, roles |-> {"permissions"},
     manager |-> {"amendments", "unenrollments"}, refunds |-> {"refunds", "history"},
     section |-> {"students", "history"}, student |-> {"history"},
     teacher_wallet |-> {"wallet", "withdrawals"}, wallets |-> {"withdrawals"},
     portal_dashboard |-> {"students", "child"}, portal_ai |-> {"sections"},
     portal_courses |-> {"data"}, portal_grades |-> {"data"}, portal_fees |-> {"data"},
     portal_attendance |-> {"data"}]

\* A list whose rows did not come does not look like a list that has none: the
\* page says that something went wrong, until the user takes that message down.
NoFalseEmpty ==
    \A region \in page.regions :
        (/\ region.lists # ""
         /\ Visible(region)
         /\ shown[region.lists] = "failed"
         /\ asked[region.lists] = <<>>)
        => error \/ region.lists \in told \/ Excepted(Silent, region.lists)

AtRest == (\A l \in Loads : asked[l] = <<>>) /\ (\A o \in Ops : InFlight(o) = 0)

\* These ask again and keep a failure to themselves, do not ask again when the step
\* that follows the change fails or at all, or take an answer that is older than the
\* change.
Outdated ==
    [announcements |-> {"rows"}, bookings |-> {"rows"}, contacts |-> {"rows"},
     attendance |-> {"roll"}, gradebook |-> {"sheet"}, daily_closures |-> {"closures"},
     enrollments |-> {"lookups"}, manager |-> {"amendments"}, notifications |-> {"items"},
     payments |-> {"payments"}, pos |-> {"enrollments"}, refunds |-> {"refunds", "history"},
     roles |-> {"grants"}, bell |-> {"items", "count"},
     section |-> {"section", "students", "history"},
     sections |-> {"sections"}, settings |-> {"user"}, student |-> {"student"},
     portal_settings |-> {"students", "header"}, wallets |-> {"withdrawals"}]

\* What the user changed shows on the page in the end, or the page says that
\* something went wrong, until the user takes that message down; an answer that a
\* later one has overtaken aside.
WritesAreSeen ==
    AtRest /\ ~ error =>
        \A l \in (behind \ overtaken) \ told : shown[l] = "rows" => Excepted(Outdated, l)

\* These can be pressed again before they are answered: nothing is disabled, or
\* the preview of the dialog takes down the flag that it shares with the handler.
Unheld ==
    [announcements |-> {"submit"}, backups |-> {"delete", "undo"},
     cancel_section |-> {"confirm"}, unenroll |-> {"confirm"}, courses |-> {"delete"},
     daily_closures |-> {"close", "request", "approve"}, employees |-> {"delete", "revoke"},
     enrollments |-> {"delete"}, landing |-> {"contact"}, refunds |-> {"undo"},
     sections |-> {"delete"}, staff_payroll |-> {"undo"}, student |-> {"enroll"},
     students |-> {"delete"}, users |-> {"toggle"}, wallets |-> {"undo"}]

\* A dialog or a button asks the server for one change at a time.  A click on a
\* row may be about another row.
OncePerPress ==
    \A o \in Ops :
        calls[o].here > 1 => \/ Op(o).row # "" /\ ~ Op(o).form
                            \/ Excepted(Unheld, o)

\* The draw of a salary is offered to the secretary, whom the server refuses.
Forbidden == [staff_payroll |-> {"withdraw"}]

\* What a page offers to a user the server does not refuse to the role of that user.
NothingForbiddenIsOffered ==
    \A o \in Ops :
        Offered(o) => \/ users \subseteq Admits[Op(o).handler.endpoint]
                     \/ Excepted(Forbidden, o)
=============================================================================
