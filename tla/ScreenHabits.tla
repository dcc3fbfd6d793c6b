----------------------------- MODULE ScreenHabits -----------------------------
(***************************************************************************)
(* What the rules of a page must keep to, one handler and one load at a    *)
(* time, for what Screens claims about the behaviour of the page.  TLC     *)
(* evaluates the assumptions for the rules of every page; what follows     *)
(* from them for the behaviour is proved in Screens_proofs.                *)
(***************************************************************************)
EXTENDS Screens

\* The page is in the table of those that are known not to keep to it.
Exempt(table, p, key) == p \in DOMAIN table /\ key \in table[p]

LoadsOf(p) == DOMAIN Rules[p].loads
LoadOf(p, l) == Rules[p].loads[l]
OpsOf(p) == DOMAIN OperationsOf(Rules[p].regions)
OpOf(p, o) == OperationsOf(Rules[p].regions)[o]

\* The effects of the handler of an operation, and of opening its dialog.
EffectsOf(p, o) ==
    {OpOf(p, o).opens, OpOf(p, o).handler.start, OpOf(p, o).handler.done,
     OpOf(p, o).handler.fail, OpOf(p, o).handler.late, OpOf(p, o).handler.missed}

\* The effects that the answers of a load may have, or its failures.
Endings(load, kind) == {load[kind]} \cup {effects[kind] : effects \in load.again}

\* The loads that effects send.
SentOn(p, effects) == {l \in LoadsOf(p) : LoadOf(p, l).at \cap effects # {}}

WellFormed(p) ==
    /\ \A o \in OpsOf(p) :
          /\ OpOf(p, o).handler.follows \subseteq BOOLEAN
          /\ OpOf(p, o).changes \subseteq LoadsOf(p)
    /\ \A region \in Rules[p].regions : region.lists \in LoadsOf(p) \cup {""}

-----------------------------------------------------------------------------
\* No request of the load raises its flag.
NeverRaises(load) ==
    /\ load.start \cap {"spin", "cover", "first"} = {}
    /\ \A effects \in load.again : "spin" \notin effects.start

\* Whatever becomes of a request that raises the flag of the load takes it down.
TakesDown(load) ==
    /\ ~ load.abandons
    /\ "unspin" \in load.done /\ "unspin" \in load.fail
    /\ (\E effects \in load.again : "spin" \in effects.start)
          => \A effects \in load.again : "unspin" \in effects.done /\ "unspin" \in effects.fail

\* No handler sets the flag, or each that uses it takes it down in the end.
FlagIsLowered(p, flag) ==
    \/ \A o \in OpsOf(p) : OpOf(p, o).handler.flag = flag =>
          \A effects \in EffectsOf(p, o) : "lock" \notin effects
    \/ \A o \in OpsOf(p) : OpOf(p, o).handler.flag = flag =>
          \A effects \in {OpOf(p, o).handler.done, OpOf(p, o).handler.fail,
                         OpOf(p, o).handler.missed} :
              "unlock" \in effects /\ "lock" \notin effects

FlagsComeDown(p) ==
    /\ \A l \in LoadsOf(p) :
          \/ Exempt(Stuck, p, LoadOf(p, l).flag)
          \/ NeverRaises(LoadOf(p, l))
          \/ TakesDown(LoadOf(p, l))
    /\ \A o \in OpsOf(p) :
          \/ Exempt(Stuck, p, OpOf(p, o).handler.flag)
          \/ FlagIsLowered(p, OpOf(p, o).handler.flag)

-----------------------------------------------------------------------------
\* All that use the flag wait for it and set it; nobody takes it down early.
Exclusive(p, flag) ==
    /\ \A o \in OpsOf(p) : OpOf(p, o).handler.flag = flag =>
          /\ OpOf(p, o).handler.held
          /\ "lock" \in OpOf(p, o).handler.start
          /\ TRUE \in OpOf(p, o).handler.follows => "unlock" \notin OpOf(p, o).handler.late
    /\ \A l \in LoadsOf(p) : LoadOf(p, l).flag = flag =>
          \A effects \in Endings(LoadOf(p, l), "done") \cup Endings(LoadOf(p, l), "fail") :
              "unspin" \notin effects

\* Its dialog goes away when it is sent.
LeavesFirst(op) == op.form /\ op.handler.start \cap {"close", "shut"} # {}

PressedOnce(p) ==
    \A o \in OpsOf(p) :
        \/ OpOf(p, o).row # "" /\ ~ OpOf(p, o).form
        \/ Exempt(Unheld, p, o)
        \/ LeavesFirst(OpOf(p, o))
        \/ Exclusive(p, OpOf(p, o).handler.flag)

-----------------------------------------------------------------------------
\* A failure of the load is said.
SaysItFailed(load) == \A effects \in Endings(load, "fail") : "error" \in effects

\* Nothing but another request of the load takes the error off the page.
ErrorStands(p, l) ==
    /\ \A k \in LoadsOf(p) \ {l} :
          /\ \A effects \in Endings(LoadOf(p, k), "done") \cup Endings(LoadOf(p, k), "fail") :
                "clear" \in effects => "error" \in effects
          /\ "asked" \in LoadOf(p, k).at => "clear" \notin LoadOf(p, k).start
    /\ \A o \in OpsOf(p) : \A effects \in EffectsOf(p, o) :
          \/ "error" \in effects
          \/ l \in SentOn(p, effects)
          \/ /\ "clear" \notin effects
             /\ \A k \in SentOn(p, effects) : "clear" \notin LoadOf(p, k).start

FailuresAreSaid(p, l) == SaysItFailed(LoadOf(p, l)) /\ ErrorStands(p, l)

EmptyIsTrue(p) ==
    \A region \in Rules[p].regions :
        LET l == region.lists IN
        \/ l = ""
        \/ Exempt(Silent, p, l)
        \/ l \in Rules[p].broken
        \/ FailuresAreSaid(p, l)

-----------------------------------------------------------------------------
\* Who changes the rows of the load sends it again, or says that it could not:
\* at once, or after the step that follows the change.
AsksAtOnce(p, l, handler) ==
    /\ l \in SentOn(p, handler.late)
    /\ FALSE \notin handler.follows

AsksInTheEnd(p, l, handler) ==
    /\ l \in SentOn(p, handler.done)
    /\ TRUE \in handler.follows =>
          l \in SentOn(p, handler.missed) \/ "error" \in handler.missed

AsksAgain(p, l) ==
    /\ FailuresAreSaid(p, l)
    /\ \A effects \in Endings(LoadOf(p, l), "done") : "clear" \notin effects
    /\ \A o \in OpsOf(p) : l \in OpOf(p, o).changes =>
          \/ AsksAtOnce(p, l, OpOf(p, o).handler)
          \/ AsksInTheEnd(p, l, OpOf(p, o).handler)

\* The load is sent once, when the page is opened, and holds its flag until then.
OnlyOnce(p, l) ==
    /\ LoadOf(p, l).at = {"mount"}
    /\ LoadOf(p, l).start \cap OnMount # {}
    /\ LoadOf(p, l).again = {}
    /\ ~ LoadOf(p, l).abandons
    /\ \A k \in LoadsOf(p) \ {l} : LoadOf(p, k).flag # LoadOf(p, l).flag
    /\ \A o \in OpsOf(p) : \A effects \in EffectsOf(p, o) : "mount" \notin effects

\* What changes its rows is hidden until then, and changes them by hand.
PatchesByHand(p, l) ==
    /\ OnlyOnce(p, l)
    /\ \A o \in OpsOf(p) : l \in OpOf(p, o).changes =>
          /\ ~ OpOf(p, o).form /\ ~ OpOf(p, o).toast
          /\ OpOf(p, o).handler.follows = {FALSE}
          /\ "patch" \in OpOf(p, o).handler.done
          /\ \A region \in Rules[p].regions :
                o \in DOMAIN region.ops => LoadOf(p, l).flag \in Rules[p].gates \cup region.hiddenBy

ChangesAreShown(p) ==
    \A o \in OpsOf(p) : \A l \in OpOf(p, o).changes :
        Exempt(Outdated, p, l) \/ AsksAgain(p, l) \/ PatchesByHand(p, l)

-----------------------------------------------------------------------------
\* An operation is offered to nobody whom the server refuses.
OnlyToAdmitted(p) ==
    \A o \in OpsOf(p) :
        \/ Exempt(Forbidden, p, o)
        \/ OpOf(p, o).by \cap Rules[p].roles \subseteq Admits[OpOf(p, o).handler.endpoint]

ASSUME PagesAssumption   == \A p \in Pages : WellFormed(p)
ASSUME FlagsAssumption   == \A p \in Pages : FlagsComeDown(p)
ASSUME PressAssumption   == \A p \in Pages : PressedOnce(p)
ASSUME EmptyAssumption   == \A p \in Pages : EmptyIsTrue(p)
ASSUME ChangesAssumption == \A p \in Pages : ChangesAreShown(p)
ASSUME OfferAssumption   == \A p \in Pages : OnlyToAdmitted(p)
=============================================================================
