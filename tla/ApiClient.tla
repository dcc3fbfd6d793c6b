------------------------------ MODULE ApiClient ------------------------------
(***************************************************************************)
(* The axios clients of the dashboards: interceptors that attach the CSRF  *)
(* token, retry what the network lost, renew the session on a 401 with one *)
(* refresh per tab that the other requests wait for, and leave for the     *)
(* login page when that fails.  The tabs of an application share its       *)
(* cookies and nothing else; app says which of the two is looked at, for   *)
(* their clients differ in one place.  The server is modelled from its     *)
(* middleware and its refresh endpoint; the network may lose a request or  *)
(* an answer.                                                              *)
(*                                                                         *)
(* Answers that take the same path are one: "lost" is also a 5xx, whose    *)
(* request may have run behind a gateway; "refused" is a 404, a 422 and    *)
(* every 403 that is not about CSRF.                                       *)
(***************************************************************************)
EXTENDS Naturals, FiniteSets

CONSTANTS
    Tabs,           \* open browser tabs of the application
    Requests,       \* the calls the pages make
    Mutations,      \* the calls that are POST, PATCH, PUT or DELETE
    MaxRetries      \* maxRetries: resends after a lost or a 5xx answer

ASSUME CallsAssumption == IsFiniteSet(Requests) /\ Mutations \subseteq Requests
ASSUME BoundsAssumption == MaxRetries \in Nat

VARIABLES
    app,        \* the ERP dashboard or the student portal
    tabOf,      \* the tab that makes each call
    phase,      \* where each call stands in the interceptor
    config,     \* its axios config: what it carried, its answer, its retry marks
    runs,       \* how often the server has carried the call out; a read counts once
    renewal,    \* the refresh request of each tab
    chained,    \* portal calls whose promise hangs on a refresh of their tab
    left,       \* tabs that go to the login page
    cookie,     \* the cookies of the application
    sessions,   \* refresh tokens the server has not revoked
    issued      \* refresh tokens issued so far

server == <<app, tabOf, sessions, issued>>
tabs   == <<renewal, chained, left>>
vars   == <<phase, config, runs, server, tabs, cookie>>

Apps   == {"erp", "portal"}
Phases == {"idle", "sent", "waiting", "token", "renewing", "queued", "done", "failed"}
Ended  == {"done", "failed"}

Answers == {"none", "ok", "lost", "refused", "mismatch", "unauthorized"}

\* _retryCount, _retry and _csrfRetried travel with the request.
Config == [answer : Answers, access : BOOLEAN, csrf : BOOLEAN,
           retries : 0 .. MaxRetries, authRetried : BOOLEAN, csrfRetried : BOOLEAN]

Fresh == [answer |-> "none", access |-> FALSE, csrf |-> FALSE,
          retries |-> 0, authRetried |-> FALSE, csrfRetried |-> FALSE]

Tokens    == 0 .. Cardinality(Requests) + 1
Renewal   == [step : {"none", "sent", "ok", "failed"}, token : Tokens]
NoRenewal == [step |-> "none", token |-> 0]

Queued(t)       == {r \in Requests : tabOf[r] = t /\ phase[r] = "queued"}
Starter(t)      == {r \in Requests : tabOf[r] = t /\ phase[r] = "renewing"}
IsRefreshing(t) == renewal[t].step # "none"

Init ==
    /\ app \in Apps
    /\ tabOf \in [Requests -> Tabs]
    /\ phase = [r \in Requests |-> "idle"]
    /\ config = [r \in Requests |-> Fresh]
    /\ runs = [r \in Requests |-> 0]
    /\ renewal = [t \in Tabs |-> NoRenewal]
    /\ chained = {}
    /\ left = {}
    /\ cookie \in [access : BOOLEAN, csrf : BOOLEAN, refresh : {1}]
    /\ sessions = {1}
    /\ issued = 1

-----------------------------------------------------------------------------
\* The request interceptors run on every attempt, resends included.
SendAll(calls, jar) ==
    /\ phase' = [r \in Requests |-> IF r \in calls THEN "sent" ELSE phase[r]]
    /\ config' = [r \in Requests |->
           IF r \in calls
           THEN [config[r] EXCEPT !.answer = "none", !.access = jar.access, !.csrf = jar.csrf]
           ELSE config[r]]
    /\ UNCHANGED runs

Send(r) == SendAll({r}, cookie) /\ UNCHANGED <<server, tabs, cookie>>

Call(r) == phase[r] = "idle" /\ tabOf[r] \notin left /\ Send(r)

Goto(r, p, c) ==
    /\ phase' = [phase EXCEPT ![r] = p]
    /\ config' = [config EXCEPT ![r] = c]

\* A rejected promise; a chained one runs the handler of a failed refresh too.
Fail(r, leave) ==
    /\ Goto(r, "failed", Fresh)
    /\ left' = IF leave \/ r \in chained THEN left \cup {tabOf[r]} ELSE left
    /\ chained' = chained \ {r}
    /\ UNCHANGED renewal

-----------------------------------------------------------------------------
Reached(r) == phase[r] = "sent" /\ config[r].answer = "none"

MaxOf(m, n) == IF m >= n THEN m ELSE n

\* The CSRF middleware lets the endpoint run and looks at the token afterwards.
Respond(r, a, ran) ==
    LET mismatched == r \in Mutations /\ ~config[r].csrf /\ a # "lost"
    IN  /\ Reached(r)
        /\ config' = [config EXCEPT ![r].answer = IF mismatched THEN "mismatch" ELSE a]
        /\ runs' = [runs EXCEPT ![r] = IF r \in Mutations THEN @ + ran ELSE MaxOf(@, ran)]
        /\ UNCHANGED <<phase, server, tabs, cookie>>

Admitted(r) == config[r].access /\ sessions # {}

Serve(r) ==
    /\ Admitted(r)
    /\ Respond(r, "ok", 1) \/ Respond(r, "refused", 0)

Unauthorized(r) == ~Admitted(r) /\ Respond(r, "unauthorized", 0)

\* The request is lost, or the answer of one that ran.
Lose(r) ==
    \/ Respond(r, "lost", 0)
    \/ Admitted(r) /\ Respond(r, "lost", 1)

\* The account is deactivated: neither token is accepted any more.
EndSession ==
    /\ sessions # {}
    /\ sessions' = {}
    /\ UNCHANGED <<app, tabOf, phase, config, runs, issued, tabs, cookie>>

-----------------------------------------------------------------------------
\* Every answer sets the CSRF cookie where the request had none.
Arrived(r, a) ==
    /\ phase[r] = "sent"
    /\ config[r].answer = a
    /\ cookie' = [cookie EXCEPT !.csrf = TRUE]
    /\ UNCHANGED <<server, runs>>

Succeed(r) ==
    /\ Arrived(r, "ok")
    /\ Goto(r, "done", Fresh)
    /\ chained' = chained \ {r}
    /\ UNCHANGED <<renewal, left>>

Refuse(r) == Arrived(r, "refused") /\ Fail(r, FALSE)

\* Mutant: one resend too many.
Retry_offByOne(r) ==
    /\ phase[r] = "sent"
    /\ config[r].answer = "lost"
    /\ \/ /\ config[r].retries <= MaxRetries
          /\ Goto(r, "waiting", [config[r] EXCEPT !.retries = @ + 1])
          /\ UNCHANGED tabs
       \/ /\ config[r].retries > MaxRetries
          /\ Fail(r, FALSE)
    /\ UNCHANGED <<server, runs, cookie>>

Retry(r) ==
    /\ phase[r] = "sent"
    /\ config[r].answer = "lost"
    /\ \/ /\ config[r].retries < MaxRetries
          /\ Goto(r, "waiting", [config[r] EXCEPT !.retries = @ + 1])
          /\ UNCHANGED tabs
       \/ /\ config[r].retries = MaxRetries
          /\ Fail(r, FALSE)
    /\ UNCHANGED <<server, runs, cookie>>

BackoffEnds(r) == phase[r] = "waiting" /\ Send(r)

\* 403 "CSRF token mismatch": ask for a token once, then send again.
FetchToken(r) ==
    /\ Arrived(r, "mismatch")
    /\ \/ /\ ~config[r].csrfRetried
          /\ Goto(r, "token", [config[r] EXCEPT !.csrfRetried = TRUE])
          /\ UNCHANGED tabs
       \/ /\ config[r].csrfRetried
          /\ Fail(r, TRUE)

TokenFetched(r) == phase[r] = "token" /\ Send(r)

TokenRefused(r) ==
    /\ phase[r] = "token"
    /\ Fail(r, TRUE)
    /\ UNCHANGED <<server, runs, cookie>>

-----------------------------------------------------------------------------
\* refreshSession: the first 401 of a tab sends the refresh request, the calls
\* that fail meanwhile wait for it.
Renew(r) ==
    LET t == tabOf[r]
        marked == [config[r] EXCEPT !.authRetried = TRUE]
    IN  /\ Arrived(r, "unauthorized")
        /\ ~config[r].authRetried
        /\ \/ /\ IsRefreshing(t)
              /\ Goto(r, "queued", marked)
              /\ UNCHANGED tabs
           \/ /\ ~IsRefreshing(t)
              /\ Goto(r, "renewing", marked)
              /\ renewal' = [renewal EXCEPT ![t] = [step |-> "sent", token |-> cookie.refresh]]
              /\ UNCHANGED <<chained, left>>

\* Still 401 after a refresh.
GiveUp(r) ==
    /\ Arrived(r, "unauthorized")
    /\ config[r].authRetried
    /\ Fail(r, TRUE)

\* The refresh endpoint revokes the token it is shown and issues the next one;
\* the answer may be lost.
Rotate(t) ==
    /\ renewal[t].step = "sent"
    /\ renewal[t].token \in sessions
    /\ issued' = issued + 1
    /\ sessions' = (sessions \ {renewal[t].token}) \cup {issued'}
    /\ \/ renewal' = [renewal EXCEPT ![t] = [step |-> "ok", token |-> issued']]
       \/ renewal' = [renewal EXCEPT ![t].step = "failed"]
    /\ UNCHANGED <<app, tabOf, phase, config, runs, chained, left, cookie>>

\* The token is revoked, the rate limit is reached or the request is lost;
\* axios is used bare here, without the interceptor's retries.
RefuseRotation(t) ==
    /\ renewal[t].step = "sent"
    /\ renewal' = [renewal EXCEPT ![t].step = "failed"]
    /\ UNCHANGED <<server, phase, config, runs, chained, left, cookie>>

\* Mutant: only the call that asked for the refresh is sent again.
OnRefreshed_forgets(t) ==
    LET jar == [cookie EXCEPT !.access = TRUE, !.refresh = renewal[t].token]
    IN  /\ renewal[t].step = "ok"
        /\ cookie' = jar
        /\ SendAll(Starter(t), jar)
        /\ renewal' = [renewal EXCEPT ![t] = NoRenewal]
        /\ UNCHANGED <<server, chained, left>>

\* Mutant: the dashboard chains the waiting calls as the portal does.
OnRefreshed_chains(t) ==
    LET jar == [cookie EXCEPT !.access = TRUE, !.refresh = renewal[t].token]
    IN  /\ renewal[t].step = "ok"
        /\ cookie' = jar
        /\ SendAll(Queued(t) \cup Starter(t), jar)
        /\ renewal' = [renewal EXCEPT ![t] = NoRenewal]
        /\ chained' = chained \cup Queued(t)
        /\ UNCHANGED <<server, left>>

\* The portal returns the promise of a waiting call from inside the one of the
\* refresh, so that its later errors look like a failed refresh.
NewlyChained(t) == IF app = "portal" THEN Queued(t) ELSE {}

OnRefreshed(t) ==
    LET jar == [cookie EXCEPT !.access = TRUE, !.refresh = renewal[t].token]
    IN  /\ renewal[t].step = "ok"
        /\ cookie' = jar
        /\ SendAll(Queued(t) \cup Starter(t), jar)
        /\ renewal' = [renewal EXCEPT ![t] = NoRenewal]
        /\ chained' = chained \cup NewlyChained(t)
        /\ UNCHANGED <<server, left>>

\* Mutant: a failed refresh rejects only the call that asked for it.
OnRefreshFailed_forgets(t) ==
    /\ renewal[t].step = "failed"
    /\ phase' = [r \in Requests |-> IF r \in Starter(t) THEN "failed" ELSE phase[r]]
    /\ config' = [r \in Requests |-> IF r \in Starter(t) THEN Fresh ELSE config[r]]
    /\ renewal' = [renewal EXCEPT ![t] = NoRenewal]
    /\ left' = left \cup {t}
    /\ UNCHANGED <<server, runs, chained, cookie>>

OnRefreshFailed(t) ==
    LET waiting == Queued(t) \cup Starter(t)
    IN  /\ renewal[t].step = "failed"
        /\ phase' = [r \in Requests |-> IF r \in waiting THEN "failed" ELSE phase[r]]
        /\ config' = [r \in Requests |-> IF r \in waiting THEN Fresh ELSE config[r]]
        /\ renewal' = [renewal EXCEPT ![t] = NoRenewal]
        /\ left' = left \cup {t}
        /\ UNCHANGED <<server, runs, chained, cookie>>

-----------------------------------------------------------------------------
Served(r) == Serve(r) \/ Unauthorized(r) \/ Lose(r)

Answered(r) ==
    \/ Succeed(r) \/ Refuse(r) \/ Retry(r) \/ BackoffEnds(r)
    \/ FetchToken(r) \/ TokenFetched(r) \/ TokenRefused(r) \/ Renew(r) \/ GiveUp(r)

Refreshed(t) == Rotate(t) \/ RefuseRotation(t) \/ OnRefreshed(t) \/ OnRefreshFailed(t)

Next ==
    \/ \E r \in Requests : Call(r) \/ Served(r) \/ Answered(r)
    \/ \E t \in Tabs : Refreshed(t)
    \/ EndSession

\* The network and the timers answer in the end; nobody has to make a call.
Fairness ==
    /\ \A r \in Requests : WF_vars(Served(r) \/ Answered(r))
    /\ \A t \in Tabs : WF_vars(Refreshed(t))

Spec == Init /\ [][Next]_vars /\ Fairness

-----------------------------------------------------------------------------
TypeOK ==
    /\ app \in Apps
    /\ tabOf \in [Requests -> Tabs]
    /\ phase \in [Requests -> Phases]
    /\ config \in [Requests -> Config]
    /\ runs \in [Requests -> 0 .. MaxRetries + 2]
    /\ renewal \in [Tabs -> Renewal]
    /\ chained \subseteq Requests
    /\ left \subseteq Tabs
    /\ cookie \in [access : BOOLEAN, csrf : BOOLEAN, refresh : Tokens]
    /\ sessions \subseteq Tokens
    /\ issued \in Tokens

\* A call waits for a refresh only while its tab has one under way, and a tab
\* has at most one: isRefreshing and refreshSubscribers never disagree, or a
\* page would wait for ever.
NoOneWaitsForNothing ==
    \A t \in Tabs :
        /\ Queued(t) # {} => IsRefreshing(t)
        /\ Cardinality(Starter(t)) = IF IsRefreshing(t) THEN 1 ELSE 0

\* The ERP leaves a page for the login page only over a failed authentication:
\* a refresh or a CSRF token that did not come, or a second refusal after one.
\* What the server says about the business, or the loss of an answer, never
\* throws the user out, however often the call was queued and sent again.
OnlyAuthErrorsLeave ==
    [][app = "erp" =>
        \A t \in left' \ left : \E r \in Requests :
            /\ tabOf[r] = t /\ phase[r] # "failed" /\ phase'[r] = "failed"
            /\ \/ phase[r] \in {"renewing", "token"}
               \/ config[r].answer \in {"mismatch", "unauthorized"}]_vars

\* To the page, all of this is one call that ends once: an answer means that
\* the server has carried it out, at most once per resend the interceptor has.
Settled(r) ==
    CASE phase[r] = "idle"   -> "none"
      [] phase[r] = "done"   -> "answered"
      [] phase[r] = "failed" -> "rejected"
      [] OTHER               -> "pending"

Promise == INSTANCE Exchange WITH
    Calls   <- Requests,
    MaxRuns <- MaxRetries + 2,
    outcome <- [r \in Requests |-> Settled(r)],
    runs    <- runs

ImplementsExchange == Promise!Spec

\* Every call that was made ends, whatever the network and the session do: no
\* path through the interceptor loops or forgets its caller.
EveryCallEnds ==
    \A r \in Requests : phase[r] # "idle" ~> phase[r] \in Ended

\* docs/archive/plans/qa-chaos-remediation/phase-05-idempotency-keys.md:10:
\* "Network drops mid-payment - retry with same idempotency key does not
\* create second payment".  The interceptor makes a new key for every attempt,
\* so that the server cannot tell a resend from a second payment.
RetryRunsOnce ==
    \A r \in Mutations :
        phase[r] \notin Ended /\ ~config[r].csrfRetried => runs[r] <= 1
=============================================================================
