-------------------------- MODULE ApiClient_proofs --------------------------
(* Proofs about ApiClient for any number of tabs and calls and any number  *)
(* of resends, and of the refinement of Exchange.                          *)
EXTENDS ApiClient, FiniteSetTheorems, TLAPS

(***************************************************************************)
(* The inductive invariant.  A call is sent again for several reasons,     *)
(* each with a mark of its own that travels with the request; the marks    *)
(* bound how often the server may have carried it out and how many refresh *)
(* tokens were asked for.  The calls that wait in a tab, the one that      *)
(* started the refresh and the refresh itself come and go together.        *)
(***************************************************************************)

\* What TypeOK says about the calls, but for the bound on runs, and about the
\* tabs and the server.
CallsOK ==
    /\ phase \in [Requests -> Phases] /\ config \in [Requests -> Config]
    /\ runs \in [Requests -> Nat]
TabsOK ==
    /\ app \in Apps /\ tabOf \in [Requests -> Tabs]
    /\ renewal \in [Tabs -> Renewal]
    /\ chained \subseteq Requests /\ left \subseteq Tabs
    /\ cookie \in [access : BOOLEAN, csrf : BOOLEAN, refresh : Tokens]
    /\ sessions \subseteq Tokens /\ issued \in Tokens

\* A tab that is refreshing has one call that asked for it; a tab that is not
\* has none, and nobody waits.
WaitersHaveARefresh ==
    \A t \in Tabs :
        \/ IsRefreshing(t) /\ \E s \in Requests : Starter(t) = {s}
        \/ ~IsRefreshing(t) /\ Starter(t) = {} /\ Queued(t) = {}

\* Only the portal chains the calls that waited.
OnlyPortalChains == app = "erp" => chained = {}

\* The resends that a call had for a reason that lets the server run again.
Resends(r) == config[r].retries + (IF config[r].csrfRetried THEN 1 ELSE 0)

\* The answer under way may be that of a request that ran.
MayHaveRun(r) ==
    phase[r] = "sent" /\ config[r].answer \in {"ok", "lost", "refused", "mismatch"}

\* A call ran at most once per attempt, and a good answer means that it did.
RunsAreCounted(r) ==
    /\ phase[r] \notin Ended
          => runs[r] <= Resends(r) + (IF MayHaveRun(r) THEN 1 ELSE 0)
    /\ runs[r] <= MaxRetries + 2
    /\ phase[r] = "sent" /\ config[r].answer = "ok" => runs[r] > 0

\* The calls that have had their refresh, and the tabs whose refresh request
\* is on its way to the server.
Spent  == {r \in Requests : phase[r] \in Ended \/ config[r].authRetried}
Asking == {t \in Tabs : renewal[t].step = "sent"}

\* Every token was asked for by a call, and no call asks twice.
TokensAreCounted ==
    /\ IsFiniteSet(Asking)
    /\ issued + Cardinality(Asking) <= 1 + Cardinality(Spent)

IInv ==
    /\ CallsOK /\ TabsOK
    /\ WaitersHaveARefresh /\ OnlyPortalChains /\ TokensAreCounted
    /\ \A r \in Requests : RunsAreCounted(r)

-----------------------------------------------------------------------------
(* What the operators of the steps do.                                     *)

\* The parts give the types, the bound on the runs included.
LEMMA TypeParts == IInv => TypeOK
<1> SUFFICES ASSUME IInv PROVE TypeOK
  OBVIOUS
<1>1. runs \in [Requests -> 0 .. MaxRetries + 2]
  <2>1. \A r \in Requests : runs[r] \in Nat /\ runs[r] <= MaxRetries + 2
    BY DEF IInv, CallsOK, RunsAreCounted
  <2>2. \A r \in Requests : runs[r] \in 0 .. MaxRetries + 2
    BY <2>1, BoundsAssumption
  <2> QED
    BY <2>2 DEF IInv, CallsOK
<1> QED
  BY <1>1 DEF IInv, CallsOK, TabsOK, TypeOK

\* The tokens are numbers, the first of them among them.
LEMMA TokensType ==
    /\ Cardinality(Requests) \in Nat
    /\ Tokens \subseteq Nat /\ {0, 1} \subseteq Tokens
    /\ \A n \in Nat : n \in Tokens <=> n <= Cardinality(Requests) + 1
<1>1. Cardinality(Requests) \in Nat
  BY CallsAssumption, FS_CardinalityType
<1> QED
  BY <1>1 DEF Tokens

\* A call that has just been made or has ended.
LEMMA FreshType == Fresh \in Config /\ NoRenewal \in Renewal
<1>1. Fresh \in Config
  BY BoundsAssumption DEF Fresh, Config, Answers
<1>2. NoRenewal \in Renewal
  BY TokensType DEF NoRenewal, Renewal
<1> QED
  BY <1>1, <1>2

\* What Goto does to the calls.
LEMMA GotoMoves ==
    ASSUME CallsOK, NEW r \in Requests, NEW p \in Phases, NEW c \in Config, Goto(r, p, c)
    PROVE  /\ phase' \in [Requests -> Phases] /\ config' \in [Requests -> Config]
           /\ phase'[r] = p /\ config'[r] = c
           /\ \A q \in Requests \ {r} : phase'[q] = phase[q] /\ config'[q] = config[q]
  BY DEF Goto, CallsOK

\* What SendAll does to the calls.
LEMMA SendMoves ==
    ASSUME CallsOK, NEW calls, NEW jar,
           jar.access \in BOOLEAN, jar.csrf \in BOOLEAN, SendAll(calls, jar)
    PROVE  /\ CallsOK' /\ runs' = runs
           /\ \A q \in Requests :
                IF q \in calls
                THEN /\ phase'[q] = "sent" /\ config'[q].answer = "none"
                     /\ config'[q].retries = config[q].retries
                     /\ config'[q].authRetried = config[q].authRetried
                     /\ config'[q].csrfRetried = config[q].csrfRetried
                ELSE phase'[q] = phase[q] /\ config'[q] = config[q]
<1> DEFINE sent(q) == [config[q] EXCEPT !.answer = "none", !.access = jar.access,
                                        !.csrf = jar.csrf]
<1>1. /\ phase' = [q \in Requests |-> IF q \in calls THEN "sent" ELSE phase[q]]
      /\ config' = [q \in Requests |-> IF q \in calls THEN sent(q) ELSE config[q]]
      /\ runs' = runs
  BY DEF SendAll
<1>2. ASSUME NEW q \in Requests
      PROVE  /\ sent(q) \in Config /\ sent(q).answer = "none"
             /\ sent(q).retries = config[q].retries
             /\ sent(q).authRetried = config[q].authRetried
             /\ sent(q).csrfRetried = config[q].csrfRetried
  <2>1. config[q] \in Config
    BY DEF CallsOK
  <2> QED
    BY <2>1 DEF Config, Answers
<1> HIDE DEF sent
<1>3. phase' \in [Requests -> Phases]
  BY <1>1 DEF CallsOK, Phases
<1>4. config' \in [Requests -> Config]
  BY <1>1, <1>2 DEF CallsOK
<1>5. ASSUME NEW q \in Requests
      PROVE IF q \in calls
            THEN /\ phase'[q] = "sent" /\ config'[q].answer = "none"
                 /\ config'[q].retries = config[q].retries
                 /\ config'[q].authRetried = config[q].authRetried
                 /\ config'[q].csrfRetried = config[q].csrfRetried
            ELSE phase'[q] = phase[q] /\ config'[q] = config[q]
  <2>1. /\ phase'[q] = IF q \in calls THEN "sent" ELSE phase[q]
        /\ config'[q] = IF q \in calls THEN sent(q) ELSE config[q]
    BY <1>1
  <2> QED
    BY <1>2, <2>1
<1> QED
  BY <1>1, <1>3, <1>4, <1>5 DEF CallsOK

-----------------------------------------------------------------------------
(* What the steps have in common.                                          *)

\* The invariant holds before the first call.
LEMMA InitIInv == Init => IInv
<1> SUFFICES ASSUME Init PROVE IInv
  OBVIOUS
<1>1. CallsOK
  BY FreshType DEF Init, CallsOK, Phases
<1>2. TabsOK
  <2>1. renewal \in [Tabs -> Renewal]
    BY FreshType DEF Init
  <2>2. cookie \in [access : BOOLEAN, csrf : BOOLEAN, refresh : Tokens]
    BY TokensType DEF Init
  <2> QED
    BY <2>1, <2>2, TokensType DEF Init, TabsOK
<1>3. WaitersHaveARefresh /\ OnlyPortalChains
  BY DEF Init, WaitersHaveARefresh, OnlyPortalChains, IsRefreshing, Starter, Queued, NoRenewal
<1>4. TokensAreCounted
  <2>1. Asking = {} /\ Spent = {}
    BY DEF Init, Asking, Spent, NoRenewal, Fresh, Ended
  <2> QED
    BY <2>1, FS_EmptySet DEF Init, TokensAreCounted
<1>5. \A r \in Requests : RunsAreCounted(r)
  BY BoundsAssumption DEF Init, RunsAreCounted, Resends, MayHaveRun, Fresh
<1> QED
  BY <1>1, <1>2, <1>3, <1>4, <1>5 DEF IInv

\* A step that leaves the waiting calls and the refreshes where they are.
LEMMA WaitersKept ==
    ASSUME IInv, tabOf' = tabOf,
           \A t \in Tabs : renewal'[t].step = "none" <=> renewal[t].step = "none",
           \A r \in Requests : \/ phase'[r] = phase[r]
                               \/ /\ phase[r] \notin {"queued", "renewing"}
                                  /\ phase'[r] \notin {"queued", "renewing"}
    PROVE  WaitersHaveARefresh'
<1>1. ASSUME NEW t \in Tabs
      PROVE  IsRefreshing(t)' = IsRefreshing(t) /\ Starter(t)' = Starter(t)
             /\ Queued(t)' = Queued(t)
  BY DEF IsRefreshing, Starter, Queued
<1> QED
  BY <1>1 DEF IInv, WaitersHaveARefresh

\* A step that asks for no token and gives no call its refresh back.
LEMMA TokensKept ==
    ASSUME IInv, issued' = issued,
           \A t \in Tabs : renewal'[t].step = "sent" => renewal[t].step = "sent",
           \A r \in Requests : phase[r] \in Ended \/ config[r].authRetried
                                  => phase'[r] \in Ended \/ config'[r].authRetried
    PROVE  TokensAreCounted'
<1>1. Asking' \subseteq Asking /\ Spent \subseteq Spent' /\ Spent' \subseteq Requests
  BY DEF Asking, Spent
<1>2. IsFiniteSet(Spent')
  BY <1>1, CallsAssumption, FS_Subset
<1>3. /\ IsFiniteSet(Asking') /\ Cardinality(Asking') <= Cardinality(Asking)
      /\ Cardinality(Spent) <= Cardinality(Spent')
  BY <1>1, <1>2, FS_Subset DEF IInv, TokensAreCounted
<1>4. /\ Cardinality(Asking) \in Nat /\ Cardinality(Asking') \in Nat
      /\ Cardinality(Spent) \in Nat /\ Cardinality(Spent') \in Nat /\ issued \in Nat
  BY <1>1, <1>2, <1>3, FS_Subset, FS_CardinalityType, TokensType
     DEF IInv, TokensAreCounted, TabsOK
<1> QED
  BY <1>3, <1>4 DEF IInv, TokensAreCounted

\* A step of one call that neither waits for a refresh nor starts to.
LEMMA OneCallKeeps ==
    ASSUME IInv, NEW r \in Requests, CallsOK', TabsOK', OnlyPortalChains',
           UNCHANGED <<tabOf, renewal, issued>>,
           phase[r] \notin {"queued", "renewing"}, phase'[r] \notin {"queued", "renewing"},
           phase[r] \in Ended \/ config[r].authRetried
              => phase'[r] \in Ended \/ config'[r].authRetried,
           \A q \in Requests \ {r} : UNCHANGED <<phase[q], config[q], runs[q]>>,
           RunsAreCounted(r)'
    PROVE  IInv'
<1>1. WaitersHaveARefresh'
  BY WaitersKept
<1>2. TokensAreCounted'
  BY TokensKept
<1>3. \A q \in Requests : RunsAreCounted(q)'
  BY DEF IInv, RunsAreCounted, Resends, MayHaveRun
<1> QED
  BY <1>1, <1>2, <1>3 DEF IInv

\* The request of a call goes out, again or for the first time.
LEMMA SendKeeps ==
    ASSUME IInv, NEW r \in Requests, phase[r] \in {"idle", "waiting", "token"}, Send(r)
    PROVE  IInv'
<1>1. /\ SendAll({r}, cookie) /\ UNCHANGED <<server, tabs, cookie>>
      /\ cookie.access \in BOOLEAN /\ cookie.csrf \in BOOLEAN
  BY DEF Send, IInv, TabsOK
<1>2. /\ CallsOK' /\ runs' = runs /\ phase'[r] = "sent" /\ config'[r].answer = "none"
      /\ config'[r].retries = config[r].retries
      /\ config'[r].authRetried = config[r].authRetried
      /\ config'[r].csrfRetried = config[r].csrfRetried
      /\ \A q \in Requests \ {r} : phase'[q] = phase[q] /\ config'[q] = config[q]
  BY <1>1, SendMoves DEF IInv
<1>3. /\ UNCHANGED <<app, tabOf, renewal, chained, left, cookie, sessions, issued>>
      /\ TabsOK' /\ OnlyPortalChains'
  BY <1>1 DEF server, tabs, IInv, TabsOK, OnlyPortalChains
<1>4. RunsAreCounted(r)'
  BY <1>2 DEF IInv, RunsAreCounted, Resends, MayHaveRun, Ended
<1>5. ~(phase[r] \in Ended)
  BY DEF Ended
<1> QED
  BY <1>2, <1>3, <1>4, <1>5, OneCallKeeps

\* A call is rejected that waited for no refresh.
LEMMA FailKeeps ==
    ASSUME IInv, NEW r \in Requests, phase[r] \in {"sent", "token"}, NEW leave, Fail(r, leave),
           UNCHANGED <<server, runs>>,
           cookie' \in [access : BOOLEAN, csrf : BOOLEAN, refresh : Tokens]
    PROVE  IInv'
<1>1. /\ CallsOK' /\ phase'[r] = "failed"
      /\ \A q \in Requests \ {r} : phase'[q] = phase[q] /\ config'[q] = config[q]
  BY FreshType, GotoMoves DEF Fail, IInv, CallsOK, Phases
<1>2. /\ UNCHANGED <<app, tabOf, sessions, issued, renewal, runs>>
      /\ chained' = chained \ {r} /\ left' \in {left, left \cup {tabOf[r]}}
  BY DEF Fail, server
<1>3. TabsOK' /\ OnlyPortalChains'
  BY <1>2 DEF IInv, TabsOK, OnlyPortalChains
<1>4. RunsAreCounted(r)'
  BY <1>1, <1>2 DEF IInv, RunsAreCounted, Ended
<1> QED
  BY <1>1, <1>2, <1>3, <1>4, OneCallKeeps DEF Ended

\* What every answer does to the cookies.
LEMMA ArrivedType ==
    ASSUME IInv, NEW r \in Requests, NEW a, Arrived(r, a)
    PROVE  /\ phase[r] = "sent" /\ config[r].answer = a
           /\ cookie' \in [access : BOOLEAN, csrf : BOOLEAN, refresh : Tokens]
           /\ UNCHANGED <<app, tabOf, sessions, issued, runs>>
  BY DEF Arrived, server, IInv, TabsOK

-----------------------------------------------------------------------------
(* One lemma per action.                                                   *)

\* A page makes a call.
LEMMA CallStep == ASSUME IInv, NEW r \in Requests, Call(r) PROVE IInv'
  BY SendKeeps DEF Call

\* What the server's answer, or its loss, does to a call: it may have run, and
\* certainly did when the answer is good.
LEMMA RespondMoves ==
    ASSUME IInv, NEW r \in Requests,
           NEW a \in {"ok", "refused", "unauthorized", "lost"}, NEW ran \in {0, 1},
           ran = 1 => a \in {"ok", "lost"}, a = "ok" => ran = 1,
           Respond(r, a, ran)
    PROVE  /\ phase[r] = "sent" /\ config[r].answer = "none" /\ phase' = phase
           /\ CallsOK' /\ UNCHANGED <<server, tabs, cookie>>
           /\ config'[r].answer \in {a, "mismatch"}
           /\ config'[r].retries = config[r].retries
           /\ config'[r].authRetried = config[r].authRetried
           /\ config'[r].csrfRetried = config[r].csrfRetried
           /\ runs'[r] = runs[r] \/ (ran = 1 /\ runs'[r] = runs[r] + 1)
           /\ config'[r].answer = "ok" => runs'[r] > 0
           /\ \A q \in Requests \ {r} : config'[q] = config[q] /\ runs'[q] = runs[q]
<1> DEFINE b == IF r \in Mutations /\ ~config[r].csrf /\ a # "lost" THEN "mismatch" ELSE a
           n == IF r \in Mutations THEN runs[r] + ran ELSE MaxOf(runs[r], ran)
<1>1. /\ Reached(r) /\ UNCHANGED <<phase, server, tabs, cookie>>
      /\ config' = [config EXCEPT ![r].answer = b]
      /\ runs' = [runs EXCEPT ![r] = n]
  BY DEF Respond
<1>2. phase \in [Requests -> Phases] /\ config \in [Requests -> Config]
      /\ runs \in [Requests -> Nat] /\ runs[r] \in Nat
  BY DEF IInv, CallsOK
<1>3. b \in {a, "mismatch"} /\ b \in Answers
  BY DEF Answers
<1>4. /\ n \in Nat /\ (n = runs[r] \/ (ran = 1 /\ n = runs[r] + 1)) /\ (ran = 1 => n > 0)
  BY <1>2 DEF MaxOf
<1> HIDE DEF b, n
<1>5. LET c == [config[r] EXCEPT !.answer = b]
      IN  /\ c \in Config /\ c.answer = b /\ c.retries = config[r].retries
          /\ c.authRetried = config[r].authRetried /\ c.csrfRetried = config[r].csrfRetried
  BY <1>2, <1>3 DEF Config
<1>6. /\ config' \in [Requests -> Config] /\ config'[r] = [config[r] EXCEPT !.answer = b]
      /\ \A q \in Requests \ {r} : config'[q] = config[q]
  BY <1>1, <1>2, <1>5
<1>7. /\ runs' \in [Requests -> Nat] /\ runs'[r] = n
      /\ \A q \in Requests \ {r} : runs'[q] = runs[q]
  BY <1>1, <1>2, <1>4
<1>8. CallsOK'
  BY <1>1, <1>2, <1>6, <1>7 DEF CallsOK
<1>9. b = "ok" => ran = 1
  BY <1>3
<1> QED
  BY <1>1, <1>3, <1>4, <1>6, <1>7, <1>8, <1>9 DEF Reached

\* An answer adds at most one run to what the attempts so far account for.
LEMMA RespondKeeps ==
    ASSUME IInv, NEW r \in Requests,
           NEW a \in {"ok", "refused", "unauthorized", "lost"}, NEW ran \in {0, 1},
           ran = 1 => a \in {"ok", "lost"}, a = "ok" => ran = 1,
           Respond(r, a, ran)
    PROVE  IInv'
<1>1. /\ phase[r] = "sent" /\ config[r].answer = "none" /\ phase' = phase
      /\ CallsOK' /\ UNCHANGED <<server, tabs, cookie>>
      /\ config'[r].answer \in {a, "mismatch"}
      /\ config'[r].retries = config[r].retries
      /\ config'[r].authRetried = config[r].authRetried
      /\ config'[r].csrfRetried = config[r].csrfRetried
      /\ runs'[r] = runs[r] \/ (ran = 1 /\ runs'[r] = runs[r] + 1)
      /\ config'[r].answer = "ok" => runs'[r] > 0
      /\ \A q \in Requests \ {r} : config'[q] = config[q] /\ runs'[q] = runs[q]
  BY RespondMoves
<1>2. /\ UNCHANGED <<app, tabOf, renewal, chained, left, cookie, sessions, issued>>
      /\ TabsOK' /\ OnlyPortalChains'
  BY <1>1 DEF server, tabs, IInv, TabsOK, OnlyPortalChains
<1>3. config[r] \in Config /\ runs[r] \in Nat /\ runs'[r] \in Nat
  BY <1>1 DEF IInv, CallsOK
<1>4. Resends(r)' = Resends(r)
  BY <1>1 DEF Resends
<1>5. Resends(r) \in Nat /\ Resends(r) <= MaxRetries + 1
  BY <1>3, BoundsAssumption DEF Resends, Config
<1>6. runs[r] <= Resends(r)
  BY <1>1, <1>3, <1>5 DEF IInv, RunsAreCounted, MayHaveRun, Ended
<1>7. ran = 1 => MayHaveRun(r)'
  BY <1>1 DEF MayHaveRun
<1>8. runs'[r] <= Resends(r)' + (IF MayHaveRun(r)' THEN 1 ELSE 0)
  BY <1>1, <1>3, <1>4, <1>5, <1>6, <1>7
<1>9. runs'[r] <= MaxRetries + 2
  BY <1>1, <1>3, <1>5, <1>6, BoundsAssumption
<1>10. RunsAreCounted(r)'
  BY <1>1, <1>8, <1>9 DEF RunsAreCounted
<1> QED
  BY <1>1, <1>2, <1>10, OneCallKeeps

\* The server answers, or the request or its answer is lost.
LEMMA ServedStep == ASSUME IInv, NEW r \in Requests, Served(r) PROVE IInv'
<1>1. \/ Respond(r, "ok", 1) \/ Respond(r, "refused", 0) \/ Respond(r, "unauthorized", 0)
      \/ Respond(r, "lost", 0) \/ Respond(r, "lost", 1)
  BY DEF Served, Serve, Unauthorized, Lose
<1> QED
  BY <1>1, RespondKeeps

\* A good answer ends the call.
LEMMA SucceedStep == ASSUME IInv, NEW r \in Requests, Succeed(r) PROVE IInv'
<1>1. /\ phase[r] = "sent" /\ UNCHANGED <<app, tabOf, sessions, issued, runs, renewal, left>>
      /\ cookie' \in [access : BOOLEAN, csrf : BOOLEAN, refresh : Tokens]
      /\ chained' = chained \ {r}
  BY ArrivedType DEF Succeed
<1>2. /\ CallsOK' /\ phase'[r] = "done"
      /\ \A q \in Requests \ {r} : phase'[q] = phase[q] /\ config'[q] = config[q]
  BY <1>1, FreshType, GotoMoves DEF Succeed, IInv, CallsOK, Phases
<1>3. TabsOK' /\ OnlyPortalChains'
  BY <1>1 DEF IInv, TabsOK, OnlyPortalChains
<1>4. RunsAreCounted(r)'
  BY <1>1, <1>2 DEF IInv, RunsAreCounted, Ended
<1> QED
  BY <1>1, <1>2, <1>3, <1>4, OneCallKeeps DEF Ended

\* A refusal over the business ends the call.
LEMMA RefuseStep == ASSUME IInv, NEW r \in Requests, Refuse(r) PROVE IInv'
  BY ArrivedType, FailKeeps DEF Refuse, Arrived

\* A call that goes on to another phase with a mark more keeps the invariant
\* if the mark pays for the attempt that ends.
LEMMA MarkKeeps ==
    ASSUME IInv, NEW r \in Requests, phase[r] = "sent",
           NEW p \in {"waiting", "token"}, NEW c \in Config, Goto(r, p, c),
           c.authRetried = config[r].authRetried,
           c.retries + (IF c.csrfRetried THEN 1 ELSE 0) = Resends(r) + 1,
           UNCHANGED <<server, tabs, runs>>,
           cookie' \in [access : BOOLEAN, csrf : BOOLEAN, refresh : Tokens]
    PROVE  IInv'
<1>1. p \in Phases
  BY DEF Phases
<1>2. /\ CallsOK' /\ phase'[r] = p /\ config'[r] = c
      /\ \A q \in Requests \ {r} : phase'[q] = phase[q] /\ config'[q] = config[q]
  BY <1>1, GotoMoves DEF IInv, CallsOK
<1>3. /\ UNCHANGED <<app, tabOf, renewal, chained, left, sessions, issued>>
      /\ TabsOK' /\ OnlyPortalChains'
  BY DEF server, tabs, IInv, TabsOK, OnlyPortalChains
<1>4. RunsAreCounted(r)'
  <2>1. runs[r] <= Resends(r) + 1 /\ runs[r] <= MaxRetries + 2
    <3>1. runs[r] \in Nat /\ config[r] \in Config
      BY DEF IInv, CallsOK
    <3>2. Resends(r) \in Nat
      BY <3>1 DEF Resends, Config
    <3> QED
      BY <3>1, <3>2 DEF IInv, RunsAreCounted, Ended
  <2>2. Resends(r)' = Resends(r) + 1 /\ ~MayHaveRun(r)'
    BY <1>2 DEF Resends, MayHaveRun
  <2>3. Resends(r) \in Nat /\ runs'[r] = runs[r]
    BY DEF Resends, IInv, CallsOK, Config
  <2> QED
    BY <1>2, <2>1, <2>2, <2>3 DEF RunsAreCounted
<1> QED
  BY <1>2, <1>3, <1>4, OneCallKeeps DEF Ended

\* An answer that was lost costs a resend or ends the call.
LEMMA RetryStep == ASSUME IInv, NEW r \in Requests, Retry(r) PROVE IInv'
<1> DEFINE c == [config[r] EXCEPT !.retries = @ + 1]
<1>1. /\ phase[r] = "sent" /\ UNCHANGED <<server, runs, cookie>> /\ config[r] \in Config
      /\ cookie' \in [access : BOOLEAN, csrf : BOOLEAN, refresh : Tokens]
  BY DEF Retry, IInv, CallsOK, TabsOK
<1>2. CASE config[r].retries < MaxRetries /\ Goto(r, "waiting", c) /\ UNCHANGED tabs
  <2>1. c \in Config /\ c.authRetried = config[r].authRetried
        /\ c.retries = config[r].retries + 1 /\ c.csrfRetried = config[r].csrfRetried
        /\ config[r].retries \in Nat
    BY <1>1, <1>2, BoundsAssumption DEF Config
  <2>2. c.retries + (IF c.csrfRetried THEN 1 ELSE 0) = Resends(r) + 1
    BY <2>1 DEF Resends
  <2> HIDE DEF c
  <2> QED
    BY <1>1, <1>2, <2>1, <2>2, MarkKeeps
<1>3. CASE Fail(r, FALSE)
  BY <1>1, <1>3, FailKeeps
<1> QED
  BY <1>2, <1>3 DEF Retry

\* The backoff is over.
LEMMA BackoffEndsStep == ASSUME IInv, NEW r \in Requests, BackoffEnds(r) PROVE IInv'
  BY SendKeeps DEF BackoffEnds

\* A missing CSRF token is fetched once.
LEMMA FetchTokenStep == ASSUME IInv, NEW r \in Requests, FetchToken(r) PROVE IInv'
<1> DEFINE c == [config[r] EXCEPT !.csrfRetried = TRUE]
<1>1. /\ phase[r] = "sent" /\ UNCHANGED <<server, runs>> /\ config[r] \in Config
      /\ cookie' \in [access : BOOLEAN, csrf : BOOLEAN, refresh : Tokens]
  BY ArrivedType DEF FetchToken, Arrived, IInv, CallsOK
<1>2. CASE ~config[r].csrfRetried /\ Goto(r, "token", c) /\ UNCHANGED tabs
  <2>1. /\ c.authRetried = config[r].authRetried /\ c.retries = config[r].retries
        /\ c.csrfRetried = TRUE
    BY <1>1 DEF Config
  <2>2. c \in Config
    BY <1>1, Zenon DEF Config
  <2>3. config[r].retries \in Nat
    BY <1>1 DEF Config
  <2>4. c.retries + (IF c.csrfRetried THEN 1 ELSE 0) = Resends(r) + 1
    BY <1>2, <2>1, <2>3 DEF Resends
  <2> HIDE DEF c
  <2> QED
    BY <1>1, <1>2, <2>1, <2>2, <2>4, MarkKeeps
<1>3. CASE Fail(r, TRUE)
  BY <1>1, <1>3, FailKeeps
<1> QED
  BY <1>2, <1>3 DEF FetchToken

\* The CSRF token came, or did not.
LEMMA TokenStep ==
    ASSUME IInv, NEW r \in Requests, TokenFetched(r) \/ TokenRefused(r)
    PROVE  IInv'
<1>1. cookie \in [access : BOOLEAN, csrf : BOOLEAN, refresh : Tokens]
  BY DEF IInv, TabsOK
<1> QED
  BY <1>1, SendKeeps, FailKeeps DEF TokenFetched, TokenRefused

\* A call that is refused after its refresh ends.
LEMMA GiveUpStep == ASSUME IInv, NEW r \in Requests, GiveUp(r) PROVE IInv'
  BY ArrivedType, FailKeeps DEF GiveUp, Arrived

\* The first call of a tab that is refused asks for the refresh, and the ones
\* that follow wait for it.
LEMMA RenewStep == ASSUME IInv, NEW r \in Requests, Renew(r) PROVE IInv'
<1>0. PICK t \in Tabs : t = tabOf[r]
  BY DEF IInv, TabsOK
<1> DEFINE marked == [config[r] EXCEPT !.authRetried = TRUE]
<1>1. /\ phase[r] = "sent" /\ config[r].answer = "unauthorized" /\ ~config[r].authRetried
      /\ UNCHANGED <<app, tabOf, sessions, issued, runs>>
      /\ cookie' \in [access : BOOLEAN, csrf : BOOLEAN, refresh : Tokens]
      /\ config[r] \in Config /\ tabOf[r] = t
  BY <1>0, ArrivedType DEF Renew, IInv, CallsOK, TabsOK
<1>2. /\ marked.authRetried = TRUE /\ marked.retries = config[r].retries
      /\ marked.csrfRetried = config[r].csrfRetried
  BY <1>1 DEF Config
<1>3. marked \in Config
  BY <1>1, Zenon DEF Config
<1> HIDE DEF marked
<1>4. ASSUME NEW p \in {"queued", "renewing"}, Goto(r, p, marked)
      PROVE  /\ CallsOK' /\ phase'[r] = p /\ config'[r] = marked
             /\ \A q \in Requests \ {r} : phase'[q] = phase[q] /\ config'[q] = config[q]
             /\ \A q \in Requests : RunsAreCounted(q)'
  <2>1. /\ CallsOK' /\ phase'[r] = p /\ config'[r] = marked
        /\ \A q \in Requests \ {r} : phase'[q] = phase[q] /\ config'[q] = config[q]
    BY <1>1, <1>3, <1>4, GotoMoves DEF IInv, CallsOK, Phases
  <2>2. Resends(r)' = Resends(r) /\ ~MayHaveRun(r) /\ ~MayHaveRun(r)'
    BY <1>1, <1>2, <2>1 DEF Resends, MayHaveRun
  <2>3. RunsAreCounted(r)'
    BY <1>1, <2>1, <2>2 DEF IInv, RunsAreCounted, Ended
  <2>4. \A q \in Requests \ {r} : RunsAreCounted(q)'
    BY <1>1, <2>1 DEF IInv, RunsAreCounted, Resends, MayHaveRun
  <2> QED
    BY <2>1, <2>3, <2>4
<1>5. CASE IsRefreshing(t) /\ Goto(r, "queued", marked) /\ UNCHANGED tabs
  <2>1. /\ UNCHANGED <<renewal, chained, left>> /\ CallsOK' /\ phase'[r] = "queued"
        /\ config'[r] = marked /\ \A q \in Requests : RunsAreCounted(q)'
        /\ \A q \in Requests \ {r} : phase'[q] = phase[q] /\ config'[q] = config[q]
    BY <1>4, <1>5 DEF tabs
  <2>2. TabsOK' /\ OnlyPortalChains'
    BY <1>1, <2>1 DEF IInv, TabsOK, OnlyPortalChains
  <2>3. TokensAreCounted'
    BY <1>1, <1>2, <2>1, TokensKept
  <2>4. ASSUME NEW u \in Tabs
        PROVE  /\ IsRefreshing(u)' = IsRefreshing(u) /\ Starter(u)' = Starter(u)
               /\ u # t => Queued(u)' = Queued(u)
    BY <1>1, <2>1 DEF IsRefreshing, Starter, Queued
  <2>5. WaitersHaveARefresh'
    BY <1>5, <2>4 DEF IInv, WaitersHaveARefresh
  <2> QED
    BY <2>1, <2>2, <2>3, <2>5 DEF IInv
<1>6. CASE /\ ~IsRefreshing(t) /\ Goto(r, "renewing", marked)
           /\ renewal' = [renewal EXCEPT ![t] = [step |-> "sent", token |-> cookie.refresh]]
           /\ UNCHANGED <<chained, left>>
  <2>1. /\ CallsOK' /\ phase'[r] = "renewing"
        /\ config'[r] = marked /\ \A q \in Requests : RunsAreCounted(q)'
        /\ \A q \in Requests \ {r} : phase'[q] = phase[q] /\ config'[q] = config[q]
    BY <1>4, <1>6
  <2>2. /\ renewal' \in [Tabs -> Renewal] /\ renewal'[t].step = "sent"
        /\ \A u \in Tabs \ {t} : renewal'[u] = renewal[u]
    BY <1>1, <1>6 DEF IInv, TabsOK, Renewal
  <2>3. TabsOK' /\ OnlyPortalChains'
    BY <1>1, <1>6, <2>2 DEF IInv, TabsOK, OnlyPortalChains
  <2>4. TokensAreCounted'
    <3>1. Asking' = Asking \cup {t} /\ t \notin Asking
      BY <1>1, <1>6, <2>2 DEF Asking, IsRefreshing
    <3>2. Spent' = Spent \cup {r} /\ r \notin Spent
      BY <1>1, <1>2, <2>1 DEF Spent, Ended
    <3>3. Spent \subseteq Requests /\ IsFiniteSet(Spent)
      BY CallsAssumption, FS_Subset DEF Spent
    <3>4. /\ IsFiniteSet(Asking') /\ Cardinality(Asking') = Cardinality(Asking) + 1
          /\ Cardinality(Spent') = Cardinality(Spent) + 1
      BY <3>1, <3>2, <3>3, FS_AddElement DEF IInv, TokensAreCounted
    <3>5. Cardinality(Asking) \in Nat /\ Cardinality(Spent) \in Nat /\ issued \in Nat
      BY <3>3, FS_CardinalityType, TokensType DEF IInv, TokensAreCounted, TabsOK
    <3> QED
      BY <1>1, <3>4, <3>5 DEF IInv, TokensAreCounted
  <2>5. ASSUME NEW u \in Tabs \ {t}
        PROVE  /\ IsRefreshing(u)' = IsRefreshing(u) /\ Starter(u)' = Starter(u)
               /\ Queued(u)' = Queued(u)
    BY <1>1, <2>1, <2>2 DEF IsRefreshing, Starter, Queued
  <2>6. IsRefreshing(t)' /\ Starter(t)' = {r}
    <3>1. Starter(t) = {}
      BY <1>1, <1>6 DEF IInv, WaitersHaveARefresh
    <3> QED
      BY <1>1, <2>1, <2>2, <3>1 DEF IsRefreshing, Starter
  <2>7. WaitersHaveARefresh'
    <3>1. \A u \in Tabs : u = t => IsRefreshing(u)' /\ Starter(u)' = {r}
      BY <2>6
    <3> QED
      BY <2>5, <3>1 DEF IInv, WaitersHaveARefresh
  <2> QED
    BY <2>1, <2>3, <2>4, <2>7 DEF IInv
<1> QED
  BY <1>0, <1>5, <1>6 DEF Renew, marked

\* A step of the refresh request that leaves the calls alone.
LEMMA RotationKeeps ==
    ASSUME IInv, NEW t \in Tabs, UNCHANGED <<app, tabOf, phase, config, runs, chained, left>>,
           renewal' \in [Tabs -> Renewal], renewal[t].step = "sent",
           renewal'[t].step \in {"ok", "failed"},
           \A u \in Tabs \ {t} : renewal'[u] = renewal[u],
           issued' \in {issued, issued + 1}, TabsOK'
    PROVE  IInv'
<1>1. CallsOK' /\ OnlyPortalChains' /\ \A r \in Requests : RunsAreCounted(r)'
  BY DEF IInv, CallsOK, OnlyPortalChains, RunsAreCounted, Resends, MayHaveRun
<1>2. WaitersHaveARefresh'
  BY WaitersKept
<1>3. TokensAreCounted'
  <2>1. Asking' = Asking \ {t} /\ t \in Asking /\ Spent' = Spent
    BY DEF Asking, Spent
  <2>2. IsFiniteSet(Asking') /\ Cardinality(Asking') = Cardinality(Asking) - 1
    BY <2>1, FS_RemoveElement DEF IInv, TokensAreCounted
  <2>3. Spent \subseteq Requests /\ IsFiniteSet(Spent)
    BY CallsAssumption, FS_Subset DEF Spent
  <2>4. Cardinality(Asking) \in Nat /\ Cardinality(Spent) \in Nat /\ issued \in Nat
    BY <2>3, FS_CardinalityType, TokensType DEF IInv, TokensAreCounted, TabsOK
  <2> QED
    BY <2>1, <2>2, <2>4 DEF IInv, TokensAreCounted
<1> QED
  BY <1>1, <1>2, <1>3 DEF IInv

\* The tokens asked for leave room for one more.
LEMMA RoomForToken ==
    ASSUME IInv, NEW t \in Tabs, renewal[t].step = "sent"
    PROVE  issued \in Nat /\ issued + 1 \in Tokens
<1>1. Spent \subseteq Requests /\ IsFiniteSet(Spent)
      /\ Cardinality(Spent) <= Cardinality(Requests)
  BY CallsAssumption, FS_Subset DEF Spent
<1>2. t \in Asking /\ IsFiniteSet(Asking) /\ Cardinality(Asking) \in Nat
  BY FS_CardinalityType DEF Asking, IInv, TokensAreCounted
<1>3. Cardinality(Asking) # 0
  BY <1>2, FS_EmptySet
<1>4. Cardinality(Spent) \in Nat /\ issued \in Nat
  BY <1>1, FS_CardinalityType, TokensType DEF IInv, TabsOK
<1>5. issued + 1 <= Cardinality(Requests) + 1
  BY <1>1, <1>2, <1>3, <1>4, TokensType DEF IInv, TokensAreCounted
<1> QED
  BY <1>4, <1>5, TokensType

\* The refresh request is answered, or is not.
LEMMA RotationStep ==
    ASSUME IInv, NEW t \in Tabs, Rotate(t) \/ RefuseRotation(t)
    PROVE  IInv'
<1>1. CASE Rotate(t)
  <2>1. /\ renewal[t].step = "sent" /\ issued' = issued + 1
        /\ sessions' = (sessions \ {renewal[t].token}) \cup {issued'}
        /\ \/ renewal' = [renewal EXCEPT ![t] = [step |-> "ok", token |-> issued']]
           \/ renewal' = [renewal EXCEPT ![t].step = "failed"]
        /\ UNCHANGED <<app, tabOf, phase, config, runs, chained, left, cookie>>
    BY <1>1 DEF Rotate
  <2>2. issued' \in Tokens
    BY <2>1, RoomForToken
  <2>3. /\ renewal' \in [Tabs -> Renewal] /\ renewal'[t].step \in {"ok", "failed"}
        /\ \A u \in Tabs \ {t} : renewal'[u] = renewal[u]
    BY <2>1, <2>2 DEF IInv, TabsOK, Renewal
  <2>4. TabsOK'
    BY <2>1, <2>2, <2>3 DEF IInv, TabsOK
  <2> QED
    BY <2>1, <2>3, <2>4, RotationKeeps
<1>2. CASE RefuseRotation(t)
  <2>1. /\ renewal[t].step = "sent" /\ renewal' = [renewal EXCEPT ![t].step = "failed"]
        /\ UNCHANGED <<app, tabOf, sessions, issued, phase, config, runs, chained, left, cookie>>
    BY <1>2 DEF RefuseRotation, server
  <2>2. /\ renewal' \in [Tabs -> Renewal] /\ renewal'[t].step = "failed"
        /\ \A u \in Tabs \ {t} : renewal'[u] = renewal[u]
    BY <2>1 DEF IInv, TabsOK, Renewal
  <2>3. TabsOK'
    BY <2>1, <2>2 DEF IInv, TabsOK
  <2> QED
    BY <2>1, <2>2, <2>3, RotationKeeps
<1> QED
  BY <1>1, <1>2

\* The end of a refresh lets go of everybody who waited for it.
LEMMA WaitersReleased ==
    ASSUME IInv, NEW t \in Tabs, tabOf' = tabOf, renewal' = [renewal EXCEPT ![t] = NoRenewal],
           \A q \in Queued(t) \cup Starter(t) : phase'[q] \in {"sent", "failed"},
           \A q \in Requests \ (Queued(t) \cup Starter(t)) : phase'[q] = phase[q]
    PROVE  /\ renewal' \in [Tabs -> Renewal] /\ WaitersHaveARefresh'
           /\ \A u \in Tabs : renewal'[u].step = "sent" => renewal[u].step = "sent"
<1>1. /\ renewal' \in [Tabs -> Renewal] /\ renewal'[t].step = "none"
      /\ \A u \in Tabs \ {t} : renewal'[u] = renewal[u]
  BY FreshType DEF IInv, TabsOK, NoRenewal
<1>2. ~IsRefreshing(t)' /\ Starter(t)' = {} /\ Queued(t)' = {}
  BY <1>1 DEF IsRefreshing, Starter, Queued
<1>3. ASSUME NEW u \in Tabs \ {t}
      PROVE  /\ IsRefreshing(u)' = IsRefreshing(u) /\ Starter(u)' = Starter(u)
             /\ Queued(u)' = Queued(u)
  BY <1>1 DEF IsRefreshing, Starter, Queued
<1>4. WaitersHaveARefresh'
  <2>1. \A u \in Tabs : u # t \/ (~IsRefreshing(u)' /\ Starter(u)' = {} /\ Queued(u)' = {})
    BY <1>2
  <2> QED
    BY <1>3, <2>1 DEF IInv, WaitersHaveARefresh
<1> QED
  BY <1>1, <1>4

\* What a refresh that worked does to the calls: the ones that waited go out.
LEMMA RefreshedMoves ==
    ASSUME IInv, NEW t \in Tabs, OnRefreshed(t)
    PROVE  /\ CallsOK' /\ runs' = runs /\ left' = left
           /\ chained' = chained \cup NewlyChained(t)
           /\ UNCHANGED <<app, tabOf, sessions, issued>>
           /\ cookie' \in [access : BOOLEAN, csrf : BOOLEAN, refresh : Tokens]
           /\ renewal' = [renewal EXCEPT ![t] = NoRenewal]
           /\ \A q \in Requests :
                IF q \in Queued(t) \cup Starter(t)
                THEN /\ phase'[q] = "sent" /\ config'[q].answer = "none"
                     /\ config'[q].retries = config[q].retries
                     /\ config'[q].authRetried = config[q].authRetried
                     /\ config'[q].csrfRetried = config[q].csrfRetried
                ELSE phase'[q] = phase[q] /\ config'[q] = config[q]
<1> DEFINE jar == [cookie EXCEPT !.access = TRUE, !.refresh = renewal[t].token]
<1>1. cookie \in [access : BOOLEAN, csrf : BOOLEAN, refresh : Tokens]
      /\ renewal[t].token \in Tokens
  BY DEF IInv, TabsOK, Renewal
<1>2. jar \in [access : BOOLEAN, csrf : BOOLEAN, refresh : Tokens]
  BY <1>1
<1>3. jar.access \in BOOLEAN /\ jar.csrf \in BOOLEAN
  BY <1>2
<1>4. /\ SendAll(Queued(t) \cup Starter(t), jar) /\ cookie' = jar
      /\ renewal' = [renewal EXCEPT ![t] = NoRenewal]
      /\ chained' = chained \cup NewlyChained(t) /\ UNCHANGED <<server, left>>
  BY DEF OnRefreshed
<1> HIDE DEF jar
<1> QED
  BY <1>2, <1>3, <1>4, SendMoves DEF IInv, server

\* A refresh that worked sends the waiting calls on.
LEMMA OnRefreshedStep == ASSUME IInv, NEW t \in Tabs, OnRefreshed(t) PROVE IInv'
<1> DEFINE waiting == Queued(t) \cup Starter(t)
<1>1. /\ \A q \in Requests \ waiting : phase'[q] = phase[q] /\ config'[q] = config[q]
      /\ \A q \in waiting : /\ q \in Requests /\ phase[q] \in {"queued", "renewing"}
                            /\ phase'[q] = "sent" /\ config'[q].answer = "none"
                            /\ config'[q].retries = config[q].retries
                            /\ config'[q].authRetried = config[q].authRetried
                            /\ config'[q].csrfRetried = config[q].csrfRetried
  BY RefreshedMoves DEF Queued, Starter
<1>2. /\ renewal' \in [Tabs -> Renewal] /\ WaitersHaveARefresh'
      /\ \A u \in Tabs : renewal'[u].step = "sent" => renewal[u].step = "sent"
  BY <1>1, RefreshedMoves, WaitersReleased
<1>3. TabsOK' /\ OnlyPortalChains'
  BY <1>2, RefreshedMoves
     DEF IInv, TabsOK, OnlyPortalChains, NewlyChained, Queued
<1>4. TokensAreCounted'
  <2>1. \A q \in Requests : phase[q] \in Ended \/ config[q].authRetried
                               => phase'[q] \in Ended \/ config'[q].authRetried
    BY <1>1 DEF Ended
  <2> QED
    BY <1>2, <2>1, RefreshedMoves, TokensKept
<1>5. ASSUME NEW q \in Requests PROVE RunsAreCounted(q)'
  <2>1. CASE q \in waiting
    BY <1>1, <2>1, RefreshedMoves DEF IInv, RunsAreCounted, Resends, MayHaveRun, Ended
  <2>2. CASE q \notin waiting
    BY <1>1, <2>2, RefreshedMoves DEF IInv, RunsAreCounted, Resends, MayHaveRun
  <2> QED
    BY <2>1, <2>2
<1> QED
  BY <1>2, <1>3, <1>4, <1>5, RefreshedMoves DEF IInv

\* What a refresh that failed does to the calls: the ones that waited fail.
LEMMA RefreshFailedMoves ==
    ASSUME IInv, NEW t \in Tabs, OnRefreshFailed(t)
    PROVE  /\ CallsOK' /\ runs' = runs /\ left' = left \cup {t}
           /\ UNCHANGED <<app, tabOf, sessions, issued, chained, cookie>>
           /\ renewal' = [renewal EXCEPT ![t] = NoRenewal] /\ renewal[t].step = "failed"
           /\ \A q \in Requests :
                IF q \in Queued(t) \cup Starter(t)
                THEN phase'[q] = "failed"
                ELSE phase'[q] = phase[q] /\ config'[q] = config[q]
<1> DEFINE waiting == Queued(t) \cup Starter(t)
<1>1. /\ phase' = [r \in Requests |-> IF r \in waiting THEN "failed" ELSE phase[r]]
      /\ config' = [r \in Requests |-> IF r \in waiting THEN Fresh ELSE config[r]]
      /\ renewal' = [renewal EXCEPT ![t] = NoRenewal] /\ renewal[t].step = "failed"
      /\ left' = left \cup {t}
      /\ UNCHANGED <<app, tabOf, sessions, issued, runs, chained, cookie>>
  BY DEF OnRefreshFailed, server
<1> HIDE DEF waiting
<1>2. CallsOK'
  BY <1>1, FreshType DEF IInv, CallsOK, Phases
<1>3. \A q \in Requests : IF q \in waiting
                          THEN phase'[q] = "failed"
                          ELSE phase'[q] = phase[q] /\ config'[q] = config[q]
  BY <1>1
<1> QED
  BY <1>1, <1>2, <1>3 DEF waiting

\* A refresh that failed fails the waiting calls with it.
LEMMA OnRefreshFailedStep == ASSUME IInv, NEW t \in Tabs, OnRefreshFailed(t) PROVE IInv'
<1> DEFINE waiting == Queued(t) \cup Starter(t)
<1>1. /\ \A q \in Requests \ waiting : phase'[q] = phase[q] /\ config'[q] = config[q]
      /\ \A q \in waiting : q \in Requests /\ phase'[q] = "failed"
  BY RefreshFailedMoves DEF Queued, Starter
<1>2. /\ renewal' \in [Tabs -> Renewal] /\ WaitersHaveARefresh'
      /\ \A u \in Tabs : renewal'[u].step = "sent" => renewal[u].step = "sent"
  BY <1>1, RefreshFailedMoves, WaitersReleased
<1>3. TabsOK' /\ OnlyPortalChains'
  BY <1>2, RefreshFailedMoves DEF IInv, TabsOK, OnlyPortalChains
<1>4. TokensAreCounted'
  <2>1. \A q \in Requests : phase[q] \in Ended \/ config[q].authRetried
                               => phase'[q] \in Ended \/ config'[q].authRetried
    BY <1>1 DEF Ended
  <2> QED
    BY <1>2, <2>1, RefreshFailedMoves, TokensKept
<1>5. ASSUME NEW q \in Requests PROVE RunsAreCounted(q)'
  <2>1. CASE q \in waiting
    BY <1>1, <2>1, RefreshFailedMoves DEF IInv, RunsAreCounted, Ended
  <2>2. CASE q \notin waiting
    BY <1>1, <2>2, RefreshFailedMoves DEF IInv, RunsAreCounted, Resends, MayHaveRun
  <2> QED
    BY <2>1, <2>2
<1> QED
  BY <1>2, <1>3, <1>4, <1>5, RefreshFailedMoves DEF IInv

\* A step that leaves the calls, the refreshes and the tokens issued alone.
LEMMA ClientUntouched ==
    ASSUME IInv, UNCHANGED <<app, tabOf, phase, config, runs, issued, renewal, chained>>, TabsOK'
    PROVE  IInv'
<1>1. CallsOK' /\ OnlyPortalChains' /\ \A r \in Requests : RunsAreCounted(r)'
  BY DEF IInv, CallsOK, OnlyPortalChains, RunsAreCounted, Resends, MayHaveRun
<1>2. WaitersHaveARefresh' /\ TokensAreCounted'
  BY WaitersKept, TokensKept
<1> QED
  BY <1>1, <1>2 DEF IInv

\* Every step keeps the invariant.
LEMMA NextKeeps == IInv /\ [Next]_vars => IInv'
<1> SUFFICES ASSUME IInv, [Next]_vars PROVE IInv'
  OBVIOUS
<1>1. ASSUME NEW r \in Requests, Call(r) \/ Served(r) \/ Answered(r) PROVE IInv'
  BY <1>1, CallStep, ServedStep, SucceedStep, RefuseStep, RetryStep, BackoffEndsStep,
     FetchTokenStep, TokenStep, RenewStep, GiveUpStep DEF Answered
<1>2. ASSUME NEW t \in Tabs, Refreshed(t) PROVE IInv'
  BY <1>2, RotationStep, OnRefreshedStep, OnRefreshFailedStep DEF Refreshed
<1>3. CASE EndSession
  <2>1. TabsOK' /\ UNCHANGED <<app, tabOf, phase, config, runs, issued, renewal, chained>>
    BY <1>3 DEF EndSession, tabs, IInv, TabsOK
  <2> QED
    BY <2>1, ClientUntouched
<1>4. CASE UNCHANGED vars
  <2>1. TabsOK' /\ UNCHANGED <<app, tabOf, phase, config, runs, issued, renewal, chained>>
    BY <1>4 DEF vars, server, tabs, IInv, TabsOK
  <2> QED
    BY <2>1, ClientUntouched
<1> QED
  BY <1>1, <1>2, <1>3, <1>4 DEF Next

-----------------------------------------------------------------------------
(* The theorems.                                                           *)

\* The inductive invariant of the axios clients.
THEOREM Invariance == Spec => []IInv
  BY InitIInv, NextKeeps, PTL DEF Spec

\* Types, and with them two bounds: the server carries a call out at most twice
\* more than it is resent, and issues a token for each call at most.
THEOREM TypeCorrect == Spec => []TypeOK
  BY TypeParts, Invariance, PTL

\* A call waits only while its tab has a refresh under way, and that refresh
\* was asked for by one call.
THEOREM NoWaitForNothing == Spec => []NoOneWaitsForNothing
<1>1. IInv => NoOneWaitsForNothing
  <2> SUFFICES ASSUME IInv, NEW t \in Tabs
               PROVE  /\ Queued(t) # {} => IsRefreshing(t)
                      /\ Cardinality(Starter(t)) = IF IsRefreshing(t) THEN 1 ELSE 0
    BY DEF NoOneWaitsForNothing
  <2>1. CASE IsRefreshing(t)
    <3>1. PICK s \in Requests : Starter(t) = {s}
      BY <2>1 DEF IInv, WaitersHaveARefresh
    <3> QED
      BY <2>1, <3>1, FS_Singleton
  <2>2. CASE ~IsRefreshing(t)
    BY <2>2, FS_EmptySet DEF IInv, WaitersHaveARefresh
  <2> QED
    BY <2>1, <2>2
<1> QED
  BY <1>1, Invariance, PTL

\* A rejection sends the ERP's user away only when it is told to.
LEMMA FailLeaves ==
    ASSUME IInv, app = "erp", NEW r \in Requests, phase[r] \in {"sent", "token"},
           NEW leave \in BOOLEAN, Fail(r, leave)
    PROVE  /\ left' = IF leave THEN left \cup {tabOf[r]} ELSE left
           /\ phase'[r] = "failed"
  BY FreshType, GotoMoves DEF Fail, IInv, OnlyPortalChains, CallsOK, Phases

\* Whoever leaves has a call of his tab fail over its authentication.
LEMMA LeavingStep ==
    ASSUME IInv, [Next]_vars, app = "erp", NEW t \in left' \ left
    PROVE  \E r \in Requests :
             /\ tabOf[r] = t /\ phase[r] # "failed" /\ phase'[r] = "failed"
             /\ \/ phase[r] \in {"renewing", "token"}
                \/ config[r].answer \in {"mismatch", "unauthorized"}
<1>1. CASE \E r \in Requests : FetchToken(r) \/ TokenRefused(r) \/ GiveUp(r)
  <2>1. PICK r \in Requests : FetchToken(r) \/ TokenRefused(r) \/ GiveUp(r)
    BY <1>1
  <2>2. Fail(r, TRUE)
    BY <2>1 DEF FetchToken, TokenRefused, GiveUp, tabs
  <2>3. \/ phase[r] = "token"
        \/ phase[r] = "sent" /\ config[r].answer \in {"mismatch", "unauthorized"}
    BY <2>1 DEF FetchToken, TokenRefused, GiveUp, Arrived
  <2>4. tabOf[r] = t /\ phase'[r] = "failed"
    BY <2>2, <2>3, FailLeaves
  <2> QED
    BY <2>3, <2>4
<1>2. CASE \E r \in Requests : Refuse(r) \/ Retry(r)
  <2>1. PICK r \in Requests : Refuse(r) \/ Retry(r)
    BY <1>2
  <2>2. Fail(r, FALSE) /\ phase[r] = "sent"
    BY <2>1 DEF Refuse, Retry, Arrived, tabs
  <2> QED
    BY <2>2, FailLeaves
<1>3. CASE \E u \in Tabs : OnRefreshFailed(u)
  <2>1. PICK u \in Tabs : OnRefreshFailed(u)
    BY <1>3
  <2>2. u = t /\ IsRefreshing(u)
    BY <2>1, RefreshFailedMoves DEF IsRefreshing
  <2>3. PICK r \in Requests : Starter(u) = {r}
    BY <2>2 DEF IInv, WaitersHaveARefresh
  <2>4. tabOf[r] = t /\ phase[r] = "renewing"
    BY <2>2, <2>3 DEF Starter
  <2> QED
    BY <2>1, <2>3, <2>4, RefreshFailedMoves
<1>4. CASE \/ \E r \in Requests : \/ Call(r) \/ Served(r) \/ Succeed(r) \/ BackoffEnds(r)
                                  \/ TokenFetched(r) \/ Renew(r)
           \/ \E u \in Tabs : Rotate(u) \/ RefuseRotation(u) \/ OnRefreshed(u)
           \/ EndSession \/ UNCHANGED vars
  BY <1>4 DEF Call, Served, Serve, Unauthorized, Lose, Respond, Succeed, BackoffEnds,
     TokenFetched, Send, Renew, Rotate, RefuseRotation, OnRefreshed, EndSession, tabs, vars
<1> QED
  BY <1>1, <1>2, <1>3, <1>4 DEF Next, Answered, Refreshed

\* The ERP leaves for the login page only over a failed authentication.
THEOREM LeavingCorrect == Spec => OnlyAuthErrorsLeave
<1>1. IInv /\ [Next]_vars
        => [app = "erp" =>
             \A t \in left' \ left : \E r \in Requests :
                 /\ tabOf[r] = t /\ phase[r] # "failed" /\ phase'[r] = "failed"
                 /\ \/ phase[r] \in {"renewing", "token"}
                    \/ config[r].answer \in {"mismatch", "unauthorized"}]_vars
  BY LeavingStep
<1> QED
  BY <1>1, Invariance, PTL DEF Spec, OnlyAuthErrorsLeave

-----------------------------------------------------------------------------
(* The refinement: every step of the clients, the network and the server   *)
(* is a step of Exchange, or none.                                         *)

\* A step that the page does not see.
LEMMA Stutters ==
    ASSUME runs' = runs, \A q \in Requests : Settled(q)' = Settled(q)
    PROVE  UNCHANGED Promise!vars
  BY DEF Promise!vars

\* A step that rejects some of the calls that were pending.
LEMMA Rejects ==
    ASSUME runs' = runs,
           \A q \in Requests : \/ Settled(q)' = Settled(q)
                               \/ Settled(q) = "pending" /\ Settled(q)' = "rejected"
    PROVE  Promise!Reject
<1> DEFINE failed == {q \in Requests : Settled(q)' # Settled(q)}
<1>1. failed \in SUBSET {q \in Requests : [r \in Requests |-> Settled(r)][q] = "pending"}
  OBVIOUS
<1>2. [q \in Requests |-> Settled(q)']
        = [q \in Requests |-> IF q \in failed THEN "rejected"
                              ELSE [r \in Requests |-> Settled(r)][q]]
  OBVIOUS
<1> QED
  BY <1>1, <1>2 DEF Promise!Reject

\* The phases of a call that has begun and not ended.
Pending == {"sent", "waiting", "token", "renewing", "queued"}

\* How a call stands follows from its phase.
LEMMA SettledIs ==
    ASSUME NEW q \in Requests
    PROVE  /\ phase[q] \in Pending => Settled(q) = "pending"
           /\ phase'[q] \in Pending => Settled(q)' = "pending"
           /\ phase'[q] = phase[q] => Settled(q)' = Settled(q)
           /\ phase'[q] = "failed" => Settled(q)' = "rejected"
           /\ phase'[q] = "done" => Settled(q)' = "answered"
           /\ phase[q] = "idle" => Settled(q) = "none"
  BY DEF Settled, Pending

\* A call that is made is placed.
LEMMA CallPlaces == ASSUME IInv, NEW r \in Requests, Call(r) PROVE Promise!Place(r)
<1>1. /\ phase[r] = "idle" /\ SendAll({r}, cookie)
      /\ cookie.access \in BOOLEAN /\ cookie.csrf \in BOOLEAN
  BY DEF Call, Send, IInv, TabsOK
<1>2. /\ phase'[r] = "sent" /\ runs' = runs
      /\ \A q \in Requests \ {r} : phase'[q] = phase[q]
  BY <1>1, SendMoves DEF IInv
<1>3. /\ Settled(r) = "none" /\ Settled(r)' = "pending"
      /\ \A q \in Requests \ {r} : Settled(q)' = Settled(q)
  BY <1>1, <1>2, SettledIs DEF Pending
<1>4. [q \in Requests |-> Settled(q)']
        = [[q \in Requests |-> Settled(q)] EXCEPT ![r] = "pending"]
  BY <1>3
<1> QED
  BY <1>2, <1>3, <1>4 DEF Promise!Place

\* A call that is sent again is pending before and after.
LEMMA ResendStutters ==
    ASSUME IInv, NEW r \in Requests, BackoffEnds(r) \/ TokenFetched(r)
    PROVE  UNCHANGED Promise!vars
<1>1. /\ phase[r] \in {"waiting", "token"} /\ SendAll({r}, cookie)
      /\ cookie.access \in BOOLEAN /\ cookie.csrf \in BOOLEAN
  BY DEF BackoffEnds, TokenFetched, Send, IInv, TabsOK
<1>2. /\ phase'[r] = "sent" /\ runs' = runs
      /\ \A q \in Requests \ {r} : phase'[q] = phase[q]
  BY <1>1, SendMoves DEF IInv
<1>3. \A q \in Requests : Settled(q)' = Settled(q)
  BY <1>1, <1>2, SettledIs DEF Pending
<1> QED
  BY <1>2, <1>3, Stutters

\* The server carries the call out, or answers without.
LEMMA ServedCarriesOut ==
    ASSUME IInv, IInv', NEW r \in Requests, Served(r)
    PROVE  Promise!CarryOut(r) \/ UNCHANGED Promise!vars
<1>1. PICK a \in {"ok", "refused", "unauthorized", "lost"}, ran \in {0, 1} :
        /\ ran = 1 => a \in {"ok", "lost"}
        /\ a = "ok" => ran = 1
        /\ Respond(r, a, ran)
  BY DEF Served, Serve, Unauthorized, Lose
<1>2. /\ phase[r] = "sent" /\ phase' = phase
      /\ runs'[r] = runs[r] \/ runs'[r] = runs[r] + 1
      /\ \A q \in Requests \ {r} : runs'[q] = runs[q]
  BY <1>1, RespondMoves
<1>3. runs \in [Requests -> Nat] /\ runs' \in [Requests -> Nat] /\ runs'[r] <= MaxRetries + 2
  BY DEF IInv, CallsOK, RunsAreCounted
<1>4. Settled(r) = "pending" /\ \A q \in Requests : Settled(q)' = Settled(q)
  BY <1>2, SettledIs DEF Pending
<1>5. [q \in Requests |-> Settled(q)'] = [q \in Requests |-> Settled(q)]
  BY <1>4
<1>6. CASE runs'[r] = runs[r]
  <2>1. runs' = runs
    BY <1>2, <1>3, <1>6
  <2> QED
    BY <1>4, <2>1, Stutters
<1>7. CASE runs'[r] = runs[r] + 1
  <2>1. runs' = [runs EXCEPT ![r] = @ + 1]
    BY <1>2, <1>3, <1>7
  <2>2. runs[r] < MaxRetries + 2
    BY <1>3, <1>7, BoundsAssumption
  <2> QED
    BY <1>4, <1>5, <2>1, <2>2 DEF Promise!CarryOut
<1> QED
  BY <1>2, <1>6, <1>7

\* A good answer is one to a call that was carried out.
LEMMA SucceedAnswers == ASSUME IInv, NEW r \in Requests, Succeed(r) PROVE Promise!Answer(r)
<1>1. /\ phase[r] = "sent" /\ config[r].answer = "ok" /\ runs' = runs /\ runs[r] > 0
      /\ Goto(r, "done", Fresh)
  BY DEF Succeed, Arrived, IInv, RunsAreCounted
<1>2. phase'[r] = "done" /\ \A q \in Requests \ {r} : phase'[q] = phase[q]
  BY <1>1, FreshType, GotoMoves DEF IInv, CallsOK, Phases
<1>3. /\ Settled(r) = "pending" /\ Settled(r)' = "answered"
      /\ \A q \in Requests \ {r} : Settled(q)' = Settled(q)
  BY <1>1, <1>2, SettledIs DEF Pending
<1>4. [q \in Requests |-> Settled(q)']
        = [[q \in Requests |-> Settled(q)] EXCEPT ![r] = "answered"]
  BY <1>3
<1> QED
  BY <1>1, <1>3, <1>4 DEF Promise!Answer

\* A call that fails is rejected.
LEMMA FailRejects ==
    ASSUME IInv, NEW r \in Requests, phase[r] \in {"sent", "token"}, NEW leave, Fail(r, leave),
           runs' = runs
    PROVE  Promise!Reject
<1>1. phase'[r] = "failed" /\ \A q \in Requests \ {r} : phase'[q] = phase[q]
  BY FreshType, GotoMoves DEF Fail, IInv, CallsOK, Phases
<1>2. /\ Settled(r) = "pending" /\ Settled(r)' = "rejected"
      /\ \A q \in Requests \ {r} : Settled(q)' = Settled(q)
  BY <1>1, SettledIs DEF Pending
<1> QED
  BY <1>2, Rejects

\* A call that moves on inside the interceptor is pending before and after.
LEMMA MoveStutters ==
    ASSUME IInv, NEW r \in Requests, phase[r] = "sent",
           NEW p \in {"waiting", "token", "queued", "renewing"}, NEW c, Goto(r, p, c),
           runs' = runs
    PROVE  UNCHANGED Promise!vars
<1>1. phase'[r] = p /\ \A q \in Requests \ {r} : phase'[q] = phase[q]
  BY DEF Goto, IInv, CallsOK
<1>2. \A q \in Requests : Settled(q)' = Settled(q)
  BY <1>1, SettledIs DEF Pending
<1> QED
  BY <1>2, Stutters

\* What a call does with an answer is a step of Exchange or none.
LEMMA AnsweredSimulates ==
    ASSUME IInv, NEW r \in Requests, Answered(r)
    PROVE  Promise!Answer(r) \/ Promise!Reject \/ UNCHANGED Promise!vars
<1>1. CASE Succeed(r)
  BY <1>1, SucceedAnswers
<1>2. CASE BackoffEnds(r) \/ TokenFetched(r)
  BY <1>2, ResendStutters
<1>3. CASE Refuse(r) \/ GiveUp(r) \/ TokenRefused(r)
  BY <1>3, FailRejects DEF Refuse, GiveUp, TokenRefused, Arrived
<1>4. CASE Retry(r) \/ FetchToken(r)
  BY <1>4, FailRejects, MoveStutters DEF Retry, FetchToken, Arrived
<1>5. CASE Renew(r)
  BY <1>5, MoveStutters DEF Renew, Arrived
<1> QED
  BY <1>1, <1>2, <1>3, <1>4, <1>5 DEF Answered

\* What a refresh does is a step of Exchange or none: one that failed rejects
\* everybody who waited at once.
LEMMA RefreshedSimulates ==
    ASSUME IInv, NEW t \in Tabs, Refreshed(t)
    PROVE  Promise!Reject \/ UNCHANGED Promise!vars
<1>1. CASE Rotate(t) \/ RefuseRotation(t)
  <2>1. phase' = phase /\ runs' = runs
    BY <1>1 DEF Rotate, RefuseRotation
  <2>2. \A q \in Requests : Settled(q)' = Settled(q)
    BY <2>1, SettledIs
  <2> QED
    BY <2>1, <2>2, Stutters
<1>2. CASE OnRefreshed(t)
  <2>1. /\ runs' = runs
        /\ \A q \in Requests : \/ phase'[q] = phase[q]
                               \/ phase[q] \in {"queued", "renewing"} /\ phase'[q] = "sent"
    BY <1>2, RefreshedMoves DEF Queued, Starter
  <2>2. \A q \in Requests : Settled(q)' = Settled(q)
    BY <2>1, SettledIs DEF Pending
  <2> QED
    BY <2>1, <2>2, Stutters
<1>3. CASE OnRefreshFailed(t)
  <2>1. /\ runs' = runs
        /\ \A q \in Requests : \/ phase'[q] = phase[q]
                               \/ phase[q] \in {"queued", "renewing"} /\ phase'[q] = "failed"
    BY <1>3, RefreshFailedMoves DEF Queued, Starter
  <2>2. \A q \in Requests : \/ Settled(q)' = Settled(q)
                            \/ Settled(q) = "pending" /\ Settled(q)' = "rejected"
    BY <2>1, SettledIs DEF Pending
  <2> QED
    BY <2>1, <2>2, Rejects
<1> QED
  BY <1>1, <1>2, <1>3 DEF Refreshed

\* Every step is a step of Exchange or none.
LEMMA NextSimulates == IInv /\ IInv' /\ [Next]_vars => [Promise!Next]_(Promise!vars)
<1> SUFFICES ASSUME IInv, IInv', [Next]_vars PROVE Promise!Next \/ UNCHANGED Promise!vars
  OBVIOUS
<1>1. ASSUME NEW r \in Requests, Call(r) \/ Served(r) \/ Answered(r)
      PROVE  Promise!Next \/ UNCHANGED Promise!vars
  BY <1>1, CallPlaces, ServedCarriesOut, AnsweredSimulates DEF Promise!Next
<1>2. ASSUME NEW t \in Tabs, Refreshed(t) PROVE Promise!Next \/ UNCHANGED Promise!vars
  BY <1>2, RefreshedSimulates DEF Promise!Next
<1>3. CASE EndSession \/ UNCHANGED vars
  <2>1. phase' = phase /\ runs' = runs
    BY <1>3 DEF EndSession, vars
  <2>2. \A q \in Requests : Settled(q)' = Settled(q)
    BY <2>1, SettledIs
  <2> QED
    BY <2>1, <2>2, Stutters
<1> QED
  BY <1>1, <1>2, <1>3 DEF Next

\* Before the first call nothing is placed and nothing has run.
LEMMA InitSimulates == Init => Promise!Init
  BY DEF Init, Promise!Init, Settled

\* To the page all of it is one call that ends once, in an answer to a call
\* that was carried out or in an error, and that the server carried out at
\* most twice more than it was resent.
THEOREM ExchangeImplemented == Spec => ImplementsExchange
  BY InitSimulates, NextSimulates, Invariance, PTL DEF Spec, ImplementsExchange, Promise!Spec
=============================================================================
