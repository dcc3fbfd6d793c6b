----------------------------- MODULE EventStream -----------------------------
(***************************************************************************)
(* The realtime channel of one dashboard tab: the EventStreamClient that   *)
(* keeps a server-sent event stream open, and the badge of the             *)
(* notification bell that lives on it.  A stream starts with a "ready"     *)
(* frame that carries the number of unread notifications; everything after *)
(* it is a hint to ask again over HTTP, and may be lost.  The stream's     *)
(* authentication is the access cookie, which EventSource cannot renew.    *)
(*                                                                         *)
(* The bell is the client's one subscriber; its effect subscribes to its   *)
(* three event types in one go, so that a source has listeners for all of  *)
(* them or for none.  The refresh token stays valid: ApiClient has the     *)
(* sessions that end.                                                      *)
(***************************************************************************)
EXTENDS Naturals, FiniteSets

CONSTANTS
    Sources,        \* room for EventSource objects that are not closed
    Gets,           \* requests for the unread count followed at a time
    MaxUnread,      \* bound: unread notifications
    MaxChanges,     \* bound: changes of the unread count
    MaxOutages,     \* bound: outages of the backend, and handshakes that are lost
    MaxExpiries,    \* bound: expiries of the access cookie
    MaxMounts,      \* bound: mounts of the bell
    NoSource        \* this.source = null

ASSUME SourcesAssumption == NoSource \notin Sources
ASSUME BoundsAssumption == MaxUnread \in Nat

VARIABLES
    conn,           \* the browser's view of each source, with the server's
    attached,       \* the source has the client's listeners
    ready,          \* the count the server read for the ready frame
    source,         \* this.source
    timer,          \* this.reconnectTimer is set
    authRetried,    \* this.authRetried
    recovering,     \* calls of recoverAndReopen that await the refresh
    state,          \* this.state
    mounted,        \* the bell is on the page and the user known
    visible,        \* document.visibilityState
    debounce,       \* the reconcile timer of the bell runs
    gets,           \* requests for the count under way
    unread,         \* the number on the badge
    count,          \* the number of unread notifications on the server
    backendUp,      \* the backend answers
    access,         \* the access cookie is valid
    used            \* how much of each bound is used up

client  == <<conn, attached, ready, source, timer, authRetried, recovering, state>>
bell    == <<mounted, visible, debounce, gets, unread>>
backend == <<count, backendUp, access, used>>
vars    == <<client, bell, backend>>

Idle   == [at |-> "free", n |-> 0]
Bounds == [changes |-> MaxChanges, outages |-> MaxOutages,
           expiries |-> MaxExpiries, mounts |-> MaxMounts]

Live == {i \in Sources : conn[i] # "none"}

Use(bound) == used[bound] < Bounds[bound] /\ used' = [used EXCEPT ![bound] = @ + 1]

Init ==
    /\ conn = [i \in Sources |-> "none"]
    /\ attached = [i \in Sources |-> FALSE]
    /\ ready = [i \in Sources |-> 0]
    /\ source = NoSource
    /\ timer = FALSE
    /\ authRetried = FALSE
    /\ recovering = 0
    /\ state = "idle"
    /\ mounted = FALSE
    /\ visible \in BOOLEAN
    /\ debounce = FALSE
    /\ gets = [k \in Gets |-> Idle]
    /\ unread = 0
    /\ count \in 0 .. MaxUnread
    /\ backendUp = TRUE
    /\ access = TRUE
    /\ used = [b \in DOMAIN Bounds |-> 0]

-----------------------------------------------------------------------------
\* The bell asks for the count.

Free == {k \in Gets : gets[k].at = "free"}

\* A request beyond the ones that are followed is left out.
FetchUnreadCount ==
    gets' = IF Free = {} THEN gets
            ELSE [gets EXCEPT ![CHOOSE k \in Free : TRUE].at = "sent"]

\* The listener of the fallback poll: asks at once on the way into "down".
SetState(next) ==
    /\ state' = next
    /\ IF mounted /\ visible /\ state # "down" /\ next = "down"
       THEN FetchUnreadCount
       ELSE UNCHANGED gets

\* The interval of the fallback poll, and the focus of the window.
Poll  == mounted /\ visible /\ state = "down"
Focus == mounted /\ visible /\ state # "open"

FetchAgain ==
    /\ Poll \/ Focus
    /\ FetchUnreadCount
    /\ UNCHANGED <<client, mounted, visible, debounce, unread, backend>>

\* visibilitychange: a tab that comes to the front while "down" asks at once.
ToggleVisible ==
    /\ visible' = ~visible
    /\ IF mounted /\ ~visible /\ state = "down" THEN FetchUnreadCount ELSE UNCHANGED gets
    /\ UNCHANGED <<client, mounted, debounce, unread, backend>>

Reconcile ==
    /\ debounce
    /\ debounce' = FALSE
    /\ FetchUnreadCount
    /\ UNCHANGED <<client, mounted, visible, unread, backend>>

\* The server counts, after the axios client renewed the session if it had to;
\* a backend that is down makes the request fail and leaves the badge alone.
Read(k) ==
    /\ gets[k].at = "sent"
    /\ \/ /\ backendUp
          /\ gets' = [gets EXCEPT ![k] = [at |-> "read", n |-> count]]
          /\ access' = TRUE
       \/ /\ ~backendUp
          /\ gets' = [gets EXCEPT ![k] = Idle]
          /\ UNCHANGED access
    /\ UNCHANGED <<client, mounted, visible, debounce, unread, count, backendUp, used>>

\* The answers may come in any order, and the last to come is shown.
SetUnreadCount(k) ==
    /\ gets[k].at = "read"
    /\ unread' = gets[k].n
    /\ gets' = [gets EXCEPT ![k] = Idle]
    /\ UNCHANGED <<client, mounted, visible, debounce, backend>>

-----------------------------------------------------------------------------
\* The stream client.

\* Mutant: the new source is not given the listeners.
Open_deaf(i, subscribed) ==
    /\ i \in Sources \ Live
    /\ conn' = [conn EXCEPT ![i] = "connecting"]
    /\ attached' = [attached EXCEPT ![i] = FALSE]
    /\ source' = i
    /\ UNCHANGED ready

Open(i, subscribed) ==
    /\ i \in Sources \ Live
    /\ conn' = [conn EXCEPT ![i] = "connecting"]
    /\ attached' = [attached EXCEPT ![i] = subscribed]
    /\ source' = i
    /\ UNCHANGED ready

\* Subscribing opens the stream unless there is one.
On ==
    /\ ~mounted
    /\ Use("mounts")
    /\ mounted' = TRUE
    /\ \/ /\ source # NoSource
          /\ attached' = [attached EXCEPT ![source] = TRUE]
          /\ UNCHANGED <<conn, ready, source, state>>
       \/ /\ source = NoSource
          /\ \E i \in Sources : Open(i, TRUE)
          /\ state' = "connecting"
    /\ UNCHANGED <<timer, authRetried, recovering, visible, debounce, gets, unread,
                   count, backendUp, access>>

\* The cleanup of the effects; the stream stays open, answers find no bell.
Off ==
    /\ mounted
    /\ mounted' = FALSE
    /\ debounce' = FALSE
    /\ gets' = [k \in Gets |-> Idle]
    /\ unread' = 0
    /\ UNCHANGED <<client, visible, backend>>

\* The endpoint reads the count before the stream starts.
Accept(i) ==
    /\ conn[i] = "connecting"
    /\ backendUp /\ access
    /\ conn' = [conn EXCEPT ![i] = "counted"]
    /\ ready' = [ready EXCEPT ![i] = count]
    /\ UNCHANGED <<attached, source, timer, authRetried, recovering, state, bell, backend>>

\* Mutant: the count of the ready frame is not shown.
OnOpen_unread(i) ==
    /\ conn[i] = "counted"
    /\ conn' = [conn EXCEPT ![i] = "open"]
    /\ authRetried' = FALSE
    /\ SetState("open")
    /\ ready' = [ready EXCEPT ![i] = 0]
    /\ UNCHANGED <<unread, attached, source, timer, recovering, mounted, visible, debounce, backend>>

\* onopen and the ready frame behind it; only now does the server subscribe.
OnOpen(i) ==
    /\ conn[i] = "counted"
    /\ conn' = [conn EXCEPT ![i] = "open"]
    /\ authRetried' = FALSE
    /\ SetState("open")
    /\ unread' = IF attached[i] /\ mounted THEN ready[i] ELSE unread
    /\ ready' = [ready EXCEPT ![i] = 0]
    /\ UNCHANGED <<attached, source, timer, recovering, mounted, visible, debounce, backend>>

\* onerror of a source the browser reconnects by itself: the transport dropped,
\* or the server ended a stream that reached EVENT_STREAM_MAX_SECONDS.
OnDrop(i) ==
    /\ \/ conn[i] = "open" /\ UNCHANGED used
       \/ conn[i] \in {"connecting", "counted"} /\ Use("outages")
    /\ conn' = [conn EXCEPT ![i] = "connecting"]
    /\ SetState("connecting")
    /\ ready' = [ready EXCEPT ![i] = 0]
    /\ UNCHANGED <<attached, source, timer, authRetried, recovering,
                   mounted, visible, debounce, unread, count, backendUp, access>>

\* Mutant: after a refresh that did not help no reconnection is scheduled.
OnClosed_unscheduled(i) ==
    /\ conn[i] = "connecting"
    /\ ~(backendUp /\ access)
    /\ conn' = [conn EXCEPT ![i] = "none"]
    /\ SetState("down")
    /\ source' = NoSource
    /\ timer' = (timer \/ ~authRetried)
    /\ attached' = [attached EXCEPT ![i] = FALSE]
    /\ UNCHANGED <<ready, authRetried, recovering, mounted, visible, debounce, unread, backend>>

\* onerror of a source the browser gave up, over a 401 or a 5xx of the proxy.
OnClosed(i) ==
    /\ conn[i] = "connecting"
    /\ ~(backendUp /\ access)
    /\ conn' = [conn EXCEPT ![i] = "none"]
    /\ SetState("down")
    /\ source' = NoSource
    /\ timer' = TRUE
    /\ attached' = [attached EXCEPT ![i] = FALSE]
    /\ UNCHANGED <<ready, authRetried, recovering, mounted, visible, debounce, unread, backend>>

Reopen(i) ==
    /\ Open(i, mounted)
    /\ SetState("connecting")
    /\ UNCHANGED <<mounted, visible, debounce, unread>>

\* The timer fires: refresh the session once, or just open again.
RecoverAndReopen ==
    /\ timer
    /\ timer' = FALSE
    /\ \/ /\ ~authRetried
          /\ authRetried' = TRUE
          /\ recovering' = recovering + 1
          /\ UNCHANGED <<conn, attached, ready, source, state, bell>>
       \/ /\ authRetried
          /\ \E i \in Sources : Reopen(i)
          /\ UNCHANGED <<authRetried, recovering>>
    /\ UNCHANGED backend

\* The refresh was answered, one way or the other.
Recovered ==
    /\ recovering > 0
    /\ recovering' = recovering - 1
    /\ access' = (access \/ backendUp)
    /\ \E i \in Sources : Reopen(i)
    /\ UNCHANGED <<timer, authRetried, count, backendUp, used>>

-----------------------------------------------------------------------------
\* The rest of the world.

\* A notification comes, is read or deleted elsewhere.  The hint reaches the
\* bell through a stream that is open, or is lost.
Change ==
    /\ Use("changes")
    /\ count' \in (0 .. MaxUnread) \ {count}
    /\ \/ /\ mounted /\ \E i \in Live : conn[i] = "open" /\ attached[i]
          /\ debounce' = TRUE
       \/ UNCHANGED debounce
    /\ UNCHANGED <<client, mounted, visible, gets, unread, backendUp, access>>

GoDown ==
    /\ backendUp
    /\ Use("outages")
    /\ backendUp' = FALSE
    /\ UNCHANGED <<client, bell, count, access>>

ComeUp ==
    /\ ~backendUp
    /\ backendUp' = TRUE
    /\ UNCHANGED <<client, bell, count, access, used>>

Expire ==
    /\ access
    /\ Use("expiries")
    /\ access' = FALSE
    /\ UNCHANGED <<client, bell, count, backendUp>>

-----------------------------------------------------------------------------
Streams(i) == Accept(i) \/ OnOpen(i) \/ OnClosed(i)

Next ==
    \/ On \/ Off \/ ToggleVisible \/ FetchAgain \/ Reconcile
    \/ \E k \in Gets : Read(k) \/ SetUnreadCount(k)
    \/ \E i \in Sources : Streams(i) \/ OnDrop(i)
    \/ RecoverAndReopen \/ Recovered
    \/ Change \/ GoDown \/ ComeUp \/ Expire

\* The network answers, the timers fire, the server ends each stream in the end
\* and an outage passes.  Nobody has to look at the tab.
Fairness ==
    /\ WF_vars(Reconcile) /\ WF_vars(Poll /\ FetchAgain)
    /\ \A k \in Gets : WF_vars(Read(k) \/ SetUnreadCount(k))
    /\ \A i \in Sources : WF_vars(Streams(i)) /\ WF_vars(conn[i] = "open" /\ OnDrop(i))
    /\ WF_vars(RecoverAndReopen) /\ WF_vars(Recovered)
    /\ WF_vars(ComeUp)

Spec == Init /\ [][Next]_vars /\ Fairness

-----------------------------------------------------------------------------
TypeOK ==
    /\ conn \in [Sources -> {"none", "connecting", "counted", "open"}]
    /\ attached \in [Sources -> BOOLEAN]
    /\ ready \in [Sources -> 0 .. MaxUnread]
    /\ source \in Sources \cup {NoSource}
    /\ timer \in BOOLEAN /\ authRetried \in BOOLEAN
    /\ recovering \in Nat
    /\ state \in {"idle", "connecting", "open", "down"}
    /\ mounted \in BOOLEAN /\ visible \in BOOLEAN /\ debounce \in BOOLEAN
    /\ gets \in [Gets -> [at : {"free", "sent", "read"}, n : 0 .. MaxUnread]]
    /\ unread \in 0 .. MaxUnread
    /\ count \in 0 .. MaxUnread
    /\ backendUp \in BOOLEAN /\ access \in BOOLEAN
    /\ used \in [DOMAIN Bounds -> Nat]

\* Once somebody has subscribed, the client is never at rest without a stream:
\* it has a source, or a timer or a refresh that will open one, whichever of
\* several sources reported an error in between.
NeverStranded == state # "idle" => source # NoSource \/ timer \/ recovering > 0

\* The source in use delivers to the subscribers, also when they came and went
\* while another source was being replaced.
CurrentSourceListens == mounted /\ source # NoSource => attached[source]

\* Whatever hints were lost and whichever answers came late, the badge of a bell
\* that stays in view shows the server's number in the end: every stream starts
\* with the count, and the poll renews a session the stream cannot.
BadgeConverges == <>[](mounted /\ visible) => <>[](unread = count)
=============================================================================
