------------------------- MODULE EventStream_proofs -------------------------
(* Proofs about EventStream for any number of sources, requests, mounts,   *)
(* outages and expiries.                                                   *)
EXTENDS EventStream, TLAPS

(***************************************************************************)
(* The inductive invariant.  A source that was replaced lives on and may   *)
(* still report that it opened, dropped or closed; each report moves the   *)
(* state of the client, and none may find the client at rest.              *)
(***************************************************************************)

\* Until the first subscription there is no source to report anything.
IdleHasNoStream == state = "idle" => Live = {}

IInv == TypeOK /\ NeverStranded /\ CurrentSourceListens /\ IdleHasNoStream

-----------------------------------------------------------------------------
(* What the operators of the steps do.                                     *)

Conn == {"none", "connecting", "counted", "open"}
Get  == [at : {"free", "sent", "read"}, n : 0 .. MaxUnread]

\* What TypeOK says about the client, about the bell and about the rest.
ClientOK ==
    /\ conn \in [Sources -> Conn] /\ attached \in [Sources -> BOOLEAN]
    /\ ready \in [Sources -> 0 .. MaxUnread]
    /\ source \in Sources \cup {NoSource}
    /\ timer \in BOOLEAN /\ authRetried \in BOOLEAN /\ recovering \in Nat
    /\ state \in {"idle", "connecting", "open", "down"}
BellOK ==
    /\ mounted \in BOOLEAN /\ visible \in BOOLEAN /\ debounce \in BOOLEAN
    /\ gets \in [Gets -> Get] /\ unread \in 0 .. MaxUnread
BackendOK ==
    /\ count \in 0 .. MaxUnread /\ backendUp \in BOOLEAN /\ access \in BOOLEAN
    /\ used \in [DOMAIN Bounds -> Nat]

\* The three parts are all of it.
LEMMA TypeParts ==
    /\ TypeOK <=> ClientOK /\ BellOK /\ BackendOK
    /\ TypeOK' <=> ClientOK' /\ BellOK' /\ BackendOK'
<1>1. TypeOK <=> ClientOK /\ BellOK /\ BackendOK
  BY DEF TypeOK, ClientOK, BellOK, BackendOK, Conn, Get
<1>2. TypeOK' <=> ClientOK' /\ BellOK' /\ BackendOK'
  BY DEF TypeOK, ClientOK, BellOK, BackendOK, Conn, Get
<1> QED
  BY <1>1, <1>2

\* A request that is free has asked for nothing yet.
LEMMA IdleType == Idle \in Get
  BY BoundsAssumption DEF Idle, Get

\* Asking for the count takes a free request or none.
LEMMA FetchType ==
    ASSUME gets \in [Gets -> Get], FetchUnreadCount
    PROVE  gets' \in [Gets -> Get]
<1>1. CASE Free = {}
  BY <1>1 DEF FetchUnreadCount
<1>2. CASE Free # {}
  <2>1. PICK k \in Gets : gets' = [gets EXCEPT ![k].at = "sent"]
    BY <1>2 DEF FetchUnreadCount, Free
  <2>2. [gets[k] EXCEPT !.at = "sent"] \in Get
    BY DEF Get
  <2> QED
    BY <2>1, <2>2
<1> QED
  BY <1>1, <1>2

\* Using up a bound counts it.
LEMMA UseType ==
    ASSUME used \in [DOMAIN Bounds -> Nat], NEW b \in DOMAIN Bounds, Use(b)
    PROVE  used' \in [DOMAIN Bounds -> Nat]
  BY DEF Use

\* The names of the bounds.
LEMMA BoundNames == DOMAIN Bounds = {"changes", "outages", "expiries", "mounts"}
  BY DEF Bounds

\* A change of the client's state asks for the count or leaves the requests.
LEMMA StateType ==
    ASSUME gets \in [Gets -> Get], NEW next, SetState(next)
    PROVE  state' = next /\ gets' \in [Gets -> Get]
<1>1. CASE mounted /\ visible /\ state # "down" /\ next = "down"
  BY <1>1, FetchType DEF SetState
<1>2. CASE ~(mounted /\ visible /\ state # "down" /\ next = "down")
  BY <1>2 DEF SetState
<1> QED
  BY <1>1, <1>2

\* A new source is the one in use, and listens if it was asked to.
LEMMA OpenType ==
    ASSUME TypeOK, NEW i \in Sources, NEW b \in BOOLEAN, Open(i, b)
    PROVE  /\ conn' \in [Sources -> Conn] /\ attached' \in [Sources -> BOOLEAN]
           /\ source' = i /\ source' \in Sources /\ source' # NoSource
           /\ attached'[i] = b /\ ready' = ready
  BY SourcesAssumption DEF Open, TypeOK, Conn

-----------------------------------------------------------------------------
(* The steps.                                                              *)

\* The invariant holds before the first subscription.
LEMMA InitIInv == Init => IInv
<1> SUFFICES ASSUME Init PROVE IInv
  OBVIOUS
<1>1. ClientOK
  <2>1. 0 \in 0 .. MaxUnread
    BY BoundsAssumption
  <2> QED
    BY <2>1 DEF Init, ClientOK, Conn
<1>2. BellOK
  <2>1. [k \in Gets |-> Idle] \in [Gets -> Get] /\ 0 \in 0 .. MaxUnread
    BY IdleType, BoundsAssumption
  <2> QED
    BY <2>1 DEF Init, BellOK
<1>3. BackendOK
  BY DEF Init, BackendOK
<1>4. TypeOK
  BY <1>1, <1>2, <1>3, TypeParts
<1> QED
  BY <1>4 DEF Init, IInv, NeverStranded, CurrentSourceListens, IdleHasNoStream, Live

\* A step of the bell or of the world that leaves the client alone and does
\* not mount the bell keeps what is said about the client.
LEMMA ClientUntouched ==
    ASSUME IInv, UNCHANGED client, mounted' => mounted, TypeOK'
    PROVE  IInv'
  BY DEF IInv, client, NeverStranded, CurrentSourceListens, IdleHasNoStream, Live

\* A step that leaves the client with a source that listens, and with a state,
\* keeps the invariant.
LEMMA SourceGained ==
    ASSUME TypeOK', source' # NoSource, state' # "idle", mounted' => attached'[source']
    PROVE  IInv'
  BY DEF IInv, NeverStranded, CurrentSourceListens, IdleHasNoStream

\* Subscribing attaches the listeners to the source there is, or opens one.
LEMMA OnStep == ASSUME IInv, On PROVE IInv'
<1>1. /\ TypeOK /\ mounted' = TRUE
      /\ UNCHANGED <<timer, authRetried, recovering, visible, debounce, gets, unread, count,
                     backendUp, access>>
      /\ used' \in [DOMAIN Bounds -> Nat]
  BY UseType, BoundNames DEF IInv, TypeOK, On
<1>2. CASE /\ source # NoSource
           /\ attached' = [attached EXCEPT ![source] = TRUE]
           /\ UNCHANGED <<conn, ready, source, state>>
  <2>1. TypeOK' /\ attached'[source] = TRUE
    BY <1>1, <1>2, Zenon DEF TypeOK
  <2> QED
    BY <1>1, <1>2, <2>1 DEF IInv, NeverStranded, CurrentSourceListens, IdleHasNoStream, Live
<1>3. ASSUME NEW i \in Sources, Open(i, TRUE), state' = "connecting" PROVE IInv'
  <2>1. TypeOK' /\ attached'[source'] = TRUE /\ source' # NoSource
    BY <1>1, <1>3, OpenType DEF TypeOK, Conn
  <2> QED
    BY <1>3, <2>1, SourceGained
<1> QED
  BY <1>2, <1>3 DEF On

\* The bell leaves and takes its requests along.
LEMMA OffStep == ASSUME IInv, Off PROVE IInv'
<1>1. TypeOK' /\ UNCHANGED client /\ mounted' = FALSE
  <2>1. BellOK'
    <3>1. [k \in Gets |-> Idle] \in [Gets -> Get] /\ 0 \in 0 .. MaxUnread
      BY IdleType, BoundsAssumption
    <3> QED
      BY <3>1, TypeParts DEF IInv, Off, BellOK
  <2>2. ClientOK' /\ BackendOK' /\ UNCHANGED client /\ mounted' = FALSE
    BY TypeParts DEF IInv, Off, client, backend, ClientOK, BackendOK
  <2> QED
    BY <2>1, <2>2, TypeParts
<1> QED
  BY <1>1, ClientUntouched

\* The bell asks, is answered, or is looked at.
LEMMA BellStep ==
    ASSUME IInv, \/ ToggleVisible \/ FetchAgain \/ Reconcile
                 \/ \E k \in Gets : Read(k) \/ SetUnreadCount(k)
    PROVE  IInv'
<1> USE DEF Get
<1>1. CASE ToggleVisible
  <2>1. UNCHANGED <<client, mounted, debounce, unread, backend>> /\ visible' \in BOOLEAN
    BY <1>1 DEF ToggleVisible
  <2>2. gets' \in [Gets -> Get]
    BY <1>1, FetchType DEF ToggleVisible, IInv, TypeOK
  <2>3. TypeOK'
    BY <2>1, <2>2 DEF IInv, TypeOK, client, backend
  <2> QED
    BY <2>1, <2>3, ClientUntouched
<1>2. CASE FetchAgain
  <2>1. UNCHANGED <<client, mounted, visible, debounce, unread, backend>>
        /\ gets' \in [Gets -> Get]
    BY <1>2, FetchType DEF FetchAgain, IInv, TypeOK
  <2>2. TypeOK'
    BY <2>1 DEF IInv, TypeOK, client, backend
  <2> QED
    BY <2>1, <2>2, ClientUntouched
<1>3. CASE Reconcile
  <2>1. /\ UNCHANGED <<client, mounted, visible, unread, backend>> /\ debounce' = FALSE
        /\ gets' \in [Gets -> Get]
    BY <1>3, FetchType DEF Reconcile, IInv, TypeOK
  <2>2. TypeOK'
    BY <2>1 DEF IInv, TypeOK, client, backend
  <2> QED
    BY <2>1, <2>2, ClientUntouched
<1>4. ASSUME NEW k \in Gets, Read(k) PROVE IInv'
  <2>1. /\ UNCHANGED <<client, mounted, visible, debounce, unread, count, backendUp, used>>
        /\ access' \in BOOLEAN
    BY <1>4 DEF Read, IInv, TypeOK
  <2>2. gets' \in [Gets -> Get]
    BY <1>4, IdleType DEF Read, IInv, TypeOK
  <2>3. TypeOK'
    BY <2>1, <2>2 DEF IInv, TypeOK, client
  <2> QED
    BY <2>1, <2>3, ClientUntouched
<1>5. ASSUME NEW k \in Gets, SetUnreadCount(k) PROVE IInv'
  <2>1. UNCHANGED <<client, mounted, visible, debounce, backend>>
    BY <1>5 DEF SetUnreadCount
  <2>2. gets' \in [Gets -> Get] /\ unread' \in 0 .. MaxUnread
    BY <1>5, IdleType DEF SetUnreadCount, IInv, TypeOK
  <2>3. TypeOK'
    BY <2>1, <2>2 DEF IInv, TypeOK, client, backend
  <2> QED
    BY <2>1, <2>3, ClientUntouched
<1> QED
  BY <1>1, <1>2, <1>3, <1>4, <1>5

\* The server accepts a stream; the client does not know yet.
LEMMA AcceptStep == ASSUME IInv, NEW i \in Sources, Accept(i) PROVE IInv'
<1>1. /\ conn[i] = "connecting" /\ conn' = [conn EXCEPT ![i] = "counted"]
      /\ ready' = [ready EXCEPT ![i] = count]
      /\ UNCHANGED <<attached, source, timer, authRetried, recovering, state, bell, backend>>
  BY DEF Accept
<1>2. ClientOK'
  BY <1>1, TypeParts DEF IInv, ClientOK, BackendOK, Conn
<1>3. BellOK' /\ BackendOK'
  BY <1>1, TypeParts DEF IInv, BellOK, BackendOK, bell, backend
<1>4. state = "idle" => Live' = {}
  BY <1>1, TypeParts DEF IInv, IdleHasNoStream, Live, ClientOK
<1> QED
  BY <1>1, <1>2, <1>3, <1>4, TypeParts
     DEF IInv, NeverStranded, CurrentSourceListens, IdleHasNoStream, bell

\* A report of a live source moves the state of the client and nothing that
\* would leave it stranded or deaf.
LEMMA ReportKeeps ==
    ASSUME IInv, NEW i \in Sources, conn[i] # "none",
           source' = source \/ (source' = NoSource /\ timer'),
           timer => timer', recovering' = recovering, mounted' = mounted, state' # "idle",
           \A j \in Sources : j = source' => attached'[j] = attached[j],
           TypeOK'
    PROVE  IInv'
<1>1. source # NoSource \/ timer \/ recovering > 0
  BY DEF IInv, IdleHasNoStream, NeverStranded, Live
<1>2. NeverStranded'
  BY <1>1 DEF NeverStranded
<1>3. CurrentSourceListens'
  BY TypeParts DEF IInv, ClientOK, CurrentSourceListens
<1> QED
  BY <1>2, <1>3 DEF IInv, IdleHasNoStream

\* A source that is open: the badge shows what its ready frame carried.
LEMMA OnOpenStep == ASSUME IInv, NEW i \in Sources, OnOpen(i) PROVE IInv'
<1>1. /\ conn[i] = "counted" /\ conn' = [conn EXCEPT ![i] = "open"]
      /\ authRetried' = FALSE /\ ready' = [ready EXCEPT ![i] = 0]
      /\ unread' = IF attached[i] /\ mounted THEN ready[i] ELSE unread
      /\ UNCHANGED <<attached, source, timer, recovering, mounted, visible, debounce, backend>>
  BY DEF OnOpen
<1>2. state' = "open" /\ gets' \in [Gets -> Get]
  BY StateType, TypeParts DEF OnOpen, IInv, BellOK
<1>3. ClientOK'
  <2>1. ready' \in [Sources -> 0 .. MaxUnread]
    BY <1>1, TypeParts, BoundsAssumption DEF IInv, ClientOK
  <2>2. conn' \in [Sources -> Conn]
    BY <1>1, TypeParts DEF IInv, ClientOK, Conn
  <2> QED
    BY <1>1, <1>2, <2>1, <2>2, TypeParts DEF IInv, ClientOK
<1>4. BellOK' /\ BackendOK'
  BY <1>1, <1>2, TypeParts DEF IInv, ClientOK, BellOK, BackendOK, backend
<1>5. TypeOK'
  BY <1>3, <1>4, TypeParts
<1> QED
  BY <1>1, <1>2, <1>5, ReportKeeps

\* A source the browser connects again stays in use.
LEMMA OnDropStep == ASSUME IInv, NEW i \in Sources, OnDrop(i) PROVE IInv'
<1>1. /\ conn[i] # "none" /\ conn' = [conn EXCEPT ![i] = "connecting"]
      /\ ready' = [ready EXCEPT ![i] = 0]
      /\ UNCHANGED <<attached, source, timer, authRetried, recovering,
                     mounted, visible, debounce, unread, count, backendUp, access>>
  BY DEF OnDrop
<1>2. state' = "connecting" /\ gets' \in [Gets -> Get]
  BY StateType, TypeParts DEF OnDrop, IInv, BellOK
<1>3. used' \in [DOMAIN Bounds -> Nat]
  BY UseType, BoundNames, TypeParts DEF OnDrop, IInv, BackendOK
<1>4. ClientOK'
  BY <1>1, <1>2, TypeParts, BoundsAssumption DEF IInv, ClientOK, Conn
<1>5. BellOK' /\ BackendOK'
  BY <1>1, <1>2, <1>3, TypeParts DEF IInv, BellOK, BackendOK
<1>6. TypeOK'
  BY <1>4, <1>5, TypeParts
<1> QED
  BY <1>1, <1>2, <1>6, ReportKeeps

\* A source the browser gave up is dropped, whether or not it is the one in
\* use, and the timer runs that will open another.
LEMMA OnClosedStep == ASSUME IInv, NEW i \in Sources, OnClosed(i) PROVE IInv'
<1>1. /\ conn[i] = "connecting" /\ conn' = [conn EXCEPT ![i] = "none"]
      /\ source' = NoSource /\ timer' = TRUE
      /\ attached' = [attached EXCEPT ![i] = FALSE]
      /\ UNCHANGED <<ready, authRetried, recovering, mounted, visible, debounce, unread,
                     backend>>
  BY DEF OnClosed
<1>2. state' = "down" /\ gets' \in [Gets -> Get]
  BY StateType, TypeParts DEF OnClosed, IInv, BellOK
<1>3. ClientOK'
  BY <1>1, <1>2, TypeParts DEF IInv, ClientOK, Conn
<1>4. BellOK' /\ BackendOK'
  BY <1>1, <1>2, TypeParts DEF IInv, BellOK, BackendOK, backend
<1>5. TypeOK'
  BY <1>3, <1>4, TypeParts
<1>6. \A j \in Sources : j # source'
  BY <1>1, SourcesAssumption
<1> QED
  BY <1>1, <1>2, <1>5, <1>6, ReportKeeps

\* Opening again gives the client a source that the bell listens to.
LEMMA ReopenKeeps ==
    ASSUME IInv, NEW i \in Sources, Reopen(i),
           timer' \in BOOLEAN, authRetried' \in BOOLEAN, recovering' \in Nat, BackendOK'
    PROVE  IInv'
<1>1. /\ Open(i, mounted) /\ UNCHANGED <<mounted, visible, debounce, unread>>
      /\ mounted \in BOOLEAN /\ TypeOK
  BY TypeParts DEF Reopen, IInv, BellOK
<1>2. state' = "connecting" /\ gets' \in [Gets -> Get]
  BY StateType, TypeParts DEF Reopen, IInv, BellOK
<1>3. /\ conn' \in [Sources -> Conn] /\ attached' \in [Sources -> BOOLEAN]
      /\ source' \in Sources /\ source' # NoSource
      /\ attached'[source'] = mounted /\ ready' = ready
  BY <1>1, OpenType
<1>4. ClientOK'
  BY <1>2, <1>3, TypeParts DEF IInv, ClientOK
<1>5. BellOK'
  BY <1>1, <1>2, TypeParts DEF IInv, BellOK
<1>6. TypeOK'
  BY <1>4, <1>5, TypeParts
<1> QED
  BY <1>1, <1>2, <1>3, <1>6, SourceGained

\* The timer hands over to a refresh or to a new source.
LEMMA RecoverAndReopenStep == ASSUME IInv, RecoverAndReopen PROVE IInv'
<1>1. /\ timer' = FALSE /\ UNCHANGED backend /\ BackendOK'
      /\ recovering \in Nat /\ authRetried \in BOOLEAN
  BY TypeParts DEF RecoverAndReopen, IInv, BackendOK, ClientOK, backend
<1>2. CASE /\ authRetried' = TRUE
           /\ recovering' = recovering + 1
           /\ UNCHANGED <<conn, attached, ready, source, state, bell>>
  <2>1. ClientOK'
    <3>1. timer' \in BOOLEAN /\ authRetried' \in BOOLEAN
      BY <1>1, <1>2, Zenon
    <3>2. recovering' \in Nat
      BY <1>1, <1>2
    <3> QED
      BY <1>2, <3>1, <3>2, TypeParts DEF IInv, ClientOK
  <2>2. BellOK'
    BY <1>2, TypeParts DEF IInv, BellOK, bell
  <2>3. TypeOK'
    BY <1>1, <2>1, <2>2, TypeParts
  <2>4. recovering' > 0
    BY <1>1, <1>2
  <2> QED
    BY <1>2, <2>3, <2>4
       DEF IInv, NeverStranded, CurrentSourceListens, IdleHasNoStream, Live, bell
<1>3. ASSUME NEW i \in Sources, Reopen(i), UNCHANGED <<authRetried, recovering>> PROVE IInv'
  BY <1>1, <1>3, ReopenKeeps
<1> QED
  BY <1>2, <1>3 DEF RecoverAndReopen

\* A refresh that was answered opens a source.
LEMMA RecoveredStep == ASSUME IInv, Recovered PROVE IInv'
<1>1. PICK i \in Sources : Reopen(i)
  BY DEF Recovered
<1>2. recovering' \in Nat /\ timer' \in BOOLEAN /\ authRetried' \in BOOLEAN
  BY TypeParts DEF Recovered, IInv, ClientOK
<1>3. BackendOK'
  BY TypeParts DEF Recovered, IInv, BackendOK
<1> QED
  BY <1>1, <1>2, <1>3, ReopenKeeps

\* What happens on the server leaves the client alone.
LEMMA WorldStep ==
    ASSUME IInv, Change \/ GoDown \/ ComeUp \/ Expire
    PROVE  IInv'
<1>1. used' \in [DOMAIN Bounds -> Nat]
  BY UseType, BoundNames, TypeParts DEF IInv, BackendOK, Change, GoDown, ComeUp, Expire
<1>2. BackendOK'
  BY <1>1, TypeParts DEF IInv, BackendOK, Change, GoDown, ComeUp, Expire
<1>3. /\ UNCHANGED <<client, mounted, visible, gets, unread>>
      /\ debounce' = TRUE \/ debounce' = debounce
  BY DEF Change, GoDown, ComeUp, Expire, bell
<1>4. ClientOK' /\ BellOK'
  BY <1>3, TypeParts DEF IInv, ClientOK, BellOK, client
<1>5. TypeOK'
  BY <1>2, <1>4, TypeParts
<1> QED
  BY <1>3, <1>5, ClientUntouched

\* Every step keeps the invariant.
LEMMA NextKeeps == IInv /\ [Next]_vars => IInv'
<1> SUFFICES ASSUME IInv, [Next]_vars PROVE IInv'
  OBVIOUS
<1>1. CASE Next
  BY <1>1, OnStep, OffStep, BellStep, AcceptStep, OnOpenStep, OnClosedStep, OnDropStep,
     RecoverAndReopenStep, RecoveredStep, WorldStep DEF Next, Streams
<1>2. CASE UNCHANGED vars
  <2>1. ClientOK' /\ BellOK' /\ BackendOK' /\ UNCHANGED client /\ mounted' = mounted
    BY <1>2, TypeParts DEF IInv, vars, client, bell, backend, ClientOK, BellOK, BackendOK
  <2> QED
    BY <2>1, TypeParts, ClientUntouched
<1> QED
  BY <1>1, <1>2

-----------------------------------------------------------------------------
(* The theorems.                                                           *)

\* The inductive invariant of the realtime channel.
THEOREM Invariance == Spec => []IInv
  BY InitIInv, NextKeeps, PTL DEF Spec

\* The client, the bell and the server keep their types.
THEOREM TypeCorrect == Spec => []TypeOK
<1>1. IInv => TypeOK
  BY DEF IInv
<1> QED
  BY <1>1, Invariance, PTL

\* Once somebody has subscribed, the client has a source, or a timer or a
\* refresh that will open one, whichever of its sources report what.
THEOREM NotStranded == Spec => []NeverStranded
<1>1. IInv => NeverStranded
  BY DEF IInv
<1> QED
  BY <1>1, Invariance, PTL

\* The source in use delivers to the bell while the bell is on the page.
THEOREM SourceListens == Spec => []CurrentSourceListens
<1>1. IInv => CurrentSourceListens
  BY DEF IInv
<1> QED
  BY <1>1, Invariance, PTL
=============================================================================
