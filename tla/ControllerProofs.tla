-------------------------- MODULE ControllerProofs --------------------------
(***************************************************************************)
(* Proofs about Controller, for any number of attempts, any bounds and any *)
(* hazards.                                                                *)
(***************************************************************************)
EXTENDS Controller, SequenceTheorems, TLAPS

-----------------------------------------------------------------------------
(* Identities.                                                             *)

LEMMA Identities ==
  /\ Attempts \subseteq Ids /\ 0 \in Ids
  /\ \A a \in Ids : Worker(a) \in Threads /\ Dispatcher(a) \in Threads
  /\ \A a \in Attempts : Worker(a) \in Threads
  /\ Operator \in Threads
BY ControllerAssumption DEF Attempts, Ids, Worker, Dispatcher, Operator, Threads

LEMMA NextAttempt ==
  ASSUME attempt \in Ids, attempt < MaxAttempts
  PROVE  attempt + 1 \in Attempts
BY ControllerAssumption DEF Attempts, Ids

-----------------------------------------------------------------------------
(* What the operators the actions are built from return.                   *)

\* Waking a thread moves it to a label.
LEMMA WakeType ==
  ASSUME NEW p \in [Threads -> Labels], NEW label, NEW next \in Labels
  PROVE  Wake(p, label, next) \in [Threads -> Labels]
BY DEF Wake

LEMMA WakeBothType ==
  ASSUME NEW p \in [Threads -> Labels]
  PROVE  WakeBoth(p) \in [Threads -> Labels]
<1>1. {"answered", "settled"} \subseteq Labels
  BY DEF Labels
<1>2. Wake(p, "waitAuth", "answered") \in [Threads -> Labels]
  BY <1>1, WakeType
<1> QED
  BY <1>1, <1>2, WakeType DEF WakeBoth

LEMMA GotoType ==
  ASSUME TypeOK, NEW t \in Threads, NEW label \in Labels, Goto(t, label)
  PROVE  pc' \in [Threads -> Labels]
BY DEF TypeOK, Goto

\* The types of the process and its connections are kept by whatever ends it.
WorldOK == daemon \in Daemon /\ link \in [Ids -> Link]

LEMMA NoDaemonType == NoDaemon \in Daemon
BY DEF NoDaemon, Daemon, OrNone, Phases

LEMMA ClosedType ==
  ASSUME TypeOK, NEW words \in Seq(Events)
  PROVE  Closed(words) \in [Ids -> Link]
<1> SUFFICES ASSUME NEW c \in Ids
             PROVE  /\ link[c] \in Link
                    /\ [link[c] EXCEPT !.open = FALSE,
                                       !.queue = IF link[c].served THEN @ \o words \o <<"eof">>
                                                                   ELSE Append(@, "eof")] \in Link
  BY DEF Closed
<1>1. link[c] \in Link /\ link[c].queue \in Seq(Events)
  BY DEF TypeOK, Link
<1>2. "eof" \in Events /\ <<"eof">> \in Seq(Events)
  BY DEF Events
<1>3. Append(link[c].queue, "eof") \in Seq(Events)
  BY <1>1, <1>2
<1>4. link[c].queue \o words \in Seq(Events)
  BY <1>1
<1>5. link[c].queue \o words \o <<"eof">> \in Seq(Events)
  BY <1>2, <1>4
<1> QED
  BY <1>1, <1>3, <1>5 DEF Link

LEMMA KillType ==
  ASSUME TypeOK, NEW words \in Seq(Events), Kill(words)
  PROVE  WorldOK'
BY NoDaemonType, ClosedType DEF Kill, WorldOK

LEMMA WordsType ==
  /\ <<>> \in Seq(Events) /\ <<"exiting">> \in Seq(Events) /\ <<"fatal">> \in Seq(Events)
  /\ <<"rejected", "exiting">> \in Seq(Events)
BY DEF Events

LEMMA HelperStopType ==
  ASSUME TypeOK, HelperStop
  PROVE  WorldOK'
<1>1. CASE Running
  BY <1>1, KillType, WordsType DEF HelperStop
<1>2. CASE ~Running
  BY <1>2 DEF HelperStop, TypeOK, WorldOK
<1> QED
  BY <1>1, <1>2

LEMMA SignalType ==
  ASSUME TypeOK, NEW c, Signal(c)
  PROVE  WorldOK'
BY DEF Signal, TypeOK, WorldOK, Daemon

LEMMA OpenLinkType ==
  ASSUME TypeOK, NEW c \in Ids
  PROVE  OpenLink(c) \in [Ids -> Link]
<1>1. <<>> \in Seq(Events) /\ daemon.id \in OrNone(Ids)
  BY DEF TypeOK, Daemon
<1> QED
  BY <1>1 DEF OpenLink, TypeOK, Link

\* A transition remembers two states.
LEMMA TrackType ==
  ASSUME TypeOK, NEW t \in Threads, NEW new \in Status, NEW wake \in BOOLEAN, Track(t, new, wake)
  PROVE  status' \in Status /\ post' \in [Threads -> Transition]
BY DEF TypeOK, Track, Status, Transition

LEMMA AdvancedType ==
  ASSUME TypeOK, NEW state \in States
  PROVE  Advanced(state) \in Status
BY DEF TypeOK, Advanced, Status

\* The history's rows.
RowsOK == session \in OrNone(Ids) /\ rows \in [Ids -> Row]

LEMMA EndSessionType ==
  ASSUME TypeOK, NEW outcome \in {"failed", "disconnected"},
         NEW reason \in {"", "operator-requested", "link-lost"}, EndSession(outcome, reason)
  PROVE  RowsOK'
<1>1. session' \in OrNone(Ids)
  BY DEF EndSession, OrNone
<1>2. CASE session = None
  BY <1>1, <1>2 DEF EndSession, RowsOK, TypeOK
<1>3. CASE session # None
  <2>1. rows[session] \in Row /\ session \in Ids
    BY <1>3 DEF TypeOK, OrNone
  <2>2. rows' = [rows EXCEPT ![session].outcome = outcome, ![session].reason = reason]
    BY <1>3 DEF EndSession
  <2> QED
    BY <1>1, <2>1, <2>2 DEF RowsOK, TypeOK, Row
<1> QED
  BY <1>2, <1>3

LEMMA StartSessionType ==
  ASSUME TypeOK, NEW a \in Ids, StartSession(a)
  PROVE  RowsOK'
<1>1. \A r \in Row : [r EXCEPT !.outcome = "interrupted"] \in Row
  BY DEF Row
<1>2. [NoRow EXCEPT !.outcome = "open"] \in Row
  BY DEF Row, NoRow
<1> DEFINE ended == IF session = None THEN rows ELSE [rows EXCEPT ![session].outcome = "interrupted"]
<1>3. ended \in [Ids -> Row]
  BY <1>1 DEF TypeOK
<1>4. rows' = [ended EXCEPT ![a] = [NoRow EXCEPT !.outcome = "open"]] /\ session' = a
  BY DEF StartSession
<1> HIDE DEF ended
<1> QED
  BY <1>2, <1>3, <1>4 DEF RowsOK, OrNone

LEMMA MarkConnectedType ==
  ASSUME TypeOK, MarkConnected
  PROVE  RowsOK'
<1>1. \A r \in Row : [r EXCEPT !.up = TRUE] \in Row
  BY DEF Row
<1> QED
  BY <1>1 DEF MarkConnected, TypeOK, RowsOK

LEMMA RecordType ==
  ASSUME TypeOK, NEW p \in Transition, Record(p)
  PROVE  RowsOK'
<1>1. Reason(p) \in {"", "operator-requested", "link-lost"}
  BY DEF Reason
<1>2. CASE MarkConnected
  BY <1>2, MarkConnectedType
<1>3. CASE EndSession(IF p.after = "failed" THEN "failed" ELSE "disconnected", Reason(p))
  BY <1>1, <1>3, EndSessionType
<1>4. CASE UNCHANGED <<session, rows>>
  BY <1>4 DEF TypeOK, RowsOK
<1> QED
  BY <1>2, <1>3, <1>4 DEF Record

-----------------------------------------------------------------------------
(* Type correctness, one lemma per group of actions.                       *)

LEMMA TypeInit == Init => TypeOK
<1> SUFFICES ASSUME Init PROVE TypeOK
  OBVIOUS
<1>1. <<>> \in Seq(Events)
  OBVIOUS
<1>2. NoLink \in Link
  BY <1>1 DEF NoLink, Link, OrNone
<1>3. NoRow \in Row
  BY DEF NoRow, Row
<1>4. NoPost \in Transition
  BY DEF NoPost, Transition, States, BusyStates, DownStates
<1>5. daemon \in Daemon
  <2>1. CASE Adopt
    <3>1. \A p \in Phases : [NoDaemon EXCEPT !.id = 0, !.phase = p] \in Daemon
      BY Identities DEF NoDaemon, Daemon, OrNone, Phases
    <3> QED
      BY <2>1, <3>1 DEF Init
  <2>2. CASE ~Adopt
    BY <2>2, NoDaemonType DEF Init
  <2> QED
    BY <2>1, <2>2
<1>6. pc \in [Threads -> Labels]
  BY DEF Init, Labels
<1>7. status \in Status
  BY DEF Init, Status, States, BusyStates, DownStates
<1>8. held \in [Threads -> [secret : OrNone(Attempts), client : OrNone(Ids)]]
  BY DEF Init, NoHeld, OrNone
<1> QED
  BY <1>2, <1>3, <1>4, <1>5, <1>6, <1>7, <1>8, Identities DEF Init, TypeOK, OrNone

LEMMA OperatorTypes ==
  TypeOK /\ (Connect \/ Disconnect \/ StopStep) => TypeOK'
<1> SUFFICES ASSUME TypeOK, Connect \/ Disconnect \/ StopStep
             PROVE  TypeOK'
  OBVIOUS
<1> USE Identities
<1>1. CASE Connect
  <2>1. attempt + 1 \in Attempts
    BY <1>1, NextAttempt DEF Connect, TypeOK
  <2>2. RowsOK'
    BY <1>1, <2>1, StartSessionType DEF Connect
  <2>3. status' \in Status
    BY <1>1 DEF Connect, Status, States, BusyStates
  <2>4. pc' \in [Threads -> Labels]
    <3>1. "launch" \in Labels
      BY DEF Labels
    <3>2. Goto(Worker(attempt + 1), "launch")
      BY <1>1 DEF Connect
    <3> QED
      BY <2>1, <3>1, <3>2, GotoType
  <2> QED
    BY <1>1, <2>1, <2>2, <2>3, <2>4 DEF Connect, TypeOK, RowsOK, auth, seen
<1>2. CASE Disconnect
  <2>1. status' \in Status
    BY <1>2 DEF Disconnect, Status, States, BusyStates
  <2>2. held' \in [Threads -> [secret : OrNone(Attempts), client : OrNone(Ids)]]
    BY <1>2 DEF Disconnect, TypeOK
  <2>3. pc' \in [Threads -> Labels]
    <3>1. "signal" \in Labels
      BY DEF Labels
    <3> QED
      BY <1>2, <3>1, GotoType DEF Disconnect
  <2>4. asked' \in [Ids -> Nat]
    BY <1>2 DEF Disconnect, TypeOK
  <2> QED
    BY <1>2, <2>1, <2>2, <2>3, <2>4 DEF Disconnect, TypeOK, auth, flags, history, seen
<1>3. CASE DisconnectSignal
  <2>1. WorldOK'
    <3>1. CASE UNCHANGED <<link, daemon>>
      BY <3>1 DEF TypeOK, WorldOK
    <3>2. CASE Signal(held[Operator].client)
      BY <3>2, SignalType
    <3> QED
      BY <1>3, <3>1, <3>2 DEF DisconnectSignal
  <2>2. pc' \in [Threads -> Labels]
    <3>1. {"idle", "stop"} \subseteq Labels
      BY DEF Labels
    <3>2. Goto(Operator, "idle") \/ Goto(Operator, "stop")
      BY <1>3 DEF DisconnectSignal
    <3> QED
      BY <3>1, <3>2, GotoType
  <2>3. held' \in [Threads -> [secret : OrNone(Attempts), client : OrNone(Ids)]]
    BY <1>3 DEF DisconnectSignal, TypeOK, NoHeld, OrNone
  <2> QED
    BY <1>3, <2>1, <2>2, <2>3 DEF DisconnectSignal, TypeOK, WorldOK, auth, history, seen
<1>4. CASE DisconnectStop
  <2>1. WorldOK'
    <3>1. CASE UNCHANGED <<link, daemon>>
      BY <3>1 DEF TypeOK, WorldOK
    <3>2. CASE HelperStop
      BY <3>2, HelperStopType
    <3> QED
      BY <1>4, <3>1, <3>2 DEF DisconnectStop
  <2>2. pc' \in [Threads -> Labels]
    <3>1. {"idle", "stopped"} \subseteq Labels
      BY DEF Labels
    <3>2. Goto(Operator, "idle") \/ Goto(Operator, "stopped")
      BY <1>4 DEF DisconnectStop
    <3> QED
      BY <3>1, <3>2, GotoType
  <2> QED
    BY <1>4, <2>1, <2>2 DEF DisconnectStop, TypeOK, WorldOK, auth, flags, history, seen
<1>5. CASE DisconnectDone
  <2>1. [state |-> "disconnected", error |-> FALSE] \in Status /\ FALSE \in BOOLEAN
    BY DEF Status, States, DownStates
  <2>2. status' \in Status /\ post' \in [Threads -> Transition]
    BY <1>5, <2>1, TrackType DEF DisconnectDone
  <2>3. pc' \in [Threads -> Labels]
    <3>1. "announce" \in Labels
      BY DEF Labels
    <3> QED
      BY <1>5, <3>1, GotoType DEF DisconnectDone
  <2> QED
    BY <1>5, <2>2, <2>3 DEF DisconnectDone, TypeOK, auth, flags, history, seen
<1> QED
  BY <1>1, <1>2, <1>3, <1>4, <1>5 DEF StopStep

LEMMA LaunchTypes ==
  ASSUME TypeOK, NEW a \in Attempts, Launch(a)
  PROVE  TypeOK'
<1> USE Identities
<1>1. daemon' \in Daemon
  <2>1. CASE daemon' = [NoDaemon EXCEPT !.id = a]
    BY <2>1 DEF NoDaemon, Daemon, OrNone, Phases
  <2>2. CASE UNCHANGED daemon
    BY <2>2 DEF TypeOK
  <2> QED
    BY <2>1, <2>2 DEF Launch
<1>2. pc' \in [Threads -> Labels]
  <2>1. {"socket", "failing"} \subseteq Labels
    BY DEF Labels
  <2>2. Goto(Worker(a), "socket") \/ Goto(Worker(a), "failing")
    BY DEF Launch
  <2> QED
    BY <2>1, <2>2, GotoType
<1> QED
  BY <1>1, <1>2 DEF Launch, TypeOK, OrNone, auth, flags, history, seen

LEMMA OpeningTypes ==
  ASSUME TypeOK, NEW a \in Ids, OpenSocket(a) \/ AdoptClient(a)
  PROVE  TypeOK'
<1> USE Identities
<1>1. CASE OpenSocket(a)
  <2>1. link' \in [Ids -> Link]
    <3>1. CASE link' = OpenLink(a)
      BY <3>1, OpenLinkType
    <3>2. CASE UNCHANGED link
      BY <3>2 DEF TypeOK
    <3> QED
      BY <1>1, <3>1, <3>2 DEF OpenSocket
  <2>2. pc' \in [Threads -> Labels]
    <3>1. {"adopt", "done", "failing"} \subseteq Labels
      BY DEF Labels
    <3>2. \E label \in {"adopt", "done", "failing"} : Goto(Worker(a), label)
      BY <1>1 DEF OpenSocket
    <3> QED
      BY <3>1, <3>2, GotoType
  <2> QED
    BY <1>1, <2>1, <2>2 DEF OpenSocket, TypeOK, auth, flags, history, seen
<1>2. CASE AdoptClient(a)
  <2>1. pc' \in [Threads -> Labels]
    <3>1. {"attach", "authenticate"} \subseteq Labels
      BY DEF Labels
    <3>2. \E label \in {"attach", "authenticate"} : Goto(Worker(a), label)
      BY <1>2 DEF AdoptClient
    <3> QED
      BY <3>1, <3>2, GotoType
  <2> QED
    BY <1>2, <2>1 DEF AdoptClient, TypeOK, OrNone, auth, flags, history, seen
<1> QED
  BY <1>1, <1>2

LEMMA ProgressTypes ==
  ASSUME TypeOK, NEW a \in Attempts, Authenticate(a) \/ Prime(a) \/ Answered(a)
  PROVE  TypeOK'
<1> USE Identities
<1>1. {"authenticating", "connecting"} \subseteq States
  BY DEF States, BusyStates
<1>2. CASE Authenticate(a)
  <2>1. "prime" \in Labels
    BY DEF Labels
  <2>2. pc' \in [Threads -> Labels]
    BY <1>2, <2>1, GotoType DEF Authenticate
  <2>3. status' \in Status
    BY <1>1, <1>2, AdvancedType DEF Authenticate
  <2> QED
    BY <1>2, <2>2, <2>3 DEF Authenticate, TypeOK, auth, flags, history, seen
<1>3. CASE Prime(a)
  <2>1. daemon' \in Daemon
    <3>1. [daemon EXCEPT !.phase = "asking"] \in Daemon
      BY DEF TypeOK, Daemon, Phases
    <3> QED
      BY <1>3, <3>1 DEF Prime, TypeOK
  <2>2. pc' \in [Threads -> Labels]
    <3>1. AfterWaiting(authPrompt, "waitAuth", "answered") \in Labels
      BY DEF Labels, AfterWaiting
    <3> QED
      BY <1>3, <3>1, GotoType DEF Prime
  <2> QED
    BY <1>3, <2>1, <2>2 DEF Prime, TypeOK, OrNone, auth, flags, history, seen
<1>4. CASE Answered(a)
  <2>1. status' \in Status
    BY <1>1, <1>4, AdvancedType DEF Answered, TypeOK
  <2>2. pc' \in [Threads -> Labels]
    <3>1. {AfterWaiting(settled, "waitSettled", "settled"), "failing"} \subseteq Labels
      BY DEF Labels, AfterWaiting
    <3>2. \E label \in {AfterWaiting(settled, "waitSettled", "settled"), "failing"} :
            Goto(Worker(a), label)
      BY <1>4 DEF Answered
    <3> QED
      BY <3>1, <3>2, GotoType
  <2> QED
    BY <1>4, <2>1, <2>2 DEF Answered, TypeOK, auth, flags, history, seen
<1> QED
  BY <1>2, <1>3, <1>4

\* The steps of a worker that only decide where it goes next.
LEMMA TurningTypes ==
  ASSUME TypeOK, NEW a \in Attempts,
         WaitTimeout(a) \/ Settle(a) \/ Superseded(a) \/ Finish(a)
  PROVE  TypeOK'
<1> USE Identities
<1>1. pc' \in [Threads -> Labels]
  <2>1. {"failing", "finish", "report", "done"} \subseteq Labels
    BY DEF Labels
  <2>2. \E label \in {"failing", "finish", "report", "done"} : Goto(Worker(a), label)
    BY DEF WaitTimeout, Settle, Superseded, Finish
  <2> QED
    BY <2>1, <2>2, GotoType
<1> QED
  BY <1>1 DEF WaitTimeout, Settle, Superseded, Finish, TypeOK, OrNone, auth, flags, history, seen

LEMMA FailingTypes ==
  ASSUME TypeOK, NEW a \in Attempts, Report(a) \/ AbortDaemon(a)
  PROVE  TypeOK'
<1> USE Identities
<1>1. CASE Report(a)
  <2>1. [state |-> "failed", error |-> TRUE] \in Status /\ TRUE \in BOOLEAN
    BY DEF Status, States, DownStates
  <2>2. status' \in Status /\ post' \in [Threads -> Transition]
    BY <1>1, <2>1, TrackType DEF Report
  <2>3. pc' \in [Threads -> Labels]
    <3>1. "announce" \in Labels
      BY DEF Labels
    <3> QED
      BY <1>1, <3>1, GotoType DEF Report
  <2> QED
    BY <1>1, <2>2, <2>3 DEF Report, TypeOK, auth, flags, history, seen
<1>2. CASE AbortDaemon(a)
  <2>1. WorldOK'
    <3>1. CASE UNCHANGED <<link, daemon>>
      BY <3>1 DEF TypeOK, WorldOK
    <3>2. CASE Signal(client)
      BY <3>2, SignalType
    <3>3. CASE HelperStop
      BY <3>3, HelperStopType
    <3> QED
      BY <1>2, <3>1, <3>2, <3>3 DEF AbortDaemon
  <2>2. pc' \in [Threads -> Labels]
    <3>1. "finish" \in Labels
      BY DEF Labels
    <3> QED
      BY <1>2, <3>1, GotoType DEF AbortDaemon
  <2>3. shutdownRequested' \in BOOLEAN
    BY <1>2 DEF AbortDaemon, TypeOK
  <2> QED
    BY <1>2, <2>1, <2>2, <2>3 DEF AbortDaemon, TypeOK, WorldOK, auth, history, seen
<1> QED
  BY <1>1, <1>2

LEMMA TakeType ==
  ASSUME TypeOK, NEW c \in Ids, NEW e, Take(c, e)
  PROVE  link' \in [Ids -> Link]
<1>1. link[c] \in Link /\ link[c].queue \in Seq(Events) /\ link[c].queue # <<>>
  BY DEF TypeOK, Link, Take
<1>2. Tail(link[c].queue) \in Seq(Events)
  BY <1>1
<1>3. [link[c] EXCEPT !.queue = Tail(@)] \in Link
  BY <1>1, <1>2 DEF Link
<1> QED
  BY <1>3 DEF Take, TypeOK

\* A notification that makes a transition, and possibly wakes a worker.
LEMMA TransitionTypes ==
  ASSUME TypeOK, NEW c \in Ids,
         OnConnected(c) \/ OnExiting(c) \/ OnFatal(c) \/ OnSocketClosed(c)
  PROVE  TypeOK'
<1> USE Identities
<1>1. "announce" \in Labels /\ "settled" \in Labels /\ "answered" \in Labels
  BY DEF Labels
<1>2. link' \in [Ids -> Link]
  BY TakeType DEF OnConnected, OnExiting, OnFatal, OnSocketClosed
<1>3. /\ [state |-> "connected", error |-> FALSE] \in Status
      /\ [state |-> "failed", error |-> TRUE] \in Status
      /\ [status EXCEPT !.state = IF status.error THEN "failed" ELSE "disconnected"] \in Status
      /\ TRUE \in BOOLEAN /\ FALSE \in BOOLEAN
  BY DEF TypeOK, Status, States, DownStates
<1>4. \A label : Wake(pc, label, "settled") \in [Threads -> Labels]
                 /\ Wake(pc, label, "answered") \in [Threads -> Labels]
  BY <1>1, WakeType DEF TypeOK
<1>5. CASE OnConnected(c)
  <2>1. status' \in Status /\ post' \in [Threads -> Transition]
    BY <1>3, <1>5, TrackType DEF OnConnected
  <2>2. pc' \in [Threads -> Labels]
    BY <1>1, <1>4, <1>5 DEF OnConnected
  <2> QED
    BY <1>2, <1>5, <2>1, <2>2 DEF OnConnected, TypeOK, auth, history, seen
<1>6. CASE OnExiting(c)
  <2>1. status' \in Status /\ post' \in [Threads -> Transition]
    BY <1>3, <1>6, TrackType DEF OnExiting
  <2>2. pc' \in [Threads -> Labels]
    BY <1>1, <1>4, <1>6 DEF OnExiting
  <2> QED
    BY <1>2, <1>6, <2>1, <2>2 DEF OnExiting, TypeOK, auth, history, seen
<1>7. CASE OnFatal(c)
  <2>1. status' \in Status /\ post' \in [Threads -> Transition]
    BY <1>3, <1>7, TrackType DEF OnFatal
  <2>2. pc' \in [Threads -> Labels]
    <3>1. CASE Goto(Dispatcher(c), "announce")
      BY <1>1, <3>1, GotoType
    <3>2. CASE pc' = [Wake(pc, "waitAuth", "answered") EXCEPT ![Dispatcher(c)] = "announce"]
      BY <1>1, <1>4, <3>2
    <3> QED
      BY <1>7, <3>1, <3>2 DEF OnFatal
  <2> QED
    BY <1>2, <1>7, <2>1, <2>2 DEF OnFatal, TypeOK, auth, history, seen
<1>8. CASE OnSocketClosed(c)
  <2>1. PICK new \in Status : Track(Dispatcher(c), new, TRUE)
    <3>1. status \in Status
      BY DEF TypeOK
    <3> DEFINE new == CASE status.state \in {"starting", "authenticating", "connecting"}
                             -> [state |-> "failed", error |-> TRUE]
                        [] status.state \in {"connected", "disconnecting"}
                             -> [status EXCEPT !.state = IF status.error THEN "failed"
                                                                        ELSE "disconnected"]
                        [] OTHER -> status
    <3>2. new \in Status
      BY <1>3, <3>1
    <3> QED
      BY <1>8, <3>2 DEF OnSocketClosed
  <2>2. status' \in Status /\ post' \in [Threads -> Transition]
    BY <1>3, <2>1, TrackType
  <2>3. pc' \in [Threads -> Labels]
    BY <1>1, <1>8, GotoType DEF OnSocketClosed
  <2> QED
    BY <1>2, <1>8, <2>2, <2>3 DEF OnSocketClosed, TypeOK, OrNone, auth, flags, history, seen
<1> QED
  BY <1>5, <1>6, <1>7, <1>8

LEMMA ReplyTypes ==
  ASSUME TypeOK, NEW c \in Ids, OnProgress(c) \/ OnNeed(c) \/ AnswerNeed(c)
  PROVE  TypeOK'
<1> USE Identities
<1>1. {"announce", "answer", "idle", "answered"} \subseteq Labels
  BY DEF Labels
<1>2. [state |-> "failed", error |-> TRUE] \in Status /\ TRUE \in BOOLEAN
  BY DEF Status, States, DownStates
<1>3. CASE OnProgress(c)
  <2>1. link' \in [Ids -> Link]
    BY <1>3, TakeType DEF OnProgress
  <2>2. status' \in Status
    BY <1>3 DEF OnProgress, TypeOK, Status, States, BusyStates
  <2> QED
    BY <1>3, <2>1, <2>2 DEF OnProgress, TypeOK, auth, flags, history, seen
<1>4. CASE OnNeed(c)
  <2>1. link' \in [Ids -> Link]
    BY <1>4, TakeType DEF OnNeed
  <2>2. CASE client = None \/ secret = None
    <3>1. status' \in Status /\ post' \in [Threads -> Transition]
      BY <1>2, <1>4, <2>2, TrackType DEF OnNeed
    <3>2. pc' \in [Threads -> Labels]
      BY <1>1, <1>4, <2>2, GotoType DEF OnNeed
    <3> QED
      BY <1>4, <2>1, <2>2, <3>1, <3>2 DEF OnNeed, TypeOK, auth, flags, history, seen
  <2>3. CASE ~(client = None \/ secret = None)
    <3>1. held' \in [Threads -> [secret : OrNone(Attempts), client : OrNone(Ids)]]
      BY <1>4, <2>3 DEF OnNeed, TypeOK
    <3>2. pc' \in [Threads -> Labels]
      BY <1>1, <1>4, <2>3, GotoType DEF OnNeed
    <3> QED
      BY <1>4, <2>1, <2>3, <3>1, <3>2 DEF OnNeed, TypeOK, auth, flags, history, seen
  <2> QED
    BY <2>2, <2>3
<1>5. CASE AnswerNeed(c)
  <2>1. held' \in [Threads -> [secret : OrNone(Attempts), client : OrNone(Ids)]]
    BY <1>5 DEF AnswerNeed, TypeOK, NoHeld, OrNone
  <2> DEFINE mine == held[Dispatcher(c)]
             Accepted ==
               /\ daemon' = [daemon EXCEPT !.phase = "tunnel"]
               /\ sent' = sent \union {<<daemon.id, mine.secret, username>>}
               /\ authPrompt' = TRUE
               /\ pc' = [Wake(pc, "waitAuth", "answered") EXCEPT ![Dispatcher(c)] = "idle"]
               /\ UNCHANGED <<status, post>>
             Refused ==
               /\ Track(Dispatcher(c), [state |-> "failed", error |-> TRUE], TRUE)
               /\ Goto(Dispatcher(c), "announce")
               /\ UNCHANGED <<daemon, sent, authPrompt>>
  <2>2. Accepted \/ Refused
    BY <1>5 DEF AnswerNeed
  <2>3. CASE Accepted
    <3>1. daemon' \in Daemon
      BY <2>3 DEF TypeOK, Daemon, Phases
    <3>2. sent' \subseteq OrNone(Ids) \X OrNone(Attempts) \X OrNone(Attempts)
      <4>1. daemon.id \in OrNone(Ids) /\ mine.secret \in OrNone(Attempts)
            /\ username \in OrNone(Attempts)
        BY DEF TypeOK, Daemon
      <4> QED
        BY <2>3, <4>1 DEF TypeOK
    <3>3. pc' \in [Threads -> Labels]
      BY <1>1, <2>3, WakeType DEF TypeOK
    <3> QED
      BY <1>5, <2>1, <2>3, <3>1, <3>2, <3>3
         DEF AnswerNeed, TypeOK, OrNone, auth, flags, history, seen
  <2>4. CASE Refused
    <3>1. status' \in Status /\ post' \in [Threads -> Transition]
      BY <1>2, <2>4, TrackType
    <3>2. pc' \in [Threads -> Labels]
      BY <1>1, <2>4, GotoType
    <3> QED
      BY <1>5, <2>1, <2>4, <3>1, <3>2
         DEF AnswerNeed, TypeOK, OrNone, auth, flags, history, seen
  <2> QED
    BY <2>2, <2>3, <2>4
<1> QED
  BY <1>3, <1>4, <1>5

LEMMA AttachTypes ==
  ASSUME TypeOK, AttachSession \/ AttachStatus \/ AttachRefresh \/ AttachEnd
  PROVE  TypeOK'
<1> USE Identities
<1>1. {"reattach", "refresh", "announce", "reattached", "done"} \subseteq Labels
  BY DEF Labels
<1>2. pc' \in [Threads -> Labels]
  <2>1. \E label \in {"reattach", "refresh", "announce", "reattached", "done"} :
          Goto(Worker(0), label)
    BY DEF AttachSession, AttachStatus, AttachRefresh, AttachEnd
  <2> QED
    BY <1>1, <2>1, GotoType
<1>3. [state |-> "connected", error |-> FALSE] \in Status
      /\ [status EXCEPT !.state = "connecting"] \in Status
  BY DEF TypeOK, Status, States, BusyStates
<1>4. CASE AttachSession
  <2>1. RowsOK'
    BY <1>4, StartSessionType DEF AttachSession
  <2> QED
    BY <1>2, <1>4, <2>1 DEF AttachSession, TypeOK, RowsOK, auth, flags, seen
<1>5. CASE AttachStatus
  BY <1>2, <1>3, <1>5 DEF AttachStatus, TypeOK, auth, seen
<1>6. CASE AttachRefresh
  <2>1. status' \in Status /\ post' \in [Threads -> Transition]
    <3>1. CASE Track(Worker(0), [state |-> "connected", error |-> FALSE], FALSE)
      BY <1>3, <3>1, TrackType
    <3>2. CASE UNCHANGED post
      BY <1>3, <1>6, <3>2 DEF AttachRefresh, Track, TypeOK
    <3> QED
      BY <1>6, <3>1, <3>2 DEF AttachRefresh
  <2>2. settled' \in BOOLEAN
    BY <1>6 DEF AttachRefresh, TypeOK
  <2> QED
    BY <1>2, <1>6, <2>1, <2>2 DEF AttachRefresh, TypeOK, auth, history, seen
<1>7. CASE AttachEnd
  BY <1>2, <1>7 DEF AttachEnd, TypeOK, auth, history, seen
<1> QED
  BY <1>4, <1>5, <1>6, <1>7

LEMMA AnnounceTypes ==
  ASSUME TypeOK, NEW t \in Threads, Announce(t)
  PROVE  TypeOK'
<1>1. post[t] \in Transition
  BY DEF TypeOK
<1>2. RowsOK'
  BY <1>1, RecordType DEF Announce
<1>3. told' \in {"nothing", "up", "adopted", "operator-requested", "link-lost"}
  BY DEF Announce, GoesDown, Reason, TypeOK
<1>4. pc' \in [Threads -> Labels]
  <2> DEFINE next == CASE t \in {Worker(a) : a \in Attempts} -> "abort"
                       [] t = Worker(0) -> "reattached"
                       [] OTHER -> "idle"
             moved == [pc EXCEPT ![t] = next]
  <2>1. next \in Labels
    BY DEF Labels
  <2>2. moved \in [Threads -> Labels]
    BY <2>1 DEF TypeOK
  <2>3. pc' = IF post[t].wake THEN WakeBoth(moved) ELSE moved
    BY DEF Announce
  <2> HIDE DEF moved, next
  <2> QED
    BY <2>2, <2>3, WakeBothType
<1>5. post' \in [Threads -> Transition]
  BY DEF Announce, TypeOK, NoPost, Transition, States, DownStates
<1>6. authPrompt' \in BOOLEAN /\ settled' \in BOOLEAN
  BY <1>1 DEF Announce, TypeOK, Transition
<1>7. notifiedUp' \in BOOLEAN /\ shutdownRequested' \in BOOLEAN
  BY DEF Announce
<1> QED
  BY <1>2, <1>3, <1>4, <1>5, <1>6, <1>7 DEF Announce, TypeOK, RowsOK, auth, seen

LEMMA OpenVpnTypes ==
  ASSUME TypeOK, OvpnStep
  PROVE  TypeOK'
<1>1. \A e \in Events : \A c \in Ids : [link[c] EXCEPT !.queue = Append(@, e)] \in Link
  <2> SUFFICES ASSUME NEW e \in Events, NEW c \in Ids
               PROVE  [link[c] EXCEPT !.queue = Append(@, e)] \in Link
    OBVIOUS
  <2>1. link[c] \in Link /\ link[c].queue \in Seq(Events)
    BY DEF TypeOK, Link
  <2>2. Append(link[c].queue, e) \in Seq(Events)
    BY <2>1
  <2> QED
    BY <2>1, <2>2 DEF Link
<1>2. ASSUME NEW p \in Phases, NEW word \in Events, NEW from, Progress(from, p, word)
      PROVE  WorldOK' /\ Environment
  <2>1. [daemon EXCEPT !.phase = p] \in Daemon
    BY DEF TypeOK, Daemon
  <2> QED
    BY <1>1, <1>2, <2>1 DEF Progress, TypeOK, WorldOK
<1>3. WorldOK' /\ Environment
  <2>1. {"prompted", "nearly", "up", "asking"} \subseteq Phases
        /\ {"need", "progress", "connected"} \subseteq Events
    BY DEF Phases, Events
  <2>2. CASE OvpnAsks
    BY <1>2, <2>1, <2>2 DEF OvpnAsks
  <2>3. CASE OvpnConnects
    BY <1>2, <2>1, <2>3 DEF OvpnConnects
  <2>4. CASE OvpnConnected
    BY <1>2, <2>1, <2>4 DEF OvpnConnected
  <2>5. CASE OvpnReconnects
    <3>1. \A p \in {"asking", "nearly"} :
            [daemon EXCEPT !.phase = p, !.reconnects = @ + 1] \in Daemon
      <4>1. daemon \in Daemon /\ daemon.reconnects + 1 \in Nat
        BY DEF TypeOK, Daemon
      <4> DEFINE n == daemon.reconnects + 1
      <4>2. n \in Nat
        BY <4>1
      <4> HIDE DEF n
      <4>3. \A p \in Phases : [daemon EXCEPT !.phase = p, !.reconnects = n] \in Daemon
        BY <4>1, <4>2 DEF Daemon
      <4>4. \A p : [daemon EXCEPT !.phase = p, !.reconnects = @ + 1]
                    = [daemon EXCEPT !.phase = p, !.reconnects = n]
        BY <4>1 DEF n, Daemon
      <4> QED
        BY <2>1, <4>3, <4>4
    <3> QED
      BY <1>1, <2>1, <2>5, <3>1 DEF OvpnReconnects, TypeOK, WorldOK
  <2>6. CASE OvpnExits
    <3>1. PICK words \in Seq(Events) : Kill(words)
      BY <2>6, WordsType DEF OvpnExits
    <3> QED
      BY <2>6, <3>1, KillType DEF OvpnExits
  <2> QED
    BY <2>2, <2>3, <2>4, <2>5, <2>6 DEF OvpnStep
<1> QED
  BY <1>3 DEF Environment, WorldOK, TypeOK, auth, flags, history, seen

LEMMA TypeStep == TypeOK /\ [Next]_vars => TypeOK'
<1> SUFFICES ASSUME TypeOK, [Next]_vars
             PROVE  TypeOK'
  OBVIOUS
<1>1. CASE Connect \/ Disconnect \/ StopStep
  BY <1>1, OperatorTypes
<1>2. CASE AttachStep
  BY <1>2, Identities, OpeningTypes, AttachTypes DEF AttachStep
<1>3. ASSUME NEW a \in Attempts, WorkerStep(a) PROVE TypeOK'
  BY <1>3, Identities, LaunchTypes, OpeningTypes, ProgressTypes, TurningTypes, FailingTypes
     DEF WorkerStep
<1>4. ASSUME NEW c \in Ids, DispatcherStep(c) PROVE TypeOK'
  BY <1>4, TransitionTypes, ReplyTypes DEF DispatcherStep
<1>5. ASSUME NEW t \in Threads, Announce(t) PROVE TypeOK'
  BY <1>5, AnnounceTypes
<1>6. CASE OvpnStep
  BY <1>6, OpenVpnTypes
<1>7. CASE UNCHANGED vars
  BY <1>7 DEF vars, TypeOK, auth, flags, history, seen
<1> QED
  BY <1>1, <1>2, <1>3, <1>4, <1>5, <1>6, <1>7 DEF Next

\* Type correctness of the controller (app/services/openvpn.py), for any number
\* of attempts, any bounds and any hazards.
THEOREM ControllerTypes == Spec => []TypeOK
BY TypeInit, TypeStep, PTL DEF Spec

-----------------------------------------------------------------------------
(* Who moves in a step.                                                    *)

LEMMA DistinctThreads ==
  /\ 0 \notin Attempts
  /\ \A a, b \in Ids : /\ Worker(a) # Dispatcher(b)
                       /\ Worker(a) # Operator /\ Dispatcher(a) # Operator
                       /\ Worker(a) = Worker(b) => a = b
                       /\ Dispatcher(a) = Dispatcher(b) => a = b
BY DEF Attempts, Worker, Dispatcher, Operator

\* A thread that does not take the step stays where it is, or an Event it waits
\* for wakes it.
Rests(t) ==
  \/ pc'[t] = pc[t]
  \/ pc[t] = "waitAuth" /\ pc'[t] = "answered"
  \/ pc[t] = "waitSettled" /\ pc'[t] = "settled"

LEMMA WakeRests ==
  ASSUME TypeOK, NEW t \in Threads, NEW label \in Labels, NEW u \in Threads \ {t}, NEW wake \in BOOLEAN,
         \/ pc' = [Wake(pc, "waitAuth", "answered") EXCEPT ![t] = label]
         \/ pc' = [Wake(pc, "waitSettled", "settled") EXCEPT ![t] = label]
  PROVE  Rests(u)
BY DEF Wake, Rests, TypeOK

LEMMA GotoRests ==
  ASSUME TypeOK, NEW t \in Threads, NEW label, Goto(t, label)
  PROVE  pc'[t] = label /\ \A u \in Threads \ {t} : pc'[u] = pc[u]
BY DEF Goto, TypeOK

\* The step of a worker, which leaves what all others remember alone.
LEMMA WorkerMoves ==
  ASSUME TypeOK, NEW a \in Attempts, WorkerStep(a)
  PROVE  /\ pc[Worker(a)] \notin {"idle", "done", "announce"}
         /\ \A u \in Threads \ {Worker(a)} : pc'[u] = pc[u] /\ post'[u] = post[u]
         /\ UNCHANGED <<attempt, held, session, rows, told, seen>>
<1> USE Identities DEF At, seen, history
<1>1. \E label : Goto(Worker(a), label)
  BY DEF WorkerStep, Launch, OpenSocket, AdoptClient, Authenticate, Prime, WaitTimeout, Answered,
         Settle, Superseded, Report, AbortDaemon, Finish
<1>2. pc[Worker(a)] \notin {"idle", "done", "announce"}
  BY DEF WorkerStep, Launch, OpenSocket, AdoptClient, Authenticate, Prime, WaitTimeout, Answered,
         Settle, Superseded, Report, AbortDaemon, Finish
<1>3. \A u \in Threads \ {Worker(a)} : post'[u] = post[u]
  BY DEF WorkerStep, Launch, OpenSocket, AdoptClient, Authenticate, Prime, WaitTimeout, Answered,
         Settle, Superseded, Report, AbortDaemon, Finish, Track, TypeOK
<1>4. UNCHANGED <<attempt, held, session, rows, told, seen>>
  BY DEF WorkerStep, Launch, OpenSocket, AdoptClient, Authenticate, Prime, WaitTimeout, Answered,
         Settle, Superseded, Report, AbortDaemon, Finish
<1> QED  BY <1>1, <1>2, <1>3, <1>4, GotoRests

\* A step of attach() is one of the start-up thread.
LEMMA AttachMoves ==
  ASSUME TypeOK, AttachStep
  PROVE  /\ pc[Worker(0)] \in {"socket", "adopt", "attach", "reattach", "refresh", "reattached"}
         /\ pc'[Worker(0)] \in {"adopt", "done", "attach", "reattach", "refresh", "announce", "reattached"}
         /\ \A u \in Threads \ {Worker(0)} : pc'[u] = pc[u] /\ post'[u] = post[u]
         /\ UNCHANGED <<attempt, held, secret, username, daemon, seen>>
<1> USE Identities DEF At, seen, history, auth
<1>1. \E label \in {"adopt", "done", "attach", "reattach", "refresh", "announce", "reattached"} :
        Goto(Worker(0), label)
  BY DEF AttachStep, OpenSocket, AdoptClient, AttachSession, AttachStatus, AttachRefresh, AttachEnd
<1>2. pc[Worker(0)] \in {"socket", "adopt", "attach", "reattach", "refresh", "reattached"}
  BY DEF AttachStep, OpenSocket, AdoptClient, AttachSession, AttachStatus, AttachRefresh, AttachEnd
<1>3. \A u \in Threads \ {Worker(0)} : post'[u] = post[u]
  BY DEF AttachStep, OpenSocket, AdoptClient, AttachSession, AttachStatus, AttachRefresh, AttachEnd,
         Track, TypeOK
<1>4. UNCHANGED <<attempt, held, secret, username, daemon, seen>>
  BY DEF AttachStep, OpenSocket, AdoptClient, AttachSession, AttachStatus, AttachRefresh, AttachEnd
<1> QED  BY <1>1, <1>2, <1>3, <1>4, GotoRests

\* A step of a dispatcher may wake the workers.
LEMMA DispatcherMoves ==
  ASSUME TypeOK, NEW c \in Ids, DispatcherStep(c)
  PROVE  /\ pc[Dispatcher(c)] \in {"idle", "answer"}
         /\ pc'[Dispatcher(c)] \in {"idle", "answer", "announce"}
         /\ \A u \in Threads \ {Dispatcher(c)} : Rests(u) /\ post'[u] = post[u] /\ held'[u] = held[u]
         /\ UNCHANGED <<attempt, username, session, rows, told, asked>>
<1> USE Identities DEF At, seen, history, auth, Take
<1>1. pc[Dispatcher(c)] \in {"idle", "answer"}
  BY DEF DispatcherStep, OnConnected, OnExiting, OnProgress, OnFatal, OnNeed, AnswerNeed, OnSocketClosed
<1>2. \E label \in {"idle", "answer", "announce"} :
        \/ Goto(Dispatcher(c), label)
        \/ pc' = [Wake(pc, "waitAuth", "answered") EXCEPT ![Dispatcher(c)] = label]
        \/ pc' = [Wake(pc, "waitSettled", "settled") EXCEPT ![Dispatcher(c)] = label]
        \/ UNCHANGED pc
  BY DEF DispatcherStep, OnConnected, OnExiting, OnProgress, OnFatal, OnNeed, AnswerNeed, OnSocketClosed
<1>3. \A u \in Threads \ {Dispatcher(c)} : post'[u] = post[u] /\ held'[u] = held[u]
  BY DEF DispatcherStep, OnConnected, OnExiting, OnProgress, OnFatal, OnNeed, AnswerNeed, OnSocketClosed,
         Track, TypeOK
<1>4. UNCHANGED <<attempt, username, session, rows, told, asked>>
  BY DEF DispatcherStep, OnConnected, OnExiting, OnProgress, OnFatal, OnNeed, AnswerNeed, OnSocketClosed
<1>5. pc'[Dispatcher(c)] \in {"idle", "answer", "announce"}
  BY <1>1, <1>2 DEF Goto, TypeOK, Wake
<1>6. \A u \in Threads \ {Dispatcher(c)} : Rests(u)
  BY <1>2 DEF Goto, TypeOK, Wake, Rests
<1> QED  BY <1>1, <1>3, <1>4, <1>5, <1>6

LEMMA StopMoves ==
  ASSUME TypeOK, Disconnect \/ StopStep
  PROVE  /\ pc[Operator] \in {"idle", "signal", "stop", "stopped"}
         /\ \A u \in Threads \ {Operator} : pc'[u] = pc[u] /\ post'[u] = post[u] /\ held'[u] = held[u]
         /\ UNCHANGED <<attempt, secret, username, session, rows, told, sent>>
<1> USE Identities DEF At, seen, history, auth
<1>1. \E label : Goto(Operator, label)
  BY DEF Disconnect, StopStep, DisconnectSignal, DisconnectStop, DisconnectDone
<1>2. pc[Operator] \in {"idle", "signal", "stop", "stopped"}
  BY DEF Disconnect, StopStep, DisconnectSignal, DisconnectStop, DisconnectDone
<1>3. \A u \in Threads \ {Operator} : post'[u] = post[u] /\ held'[u] = held[u]
  BY DEF Disconnect, StopStep, DisconnectSignal, DisconnectStop, DisconnectDone, Track, TypeOK
<1>4. UNCHANGED <<attempt, secret, username, session, rows, told, sent>>
  BY DEF Disconnect, StopStep, DisconnectSignal, DisconnectStop, DisconnectDone
<1> QED  BY <1>1, <1>2, <1>3, <1>4, GotoRests

\* An announcement may wake the workers too.
LEMMA AnnounceMoves ==
  ASSUME TypeOK, NEW t \in Threads, Announce(t)
  PROVE  /\ pc[t] = "announce"
         /\ pc'[t] = IF t \in {Worker(a) : a \in Attempts} THEN "abort"
                     ELSE IF t = Worker(0) THEN "reattached" ELSE "idle"
         /\ \A u \in Threads \ {t} : Rests(u) /\ post'[u] = post[u]
         /\ UNCHANGED <<status, attempt, client, secret, username, held, link, daemon, seen>>
<1> DEFINE next == CASE t \in {Worker(a) : a \in Attempts} -> "abort"
                     [] t = Worker(0) -> "reattached"
                     [] OTHER -> "idle"
           moved == [pc EXCEPT ![t] = next]
<1>1. next = IF t \in {Worker(a) : a \in Attempts} THEN "abort"
             ELSE IF t = Worker(0) THEN "reattached" ELSE "idle"
  BY DistinctThreads, Identities
<1>2. next \in {"abort", "reattached", "idle"}
  BY <1>1
<1>3. pc[t] = "announce" /\ pc' = IF post[t].wake THEN WakeBoth(moved) ELSE moved
  BY DEF Announce
<1> HIDE DEF next
<1>4. \A u \in Threads : moved[u] = IF u = t THEN next ELSE pc[u]
  BY DEF TypeOK
<1> HIDE DEF moved
<1>5. pc'[t] = next
  BY <1>2, <1>3, <1>4 DEF WakeBoth, Wake
<1>6. \A u \in Threads \ {t} : Rests(u)
  BY <1>3, <1>4 DEF WakeBoth, Wake, Rests
<1>7. \A u \in Threads \ {t} : post'[u] = post[u]
  BY DEF Announce, TypeOK
<1>8. UNCHANGED <<status, attempt, client, secret, username, held, link, daemon, seen>>
  BY DEF Announce, auth
<1> QED  BY <1>1, <1>3, <1>5, <1>6, <1>7, <1>8

-----------------------------------------------------------------------------
(* An attempt that is over has its row closed.  A row is open only as long *)
(* as its end is still to come: it is about to be announced, or the status *)
(* is one that an end of the stream, or the attempt's worker, will move.   *)

\* Some thread is about to announce an end.
Owed ==
  \E t \in Threads :
    pc[t] = "announce" /\ post[t].before # post[t].after /\ post[t].after \in DownStates

\* The attempt's connection is open, its end is queued, or the worker has not
\* opened it yet.
Unfinished ==
  \/ link[attempt].open
  \/ \E i \in 1 .. Len(link[attempt].queue) : link[attempt].queue[i] = "eof"
  \/ pc[Worker(attempt)] \in {"launch", "socket", "failing", "report"}

\* A connection is open only to the process that runs.
LinksLive == \A c \in Ids : link[c].open => Running /\ link[c].daemon = daemon.id

RowInv ==
  /\ pc[Worker(0)] = "done"
  /\ LinksLive
  /\ session # None => Owed \/ (status.state \notin DownStates /\ Unfinished)

-----------------------------------------------------------------------------
\* What is taken from a connection's queue leaves it open, and every other
\* notification queued.
LEMMA TakenQueue ==
  ASSUME TypeOK, NEW c \in Ids, NEW e, Take(c, e)
  PROVE  LET q == link[c].queue
             r == link'[c].queue
         IN  /\ Len(q) \in Nat /\ Len(q) > 0 /\ q[1] = e
             /\ Len(r) = Len(q) - 1
             /\ \A i \in 1 .. Len(r) : r[i] = q[i + 1]
             /\ link'[c].open = link[c].open
             /\ link'[c].daemon = link[c].daemon
             /\ link'[c].served = link[c].served
             /\ \A d \in Ids \ {c} : link'[d] = link[d]
<1> DEFINE q == link[c].queue
           r == link'[c].queue
<1>0. link \in [Ids -> Link] /\ link[c] \in Link
  BY DEF TypeOK
<1>1. q \in Seq(Events) /\ q # <<>> /\ Head(q) = e
  BY <1>0 DEF Take, Link
<1>2. Len(q) \in Nat /\ Len(q) > 0 /\ q[1] = e
  BY <1>1
<1>3. link' = [link EXCEPT ![c].queue = Tail(@)]
  BY DEF Take
<1>4. r = Tail(q) /\ link'[c].open = link[c].open /\ link'[c].daemon = link[c].daemon
      /\ link'[c].served = link[c].served
  BY <1>0, <1>3 DEF Link
<1>5. \A d \in Ids \ {c} : link'[d] = link[d]
  BY <1>0, <1>3
<1>6. Len(r) = Len(q) - 1 /\ \A i \in 1 .. Len(r) : r[i] = q[i + 1]
  BY <1>1, <1>4
<1> QED  BY <1>2, <1>4, <1>5, <1>6

\* The end of the stream of connection c is still to be delivered.
EofQueued(c) == \E i \in 1 .. Len(link[c].queue) : link[c].queue[i] = "eof"

LEMMA TakenKeepsEof ==
  ASSUME TypeOK, NEW c \in Ids, NEW e, Take(c, e), e # "eof", NEW d \in Ids, EofQueued(d)
  PROVE  EofQueued(d)'
<1> DEFINE q == link[c].queue
           r == link'[c].queue
<1>1. CASE d # c
  BY <1>1, TakenQueue DEF EofQueued
<1>2. CASE d = c
  <2>1. /\ Len(q) \in Nat /\ q[1] = e /\ Len(r) = Len(q) - 1
        /\ \A i \in 1 .. Len(r) : r[i] = q[i + 1]
    BY TakenQueue
  <2>2. PICK i \in 1 .. Len(q) : q[i] = "eof"
    BY <1>2 DEF EofQueued
  <2>3. i # 1
    BY <2>1, <2>2
  <2>4. i - 1 \in 1 .. Len(r) /\ r[i - 1] = "eof"
    <3> HIDE DEF q, r
    <3>1. i - 1 \in 1 .. Len(r)
      BY <2>1, <2>2, <2>3
    <3>2. r[i - 1] = q[i - 1 + 1] /\ i - 1 + 1 = i
      BY <2>1, <2>2, <3>1
    <3> QED  BY <2>2, <3>1, <3>2
  <2> QED  BY <1>2, <2>4 DEF EofQueued
<1> QED  BY <1>1, <1>2

\* Whatever ends the process closes its connections and queues their end.
LEMMA ClosedQueues ==
  ASSUME TypeOK, LinksLive, Running, NEW words \in Seq(Events), Kill(words), NEW c \in Ids
  PROVE  ~link'[c].open /\ (link[c].open \/ EofQueued(c) => EofQueued(c)')
<1>1. link'[c] = IF link[c].open /\ link[c].daemon = daemon.id
                   THEN [link[c] EXCEPT !.open  = FALSE,
                                        !.queue = IF link[c].served THEN @ \o words \o <<"eof">>
                                                                    ELSE Append(@, "eof")]
                   ELSE link[c]
  BY DEF Kill, Closed
<1>2. link[c] \in Link /\ link[c].queue \in Seq(Events)
  BY DEF TypeOK, Link
<1>3. CASE ~link[c].open
  BY <1>1, <1>2, <1>3 DEF EofQueued, Link
<1>4. CASE link[c].open
  <2>1. link[c].daemon = daemon.id
    BY <1>4 DEF LinksLive
  <2> DEFINE q == link[c].queue
             r == IF link[c].served THEN q \o words \o <<"eof">> ELSE Append(q, "eof")
  <2>2. link'[c] = [link[c] EXCEPT !.open = FALSE, !.queue = r]
    BY <1>1, <1>4, <2>1
  <2>3. link'[c].queue = r /\ ~link'[c].open
    BY <1>2, <2>2 DEF Link
  <2>4. q \o words \in Seq(Events)
    BY <1>2
  <2>5. Len(r) \in Nat /\ Len(r) > 0 /\ r[Len(r)] = "eof"
    <3>1. CASE link[c].served
      <4> DEFINE front == q \o words
      <4>1. front \in Seq(Events) /\ r = Append(front, "eof")
        BY <2>4, <3>1
      <4> HIDE DEF front, r
      <4> QED  BY <4>1
    <3>2. CASE ~link[c].served
      BY <1>2, <3>2
    <3> QED  BY <3>1, <3>2
  <2> HIDE DEF r
  <2>6. EofQueued(c)'
    BY <2>3, <2>5 DEF EofQueued
  <2> QED  BY <2>3, <2>6
<1> QED  BY <1>3, <1>4

\* What OpenVPN says last.
Farewells ==
  {words \in Seq(Events) :
     \A i \in 1 .. Len(words) : words[i] \in {"exiting", "fatal", "rejected"}}

LEMMA FarewellsAre ==
  /\ Farewells \subseteq Seq(Events)
  /\ <<>> \in Farewells /\ <<"exiting">> \in Farewells /\ <<"fatal">> \in Farewells
  /\ <<"rejected", "exiting">> \in Farewells
BY WordsType DEF Farewells

\* Every way a thread stops the process, or asks it to stop.
LEMMA Stopping ==
  ASSUME TypeOK, HelperStop \/ (\E c : Signal(c)) \/ UNCHANGED <<link, daemon>>
  PROVE  \/ Running /\ \E words \in Farewells : Kill(words)
         \/ link' = link /\ daemon' \in {daemon, [daemon EXCEPT !.term = TRUE]}
<1>1. CASE HelperStop
  <2>1. CASE Running
    BY <1>1, <2>1, FarewellsAre DEF HelperStop
  <2> QED  BY <1>1, <2>1 DEF HelperStop
<1> QED  BY <1>1 DEF Signal

\* What a step makes of the process and its connections.
LEMMA WorldSteps ==
  ASSUME TypeOK, [Next]_vars
  PROVE  \/ Running /\ \E words \in Farewells : Kill(words)
         \/ link' = link /\ daemon' \in {daemon, [daemon EXCEPT !.term = TRUE]}
         \/ \E a \in Attempts : Launch(a) /\ ~Running /\ daemon' = [NoDaemon EXCEPT !.id = a]
                                /\ link' = link
         \/ \E a \in Ids : OpenSocket(a) /\ Running /\ link' = OpenLink(a) /\ daemon' = daemon
         \/ \E a \in Attempts : Prime(a) /\ Reaches(a) /\ daemon.phase = "held"
                                /\ daemon' = [daemon EXCEPT !.phase = "asking"] /\ link' = link
         \/ \E c \in Ids, e \in Events : Take(c, e) /\ DispatcherStep(c) /\ daemon' = daemon
         \/ \E c \in Ids : /\ AnswerNeed(c) /\ daemon.phase = "prompted"
                           /\ daemon' = [daemon EXCEPT !.phase = "tunnel"] /\ link' = link
         \/ OvpnAsks \/ OvpnConnects \/ OvpnConnected \/ OvpnReconnects
<1> USE Identities
<1>1. CASE Connect \/ Disconnect \/ DisconnectDone \/ UNCHANGED vars
  BY <1>1 DEF Connect, Disconnect, DisconnectDone, vars
<1>2. CASE DisconnectSignal \/ DisconnectStop
  <2>1. HelperStop \/ (\E c : Signal(c)) \/ UNCHANGED <<link, daemon>>
    BY <1>2 DEF DisconnectSignal, DisconnectStop
  <2> QED  BY <2>1, Stopping
<1>3. CASE AttachStep
  BY <1>3 DEF AttachStep, OpenSocket, AdoptClient, AttachSession, AttachStatus, AttachRefresh, AttachEnd
<1>4. ASSUME NEW a \in Attempts, WorkerStep(a)
      PROVE  \/ Running /\ \E words \in Farewells : Kill(words)
             \/ link' = link /\ daemon' \in {daemon, [daemon EXCEPT !.term = TRUE]}
             \/ Launch(a) /\ ~Running /\ daemon' = [NoDaemon EXCEPT !.id = a] /\ link' = link
             \/ OpenSocket(a) /\ Running /\ link' = OpenLink(a) /\ daemon' = daemon
             \/ /\ Prime(a) /\ Reaches(a) /\ daemon.phase = "held"
                /\ daemon' = [daemon EXCEPT !.phase = "asking"] /\ link' = link
  <2>1. CASE AbortDaemon(a)
    <3>1. HelperStop \/ (\E c : Signal(c)) \/ UNCHANGED <<link, daemon>>
      BY <2>1 DEF AbortDaemon
    <3> QED  BY <3>1, Stopping
  <2> QED  BY <1>4, <2>1 DEF WorkerStep, Launch, OpenSocket, AdoptClient, Authenticate, Prime,
                WaitTimeout, Answered, Settle, Superseded, Report, Finish
<1>5. ASSUME NEW c \in Ids, DispatcherStep(c)
      PROVE  \/ UNCHANGED <<link, daemon>>
             \/ \E e \in Events : Take(c, e) /\ daemon' = daemon
             \/ /\ AnswerNeed(c) /\ daemon.phase = "prompted"
                /\ daemon' = [daemon EXCEPT !.phase = "tunnel"] /\ link' = link
  <2>1. {"connected", "exiting", "progress", "fatal", "rejected", "need", "eof"} \subseteq Events
    BY DEF Events
  <2> QED  BY <1>5, <2>1 DEF DispatcherStep, OnConnected, OnExiting, OnProgress, OnFatal, OnNeed, AnswerNeed,
                OnSocketClosed
<1>6. ASSUME NEW t \in Threads, Announce(t) PROVE UNCHANGED <<link, daemon>>
  BY <1>6 DEF Announce
<1>7. CASE OvpnStep
  BY <1>7, FarewellsAre DEF OvpnStep, OvpnExits
<1> QED  BY <1>1, <1>2, <1>3, <1>4, <1>5, <1>6, <1>7 DEF Next, StopStep

LEMMA LinksLiveStep ==
  ASSUME TypeOK, LinksLive, [Next]_vars
  PROVE  LinksLive'
<1>0. link \in [Ids -> Link] /\ daemon \in Daemon /\ None \notin Ids
  BY ControllerAssumption DEF TypeOK, Ids
<1>1. CASE Running /\ \E words \in Farewells : Kill(words)
  BY <1>1, ClosedQueues, FarewellsAre DEF LinksLive
<1>2. CASE link' = link /\ daemon' \in {daemon, [daemon EXCEPT !.term = TRUE]}
  BY <1>0, <1>2 DEF LinksLive, Running, Daemon
<1>3. CASE ~Running /\ link' = link
  BY <1>3 DEF LinksLive
<1>4. ASSUME NEW a \in Ids, Running, link' = OpenLink(a), daemon' = daemon PROVE LinksLive'
  BY <1>0, <1>4 DEF LinksLive, OpenLink, Running
<1>5. ASSUME link' = link, NEW phase, daemon' = [daemon EXCEPT !.phase = phase] PROVE LinksLive'
  BY <1>0, <1>5 DEF LinksLive, Running, Daemon
<1>6. ASSUME NEW c \in Ids, NEW e, Take(c, e), daemon' = daemon PROVE LinksLive'
  <2>1. \A d \in Ids : link'[d].open = link[d].open /\ link'[d].daemon = link[d].daemon
    BY <1>6, TakenQueue
  <2> QED  BY <1>6, <2>1 DEF LinksLive, Running
<1>7. CASE OvpnAsks \/ OvpnConnects \/ OvpnConnected \/ OvpnReconnects
  <2>1. daemon'.id = daemon.id
    BY <1>0, <1>7 DEF OvpnAsks, OvpnConnects, OvpnConnected, OvpnReconnects, Progress, Daemon
  <2>2. \A d \in Ids : link'[d].open = link[d].open /\ link'[d].daemon = link[d].daemon
    BY <1>0, <1>7 DEF OvpnAsks, OvpnConnects, OvpnConnected, OvpnReconnects, Progress, Link
  <2> QED  BY <2>1, <2>2 DEF LinksLive, Running
<1> QED  BY <1>1, <1>2, <1>3, <1>4, <1>5, <1>6, <1>7, WorldSteps

\* An end that is owed stays owed until the thread that owes it announces it.
LEMMA OwedStays ==
  ASSUME TypeOK, Owed, NEW t, pc[t] # "announce",
         \A u \in Threads \ {t} : Rests(u) /\ post'[u] = post[u]
  PROVE  Owed'
BY DEF Owed, Rests

\* A transition to a state that is down is one, unless the status was down before.
LEMMA TrackOwes ==
  ASSUME TypeOK, NEW t \in Threads, NEW new, NEW wake, Track(t, new, wake), pc'[t] = "announce",
         status.state \notin DownStates, new.state \in DownStates
  PROVE  Owed'
<1>1. post'[t] = [before |-> status.state, after |-> new.state, wake |-> wake]
  BY DEF Track, TypeOK
<1> QED  BY <1>1 DEF Owed

LEMMA DispatcherOwes ==
  ASSUME TypeOK, NEW c \in Ids, DispatcherStep(c), status.state \notin DownStates
  PROVE  status'.state \notin DownStates \/ Owed'
<1> USE Identities
<1>1. status.state \in States /\ DispatcherStep(c)
  BY DEF TypeOK, Status
<1>2. CASE OnConnected(c) \/ OnProgress(c)
  BY <1>2 DEF OnConnected, OnProgress, Track, DownStates, BusyStates, TypeOK, Status
<1>3. CASE \E new, wake : Track(Dispatcher(c), new, wake) /\ pc'[Dispatcher(c)] = "announce"
  BY <1>3, TrackOwes DEF Track
<1>4. OnExiting(c) \/ OnFatal(c) \/ OnSocketClosed(c) \/ OnNeed(c) \/ AnswerNeed(c) =>
        \/ UNCHANGED status
        \/ \E new, wake : Track(Dispatcher(c), new, wake) /\ pc'[Dispatcher(c)] = "announce"
  BY DEF OnExiting, OnFatal, OnSocketClosed, OnNeed, AnswerNeed, Goto, TypeOK, Wake
<1> QED  BY <1>2, <1>3, <1>4 DEF DispatcherStep

\* The end of the stream is noticed whatever the status.
LEMMA EofOwes ==
  ASSUME TypeOK, NEW c \in Ids, OnSocketClosed(c), status.state \notin DownStates
  PROVE  Owed'
<1> USE Identities
<1>1. status.state \in BusyStates \union {"connected"}
  BY DEF TypeOK, Status, States
<1>2. PICK new : Track(Dispatcher(c), new, TRUE)
  BY DEF OnSocketClosed
<1>4. status'.state \in DownStates
  <2>1. status' = IF status.state \in {"starting", "authenticating", "connecting"}
                    THEN [state |-> "failed", error |-> TRUE]
                  ELSE [status EXCEPT !.state = IF status.error THEN "failed" ELSE "disconnected"]
    BY <1>1 DEF OnSocketClosed, Track, BusyStates
  <2> QED  BY <2>1 DEF DownStates, TypeOK, Status
<1>3. pc'[Dispatcher(c)] = "announce"
  BY DEF OnSocketClosed, Goto, TypeOK
<1> QED  BY <1>2, <1>3, <1>4, TrackOwes DEF Track

LEMMA WorkerOwes ==
  ASSUME TypeOK, NEW a \in Attempts, WorkerStep(a), status.state \notin DownStates
  PROVE  status'.state \notin DownStates \/ Owed'
<1> USE Identities
<1>1. CASE Report(a)
  <2>1. pc'[Worker(a)] = "announce"
    BY <1>1 DEF Report, Goto, TypeOK
  <2> QED  BY <1>1, <2>1, TrackOwes DEF Report, DownStates
<1>2. CASE Authenticate(a) \/ Answered(a)
  BY <1>2 DEF Authenticate, Answered, Advanced, DownStates, TypeOK, Status
<1> QED  BY <1>1, <1>2 DEF WorkerStep, Launch, OpenSocket, AdoptClient, Prime, WaitTimeout, Settle,
              Superseded, AbortDaemon, Finish

LEMMA StopOwes ==
  ASSUME TypeOK, Disconnect \/ StopStep, status.state \notin DownStates
  PROVE  status'.state \notin DownStates \/ Owed'
<1> USE Identities
<1>1. CASE DisconnectDone
  <2>1. pc'[Operator] = "announce"
    BY <1>1 DEF DisconnectDone, Goto, TypeOK
  <2> QED  BY <1>1, <2>1, TrackOwes DEF DisconnectDone, DownStates
<1> QED  BY <1>1 DEF Disconnect, StopStep, DisconnectSignal, DisconnectStop, DownStates

\* An attempt's connection ends only with an end of the stream in its queue.
LEMMA LinkUnfinished ==
  ASSUME TypeOK, LinksLive, [Next]_vars, NEW c \in Ids, link[c].open \/ EofQueued(c)
  PROVE  link'[c].open \/ EofQueued(c)' \/ OnSocketClosed(c)
<1>1. CASE Running /\ \E words \in Farewells : Kill(words)
  BY <1>1, ClosedQueues, FarewellsAre
<1>2. CASE link' = link
  BY <1>2 DEF EofQueued
<1>3. ASSUME NEW a \in Ids, link' = OpenLink(a) PROVE link'[c].open \/ link'[c] = link[c]
  BY <1>3 DEF OpenLink, TypeOK
<1>4. ASSUME NEW d \in Ids, NEW e, Take(d, e), DispatcherStep(d)
      PROVE  link'[c].open \/ EofQueued(c)' \/ OnSocketClosed(c)
  <2>1. d # c \/ e # "eof" \/ OnSocketClosed(c)
    BY <1>4 DEF DispatcherStep, OnConnected, OnExiting, OnProgress, OnFatal, OnNeed, AnswerNeed, Take, At
  <2>2. CASE link[c].open
    <3>1. link'[c].open = link[c].open
      BY <1>4, TakenQueue
    <3> QED  BY <2>2, <3>1
  <2>3. CASE EofQueued(c)
    <3>1. CASE e # "eof"
      BY <1>4, <2>3, <3>1, TakenKeepsEof
    <3>2. CASE d # c
      <4>1. link'[c] = link[c]
        BY <1>4, <3>2, TakenQueue
      <4> QED  BY <2>3, <4>1 DEF EofQueued
    <3> QED  BY <2>1, <3>1, <3>2
  <2> QED  BY <2>2, <2>3
<1>5. CASE OvpnAsks \/ OvpnConnects \/ OvpnConnected \/ OvpnReconnects
  <2>1. link[c] \in Link /\ link[c].queue \in Seq(Events)
    BY DEF TypeOK, Link
  <2>2. PICK word : link'[c] \in {link[c], [link[c] EXCEPT !.queue = Append(@, word)]}
    BY <1>5 DEF OvpnAsks, OvpnConnects, OvpnConnected, OvpnReconnects, Progress
  <2> QED  BY <2>1, <2>2 DEF EofQueued, Link
<1> QED  BY <1>1, <1>2, <1>3, <1>4, <1>5, WorldSteps DEF EofQueued

\* Start-up came to an end before the first request, and stays so.
LEMMA StartedStays ==
  ASSUME TypeOK, pc[Worker(0)] = "done", [Next]_vars
  PROVE  pc'[Worker(0)] = "done"
<1> USE Identities, DistinctThreads
<1>1. CASE Connect
  <2>1. attempt + 1 \in Attempts
    BY <1>1, NextAttempt DEF Connect, TypeOK
  <2>2. Goto(Worker(attempt + 1), "launch")
    BY <1>1 DEF Connect
  <2> QED  BY <2>1, <2>2, GotoRests
<1>2. CASE Disconnect \/ StopStep
  BY <1>2, StopMoves
<1>3. CASE AttachStep
  BY <1>3, AttachMoves
<1>4. ASSUME NEW a \in Attempts, WorkerStep(a) PROVE pc'[Worker(0)] = "done"
  BY <1>4, WorkerMoves
<1>5. ASSUME NEW c \in Ids, DispatcherStep(c) PROVE pc'[Worker(0)] = "done"
  BY <1>5, DispatcherMoves DEF Rests
<1>6. ASSUME NEW t \in Threads, Announce(t) PROVE pc'[Worker(0)] = "done"
  BY <1>6, AnnounceMoves DEF Rests
<1>7. CASE OvpnStep \/ UNCHANGED vars
  BY <1>7 DEF OvpnStep, OvpnAsks, OvpnConnects, OvpnConnected, OvpnReconnects, OvpnExits, Progress,
              Environment, vars
<1> QED  BY <1>1, <1>2, <1>3, <1>4, <1>5, <1>6, <1>7 DEF Next

\* A step that announces nothing: what is owed stays owed, and a status that was
\* not down is not, unless its end is now owed.
LEMMA StepOwes ==
  ASSUME TypeOK, pc[Worker(0)] = "done", [Next]_vars, ~Connect, \A t \in Threads : ~Announce(t)
  PROVE  /\ Owed => Owed'
         /\ status.state \notin DownStates => status'.state \notin DownStates \/ Owed'
         /\ UNCHANGED <<attempt, session>>
<1> USE Identities
<1>1. CASE Disconnect \/ StopStep
  BY <1>1, StopMoves, StopOwes, OwedStays DEF Rests
<1>2. CASE AttachStep
  BY <1>2, AttachMoves
<1>3. ASSUME NEW a \in Attempts, WorkerStep(a)
      PROVE  /\ Owed => Owed'
             /\ status.state \notin DownStates => status'.state \notin DownStates \/ Owed'
             /\ UNCHANGED <<attempt, session>>
  BY <1>3, WorkerMoves, WorkerOwes, OwedStays DEF Rests
<1>4. ASSUME NEW c \in Ids, DispatcherStep(c)
      PROVE  /\ Owed => Owed'
             /\ status.state \notin DownStates => status'.state \notin DownStates \/ Owed'
             /\ UNCHANGED <<attempt, session>>
  BY <1>4, DispatcherMoves, DispatcherOwes, OwedStays
<1>5. CASE OvpnStep \/ UNCHANGED vars
  BY <1>5 DEF OvpnStep, OvpnAsks, OvpnConnects, OvpnConnected, OvpnReconnects, OvpnExits, Progress,
              Environment, vars, history, Owed
<1> QED  BY <1>1, <1>2, <1>3, <1>4, <1>5 DEF Next

\* Until it has opened the connection the attempt's worker is on its way to do so,
\* or to report that it failed.
OpeningLabels == {"launch", "socket", "failing", "report"}

LEMMA OpeningStep ==
  ASSUME TypeOK, pc[Worker(0)] = "done", [Next]_vars, ~Connect,
         pc[Worker(attempt)] \in OpeningLabels, status.state \notin DownStates
  PROVE  pc'[Worker(attempt)] \in OpeningLabels \/ link'[attempt].open \/ Owed'
<1> USE Identities, DistinctThreads
<1>0. attempt \in Ids /\ Worker(attempt) \in Threads
  BY DEF TypeOK
<1>1. CASE Disconnect \/ StopStep
  BY <1>0, <1>1, StopMoves
<1>2. CASE AttachStep
  BY <1>2, AttachMoves
<1>3. ASSUME NEW a \in Attempts, WorkerStep(a), a = attempt
      PROVE  pc'[Worker(a)] \in OpeningLabels \/ link'[a].open \/ Owed'
  <2>1. CASE Launch(a)
    BY <2>1 DEF Launch, Goto, TypeOK, OpeningLabels
  <2>2. CASE OpenSocket(a)
    BY <2>2 DEF OpenSocket, OpenLink, Goto, TypeOK, OpeningLabels
  <2>3. CASE Superseded(a)
    BY <1>3, <2>3 DEF Superseded, Goto, TypeOK, OpeningLabels
  <2>4. CASE Report(a)
    <3>1. pc'[Worker(a)] = "announce"
      BY <2>4 DEF Report, Goto, TypeOK
    <3> QED  BY <2>4, <3>1, TrackOwes DEF Report, DownStates
  <2> QED  BY <1>3, <2>1, <2>2, <2>3, <2>4 DEF WorkerStep, AdoptClient, Authenticate, Prime, WaitTimeout,
                Answered, Settle, AbortDaemon, Finish, At, OpeningLabels
<1>4. ASSUME NEW a \in Attempts, WorkerStep(a), a # attempt
      PROVE  pc'[Worker(attempt)] \in OpeningLabels
  BY <1>0, <1>4, WorkerMoves
<1>5. ASSUME NEW c \in Ids, DispatcherStep(c)
      PROVE  pc'[Worker(attempt)] \in OpeningLabels
  BY <1>0, <1>5, DispatcherMoves DEF Rests, OpeningLabels
<1>6. ASSUME NEW t \in Threads, Announce(t) PROVE pc'[Worker(attempt)] \in OpeningLabels
  BY <1>0, <1>6, AnnounceMoves DEF Rests, OpeningLabels
<1>7. CASE OvpnStep \/ UNCHANGED vars
  BY <1>7 DEF OvpnStep, OvpnAsks, OvpnConnects, OvpnConnected, OvpnReconnects, OvpnExits, Progress,
              Environment, vars
<1> QED  BY <1>1, <1>2, <1>3, <1>4, <1>5, <1>6, <1>7 DEF Next

\* An announced end closes the row; any other leaves what is still to come.
LEMMA AnnounceRow ==
  ASSUME TypeOK, RowInv, NEW t \in Threads, Announce(t), session' # None
  PROVE  Owed' \/ (status'.state \notin DownStates /\ Unfinished')
<1> USE Identities, DistinctThreads
<1>0. attempt \in Ids /\ Worker(attempt) \in Threads
  BY DEF TypeOK
<1>1. /\ pc[t] = "announce"
      /\ \A u \in Threads \ {t} : Rests(u) /\ post'[u] = post[u]
      /\ UNCHANGED <<status, attempt, link>>
  BY AnnounceMoves
<1>2. ~(post[t].before # post[t].after /\ post[t].after \in DownStates) /\ session' = session
  BY DEF Announce, Record, MarkConnected, EndSession, DownStates, BusyStates
<1>3. CASE Owed
  BY <1>1, <1>2, <1>3 DEF Owed, Rests
<1>4. CASE status.state \notin DownStates /\ Unfinished
  <2>1. pc[Worker(attempt)] \in OpeningLabels => pc'[Worker(attempt)] \in OpeningLabels
    BY <1>0, <1>1 DEF Rests, OpeningLabels
  <2> QED  BY <1>1, <1>4, <2>1 DEF Unfinished, OpeningLabels
<1> QED  BY <1>2, <1>3, <1>4 DEF RowInv

LEMMA RowStep ==
  ASSUME TypeOK, RowInv, [Next]_vars
  PROVE  RowInv'
<1> USE Identities
<1>1. pc'[Worker(0)] = "done" /\ LinksLive'
  BY StartedStays, LinksLiveStep DEF RowInv
<1>2. ASSUME session' # None
      PROVE  Owed' \/ (status'.state \notin DownStates /\ Unfinished')
  <2>1. CASE Connect
    <3>1. attempt + 1 \in Attempts /\ attempt' = attempt + 1 /\ Goto(Worker(attempt + 1), "launch")
      BY <2>1, NextAttempt DEF Connect, TypeOK
    <3>2. pc'[Worker(attempt')] = "launch"
      BY <3>1, GotoRests
    <3>3. status'.state = "starting"
      BY <2>1 DEF Connect
    <3> QED  BY <3>2, <3>3 DEF Unfinished, DownStates
  <2>2. ASSUME NEW t \in Threads, Announce(t)
        PROVE  Owed' \/ (status'.state \notin DownStates /\ Unfinished')
    BY <1>2, <2>2, AnnounceRow
  <2>3. CASE ~Connect /\ \A t \in Threads : ~Announce(t)
    <3>1. /\ Owed => Owed'
          /\ status.state \notin DownStates => status'.state \notin DownStates \/ Owed'
          /\ UNCHANGED <<attempt, session>>
      BY <2>3, StepOwes DEF RowInv
    <3>2. CASE status.state \notin DownStates /\ Unfinished
      <4>1. attempt \in Ids
        BY DEF TypeOK
      <4>2. CASE link[attempt].open \/ EofQueued(attempt)
        <5>1. PICK c \in Ids : c = attempt
          BY <4>1
        <5>2. link[c].open \/ EofQueued(c)
          BY <4>2, <5>1 DEF EofQueued
        <5>3. link'[c].open \/ EofQueued(c)' \/ Owed'
          BY <3>2, <5>2, LinkUnfinished, EofOwes DEF RowInv
        <5> QED  BY <3>1, <3>2, <5>1, <5>3 DEF Unfinished, EofQueued
      <4>3. CASE pc[Worker(attempt)] \in OpeningLabels
        <5>1. pc'[Worker(attempt)] \in OpeningLabels \/ link'[attempt].open \/ Owed'
          BY <2>3, <3>2, <4>3, OpeningStep DEF RowInv
        <5> QED  BY <3>1, <3>2, <5>1 DEF Unfinished, OpeningLabels
      <4> QED  BY <3>2, <4>2, <4>3 DEF Unfinished, EofQueued, OpeningLabels
    <3> QED  BY <1>2, <3>1, <3>2 DEF RowInv
  <2> QED  BY <2>1, <2>2, <2>3
<1> QED  BY <1>1, <1>2 DEF RowInv

\* An attempt that is over has its row closed (app/services/openvpn.py,
\* _announce() and the handlers that lead to it): for any number of attempts, any
\* bounds and any hazards, when no tunnel was adopted at start-up.
THEOREM EveryRowIsClosed == ~Adopt => (Spec => []RowClosed)
<1> SUFFICES ASSUME ~Adopt PROVE Spec => []RowClosed
  OBVIOUS
<1>1. Init => RowInv
  BY Identities DEF Init, RowInv, LinksLive, NoLink
<1>2. TypeOK /\ RowInv /\ [Next]_vars => RowInv'
  BY RowStep
<1>3. TypeOK /\ RowInv => RowClosed
  <2> SUFFICES ASSUME TypeOK, RowInv, Quiet, ~Running, session # None PROVE FALSE
    BY DEF RowClosed
  <2>1. attempt \in Ids
    BY DEF TypeOK
  <2>2. \A t \in Threads : pc[t] # "announce"
    BY Identities DEF Quiet, Threads, Ids, Attempts
  <2>3. ~link[attempt].open /\ link[attempt].queue = <<>>
    BY <2>1 DEF Quiet, RowInv, LinksLive
  <2>4. pc[Worker(attempt)] \in {"idle", "done"}
    BY <2>1 DEF Quiet
  <2> QED  BY <2>2, <2>3, <2>4 DEF RowInv, Owed, Unfinished
<1> QED  BY <1>1, <1>2, <1>3, ControllerTypes, PTL DEF Spec

-----------------------------------------------------------------------------
(* Credentials, when attempts do not overlap.                              *)

\* Only the current attempt has a worker, and start-up comes before all attempts.
OneWorker ==
  /\ \A a \in Attempts : a # attempt => pc[Worker(a)] \in {"idle", "done"}
  /\ \A a \in Attempts : a > attempt => pc[Worker(a)] = "idle"
  /\ pc[Worker(0)] # "done" => attempt = 0
  /\ pc[Worker(0)] \notin {"launch", "authenticate", "prime", "waitAuth", "waitSettled"}

\* From the moment the worker has put the credential in place until it ends.
Primed == {"waitAuth", "answered", "waitSettled", "settled", "failing", "report",
           "announce", "abort", "finish"}

\* The process is the current attempt's.
OwnProcess ==
  /\ Running => daemon.id = attempt
  /\ ~Running => daemon.phase = "held"

\* The credential is the current attempt's, and so is the user name once the
\* process has been launched.
OwnSecret ==
  /\ secret # None => attempt # 0 /\ secret = attempt /\ pc[Worker(attempt)] \in Primed
  /\ Running => pc[Worker(attempt)] # "launch"
  /\ attempt # 0 /\ pc[Worker(attempt)] # "launch" => username = attempt
  /\ \A c \in Ids : pc[Dispatcher(c)] = "answer" =>
       /\ attempt # 0 /\ held[Dispatcher(c)].secret = attempt
       /\ pc[Worker(attempt)] # "launch"

CredentialInv == LinksLive /\ OneWorker /\ OwnProcess /\ OwnSecret /\ OwnCredential

\* With one request at a time, the worker that moves is the current attempt's.
LEMMA WorkerIsCurrent ==
  ASSUME OneWorker, NEW a \in Attempts, pc[Worker(a)] \notin {"idle", "done"}
  PROVE  a = attempt
BY DEF OneWorker

LEMMA OneWorkerStep ==
  ASSUME TypeOK, OneWorker, ~Overlap, [Next]_vars
  PROVE  OneWorker'
<1> USE Identities, DistinctThreads
<1>0. attempt \in Ids /\ Attempts \subseteq Int /\ Ids \subseteq Int
  BY ControllerAssumption DEF TypeOK, Attempts, Ids
<1>1. CASE Connect
  <2>1. attempt + 1 \in Attempts /\ attempt' = attempt + 1 /\ Goto(Worker(attempt + 1), "launch")
    BY <1>1, NextAttempt DEF Connect, TypeOK
  <2>2. pc[Worker(0)] = "done" /\ \A a \in Ids : pc[Worker(a)] \in {"idle", "done"}
    BY <1>1 DEF Connect, Quiet, Serving
  <2>3. \A a \in Ids : a # attempt + 1 => pc'[Worker(a)] = pc[Worker(a)]
    BY <2>1, GotoRests
  <2> QED  BY <1>0, <2>1, <2>2, <2>3 DEF OneWorker
<1>2. ASSUME attempt' = attempt, \A a \in Ids : pc'[Worker(a)] = pc[Worker(a)]
      PROVE  OneWorker'
  BY <1>2 DEF OneWorker
<1>3. CASE Disconnect \/ StopStep
  BY <1>2, <1>3, StopMoves
<1>4. CASE AttachStep
  BY <1>4, AttachMoves DEF OneWorker
<1>5. ASSUME NEW a \in Attempts, WorkerStep(a) PROVE OneWorker'
  <2>1. attempt' = attempt /\ a = attempt
    BY <1>5, WorkerMoves, WorkerIsCurrent
  <2>2. \A b \in Ids : b # a => pc'[Worker(b)] = pc[Worker(b)]
    BY <1>5, WorkerMoves
  <2> QED  BY <1>0, <2>1, <2>2 DEF OneWorker
<1>6. ASSUME attempt' = attempt, \A b \in Ids : Rests(Worker(b)) PROVE OneWorker'
  <2>1. \A b \in Ids : pc[Worker(b)] \in {"idle", "done"} => pc'[Worker(b)] = pc[Worker(b)]
    BY <1>6 DEF Rests
  <2>2. pc'[Worker(0)] = pc[Worker(0)]
    BY <1>6 DEF Rests, OneWorker
  <2> QED  BY <1>6, <2>1, <2>2 DEF OneWorker
<1>7. ASSUME NEW c \in Ids, DispatcherStep(c) PROVE OneWorker'
  BY <1>6, <1>7, DispatcherMoves
<1>8. ASSUME NEW t \in Threads, Announce(t) PROVE OneWorker'
  <2>1. attempt' = attempt /\ pc[t] = "announce" /\ \A u \in Threads \ {t} : Rests(u)
    BY <1>8, AnnounceMoves
  <2>2. CASE \A b \in Ids : t # Worker(b)
    BY <1>6, <2>1, <2>2
  <2>3. ASSUME NEW a \in Attempts, t = Worker(a) PROVE OneWorker'
    <3>1. a = attempt
      BY <2>1, <2>3, WorkerIsCurrent
    <3>2. \A b \in Ids : b # a => (pc[Worker(b)] \in {"idle", "done"} => pc'[Worker(b)] = pc[Worker(b)])
      BY <2>1, <2>3 DEF Rests
    <3>3. pc'[Worker(0)] = pc[Worker(0)]
      BY <2>1, <2>3 DEF Rests, OneWorker
    <3> QED  BY <1>0, <2>1, <3>1, <3>2, <3>3 DEF OneWorker
  <2>4. CASE t = Worker(0)
    <3>1. pc'[Worker(0)] = "reattached"
      BY <1>8, <2>4, AnnounceMoves
    <3>2. \A a \in Attempts : pc'[Worker(a)] = pc[Worker(a)]
      BY <2>1, <2>4 DEF Rests, OneWorker
    <3> QED  BY <2>1, <2>4, <3>1, <3>2 DEF OneWorker
  <2>5. \A b \in Ids : b = 0 \/ b \in Attempts
    BY ControllerAssumption DEF Ids, Attempts
  <2> QED  BY <2>2, <2>3, <2>4, <2>5
<1>9. CASE OvpnStep \/ UNCHANGED vars
  BY <1>2, <1>9 DEF OvpnStep, OvpnAsks, OvpnConnects, OvpnConnected, OvpnReconnects, OvpnExits, Progress,
              Environment, vars
<1> QED  BY <1>1, <1>3, <1>4, <1>5, <1>7, <1>8, <1>9 DEF Next

\* It is launched by the attempt's worker and by nothing else.
LEMMA ProcessStep ==
  ASSUME TypeOK, LinksLive, OneWorker, OwnProcess, [Next]_vars, attempt' = attempt
  PROVE  OwnProcess' /\ (~Running /\ Running' => \E a \in Attempts : Launch(a))
<1>0. daemon \in Daemon /\ NoDaemon.id = None /\ NoDaemon.phase = "held" /\ None \notin Ids
  BY ControllerAssumption DEF TypeOK, NoDaemon, Ids
<1>1. CASE Running /\ \E words \in Farewells : Kill(words)
  BY <1>0, <1>1 DEF Kill, OwnProcess, Running
<1>2. CASE daemon' \in {daemon, [daemon EXCEPT !.term = TRUE]}
  BY <1>0, <1>2 DEF OwnProcess, Running, Daemon
<1>3. ASSUME NEW a \in Attempts, Launch(a), daemon' = [NoDaemon EXCEPT !.id = a]
      PROVE  OwnProcess'
  <2>1. a = attempt
    BY <1>3, WorkerIsCurrent DEF Launch, At
  <2>2. daemon'.id = a
    BY <1>3 DEF NoDaemon
  <2> QED  BY <1>0, <2>1, <2>2, Identities DEF OwnProcess, Running
<1>4. ASSUME NEW phase, daemon' = [daemon EXCEPT !.phase = phase], Running
      PROVE  OwnProcess' /\ (Running' <=> Running)
  BY <1>0, <1>4 DEF OwnProcess, Running, Daemon
<1>7. ASSUME NEW a \in Ids, Reaches(a) PROVE Running
  BY <1>7 DEF Reaches, IsOpen, LinksLive
<1>8. daemon.phase = "prompted" => Running
  BY DEF OwnProcess
<1>5. CASE OvpnAsks \/ OvpnConnects \/ OvpnConnected \/ OvpnReconnects
  BY <1>0, <1>5 DEF OvpnAsks, OvpnConnects, OvpnConnected, OvpnReconnects, Progress, OwnProcess, Running, Daemon
<1>6. CASE UNCHANGED daemon
  BY <1>6 DEF OwnProcess, Running
<1> QED  BY <1>1, <1>2, <1>3, <1>4, <1>5, <1>6, <1>7, <1>8, WorldSteps, Identities

\* What a step makes of the credential while the attempt lasts.
LEMMA WorkerSecret ==
  ASSUME TypeOK, OwnSecret, NEW a \in Attempts, a = attempt, WorkerStep(a)
  PROVE  /\ secret' # None => secret' = a /\ pc'[Worker(a)] \in Primed
         /\ pc'[Worker(a)] # "launch"
         /\ username' = a
<1> USE Identities, DistinctThreads
<1>0. pc[Worker(a)] \in Labels /\ Worker(a) \in Threads /\ a # 0 /\ None # a /\ a \in Ids
  BY ControllerAssumption DEF TypeOK, Ids, Attempts
<1>1. CASE Launch(a)
  BY <1>0, <1>1 DEF Launch, At, Goto, TypeOK, OwnSecret, Primed, auth
<1>2. CASE Prime(a)
  BY <1>0, <1>2 DEF Prime, At, Goto, TypeOK, OwnSecret, Primed, AfterWaiting
<1>3. CASE Finish(a)
  BY <1>0, <1>3 DEF Finish, At, Goto, TypeOK, OwnSecret
<1>4. CASE WaitTimeout(a) \/ Answered(a) \/ Settle(a) \/ Superseded(a) \/ Report(a) \/ AbortDaemon(a)
  BY <1>0, <1>4 DEF WaitTimeout, Answered, Settle, Superseded, Report, AbortDaemon, At, Goto, TypeOK,
              OwnSecret, Primed, AfterWaiting, auth
<1>5. CASE OpenSocket(a) \/ AdoptClient(a) \/ Authenticate(a)
  BY <1>0, <1>5 DEF OpenSocket, AdoptClient, Authenticate, At, Goto, TypeOK, OwnSecret, Primed, auth
<1> QED  BY <1>1, <1>2, <1>3, <1>4, <1>5 DEF WorkerStep

\* A dispatcher takes the credential, or forgets it.
LEMMA DispatcherSecret ==
  ASSUME TypeOK, NEW c \in Ids, DispatcherStep(c)
  PROVE  /\ secret' \in {secret, None}
         /\ pc'[Dispatcher(c)] = "answer" => secret # None /\ held'[Dispatcher(c)].secret = secret
<1> USE Identities
<1>1. CASE OnNeed(c)
  <2>1. CASE pc'[Dispatcher(c)] = "answer"
    <3>1. secret # None
          /\ held' = [held EXCEPT ![Dispatcher(c)] = [secret |-> secret, client |-> client]]
      BY <1>1, <2>1 DEF OnNeed, Goto, TypeOK
    <3> QED  BY <1>1, <3>1 DEF OnNeed, TypeOK, auth
  <2> QED  BY <1>1, <2>1 DEF OnNeed, auth
<1>2. CASE AnswerNeed(c)
  BY <1>2 DEF AnswerNeed, Goto, Wake, TypeOK
<1>3. CASE OnConnected(c) \/ OnExiting(c) \/ OnProgress(c) \/ OnFatal(c) \/ OnSocketClosed(c)
  BY <1>3 DEF OnConnected, OnExiting, OnProgress, OnFatal, OnSocketClosed, Take, At, Goto, Wake, TypeOK, auth
<1> QED  BY <1>1, <1>2, <1>3 DEF DispatcherStep

\* A step of another thread that leaves the credential and the process alone.
LEMMA SecretRests ==
  ASSUME TypeOK, OwnSecret, UNCHANGED <<attempt, username>>, secret' \in {secret, None},
         Running' => Running, NEW w \in Ids, w = attempt, Rests(Worker(w)),
         \A c \in Ids : pc'[Dispatcher(c)] = "answer" =>
            \/ pc[Dispatcher(c)] = "answer" /\ held'[Dispatcher(c)] = held[Dispatcher(c)]
            \/ secret # None /\ held'[Dispatcher(c)].secret = secret
  PROVE  OwnSecret'
BY DEF OwnSecret, Rests, Primed

\* Only connect() starts an attempt.
LEMMA AttemptStays ==
  ASSUME TypeOK, [Next]_vars, ~Connect
  PROVE  attempt' = attempt
<1> QED  BY StopMoves, AttachMoves, WorkerMoves, DispatcherMoves, AnnounceMoves
         DEF Next, OvpnStep, OvpnAsks, OvpnConnects, OvpnConnected, OvpnReconnects, OvpnExits, Progress,
             Environment, vars

LEMMA ProcessInvStep ==
  ASSUME TypeOK, LinksLive, OneWorker, OwnProcess, [Next]_vars
  PROVE  OwnProcess'
<1>1. CASE Connect
  <2>1. ~Running /\ daemon' = daemon
    BY <1>1 DEF Connect
  <2> QED  BY <2>1 DEF OwnProcess, Running
<1>2. CASE ~Connect
  <2>1. attempt' = attempt
    BY <1>2, AttemptStays
  <2> QED  BY <2>1, ProcessStep
<1> QED  BY <1>1, <1>2

LEMMA SecretStep ==
  ASSUME TypeOK, ~Overlap, LinksLive, OneWorker, OwnProcess, OwnSecret, [Next]_vars
  PROVE  OwnSecret'
<1> USE Identities, DistinctThreads
<1>0. attempt \in Ids /\ Worker(attempt) \in Threads
  BY DEF TypeOK
<1>1. CASE Connect
  <2>1. attempt + 1 \in Attempts /\ attempt' = attempt + 1 /\ Goto(Worker(attempt + 1), "launch")
    BY <1>1, NextAttempt DEF Connect, TypeOK
  <2>2. pc'[Worker(attempt + 1)] = "launch" /\ \A c \in Ids : pc'[Dispatcher(c)] = pc[Dispatcher(c)]
    BY <2>1, GotoRests
  <2>3. \A c \in Ids : pc[Dispatcher(c)] = "idle"
    BY <1>1 DEF Connect, Quiet
  <2>4. pc[Worker(attempt)] \in {"idle", "done"}
    BY <1>0, <1>1 DEF Connect, Quiet
  <2>5. secret' = None /\ ~Running'
    BY <1>1, <2>4 DEF Connect, OwnSecret, Primed, auth, Running
  <2> QED  BY <2>1, <2>2, <2>3, <2>5 DEF OwnSecret
<1>2. ASSUME attempt' = attempt, \A a \in Attempts : Rests(Worker(a)) PROVE Running' => Running
  <2>1. \A a \in Attempts : ~Launch(a)
    BY <1>2 DEF Launch, At, Goto, TypeOK, Rests
  <2> QED  BY <1>2, <2>1, ProcessStep
<1>3. CASE Disconnect \/ StopStep
  <2>1. /\ \A u \in Threads \ {Operator} : pc'[u] = pc[u] /\ held'[u] = held[u]
        /\ UNCHANGED <<attempt, secret, username>>
    BY <1>3, StopMoves
  <2> QED  BY <1>0, <1>2, <2>1, SecretRests DEF Rests
<1>4. CASE AttachStep
  <2>1. /\ pc[Worker(0)] # "done" /\ pc'[Worker(0)] # "launch"
        /\ \A u \in Threads \ {Worker(0)} : pc'[u] = pc[u]
        /\ UNCHANGED <<attempt, held, secret, username>>
    BY <1>4, AttachMoves
  <2>2. attempt = 0
    BY <2>1 DEF OneWorker
  <2> QED  BY <2>1, <2>2 DEF OwnSecret
<1>5. ASSUME NEW a \in Attempts, WorkerStep(a) PROVE OwnSecret'
  <2>1. /\ UNCHANGED <<attempt, held>>
        /\ \A u \in Threads \ {Worker(a)} : pc'[u] = pc[u]
        /\ pc[Worker(a)] \notin {"idle", "done"}
    BY <1>5, WorkerMoves
  <2>2. a = attempt /\ a # 0
    BY <2>1, WorkerIsCurrent
  <2>3. /\ secret' # None => secret' = a /\ pc'[Worker(a)] \in Primed
        /\ pc'[Worker(a)] # "launch"
        /\ username' = a
    BY <1>5, <2>2, WorkerSecret
  <2> QED  BY <2>1, <2>2, <2>3 DEF OwnSecret
<1>6. ASSUME NEW d \in Ids, DispatcherStep(d) PROVE OwnSecret'
  <2>1. /\ \A u \in Threads \ {Dispatcher(d)} : Rests(u) /\ held'[u] = held[u]
        /\ UNCHANGED <<attempt, username>>
    BY <1>6, DispatcherMoves
  <2>2. /\ secret' \in {secret, None}
        /\ pc'[Dispatcher(d)] = "answer" => secret # None /\ held'[Dispatcher(d)].secret = secret
    BY <1>6, DispatcherSecret
  <2>3. \A c \in Ids : pc'[Dispatcher(c)] = "answer" =>
            \/ pc[Dispatcher(c)] = "answer" /\ held'[Dispatcher(c)] = held[Dispatcher(c)]
            \/ secret # None /\ held'[Dispatcher(c)].secret = secret
    BY <2>1, <2>2 DEF Rests
  <2>4. \A a \in Ids : Rests(Worker(a))
    BY <2>1
  <2> QED  BY <1>0, <1>2, <2>1, <2>2, <2>3, <2>4, SecretRests
<1>7. ASSUME NEW t \in Threads, Announce(t) PROVE OwnSecret'
  <2>1. /\ pc[t] = "announce" /\ pc'[t] \in {"abort", "reattached", "idle"}
        /\ t \in {Worker(a) : a \in Attempts} => pc'[t] = "abort"
        /\ \A u \in Threads \ {t} : Rests(u)
        /\ UNCHANGED <<attempt, secret, username, held, daemon>>
    BY <1>7, AnnounceMoves
  <2>2. \A c \in Ids : pc'[Dispatcher(c)] = "answer" =>
            pc[Dispatcher(c)] = "answer" /\ held'[Dispatcher(c)] = held[Dispatcher(c)]
    BY <2>1 DEF Rests
  <2>3. CASE t # Worker(attempt)
    BY <1>0, <2>1, <2>2, <2>3, SecretRests DEF Running
  <2>4. CASE t = Worker(attempt)
    <3>1. pc'[Worker(attempt)] \notin {"launch", "done"} /\ pc[Worker(attempt)] # "launch"
      BY <2>1, <2>4
    <3>2. attempt # 0 => pc'[Worker(attempt)] \in Primed
      BY <1>0, <2>1, <2>4, ControllerAssumption DEF Ids, Attempts, Primed
    <3> QED  BY <2>1, <2>2, <3>1, <3>2 DEF OwnSecret, Running
  <2> QED  BY <2>3, <2>4
<1>8. CASE OvpnStep \/ UNCHANGED vars
  <2>1. UNCHANGED <<attempt, secret, username, pc, held>>
    BY <1>8 DEF OvpnStep, OvpnAsks, OvpnConnects, OvpnConnected, OvpnReconnects, OvpnExits, Progress,
              Environment, vars, auth
  <2> QED  BY <1>0, <1>2, <2>1, SecretRests DEF Rests
<1> QED  BY <1>1, <1>3, <1>4, <1>5, <1>6, <1>7, <1>8 DEF Next

\* Who gets a credential: only the process that asks for it.
LEMMA SentStep ==
  ASSUME TypeOK, [Next]_vars
  PROVE  \/ sent' = sent
         \/ \E c \in Ids : /\ pc[Dispatcher(c)] = "answer" /\ daemon.phase = "prompted"
                           /\ sent' = sent \union {<<daemon.id, held[Dispatcher(c)].secret, username>>}
<1> USE Identities
<1>1. CASE Connect
  BY <1>1 DEF Connect, seen
<1>2. CASE Disconnect \/ StopStep
  BY <1>2, StopMoves
<1>3. CASE AttachStep
  BY <1>3, AttachMoves DEF seen
<1>4. ASSUME NEW a \in Attempts, WorkerStep(a) PROVE sent' = sent
  BY <1>4, WorkerMoves DEF seen
<1>5. ASSUME NEW c \in Ids, DispatcherStep(c)
      PROVE  \/ sent' = sent
             \/ /\ pc[Dispatcher(c)] = "answer" /\ daemon.phase = "prompted"
                /\ sent' = sent \union {<<daemon.id, held[Dispatcher(c)].secret, username>>}
  BY <1>5 DEF DispatcherStep, OnConnected, OnExiting, OnProgress, OnFatal, OnNeed, AnswerNeed,
              OnSocketClosed, seen, At
<1>6. ASSUME NEW t \in Threads, Announce(t) PROVE sent' = sent
  BY <1>6, AnnounceMoves DEF seen
<1>7. CASE OvpnStep \/ UNCHANGED vars
  BY <1>7 DEF OvpnStep, OvpnAsks, OvpnConnects, OvpnConnected, OvpnReconnects, OvpnExits, Progress,
              Environment, vars, seen
<1> QED  BY <1>1, <1>2, <1>3, <1>4, <1>5, <1>6, <1>7 DEF Next

LEMMA OwnCredentialStep ==
  ASSUME TypeOK, OwnProcess, OwnSecret, OwnCredential, [Next]_vars
  PROVE  OwnCredential'
<1>1. ASSUME NEW c \in Ids, pc[Dispatcher(c)] = "answer", daemon.phase = "prompted"
      PROVE  daemon.id = held[Dispatcher(c)].secret /\ held[Dispatcher(c)].secret = username
  BY <1>1 DEF OwnProcess, OwnSecret
<1> QED  BY <1>1, SentStep DEF OwnCredential

\* OpenVPN is answered with the password, the code and the user name of the attempt
\* that launched it, and no credential outlives the attempt's worker: whatever is
\* adopted, times out or fails, as long as the attempts do not overlap.
THEOREM CredentialInvariant == ~Overlap => (Spec => []CredentialInv)
<1> SUFFICES ASSUME ~Overlap PROVE Spec => []CredentialInv
  OBVIOUS
<1>1. Init => CredentialInv
  <2> SUFFICES ASSUME Init PROVE CredentialInv
    OBVIOUS
  <2> USE Identities, DistinctThreads, ControllerAssumption
  <2>1. pc = [t \in Threads |-> IF t = Worker(0) THEN (IF Adopt THEN "socket" ELSE "done") ELSE "idle"]
        /\ attempt = 0 /\ secret = None /\ sent = {} /\ link = [c \in Ids |-> NoLink]
    BY DEF Init
  <2>2. OneWorker
    BY <2>1 DEF OneWorker, Attempts, Ids
  <2>3. LinksLive /\ OwnCredential
    BY <2>1 DEF LinksLive, NoLink, OwnCredential
  <2>4. OwnProcess
    <3>1. NoDaemon.id = None /\ NoDaemon.phase = "held" /\ 0 # None
      BY DEF NoDaemon
    <3>2. CASE Adopt
      <4>1. PICK p \in Phases : daemon = [NoDaemon EXCEPT !.id = 0, !.phase = p]
        BY <3>2 DEF Init
      <4>2. daemon.id = 0
        BY <4>1 DEF NoDaemon
      <4> QED  BY <2>1, <3>1, <4>2 DEF OwnProcess, Running
    <3>3. CASE ~Adopt
      BY <3>1, <3>3 DEF Init, OwnProcess, Running
    <3> QED  BY <3>2, <3>3
  <2>5. OwnSecret
    BY <2>1 DEF OwnSecret
  <2> QED  BY <2>2, <2>3, <2>4, <2>5 DEF CredentialInv
<1>2. TypeOK /\ CredentialInv /\ [Next]_vars => CredentialInv'
  <2> SUFFICES ASSUME TypeOK, CredentialInv, [Next]_vars PROVE CredentialInv'
    OBVIOUS
  <2>1. LinksLive' /\ OneWorker' /\ OwnSecret' /\ OwnCredential'
    BY LinksLiveStep, OneWorkerStep, SecretStep, OwnCredentialStep DEF CredentialInv
  <2>2. OwnProcess'
    BY ProcessInvStep DEF CredentialInv
  <2> QED  BY <2>1, <2>2 DEF CredentialInv
<1> QED  BY <1>1, <1>2, ControllerTypes, PTL DEF Spec

\* OpenVPN is answered with the password, the code and the user name of the
\* attempt that launched it (_on_password(), send_credentials()), for any number of
\* attempts that do not overlap.
THEOREM CredentialsAreOwn == ~Overlap => (Spec => []OwnCredential)
BY CredentialInvariant, PTL DEF CredentialInv

\* No credential outlives the worker of the attempt it was typed for (the finally
\* clause of _connect_worker()), for any number of attempts that do not overlap.
THEOREM SecretIsForgotten == ~Overlap => (Spec => []SecretGone)
<1>1. CredentialInv => SecretGone
  BY DEF CredentialInv, OwnSecret, SecretGone, Primed
<1> QED  BY <1>1, CredentialInvariant, PTL
=============================================================================
