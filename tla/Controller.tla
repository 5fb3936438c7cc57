----------------------------- MODULE Controller -----------------------------
(***************************************************************************)
(* OpenVpnController (app/services/openvpn.py): the life of the tunnel as  *)
(* its threads see it.  The threads are                                    *)
(*   - the operator's request threads, calling connect() and disconnect(); *)
(*   - one worker per connection attempt (_connect_worker);                *)
(*   - one dispatcher per management connection (_dispatch_loop), which    *)
(*     delivers OpenVPN's notifications in order;                          *)
(*   - the start-up thread, which may re-adopt a running tunnel (attach).  *)
(* A step is a stretch of code between two points where another thread can *)
(* observe or change the controller: a held lock region, a helper call, a  *)
(* management command, an Event wait, or an announcement.  OpenVPN and the *)
(* root helper are the environment.                                        *)
(*                                                                         *)
(* Attempt a, its worker, the daemon it launches, the connection it opens  *)
(* and the history row it writes are all numbered a; 0 is the tunnel that  *)
(* was already running when the application started.                       *)
(***************************************************************************)
EXTENDS Integers, Sequences

CONSTANTS
  MaxAttempts,    \* bound: connection attempts the operator makes
  MaxQueue,       \* bound: notifications waiting in one connection's queue
  MaxReconnects,  \* bound: link losses OpenVPN itself recovers from
  MaxStops,       \* bound: disconnect() calls during one attempt
  Hazards,        \* what may go wrong in the environment: see Hazard
  Adopt,          \* is a daemon already running when the application starts?
  None            \* Python's None

ASSUME ControllerAssumption ==
  /\ MaxAttempts \in Nat \ {0}
  /\ MaxQueue \in Nat \ {0}
  /\ MaxReconnects \in Nat
  /\ MaxStops \in Nat
  /\ Hazards \subseteq {"overlap", "haste", "lateness", "timeouts", "faults"}
  /\ Adopt \in BOOLEAN
  /\ None \notin 0 .. MaxAttempts

\* The environments a run may admit.  None of them is excluded by the code.
Overlap  == "overlap" \in Hazards   \* connect() while a thread of an earlier attempt runs
Haste    == "haste" \in Hazards     \* disconnect() while the attempt's worker runs
Lateness == "lateness" \in Hazards  \* another thread runs between a transition and its announcement
Timeouts == "timeouts" \in Hazards  \* the worker's waits run out
Faults   == "faults" \in Hazards    \* the helper and management commands fail

VARIABLES
  status,             \* _status: the lifecycle state and whether an error is set
  attempt,            \* _attempt
  client,             \* _client
  secret,             \* _pending_secret, as the attempt it belongs to
  username,           \* _username_for_auth, likewise
  authPrompt,         \* _auth_prompt
  settled,            \* _settled
  notifiedUp,         \* _notified_up
  shutdownRequested,  \* _shutdown_requested
  pc,                 \* where each thread is
  post,               \* the transition a thread has still to announce
  held,               \* local variables of _on_password and disconnect()
  link,               \* the management connections
  daemon,             \* the OpenVPN process, if any (environment)
  session,            \* History: the row being written
  rows,               \* History: the attempts' rows
  told,               \* the last event recorded and notified
  sent,               \* credentials OpenVPN was given: <<daemon, secret, username>>
  asked               \* how often disconnect() was called in each attempt

flags   == <<authPrompt, settled, notifiedUp, shutdownRequested>>
auth    == <<secret, username>>
history == <<session, rows, told>>
seen    == <<sent, asked>>
vars    == <<status, attempt, client, auth, flags, pc, post, held, link, daemon, history, seen>>

-----------------------------------------------------------------------------
(* Identities and types.                                                   *)

Attempts == 1 .. MaxAttempts
Ids      == 0 .. MaxAttempts
OrNone(S) == S \union {None}

Worker(a)     == <<"worker", a>>
Dispatcher(c) == <<"dispatcher", c>>
Operator      == <<"operator", 0>>

Threads == {Worker(a) : a \in Ids} \union {Dispatcher(c) : c \in Ids} \union {Operator}

BusyStates == {"starting", "authenticating", "connecting", "disconnecting"}
DownStates == {"disconnected", "failed"}
States     == BusyStates \union DownStates \union {"connected"}

Status     == [state : States, error : BOOLEAN]
Transition == [before : States, after : States, wake : BOOLEAN]

Labels == {"idle", "launch", "socket", "adopt", "authenticate", "prime", "waitAuth",
           "answered", "waitSettled", "settled", "failing", "report", "announce",
           "abort", "finish", "done", "answer", "signal", "stop", "stopped",
           "attach", "reattach", "refresh", "reattached"}

Events == {"need", "rejected", "progress", "connected", "exiting", "fatal", "eof"}
Phases == {"held", "asking", "prompted", "tunnel", "nearly", "up"}

Link   == [open : BOOLEAN, served : BOOLEAN, daemon : OrNone(Ids), queue : Seq(Events)]
Daemon == [id : OrNone(Ids), phase : Phases, term : BOOLEAN, reconnects : Nat]
Row    == [outcome : {"none", "open", "failed", "disconnected", "interrupted"},
           reason : {"", "operator-requested", "link-lost"}, up : BOOLEAN]

NoLink   == [open |-> FALSE, served |-> FALSE, daemon |-> None, queue |-> <<>>]
NoDaemon == [id |-> None, phase |-> "held", term |-> FALSE, reconnects |-> 0]
NoRow    == [outcome |-> "none", reason |-> "", up |-> FALSE]
NoPost   == [before |-> "disconnected", after |-> "disconnected", wake |-> FALSE]
NoHeld   == [secret |-> None, client |-> None]

-----------------------------------------------------------------------------
(* The daemon and its management socket, as the helper and the client use  *)
(* them.  One management client is served at a time; a second connection   *)
(* is accepted by the kernel and waits, so its commands time out.          *)

Running == daemon.id # None                       \* _is_running()

IsOpen(c) == c # None /\ link[c].open             \* client is not None and client.is_open

Reaches(c) == IsOpen(c) /\ link[c].served /\ link[c].daemon = daemon.id

OpenLink(c) ==
  [link EXCEPT ![c] =
    [open |-> TRUE, daemon |-> daemon.id, queue |-> <<>>,
     served |-> \A d \in Ids : ~(link[d].open /\ link[d].served)]]

\* OpenVPN's last words, then the end of the stream on each of its connections.
Closed(words) ==
  [c \in Ids |->
    IF link[c].open /\ link[c].daemon = daemon.id
      THEN [link[c] EXCEPT !.open  = FALSE,
                           !.queue = IF link[c].served THEN @ \o words \o <<"eof">>
                                                       ELSE Append(@, "eof")]
      ELSE link[c]]

Kill(words) == daemon' = NoDaemon /\ link' = Closed(words)

\* The helper's "stop": SIGTERM, then SIGKILL, and success when nothing runs.
HelperStop ==
  IF Running THEN \E words \in {<<>>, <<"exiting">>} : Kill(words)
             ELSE UNCHANGED <<daemon, link>>

\* "signal SIGTERM" on connection c.
Signal(c) == Reaches(c) /\ daemon' = [daemon EXCEPT !.term = TRUE] /\ UNCHANGED link

-----------------------------------------------------------------------------
(* Events, transitions and announcements.                                  *)

\* Event.set() wakes the workers waiting on it, whether or not the flag is
\* cleared again before they run.
Wake(p, label, next) == [t \in Threads |-> IF p[t] = label THEN next ELSE p[t]]
WakeBoth(p) == Wake(Wake(p, "waitAuth", "answered"), "waitSettled", "settled")

\* Without "lateness" a transition is announced before anything else happens.
Timely == Lateness \/ \A t \in Threads : pc[t] # "announce"

At(t, label)   == pc[t] = label /\ Timely
Goto(t, label) == pc' = [pc EXCEPT ![t] = label]

\* Leave a _tracked region: the lock is released and the announcement, made
\* with what was read under the lock, comes later.
Track(t, new, wake) ==
  /\ status' = new
  /\ post' = [post EXCEPT ![t] = [before |-> status.state, after |-> new.state, wake |-> wake]]

\* A wait begins: it returns at once if the Event is already set.
AfterWaiting(flag, waiting, next) == IF flag THEN next ELSE waiting

\* Deliberate fault: _advance() without its guard.
AdvancedAnyway(state) == [status EXCEPT !.state = state]

\* _advance(): not once the attempt has settled.
Advanced(state) ==
  IF status.state \in {"connected", "failed", "disconnected"}
    THEN status ELSE [status EXCEPT !.state = state]

EndSession(outcome, reason) ==
  /\ session' = None
  /\ rows' = IF session = None THEN rows
             ELSE [rows EXCEPT ![session].outcome = outcome, ![session].reason = reason]

StartSession(a) ==
  /\ session' = a
  /\ rows' = LET ended == IF session = None THEN rows
                          ELSE [rows EXCEPT ![session].outcome = "interrupted"]
             IN  [ended EXCEPT ![a] = [NoRow EXCEPT !.outcome = "open"]]

\* Deliberate fault: the moment the tunnel came up is not recorded.
MarkNothing == UNCHANGED <<session, rows>>

\* Deliberate fault: it is recorded as the attempt's outcome.
MarkAsOutcome ==
  /\ rows' = IF session = None THEN rows ELSE [rows EXCEPT ![session].outcome = "connected"]
  /\ UNCHANGED session

MarkConnected ==
  /\ rows' = IF session = None THEN rows ELSE [rows EXCEPT ![session].up = TRUE]
  /\ UNCHANGED session

GoesUp(p) == p.before # p.after /\ p.after = "connected" /\ ~notifiedUp

\* Deliberate fault: a deliberate stop is not seen as a tunnel going down.
GoesDownFromConnected(p) ==
  p.before = "connected" /\ p.after \in DownStates /\ notifiedUp

\* Deliberate fault: an attempt that never came up goes down all the same.
GoesDownUngated(p) ==
  p.before \in {"connected", "disconnecting"} /\ p.after \in DownStates

GoesDown(p) == /\ p.before \in {"connected", "disconnecting"}
               /\ p.after \in DownStates
               /\ notifiedUp

\* The reason recorded with a transition: empty unless a tunnel went down.
Reason(p) == IF ~GoesDown(p) THEN ""
             ELSE IF shutdownRequested THEN "operator-requested" ELSE "link-lost"

\* Deliberate fault: the row is closed only with a "tunnel down".
RecordNotified(p) ==
  \/ p.before # p.after /\ p.after = "connected" /\ MarkConnected
  \/ /\ GoesDown(p)
     /\ EndSession(IF p.after = "failed" THEN "failed" ELSE "disconnected", Reason(p))
  \/ ~GoesDown(p) /\ p.after # "connected" /\ UNCHANGED <<session, rows>>
  \/ p.before = p.after /\ UNCHANGED <<session, rows>>

\* What _announce() does to the attempt's row.
Record(p) ==
  \/ p.before # p.after /\ p.after = "connected" /\ MarkConnected
  \/ /\ p.before # p.after /\ p.after \in DownStates
     /\ EndSession(IF p.after = "failed" THEN "failed" ELSE "disconnected", Reason(p))
  \/ (p.before = p.after \/ p.after \in BusyStates) /\ UNCHANGED <<session, rows>>

\* _announce(), and the Event.set() calls that follow it in its callers.
Announce(t) ==
  LET p == post[t] IN
  /\ pc[t] = "announce"
  /\ notifiedUp' = ((notifiedUp \/ GoesUp(p)) /\ ~GoesDown(p))
  /\ shutdownRequested' = (shutdownRequested /\ ~GoesDown(p))
  /\ told' = IF GoesUp(p) THEN "up" ELSE IF GoesDown(p) THEN Reason(p) ELSE told
  /\ Record(p)
  /\ authPrompt' = (authPrompt \/ p.wake)
  /\ settled' = (settled \/ p.wake)
  /\ LET next == CASE t \in {Worker(a) : a \in Attempts} -> "abort"
                   [] t = Worker(0) -> "reattached"
                   [] OTHER -> "idle"
         moved == [pc EXCEPT ![t] = next]
     IN  pc' = IF p.wake THEN WakeBoth(moved) ELSE moved
  /\ post' = [post EXCEPT ![t] = NoPost]
  /\ UNCHANGED <<status, attempt, client, auth, held, link, daemon, seen>>

-----------------------------------------------------------------------------
(* The operator: connect() and disconnect().                               *)

\* Every thread of the earlier attempts has come to rest.
Quiet ==
  /\ pc[Operator] = "idle"
  /\ \A a \in Ids : pc[Worker(a)] \in {"idle", "done"}
  /\ \A c \in Ids : pc[Dispatcher(c)] = "idle" /\ link[c].queue = <<>>

\* Requests are served once attach() has returned.
Serving == pc[Worker(0)] = "done"

\* Deliberate fault: the last attempt's shutdown request is not forgotten.
ConnectKeepsFlag ==
  /\ Serving /\ Timely
  /\ attempt < MaxAttempts
  /\ Overlap \/ Quiet
  /\ status.state \notin BusyStates \union {"connected"}
  /\ ~Running
  /\ status' = [state |-> "starting", error |-> FALSE]
  /\ StartSession(attempt + 1)
  /\ authPrompt' = FALSE
  /\ settled' = FALSE
  /\ notifiedUp' = FALSE
  /\ attempt' = attempt + 1
  /\ Goto(Worker(attempt + 1), "launch")
  /\ UNCHANGED <<client, auth, shutdownRequested, post, held, link, daemon, told, seen>>

Connect ==
  /\ Serving /\ Timely
  /\ attempt < MaxAttempts
  /\ Overlap \/ Quiet
  /\ status.state \notin BusyStates \union {"connected"}
  /\ ~Running
  /\ status' = [state |-> "starting", error |-> FALSE]
  /\ StartSession(attempt + 1)
  /\ authPrompt' = FALSE
  /\ settled' = FALSE
  /\ shutdownRequested' = FALSE
  /\ notifiedUp' = FALSE
  /\ attempt' = attempt + 1
  /\ Goto(Worker(attempt + 1), "launch")
  /\ UNCHANGED <<client, auth, post, held, link, daemon, told, seen>>

Disconnect ==
  /\ Serving
  /\ At(Operator, "idle")
  /\ status.state # "disconnected" \/ Running
  /\ status' = [state |-> "disconnecting", error |-> FALSE]
  /\ asked[attempt] < MaxStops
  /\ Haste \/ \A a \in Attempts : pc[Worker(a)] \in {"idle", "done"}
  /\ held' = [held EXCEPT ![Operator].client = client]
  /\ asked' = [asked EXCEPT ![attempt] = @ + 1]
  /\ Goto(Operator, "signal")
  /\ UNCHANGED <<attempt, client, auth, flags, post, link, daemon, history, sent>>

\* The flag is set after the lock is released, then the command is tried.
DisconnectSignal ==
  LET c == held[Operator].client IN
  /\ At(Operator, "signal")
  /\ shutdownRequested' = TRUE
  /\ \/ Signal(c) /\ Goto(Operator, "idle")
     \/ /\ ~Reaches(c) \/ Faults
        /\ Goto(Operator, "stop")
        /\ UNCHANGED <<link, daemon>>
  /\ held' = [held EXCEPT ![Operator] = NoHeld]
  /\ UNCHANGED <<status, attempt, client, auth, authPrompt, settled, notifiedUp, post,
                 history, seen>>

DisconnectStop ==
  /\ At(Operator, "stop")
  /\ \/ HelperStop /\ Goto(Operator, "stopped")
     \/ Faults /\ Goto(Operator, "idle") /\ UNCHANGED <<link, daemon>>   \* VpnError
  /\ UNCHANGED <<status, attempt, client, auth, flags, post, held, history, seen>>

DisconnectDone ==
  /\ At(Operator, "stopped")
  /\ Track(Operator, [state |-> "disconnected", error |-> FALSE], FALSE)
  /\ Goto(Operator, "announce")
  /\ UNCHANGED <<attempt, client, auth, flags, held, link, daemon, history, seen>>

-----------------------------------------------------------------------------
(* The worker of one attempt: _connect_worker.                             *)

\* Deliberate fault: a username captured earlier is kept.
LaunchKeepsUsername(a) ==
  /\ At(Worker(a), "launch")
  /\ username' = IF username = None THEN a ELSE username
  /\ \/ /\ ~Running
        /\ daemon' = [NoDaemon EXCEPT !.id = a]
        /\ Goto(Worker(a), "socket")
     \/ /\ Running \/ Faults
        /\ Goto(Worker(a), "failing")
        /\ UNCHANGED daemon
  /\ UNCHANGED <<status, attempt, client, secret, flags, post, held, link, history, seen>>

\* The helper refuses to start a second daemon.
Launch(a) ==
  /\ At(Worker(a), "launch")
  /\ username' = a
  /\ \/ /\ ~Running
        /\ daemon' = [NoDaemon EXCEPT !.id = a]
        /\ Goto(Worker(a), "socket")
     \/ /\ Running \/ Faults
        /\ Goto(Worker(a), "failing")
        /\ UNCHANGED daemon
  /\ UNCHANGED <<status, attempt, client, secret, flags, post, held, link, history, seen>>

\* _wait_for_socket() and ManagementClient.connect().
OpenSocket(a) ==
  /\ At(Worker(a), "socket")
  /\ \/ Running /\ link' = OpenLink(a) /\ Goto(Worker(a), "adopt")
     \/ /\ ~Running \/ Faults
        /\ Goto(Worker(a), IF a = 0 THEN "done" ELSE "failing")
        /\ UNCHANGED link
  /\ UNCHANGED <<status, attempt, client, auth, flags, post, held, daemon, history, seen>>

AdoptClient(a) ==
  /\ At(Worker(a), "adopt")
  /\ client' = a
  /\ Goto(Worker(a), IF a = 0 THEN "attach" ELSE "authenticate")
  /\ UNCHANGED <<status, attempt, auth, flags, post, held, link, daemon, history, seen>>

Authenticate(a) ==
  /\ At(Worker(a), "authenticate")
  /\ status' = Advanced("authenticating")
  /\ Goto(Worker(a), "prime")
  /\ UNCHANGED <<attempt, client, auth, flags, post, held, link, daemon, history, seen>>

\* The credential is put in place, then "hold release" lets OpenVPN go; a
\* command that fails is logged and passed over.
Prime(a) ==
  /\ At(Worker(a), "prime")
  /\ secret' = a
  /\ daemon' = IF Reaches(a) /\ daemon.phase = "held"
                 THEN [daemon EXCEPT !.phase = "asking"] ELSE daemon
  /\ Goto(Worker(a), AfterWaiting(authPrompt, "waitAuth", "answered"))
  /\ UNCHANGED <<status, attempt, client, username, flags, post, held, link, history, seen>>

\* Deliberate fault: the second wait has no time limit.
WaitTimeoutOnce(a) ==
  /\ Timeouts
  /\ At(Worker(a), "waitAuth")
  /\ Goto(Worker(a), "failing")
  /\ UNCHANGED <<status, attempt, client, auth, flags, post, held, link, daemon, history, seen>>

WaitTimeout(a) ==
  /\ Timeouts
  /\ At(Worker(a), "waitAuth") \/ At(Worker(a), "waitSettled")
  /\ Goto(Worker(a), "failing")
  /\ UNCHANGED <<status, attempt, client, auth, flags, post, held, link, daemon, history, seen>>

\* _raise_if_failed(), then _advance(CONNECTING) and the second wait.
Answered(a) ==
  /\ At(Worker(a), "answered")
  /\ IF status.state = "failed"
       THEN Goto(Worker(a), "failing") /\ UNCHANGED status
       ELSE /\ status' = Advanced("connecting")
            /\ Goto(Worker(a), AfterWaiting(settled, "waitSettled", "settled"))
  /\ UNCHANGED <<attempt, client, auth, flags, post, held, link, daemon, history, seen>>

Settle(a) ==
  /\ At(Worker(a), "settled")
  /\ Goto(Worker(a), IF status.state = "failed" THEN "failing" ELSE "finish")
  /\ UNCHANGED <<status, attempt, client, auth, flags, post, held, link, daemon, history, seen>>

\* _superseded(): its answer is used after the lock is released.
Superseded(a) ==
  /\ At(Worker(a), "failing")
  /\ Goto(Worker(a), IF attempt # a THEN "finish" ELSE "report")
  /\ UNCHANGED <<status, attempt, client, auth, flags, post, held, link, daemon, history, seen>>

Report(a) ==
  /\ At(Worker(a), "report")
  /\ Track(Worker(a), [state |-> "failed", error |-> TRUE], TRUE)
  /\ Goto(Worker(a), "announce")
  /\ UNCHANGED <<attempt, client, auth, flags, held, link, daemon, history, seen>>

\* _abort_daemon(): SIGTERM over the connection, else the helper's stop; a
\* failure of both is logged.
AbortDaemon(a) ==
  /\ At(Worker(a), "abort")
  /\ Goto(Worker(a), "finish")
  /\ IF status.state = "connected"
       THEN UNCHANGED <<shutdownRequested, link, daemon>>
       ELSE /\ shutdownRequested' = TRUE
            /\ \/ Signal(client)
               \/ (~Reaches(client) \/ Faults) /\ HelperStop
               \/ Faults /\ UNCHANGED <<link, daemon>>
  /\ UNCHANGED <<status, attempt, client, auth, authPrompt, settled, notifiedUp, post, held,
                 history, seen>>

\* Deliberate fault: the credential is cleared by a worker that was replaced,
\* not by the current one.
FinishKeepsSecret(a) ==
  /\ At(Worker(a), "finish")
  /\ secret' = IF attempt # a THEN None ELSE secret
  /\ Goto(Worker(a), "done")
  /\ UNCHANGED <<status, attempt, client, username, flags, post, held, link, daemon, history,
                 seen>>

Finish(a) ==
  /\ At(Worker(a), "finish")
  /\ secret' = IF attempt = a THEN None ELSE secret
  /\ Goto(Worker(a), "done")
  /\ UNCHANGED <<status, attempt, client, username, flags, post, held, link, daemon, history,
                 seen>>

-----------------------------------------------------------------------------
(* The dispatcher of one connection: _on_event.                            *)

\* Take notification e from the head of c's queue.
Take(c, e) ==
  /\ At(Dispatcher(c), "idle")
  /\ link[c].queue # <<>>
  /\ Head(link[c].queue) = e
  /\ link' = [link EXCEPT ![c].queue = Tail(@)]

OnConnected(c) ==
  /\ Take(c, "connected")
  /\ Track(Dispatcher(c), [state |-> "connected", error |-> FALSE], FALSE)
  /\ settled' = TRUE
  /\ pc' = [Wake(pc, "waitSettled", "settled") EXCEPT ![Dispatcher(c)] = "announce"]
  /\ UNCHANGED <<attempt, client, auth, authPrompt, notifiedUp, shutdownRequested, held,
                 daemon, history, seen>>

OnExiting(c) ==
  /\ Take(c, "exiting")
  /\ Track(Dispatcher(c),
           [status EXCEPT !.state = IF status.error THEN "failed" ELSE "disconnected"], FALSE)
  /\ settled' = TRUE
  /\ pc' = [Wake(pc, "waitSettled", "settled") EXCEPT ![Dispatcher(c)] = "announce"]
  /\ UNCHANGED <<attempt, client, auth, authPrompt, notifiedUp, shutdownRequested, held,
                 daemon, history, seen>>

\* Any other state name; the announcement of a busy state records nothing.
OnProgress(c) ==
  /\ Take(c, "progress")
  /\ status' = IF status.state \in BusyStates THEN status
               ELSE [status EXCEPT !.state = "connecting"]
  /\ UNCHANGED <<attempt, client, auth, flags, pc, post, held, daemon, history, seen>>

\* >FATAL: and >PASSWORD:Verification Failed both end in _fail(); only the
\* second sets _auth_prompt before it.
OnFatal(c) ==
  /\ \/ Take(c, "fatal") /\ Goto(Dispatcher(c), "announce") /\ UNCHANGED authPrompt
     \/ /\ Take(c, "rejected")
        /\ authPrompt' = TRUE
        /\ pc' = [Wake(pc, "waitAuth", "answered") EXCEPT ![Dispatcher(c)] = "announce"]
  /\ Track(Dispatcher(c), [state |-> "failed", error |-> TRUE], TRUE)
  /\ UNCHANGED <<attempt, client, auth, settled, notifiedUp, shutdownRequested, held, daemon,
                 history, seen>>

\* >PASSWORD:Need: the credential and the connection are read without the lock.
OnNeed(c) ==
  /\ Take(c, "need")
  /\ IF client = None \/ secret = None
       THEN /\ Track(Dispatcher(c), [state |-> "failed", error |-> TRUE], TRUE)
            /\ Goto(Dispatcher(c), "announce")
            /\ UNCHANGED held
       ELSE /\ held' = [held EXCEPT ![Dispatcher(c)] = [secret |-> secret, client |-> client]]
            /\ Goto(Dispatcher(c), "answer")
            /\ UNCHANGED <<status, post>>
  /\ UNCHANGED <<attempt, client, auth, flags, daemon, history, seen>>

\* The two commands of send_credentials, and the finally clause.
AnswerNeed(c) ==
  LET mine == held[Dispatcher(c)]
      accepted == Reaches(mine.client) /\ daemon.phase = "prompted"
  IN
  /\ At(Dispatcher(c), "answer")
  /\ secret' = None
  /\ held' = [held EXCEPT ![Dispatcher(c)] = NoHeld]
  /\ \/ /\ accepted
        /\ daemon' = [daemon EXCEPT !.phase = "tunnel"]
        /\ sent' = sent \union {<<daemon.id, mine.secret, username>>}
        /\ authPrompt' = TRUE
        /\ pc' = [Wake(pc, "waitAuth", "answered") EXCEPT ![Dispatcher(c)] = "idle"]
        /\ UNCHANGED <<status, post>>
     \/ /\ ~accepted \/ Faults
        /\ Track(Dispatcher(c), [state |-> "failed", error |-> TRUE], TRUE)
        /\ Goto(Dispatcher(c), "announce")
        /\ UNCHANGED <<daemon, sent, authPrompt>>
  /\ UNCHANGED <<attempt, client, username, settled, notifiedUp, shutdownRequested, link,
                 history, asked>>

\* Deliberate fault: only an attempt on its way notices the end of the stream.
OnSocketClosedBusyOnly(c) ==
  LET new == CASE status.state \in {"starting", "authenticating", "connecting"}
                    -> [state |-> "failed", error |-> TRUE]
               [] status.state = "disconnecting"
                    -> [status EXCEPT !.state = IF status.error THEN "failed"
                                                               ELSE "disconnected"]
               [] OTHER -> status
  IN
  /\ Take(c, "eof")
  /\ client' = None
  /\ Track(Dispatcher(c), new, TRUE)
  /\ Goto(Dispatcher(c), "announce")
  /\ UNCHANGED <<attempt, auth, flags, held, daemon, history, seen>>

OnSocketClosed(c) ==
  LET new == CASE status.state \in {"starting", "authenticating", "connecting"}
                    -> [state |-> "failed", error |-> TRUE]
               [] status.state \in {"connected", "disconnecting"}
                    -> [status EXCEPT !.state = IF status.error THEN "failed"
                                                               ELSE "disconnected"]
               [] OTHER -> status
  IN
  /\ Take(c, "eof")
  /\ client' = None
  /\ Track(Dispatcher(c), new, TRUE)
  /\ Goto(Dispatcher(c), "announce")
  /\ UNCHANGED <<attempt, auth, flags, held, daemon, history, seen>>

-----------------------------------------------------------------------------
(* The start-up thread: attach(), after OpenSocket(0) and AdoptClient(0).  *)

AttachSession ==
  /\ At(Worker(0), "attach")
  /\ StartSession(0)
  /\ Goto(Worker(0), "reattach")
  /\ UNCHANGED <<status, attempt, client, auth, flags, post, held, link, daemon, told, seen>>

AttachStatus ==
  /\ At(Worker(0), "reattach")
  /\ status' = [status EXCEPT !.state = "connecting"]
  /\ notifiedUp' = TRUE
  /\ told' = "adopted"
  /\ Goto(Worker(0), "refresh")
  /\ UNCHANGED <<attempt, client, auth, authPrompt, settled, shutdownRequested, post, held,
                 link, daemon, session, rows, seen>>

\* _refresh_state(): the reply to "state" is handled on this thread.
AttachRefresh ==
  /\ At(Worker(0), "refresh")
  /\ \/ /\ Reaches(0)
        /\ daemon.phase = "up"
        /\ Track(Worker(0), [state |-> "connected", error |-> FALSE], FALSE)
        /\ settled' = TRUE
        /\ Goto(Worker(0), "announce")
     \/ /\ Reaches(0)
        /\ daemon.phase # "up"
        /\ status' = IF status.state \in BusyStates THEN status
                     ELSE [status EXCEPT !.state = "connecting"]
        /\ Goto(Worker(0), "reattached")
        /\ UNCHANGED <<settled, post>>
     \/ /\ ~Reaches(0) \/ Faults
        /\ Goto(Worker(0), "reattached")
        /\ UNCHANGED <<status, settled, post>>
  /\ UNCHANGED <<attempt, client, auth, authPrompt, notifiedUp, shutdownRequested, held, link,
                 daemon, history, seen>>

AttachEnd ==
  /\ At(Worker(0), "reattached")
  /\ notifiedUp' = (status.state = "connected")
  /\ Goto(Worker(0), "done")
  /\ UNCHANGED <<status, attempt, client, auth, authPrompt, settled, shutdownRequested, post,
                 held, link, daemon, history, seen>>

-----------------------------------------------------------------------------
(* OpenVPN itself (environment).                                           *)

Environment == UNCHANGED <<status, attempt, client, auth, flags, pc, post, held, history, seen>>

\* OpenVPN reaches phase p and says so to the client it serves, if it has one.
Progress(from, p, word) ==
  /\ Timely /\ Running /\ ~daemon.term /\ daemon.phase = from
  /\ \A c \in Ids : Reaches(c) => Len(link[c].queue) < MaxQueue
  /\ daemon' = [daemon EXCEPT !.phase = p]
  /\ link' = [c \in Ids |-> IF Reaches(c) THEN [link[c] EXCEPT !.queue = Append(@, word)]
                                         ELSE link[c]]
  /\ Environment

OvpnAsks      == Progress("asking", "prompted", "need")
OvpnConnects  == Progress("tunnel", "nearly", "progress")
OvpnConnected == Progress("nearly", "up", "connected")

\* The link is lost and OpenVPN restarts: it may need the credential again.
OvpnReconnects ==
  /\ Timely /\ Running /\ ~daemon.term /\ daemon.phase = "up" /\ daemon.reconnects < MaxReconnects
  /\ \A c \in Ids : Reaches(c) => Len(link[c].queue) < MaxQueue
  /\ \E p \in {"asking", "nearly"} :
       daemon' = [daemon EXCEPT !.phase = p, !.reconnects = @ + 1]
  /\ link' = [c \in Ids |-> IF Reaches(c) THEN [link[c] EXCEPT !.queue = Append(@, "progress")]
                                         ELSE link[c]]
  /\ Environment

\* OpenVPN exits: asked to, rejected by the server, on a fatal error, or killed.
OvpnExits ==
  /\ Timely /\ Running
  /\ \E words \in {<<>>, <<"exiting">>} \union
                 (IF daemon.term THEN {} ELSE {<<"fatal">>}) \union
                 (IF daemon.phase = "tunnel" THEN {<<"rejected", "exiting">>} ELSE {}) :
       Kill(words)
  /\ Environment

-----------------------------------------------------------------------------

Init ==
  /\ status = [state |-> "disconnected", error |-> FALSE]
  /\ attempt = 0
  /\ client = None
  /\ secret = None /\ username = None
  /\ authPrompt = FALSE /\ settled = FALSE
  /\ notifiedUp = FALSE /\ shutdownRequested = FALSE
  /\ pc = [t \in Threads |-> IF t = Worker(0) THEN (IF Adopt THEN "socket" ELSE "done")
                                              ELSE "idle"]
  /\ post = [t \in Threads |-> NoPost]
  /\ held = [t \in Threads |-> NoHeld]
  /\ link = [c \in Ids |-> NoLink]
  /\ daemon \in IF Adopt THEN {[NoDaemon EXCEPT !.id = 0, !.phase = p] : p \in Phases}
                         ELSE {NoDaemon}
  /\ session = None
  /\ rows = [a \in Ids |-> NoRow]
  /\ told = "nothing"
  /\ sent = {}
  /\ asked = [a \in Ids |-> 0]

WorkerStep(a) ==
  \/ Launch(a) \/ OpenSocket(a) \/ AdoptClient(a) \/ Authenticate(a) \/ Prime(a)
  \/ WaitTimeout(a) \/ Answered(a) \/ Settle(a) \/ Superseded(a) \/ Report(a)
  \/ AbortDaemon(a) \/ Finish(a)

AttachStep ==
  \/ OpenSocket(0) \/ AdoptClient(0) \/ AttachSession \/ AttachStatus \/ AttachRefresh
  \/ AttachEnd

DispatcherStep(c) ==
  \/ OnConnected(c) \/ OnExiting(c) \/ OnProgress(c) \/ OnFatal(c) \/ OnNeed(c)
  \/ AnswerNeed(c) \/ OnSocketClosed(c)

StopStep == DisconnectSignal \/ DisconnectStop \/ DisconnectDone

OvpnStep == OvpnAsks \/ OvpnConnects \/ OvpnConnected \/ OvpnReconnects \/ OvpnExits

Next ==
  \/ Connect
  \/ Disconnect
  \/ StopStep
  \/ AttachStep
  \/ \E a \in Attempts : WorkerStep(a)
  \/ \E c \in Ids : DispatcherStep(c)
  \/ \E t \in Threads : Announce(t)
  \/ OvpnStep

Spec == Init /\ [][Next]_vars

Fairness ==
  /\ \A a \in Attempts : WF_vars(WorkerStep(a))
  /\ \A c \in Ids : WF_vars(DispatcherStep(c))
  /\ \A t \in Threads : WF_vars(Announce(t))
  /\ WF_vars(AttachStep)
  /\ WF_vars(StopStep)
  /\ WF_vars(daemon.term /\ OvpnExits)

FairSpec == Spec /\ Fairness

TypeOK ==
  /\ status \in Status
  /\ attempt \in Ids
  /\ client \in OrNone(Ids)
  /\ secret \in OrNone(Attempts)
  /\ username \in OrNone(Attempts)
  /\ authPrompt \in BOOLEAN /\ settled \in BOOLEAN
  /\ notifiedUp \in BOOLEAN /\ shutdownRequested \in BOOLEAN
  /\ pc \in [Threads -> Labels]
  /\ post \in [Threads -> Transition]
  /\ held \in [Threads -> [secret : OrNone(Attempts), client : OrNone(Ids)]]
  /\ link \in [Ids -> Link]
  /\ daemon \in Daemon
  /\ session \in OrNone(Ids)
  /\ rows \in [Ids -> Row]
  /\ told \in {"nothing", "up", "adopted", "operator-requested", "link-lost"}
  /\ sent \subseteq OrNone(Ids) \X OrNone(Attempts) \X OrNone(Attempts)
  /\ asked \in [Ids -> Nat]

-----------------------------------------------------------------------------
(* Safety.                                                                 *)

\* A "tunnel down" is recorded and notified only for a tunnel the operator was
\* told is up, or one the application found running (_notified_up "gates the
\* matching down", openvpn.py:146).  Whatever the interleaving.
NeverDownUntold ==
  [][told' \in {"operator-requested", "link-lost"} /\ told' # told
       => told \in {"up", "adopted"}]_vars

\* OpenVPN is answered with the password, the code and the user name of the
\* attempt that launched it.
OwnCredential == \A s \in sent : s[1] = s[2] /\ s[2] = s[3]

\* No credential outlives the worker of the attempt it was typed for
\* (the finally clause of _connect_worker).
SecretGone == pc[Worker(attempt)] = "done" => secret = None

\* Once every thread has come to rest and no OpenVPN is left, the last thing the
\* operator was told is not that the tunnel is up.
DropAnnounced == Quiet /\ ~Running => told # "up"

\* An attempt that is over has its row closed: it does not wait for the next
\* attempt to close it as "interrupted".
RowClosed == Quiet /\ ~Running => session = None

\* A tunnel is reported as stopped by the operator only in an attempt in which
\* disconnect() was called (_shutdown_requested is "set by disconnect(); the only
\* thing distinguishing a deliberate stop from a drop", openvpn.py:149).
OnlyOperatorStops ==
  [][told' = "operator-requested" /\ told' # told => asked[attempt] > 0]_vars

\* While the status says that OpenVPN is stopped, none is started: only another
\* connect() does that, and it says "starting" first (disconnect() sets the detail
\* "OpenVPN stopped.", openvpn.py:284).
StoppedStaysStopped ==
  [][status.state = "disconnected" => daemon'.id \in {daemon.id, None}]_vars

\* "A worker that has been replaced must stay quiet" (_superseded): it moves
\* neither the status nor the connection nor the credential of its successor.
SupersededStaysQuiet ==
  [][\A a \in Attempts :
       a < attempt /\ pc'[Worker(a)] # pc[Worker(a)]
         => UNCHANGED <<status, client, auth>>]_vars

-----------------------------------------------------------------------------
(* Refinement: what the session history shows is an AttemptLog.            *)

\* _kind() of app/services/sessions.py, on the row of attempt a.
Kind(a) ==
  LET row == rows[a] IN
  IF row.outcome = "none" THEN "none"
  ELSE IF session = a THEN (IF row.up THEN "up" ELSE "trying")
  ELSE IF row.reason = "link-lost" THEN "dropped"
  ELSE IF row.reason = "operator-requested" THEN "disconnected"
  ELSE IF row.outcome \in {"open", "interrupted"} THEN "interrupted"
  ELSE IF ~row.up THEN "failed"
  ELSE "ended"

Log == INSTANCE AttemptLog WITH AttemptIds <- Ids, ending <- [a \in Ids |-> Kind(a)]

\* Every attempt has one ending and it says what happened to the tunnel.
ImplementsAttemptLog == Log!Spec

-----------------------------------------------------------------------------
(* Liveness, under FairSpec.                                               *)

\* A worker thread never sleeps for ever: every wait has a time limit.
WorkersFinish ==
  \A a \in Attempts : (pc[Worker(a)] # "idle") ~> (pc[Worker(a)] = "done")

\* When OpenVPN is gone the status does not go on saying "connected".
StatusTellsTruth == (~Running /\ status.state = "connected") ~> (status.state # "connected")

\* A status that refuses new attempts does not last.
BusyResolves == (status.state \in BusyStates) ~> (status.state \notin BusyStates)
=============================================================================
