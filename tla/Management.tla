----------------------------- MODULE Management -----------------------------
(***************************************************************************)
(* The client of OpenVPN's management socket (services/management.py).     *)
(* Threads issue commands under a lock and take the replies from a queue;  *)
(* a reader thread sorts what arrives into replies and notifications; a    *)
(* dispatcher thread hands the notifications to a handler, which may issue *)
(* commands itself.  OpenVPN's side of the socket is external.             *)
(***************************************************************************)
EXTENDS Integers, Sequences, SequencesExt

CONSTANTS
  Callers,       \* threads that issue commands
  Dispatcher,    \* the thread that runs the handler
  Nobody,        \* nobody holds the lock
  MaxCommands,   \* bound: commands issued
  MaxNotices     \* bound: notifications sent

ASSUME ManagementAssumption ==
  /\ Dispatcher \notin Callers /\ Nobody \notin Callers \union {Dispatcher}
  /\ MaxCommands \in Nat /\ MaxNotices \in Nat

Threads == Callers \union {Dispatcher}

VARIABLES
  closed,      \* _closed
  open,        \* _sock is there
  closing,     \* close() has been called
  lock,        \* who holds _send_lock
  call,        \* what each thread's command() is at
  responses,   \* _responses
  events,      \* _events
  reader,      \* the reader thread is running
  handling,    \* the notification the dispatcher is at; "none", or "ended"
  alive,       \* OpenVPN is there (external)
  toVpn,       \* commands on their way to it (external)
  toApp,       \* lines on their way to the reader (external)
  commands,    \* how many commands there were: names the next
  notices,     \* how many notifications there were
  announced    \* the handler has been told DISCONNECTED (history)

local  == <<closed, open, closing, lock, call, responses, events, reader, handling>>
peer   == <<alive, toVpn, toApp>>
counts == <<commands, notices, announced>>
vars   == <<local, peer, counts>>

\* cmd names the command; got: whose lines it has collected; behind: commands
\* given up whose replies were still to come when it began (history).
NoCall == [at |-> "idle", cmd |-> 0, got |-> {}, behind |-> {}]

Calling(t, step) == call[t].at = step
Turn(t, record)  == call' = [call EXCEPT ![t] = record]

\* A line: a line of a reply and its command, or a notification.
Line(kind, cmd) == [kind |-> kind, cmd |-> cmd]
EOF             == Line("eof", 0)

\* "end" stands for SUCCESS, ERROR and END alike: each ends the command.
Replies == {<<"end">>, <<"line", "end">>}
Notices == {"state", "password"}

-----------------------------------------------------------------------------
(* command().                                                              *)

\* is_open, before the lock.  The dispatcher issues commands while its handler
\* answers a prompt.
Begin(t) ==
  /\ Calling(t, "idle") /\ ~closed /\ open
  /\ t = Dispatcher => handling = "password"
  /\ commands < MaxCommands
  /\ commands' = commands + 1
  /\ Turn(t, [NoCall EXCEPT !.at = "lock", !.cmd = commands + 1])
  /\ UNCHANGED <<closed, open, closing, lock, responses, events, reader, handling, peer, notices, announced>>

\* Commands whose replies have not reached the queue.
Unanswered ==
  ({toVpn[i] : i \in DOMAIN toVpn} \union {toApp[i].cmd : i \in DOMAIN toApp}) \ {0}

\* Deliberate fault: what is in the queue stays there.
LockOnly(t) ==
  /\ Calling(t, "lock") /\ lock = Nobody
  /\ lock' = t
  /\ Turn(t, [call[t] EXCEPT !.at = "write", !.behind = Unanswered])
  /\ UNCHANGED <<closed, open, closing, responses, events, reader, handling, peer, counts>>

\* The lock, and _drain().
Lock(t) ==
  /\ Calling(t, "lock") /\ lock = Nobody
  /\ lock' = t
  /\ responses' = <<>>
  /\ Turn(t, [call[t] EXCEPT !.at = "write", !.behind = Unanswered])
  /\ UNCHANGED <<closed, open, closing, events, reader, handling, peer, counts>>

\* It returns or raises.
Finish(t) == Turn(t, NoCall) /\ lock' = Nobody

Write(t) ==
  /\ Calling(t, "write")
  /\ IF open /\ alive
       THEN /\ toVpn' = Append(toVpn, call[t].cmd)
            /\ Turn(t, [call[t] EXCEPT !.at = "wait"])
            /\ UNCHANGED lock
       ELSE Finish(t) /\ UNCHANGED toVpn
  /\ UNCHANGED <<closed, open, closing, responses, events, reader, handling, alive, toApp, counts>>

\* A reply line.  END, SUCCESS and ERROR end the command, and so does the end of
\* the connection.
Take(t) ==
  /\ Calling(t, "wait") /\ responses # <<>>
  /\ responses' = Tail(responses)
  /\ LET reply == Head(responses)
     IN  IF reply = EOF THEN Finish(t)
         ELSE IF reply.kind = "end"
           THEN /\ Turn(t, [call[t] EXCEPT !.at = "done", !.got = @ \union {reply.cmd}])
                /\ lock' = Nobody
         ELSE Turn(t, [call[t] EXCEPT !.got = @ \union {reply.cmd}]) /\ UNCHANGED lock
  /\ UNCHANGED <<closed, open, closing, events, reader, handling, peer, counts>>

\* Deliberate fault: the lock is not given back.
TimeOutLocked(t) ==
  /\ Calling(t, "wait") /\ responses = <<>>
  /\ Turn(t, NoCall)
  /\ UNCHANGED <<closed, open, closing, lock, responses, events, reader, handling, peer, counts>>

\* Nothing has come for as long as the timeout: its reply may still.
TimeOut(t) ==
  /\ Calling(t, "wait") /\ responses = <<>>
  /\ Finish(t)
  /\ UNCHANGED <<closed, open, closing, responses, events, reader, handling, peer, counts>>

\* The caller has the lines, or the error.
Return(t) ==
  /\ Calling(t, "done")
  /\ Turn(t, NoCall)
  /\ UNCHANGED <<closed, open, closing, lock, responses, events, reader, handling, peer, counts>>

-----------------------------------------------------------------------------
(* The threads, and close().                                               *)

\* Deliberate fault: the reader runs the handler itself.
ReadInline ==
  /\ reader /\ toApp # <<>> /\ events = <<>> /\ handling = "none"
  /\ toApp' = Tail(toApp)
  /\ LET line == Head(toApp)
     IN  IF line.kind \in Notices
           THEN events' = Append(events, line.kind) /\ UNCHANGED responses
           ELSE responses' = Append(responses, line) /\ UNCHANGED events
  /\ UNCHANGED <<closed, open, closing, lock, call, reader, handling, alive, toVpn, counts>>

\* _dispatch() of one line.
Read ==
  /\ reader /\ toApp # <<>>
  /\ toApp' = Tail(toApp)
  /\ LET line == Head(toApp)
     IN  IF line.kind \in Notices
           THEN events' = Append(events, line.kind) /\ UNCHANGED responses
           ELSE responses' = Append(responses, line) /\ UNCHANGED events
  /\ UNCHANGED <<closed, open, closing, lock, call, reader, handling, alive, toVpn, counts>>

\* Deliberate fault: the thread that ends ends the dispatcher before it tells.
ReaderEndsFirst ==
  /\ reader /\ (closed \/ (~alive /\ toApp = <<>>))
  /\ reader' = FALSE /\ closed' = TRUE
  /\ responses' = Append(responses, EOF)
  /\ events' = events \o <<"end", "disconnected">>
  /\ UNCHANGED <<open, closing, lock, call, handling, peer, counts>>

\* The loop ends with the connection, or where it finds it closed.
ReaderEnds ==
  /\ reader /\ (closed \/ (~alive /\ toApp = <<>>))
  /\ reader' = FALSE /\ closed' = TRUE
  /\ responses' = Append(responses, EOF)
  /\ events' = events \o <<"disconnected", "end">>
  /\ UNCHANGED <<open, closing, lock, call, handling, peer, counts>>

\* _dispatch_loop() takes the next notification.
Dispatch ==
  /\ handling = "none" /\ events # <<>>
  /\ events' = Tail(events)
  /\ handling' = IF Head(events) = "end" THEN "ended" ELSE Head(events)
  /\ UNCHANGED <<closed, open, closing, lock, call, responses, reader, peer, counts>>

\* The handler returns, its commands behind it.
Handled ==
  /\ handling \in Notices \union {"disconnected"} /\ Calling(Dispatcher, "idle")
  /\ handling' = "none"
  /\ announced' = (announced \/ handling = "disconnected")
  /\ UNCHANGED <<closed, open, closing, lock, call, responses, events, reader, peer, commands, notices>>

\* close(): the flag and the dispatcher's end first, then the socket.
Close ==
  /\ ~closing
  /\ closing' = TRUE /\ closed' = TRUE
  /\ events' = Append(events, "end")
  /\ UNCHANGED <<open, lock, call, responses, reader, handling, peer, counts>>

ShutDown ==
  /\ closing /\ open
  /\ open' = FALSE /\ alive' = FALSE
  /\ toVpn' = <<>> /\ toApp' = <<>>
  /\ UNCHANGED <<closed, closing, lock, call, responses, events, reader, handling, counts>>

-----------------------------------------------------------------------------
(* OpenVPN (external).                                                     *)

\* It answers commands in their order, each with its lines.
VpnReplies ==
  /\ alive /\ toVpn # <<>>
  /\ toVpn' = Tail(toVpn)
  /\ \E lines \in Replies :
       toApp' = toApp \o [i \in DOMAIN lines |-> Line(lines[i], Head(toVpn))]
  /\ UNCHANGED <<local, alive, counts>>

VpnNotifies ==
  /\ alive /\ notices < MaxNotices
  /\ notices' = notices + 1
  /\ \E kind \in Notices : toApp' = Append(toApp, Line(kind, 0))
  /\ UNCHANGED <<local, alive, toVpn, commands, announced>>

\* It exits: what it has sent can still be read.
VpnExits ==
  /\ alive
  /\ alive' = FALSE /\ toVpn' = <<>>
  /\ UNCHANGED <<local, toApp, counts>>

-----------------------------------------------------------------------------

\* connect() has succeeded.
Init ==
  /\ closed = FALSE /\ open = TRUE /\ closing = FALSE /\ lock = Nobody
  /\ call = [t \in Threads |-> NoCall]
  /\ responses = <<>> /\ events = <<>>
  /\ reader = TRUE /\ handling = "none"
  /\ alive = TRUE /\ toVpn = <<>> /\ toApp = <<>>
  /\ commands = 0 /\ notices = 0 /\ announced = FALSE

Continue(t) == Lock(t) \/ Write(t) \/ Take(t) \/ Return(t)

Work == Read \/ ReaderEnds

Next ==
  \/ \E t \in Threads : Begin(t) \/ Continue(t) \/ TimeOut(t)
  \/ Work \/ Dispatch \/ Handled \/ Close \/ ShutDown
  \/ VpnReplies \/ VpnNotifies \/ VpnExits

\* Threads that can run do; a lock that stays free is taken; OpenVPN answers.  Nothing says that anything times out.
Fairness ==
  /\ \A t \in Threads : WF_vars(Continue(t))
  /\ WF_vars(Work) /\ WF_vars(Dispatch) /\ WF_vars(Handled)
  /\ WF_vars(VpnReplies)

Spec == Init /\ [][Next]_vars /\ Fairness

-----------------------------------------------------------------------------
(* Properties.                                                             *)

Lines == {Line(k, c) : k \in {"line", "end"}, c \in 1 .. MaxCommands}
           \union {Line(k, 0) : k \in Notices}

\* Every variable holds values of its kind, and who waits holds the lock.
TypeOK ==
  /\ closed \in BOOLEAN /\ open \in BOOLEAN /\ reader \in BOOLEAN /\ alive \in BOOLEAN
  /\ closing \in BOOLEAN /\ announced \in BOOLEAN
  /\ lock \in Threads \union {Nobody}
  /\ call \in [Threads -> [at : {"idle", "lock", "write", "wait", "done"}, cmd : 0 .. MaxCommands,
                           got : SUBSET (1 .. MaxCommands), behind : SUBSET (1 .. MaxCommands)]]
  /\ responses \in Seq(Lines \union {EOF}) /\ toApp \in Seq(Lines)
  /\ toVpn \in Seq(1 .. MaxCommands)
  /\ events \in Seq(Notices \union {"disconnected", "end"})
  /\ handling \in Notices \union {"none", "disconnected", "ended"}
  /\ \A t \in Threads : call[t].at \in {"write", "wait"} <=> lock = t

\* A command takes for its own only its own reply, or the late one of a command
\* that was given up and had not been answered when this one began: what came
\* before that is drained, and nobody takes lines that belong to a command that
\* is still waiting.
RepliesMatch ==
  \A t \in Threads : call[t].got \subseteq {call[t].cmd} \union call[t].behind

\* No command needs its timeout while OpenVPN answers, or once it has gone: not
\* even one that a handler issues, for which the dispatcher is there.  Only
\* close() can make one wait for it, when the reader has gone before the socket.
EveryCommandAnswered ==
  \A t \in Threads : call[t].at \in {"lock", "write", "wait"} ~> call[t].at = "idle" \/ closing

\* When OpenVPN goes, the handler is told, after all it was told before --
\* unless the client closes the connection itself.
LossAnnounced == ~alive /\ open ~> announced \/ closing
=============================================================================
