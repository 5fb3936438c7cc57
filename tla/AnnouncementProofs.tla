------------------------- MODULE AnnouncementProofs -------------------------
(***************************************************************************)
(* What is announced and recorded, for any number of attempts and any      *)
(* bounds: nothing is announced as down that was not announced as up,      *)
(* every end of a tunnel is announced, the session history is an           *)
(* AttemptLog, and a stop is blamed on the operator only when disconnect() *)
(* was called.  Each part says in which environments it holds.             *)
(***************************************************************************)
EXTENDS ControllerProofs

-----------------------------------------------------------------------------
(* Nothing is announced as down that was not announced as up, with any     *)
(* hazards, whether or not a tunnel is adopted at start-up.                *)
(*                                                                         *)
(* _announce() keeps _notified_up in step with what was told; only         *)
(* attach() sets the flag by other means, from the status it reads at its  *)
(* end.  So the argument is about start-up: while attach() runs, nothing   *)
(* but its thread and the dispatcher of its connection move, and a tunnel  *)
(* whose end was announced by then is one whose connection has closed,     *)
(* which no later notification or reply can report as connected.           *)

Downs == {"operator-requested", "link-lost"}

\* A raised flag is matched by something told.
Told == notifiedUp => told \in {"up", "adopted"}

AttachLabels ==
  {"socket", "adopt", "attach", "reattach", "refresh", "announce", "reattached"}

\* While attach() runs nothing else does, except the dispatcher of connection 0.
AttachOnly ==
  /\ pc[Worker(0)] \in AttachLabels
  /\ pc[Dispatcher(0)] \in {"idle", "announce"}
  /\ pc[Operator] = "idle"
  /\ \A a \in Attempts :
       pc[Worker(a)] = "idle" /\ pc[Dispatcher(a)] = "idle" /\ link[a] = NoLink
  /\ secret = None
  /\ status.state # "disconnecting" /\ post[Dispatcher(0)].before # "disconnecting"
  /\ pc[Worker(0)] = "announce" => post[Worker(0)].after = "connected"
  /\ pc[Worker(0)] = "socket" =>
       /\ link[0] = NoLink
       /\ pc[Dispatcher(0)] = "idle"
       /\ status.state # "connected"
       /\ told = "nothing"

LastWords == {"exiting", "fatal", "rejected", "eof"}

\* What the queue of connection 0 says of the process and the status: last words
\* come last, and a credential is asked for only after a "progress" that took the
\* status away from connected.
Conversation ==
  LET q == link[0].queue IN
  /\ link[0].open => Running /\ link[0].daemon = daemon.id /\ link[0].served
  /\ \A i \in 1 .. Len(q) : q[i] \in LastWords =>
       ~link[0].open /\ \A j \in 1 .. Len(q) : i <= j => q[j] # "connected"
  /\ \A i \in 1 .. Len(q) : q[i] = "need" =>
       /\ link[0].open => daemon.phase = "prompted"
       /\ i = 1 => status.state # "connected"
       /\ i > 1 => q[i - 1] = "progress"
  /\ link[0].open /\ daemon.phase = "asking" =>
       /\ Len(q) = 0 => status.state # "connected"
       /\ Len(q) > 0 => q[Len(q)] = "progress"

\* Connection 0 is closed and has no "connected" to deliver.
Gone == ~link[0].open /\ \A i \in 1 .. Len(link[0].queue) : link[0].queue[i] # "connected"

\* The dispatcher is about to announce that a tunnel went down.
GoingDown ==
  /\ pc[Dispatcher(0)] = "announce"
  /\ post[Dispatcher(0)].before = "connected"
  /\ post[Dispatcher(0)].after \in DownStates

\* A tunnel that was announced down during attach() is gone, and stays so.
Ended ==
  /\ told \in Downs \/ GoingDown => Gone
  /\ pc[Worker(0)] \in {"refresh", "announce", "reattached"} =>
       /\ told # "nothing"
       /\ told \in Downs \/ GoingDown => status.state # "connected"

AttachInv == pc[Worker(0)] # "done" => AttachOnly /\ Conversation /\ Ended

ToldInv == Told /\ AttachInv

-----------------------------------------------------------------------------
(* Threads and queues.                                                     *)

LEMMA QueueType ==
  ASSUME TypeOK
  PROVE  /\ link[0].queue \in Seq(Events) /\ link[0].open \in BOOLEAN /\ link[0] \in Link
         /\ Len(link[0].queue) \in Nat
         /\ link \in [Ids -> Link] /\ daemon \in Daemon
<1>1. link[0] \in Link
  BY Identities DEF TypeOK
<1>2. link[0].queue \in Seq(Events) /\ link[0].open \in BOOLEAN
  BY <1>1 DEF Link
<1> QED
  BY <1>1, <1>2 DEF TypeOK

\* What taking a notification off connection 0 does to it.
LEMMA TakeFacts ==
  ASSUME TypeOK, NEW e, Take(0, e)
  PROVE  LET q == link[0].queue
             r == link'[0].queue
         IN  /\ pc[Dispatcher(0)] = "idle"
             /\ Len(q) \in Nat /\ Len(q) > 0 /\ q[1] = e
             /\ Len(r) = Len(q) - 1
             /\ \A i \in 1 .. Len(r) : r[i] = q[i + 1]
             /\ link'[0].open = link[0].open
             /\ link'[0].daemon = link[0].daemon
             /\ link'[0].served = link[0].served
             /\ \A a \in Attempts : link'[a] = link[a]
<1> DEFINE q == link[0].queue
           r == link'[0].queue
<1>1. q \in Seq(Events) /\ q # <<>> /\ Head(q) = e
  BY QueueType DEF Take
<1>2. Len(q) \in Nat /\ Len(q) > 0 /\ q[1] = e
  BY <1>1
<1>3. link' = [link EXCEPT ![0].queue = Tail(@)]
  BY DEF Take
<1>4. r = Tail(q) /\ link'[0].open = link[0].open /\ link'[0].daemon = link[0].daemon
      /\ link'[0].served = link[0].served
  BY <1>3, QueueType, Identities DEF Link
<1>5. \A a \in Attempts : link'[a] = link[a]
  BY <1>3, QueueType, Identities, DistinctThreads
<1>6. Len(r) = Len(q) - 1 /\ \A i \in 1 .. Len(r) : r[i] = q[i + 1]
  BY <1>1, <1>4
<1>7. pc[Dispatcher(0)] = "idle"
  BY DEF Take, At
<1> QED
  BY <1>2, <1>4, <1>5, <1>6, <1>7

\* Taking a notification keeps the conversation in order, as long as "progress"
\* leaves the status other than connected.
LEMMA TakeConversation ==
  ASSUME TypeOK, Conversation, NEW e, Take(0, e), UNCHANGED daemon,
         e = "progress" => status'.state # "connected"
  PROVE  Conversation'
<1> DEFINE q == link[0].queue
           r == link'[0].queue
<1>1. /\ Len(q) \in Nat /\ Len(q) > 0 /\ q[1] = e
      /\ Len(r) = Len(q) - 1
      /\ \A i \in 1 .. Len(r) : r[i] = q[i + 1]
      /\ link'[0].open = link[0].open
      /\ link'[0].daemon = link[0].daemon
      /\ link'[0].served = link[0].served
  BY TakeFacts
<1>2. link'[0].open => Running' /\ link'[0].daemon = daemon'.id /\ link'[0].served
  BY <1>1 DEF Conversation, Running
<1>3. \A i \in 1 .. Len(r) : r[i] \in LastWords =>
        ~link'[0].open /\ \A j \in 1 .. Len(r) : i <= j => r[j] # "connected"
  <2> SUFFICES ASSUME NEW i \in 1 .. Len(r), r[i] \in LastWords
               PROVE  ~link'[0].open /\ \A j \in 1 .. Len(r) : i <= j => r[j] # "connected"
    OBVIOUS
  <2>1. i + 1 \in 1 .. Len(q) /\ q[i + 1] \in LastWords
    BY <1>1
  <2>2. ~link[0].open /\ \A j \in 1 .. Len(q) : i + 1 <= j => q[j] # "connected"
    BY <2>1 DEF Conversation
  <2>3. ASSUME NEW j \in 1 .. Len(r), i <= j PROVE r[j] # "connected"
    <3> HIDE DEF q, r
    <3>1. Len(q) \in Nat /\ Len(r) = Len(q) - 1 /\ r[j] = q[j + 1]
      BY <1>1
    <3>2. j + 1 \in 1 .. Len(q) /\ i + 1 <= j + 1
      BY <2>3, <3>1
    <3> QED
      BY <2>2, <3>1, <3>2 DEF q
  <2> QED
    BY <1>1, <2>2, <2>3
<1>4. \A i \in 1 .. Len(r) : r[i] = "need" =>
        /\ link'[0].open => daemon'.phase = "prompted"
        /\ i = 1 => status'.state # "connected"
        /\ i > 1 => r[i - 1] = "progress"
  <2> SUFFICES ASSUME NEW i \in 1 .. Len(r), r[i] = "need"
               PROVE  /\ link'[0].open => daemon'.phase = "prompted"
                      /\ i = 1 => status'.state # "connected"
                      /\ i > 1 => r[i - 1] = "progress"
    OBVIOUS
  <2>1. i + 1 \in 1 .. Len(q) /\ q[i + 1] = "need" /\ i + 1 > 1 /\ (i + 1) - 1 = i
    BY SMTT(30), <1>1
  <2>2. (link[0].open => daemon.phase = "prompted") /\ q[i] = "progress"
    BY <2>1 DEF Conversation
  <2>3. i > 1 => r[i - 1] = q[i]
    <3> SUFFICES ASSUME i > 1 PROVE r[i - 1] = q[i]
      OBVIOUS
    <3>1. i - 1 \in 1 .. Len(r) /\ (i - 1) + 1 = i
      BY <1>1
    <3> QED
      BY <1>1, <3>1
  <2> QED
    BY <1>1, <2>2, <2>3
<1>5. link'[0].open /\ daemon'.phase = "asking" =>
        /\ Len(r) = 0 => status'.state # "connected"
        /\ Len(r) > 0 => r[Len(r)] = "progress"
  <2> SUFFICES ASSUME link'[0].open, daemon'.phase = "asking"
               PROVE  /\ Len(r) = 0 => status'.state # "connected"
                      /\ Len(r) > 0 => r[Len(r)] = "progress"
    OBVIOUS
  <2>1. q[Len(q)] = "progress"
    BY <1>1 DEF Conversation
  <2>2. CASE Len(r) = 0
    BY <1>1, <2>1, <2>2
  <2>3. CASE Len(r) > 0
    <3>1. Len(r) \in 1 .. Len(r) /\ Len(r) + 1 = Len(q)
      BY <1>1, <2>3
    <3> QED
      BY SMTT(30), <1>1, <2>1, <2>3, <3>1
  <2> QED
    BY <1>1, <2>2, <2>3
<1> QED
  BY <1>2, <1>3, <1>4, <1>5 DEF Conversation

\* A closed connection without "connected" stays one; last words leave such a one.
LEMMA TakeGone ==
  ASSUME TypeOK, Conversation, NEW e, Take(0, e)
  PROVE  /\ Gone => Gone' /\ e # "connected"
         /\ e \in LastWords => Gone'
<1> DEFINE q == link[0].queue
           r == link'[0].queue
<1>1. /\ Len(q) \in Nat /\ Len(q) > 0 /\ q[1] = e
      /\ Len(r) = Len(q) - 1
      /\ \A i \in 1 .. Len(r) : r[i] = q[i + 1]
      /\ link'[0].open = link[0].open
  BY TakeFacts
<1>2. 1 \in 1 .. Len(q) /\ \A i \in 1 .. Len(r) : i + 1 \in 1 .. Len(q) /\ 1 <= i + 1
  BY <1>1
<1>3. ASSUME Gone PROVE Gone' /\ e # "connected"
  BY <1>1, <1>2, <1>3 DEF Gone
<1>4. ASSUME e \in LastWords PROVE Gone'
  <2>1. ~link[0].open /\ \A j \in 1 .. Len(q) : 1 <= j => q[j] # "connected"
    BY <1>1, <1>2, <1>4 DEF Conversation
  <2> QED
    BY <1>1, <1>2, <2>1 DEF Gone
<1> QED
  BY <1>3, <1>4

-----------------------------------------------------------------------------
(* A notification delivered while attach() runs.                           *)

\* Waking moves nobody who is not waiting.
LEMMA WakeLeaves ==
  ASSUME TypeOK, NEW t \in Threads, pc[t] \notin {"waitAuth", "waitSettled"}
  PROVE  /\ Wake(pc, "waitAuth", "answered")[t] = pc[t]
         /\ Wake(pc, "waitSettled", "settled")[t] = pc[t]
BY DEF Wake

LEMMA WakeBothLeaves ==
  ASSUME NEW p \in [Threads -> Labels], NEW t \in Threads,
         p[t] \notin {"waitAuth", "waitSettled"}
  PROVE  WakeBoth(p)[t] = p[t]
BY DEF Wake, WakeBoth

\* The dispatcher's step leaves attach() alone with it.
LEMMA DispatcherAlone ==
  ASSUME TypeOK, AttachOnly, NEW e, Take(0, e),
         pc'[Dispatcher(0)] \in {"idle", "announce"},
         \A t \in Threads \ {Dispatcher(0)} :
           pc[t] \notin {"waitAuth", "waitSettled"} => pc'[t] = pc[t],
         secret' = None, status'.state # "disconnecting",
         post'[Worker(0)] = post[Worker(0)],
         post'[Dispatcher(0)].before # "disconnecting"
  PROVE  AttachOnly' /\ pc'[Worker(0)] = pc[Worker(0)]
<1> USE Identities, DistinctThreads
<1>1. pc'[Worker(0)] = pc[Worker(0)] /\ pc'[Operator] = pc[Operator]
  BY DEF AttachOnly, AttachLabels
<1>2. \A a \in Attempts : pc'[Worker(a)] = "idle" /\ pc'[Dispatcher(a)] = "idle"
                          /\ link'[a] = NoLink
  BY TakeFacts DEF AttachOnly
<1>3. pc[Worker(0)] # "socket"
  <2>1. Len(link[0].queue) > 0
    BY TakeFacts
  <2>2. link[0] = NoLink => Len(link[0].queue) = 0
    BY DEF NoLink
  <2> QED
    BY <2>1, <2>2 DEF AttachOnly
<1> QED
  BY <1>1, <1>2, <1>3 DEF AttachOnly

\* Its transition does not bring back a tunnel that has gone.
LEMMA DispatcherEnded ==
  ASSUME TypeOK, Conversation, Ended, NEW e, Take(0, e), UNCHANGED told,
         pc'[Worker(0)] = pc[Worker(0)],
         GoingDown' => e \in LastWords,
         status'.state = "connected" => e = "connected"
  PROVE  Ended'
<1>1. Gone => Gone' /\ e # "connected"
  BY TakeGone
<1>2. e \in LastWords => Gone'
  BY TakeGone
<1>3. GoingDown' => e # "connected"
  BY DEF LastWords
<1> QED
  BY <1>1, <1>2, <1>3 DEF Ended

LEMMA DispatcherToldInv ==
  ASSUME TypeOK, TypeOK', ToldInv, pc[Worker(0)] # "done", DispatcherStep(0)
  PROVE  ToldInv'
<1> USE Identities, DistinctThreads
<1>1. AttachOnly /\ Conversation /\ Ended /\ Told
  BY DEF ToldInv, AttachInv
<1>2. \A t \in Threads : pc[t] \notin {"waitAuth", "waitSettled"} =>
        /\ Wake(pc, "waitAuth", "answered")[t] = pc[t]
        /\ Wake(pc, "waitSettled", "settled")[t] = pc[t]
  BY WakeLeaves
<1>3. pc \in [Threads -> Labels] /\ post \in [Threads -> Transition] /\ status \in Status
  BY DEF TypeOK
<1>4. ASSUME NEW e, Take(0, e), UNCHANGED <<notifiedUp, told, daemon>>,
             pc'[Dispatcher(0)] \in {"idle", "announce"},
             \A t \in Threads \ {Dispatcher(0)} :
               pc[t] \notin {"waitAuth", "waitSettled"} => pc'[t] = pc[t],
             secret' = None, status'.state # "disconnecting",
             post'[Worker(0)] = post[Worker(0)],
             post'[Dispatcher(0)].before # "disconnecting",
             GoingDown' => e \in LastWords,
             status'.state = "connected" => e = "connected"
      PROVE  ToldInv'
  <2>1. AttachOnly' /\ pc'[Worker(0)] = pc[Worker(0)]
    BY <1>1, <1>4, DispatcherAlone
  <2>2. Ended'
    BY <1>1, <1>4, <2>1, DispatcherEnded
  <2>3. Conversation'
    BY <1>1, <1>4, TakeConversation
  <2> QED
    BY <1>1, <1>4, <2>1, <2>2, <2>3 DEF ToldInv, AttachInv, Told
<1>5. ASSUME NEW new, NEW wake, Track(Dispatcher(0), new, wake)
      PROVE  /\ status' = new
             /\ post'[Dispatcher(0)].before = status.state
             /\ post'[Dispatcher(0)].after = new.state
             /\ post'[Worker(0)] = post[Worker(0)]
  BY <1>3, <1>5 DEF Track
<1>6. secret = None /\ status.state # "disconnecting" /\ pc[Dispatcher(0)] # "answer"
      /\ post[Dispatcher(0)].before # "disconnecting"
  BY <1>1 DEF AttachOnly
<1>7. CASE OnConnected(0)
  <2> DEFINE new == [state |-> "connected", error |-> FALSE]
  <2>1. Take(0, "connected") /\ UNCHANGED <<notifiedUp, told, daemon, secret>>
        /\ Track(Dispatcher(0), new, FALSE)
        /\ pc' = [Wake(pc, "waitSettled", "settled") EXCEPT ![Dispatcher(0)] = "announce"]
    BY <1>7 DEF OnConnected, auth, history
  <2>5. new.state = "connected"
    OBVIOUS
  <2> HIDE DEF new
  <2>2. post'[Dispatcher(0)].after = "connected"
        /\ post'[Dispatcher(0)].before # "disconnecting"
        /\ post'[Worker(0)] = post[Worker(0)]
    BY <1>5, <1>6, <2>1, <2>5
  <2>3. pc'[Dispatcher(0)] = "announce" /\ \A t \in Threads \ {Dispatcher(0)} :
          pc[t] \notin {"waitAuth", "waitSettled"} => pc'[t] = pc[t]
    BY <1>2, <1>3, <2>1 DEF Wake
  <2>4. ~GoingDown'
    BY <2>2 DEF GoingDown, DownStates
  <2>6. status'.state = "connected"
    BY <1>5, <2>1, <2>5
  <2> QED
    BY <1>4, <1>6, <2>1, <2>2, <2>3, <2>4, <2>6
<1>8. CASE OnExiting(0)
  <2> DEFINE new == [status EXCEPT !.state = IF status.error THEN "failed" ELSE "disconnected"]
  <2>1. Take(0, "exiting") /\ UNCHANGED <<notifiedUp, told, daemon, secret>>
        /\ Track(Dispatcher(0), new, FALSE)
        /\ pc' = [Wake(pc, "waitSettled", "settled") EXCEPT ![Dispatcher(0)] = "announce"]
    BY <1>8 DEF OnExiting, auth, history
  <2>2. new.state \in {"failed", "disconnected"}
    BY <1>3 DEF Status
  <2> HIDE DEF new
  <2>3. status' = new /\ post'[Dispatcher(0)].before # "disconnecting"
        /\ post'[Worker(0)] = post[Worker(0)]
    BY <1>5, <1>6, <2>1
  <2>4. pc'[Dispatcher(0)] = "announce" /\ \A t \in Threads \ {Dispatcher(0)} :
          pc[t] \notin {"waitAuth", "waitSettled"} => pc'[t] = pc[t]
    BY <1>2, <1>3, <2>1 DEF Wake
  <2> QED
    BY <1>4, <1>6, <2>1, <2>2, <2>3, <2>4 DEF LastWords
<1>9. CASE OnFatal(0)
  <2> DEFINE new == [state |-> "failed", error |-> TRUE]
  <2>0. new.state = "failed"
    OBVIOUS
  <2>1. PICK e \in {"fatal", "rejected"} : Take(0, e)
    BY <1>9 DEF OnFatal
  <2>2. UNCHANGED <<notifiedUp, told, daemon, secret>>
        /\ Track(Dispatcher(0), new, TRUE)
    BY <1>9 DEF OnFatal, auth, history
  <2> HIDE DEF new
  <2>3. status'.state = "failed" /\ post'[Dispatcher(0)].before # "disconnecting"
        /\ post'[Worker(0)] = post[Worker(0)]
    BY <1>5, <1>6, <2>0, <2>2
  <2>4. pc'[Dispatcher(0)] = "announce" /\ \A t \in Threads \ {Dispatcher(0)} :
          pc[t] \notin {"waitAuth", "waitSettled"} => pc'[t] = pc[t]
    BY <1>2, <1>3, <1>9 DEF OnFatal, Goto, Wake
  <2> QED
    BY <1>4, <1>6, <2>1, <2>2, <2>3, <2>4 DEF LastWords
<1>10. CASE OnSocketClosed(0)
  <2>1. Take(0, "eof") /\ UNCHANGED <<notifiedUp, told, daemon, secret>>
        /\ pc' = [pc EXCEPT ![Dispatcher(0)] = "announce"]
    BY <1>10 DEF OnSocketClosed, Goto, auth, flags, history
  <2>2. status'.state \notin {"connected", "disconnecting"}
    BY <1>3, <1>10 DEF OnSocketClosed, Track, Status, States, BusyStates, DownStates
  <2>3. post'[Dispatcher(0)].before # "disconnecting" /\ post'[Worker(0)] = post[Worker(0)]
    BY <1>5, <1>6, <1>10 DEF OnSocketClosed
  <2>4. pc'[Dispatcher(0)] = "announce" /\ \A t \in Threads \ {Dispatcher(0)} : pc'[t] = pc[t]
    BY <1>3, <2>1
  <2> QED
    BY <1>4, <1>6, <2>1, <2>2, <2>3, <2>4 DEF LastWords
<1>11. CASE OnProgress(0)
  <2>1. Take(0, "progress") /\ UNCHANGED <<notifiedUp, told, daemon, secret, pc, post>>
    BY <1>11 DEF OnProgress, auth, flags, history
  <2>2. status'.state \notin {"connected", "disconnecting"}
    BY <1>3, <1>6, <1>11 DEF OnProgress, Status, BusyStates
  <2>3. pc'[Dispatcher(0)] = "idle"
    BY <2>1 DEF Take, At
  <2>4. ~GoingDown'
    BY <2>3 DEF GoingDown
  <2> QED
    BY <1>4, <1>6, <2>1, <2>2, <2>3, <2>4
<1>12. CASE OnNeed(0)
  <2> DEFINE new == [state |-> "failed", error |-> TRUE]
  <2>0. new.state = "failed"
    OBVIOUS
  <2>1. Take(0, "need") /\ UNCHANGED <<notifiedUp, told, daemon, secret>>
        /\ Track(Dispatcher(0), new, TRUE)
        /\ pc' = [pc EXCEPT ![Dispatcher(0)] = "announce"]
    BY <1>6, <1>12 DEF OnNeed, Goto, auth, flags, history
  <2> HIDE DEF new
  <2>2. status'.state = "failed" /\ post'[Dispatcher(0)].before = status.state
        /\ post'[Worker(0)] = post[Worker(0)]
    BY <1>5, <2>0, <2>1
  <2>3. status.state # "connected"
    <3>1. Len(link[0].queue) \in Nat /\ Len(link[0].queue) > 0 /\ link[0].queue[1] = "need"
      BY <2>1, TakeFacts
    <3>2. 1 \in 1 .. Len(link[0].queue)
      BY <3>1
    <3> QED
      BY <1>1, <3>1, <3>2 DEF Conversation
  <2>4. ~GoingDown'
    BY <2>2, <2>3 DEF GoingDown
  <2>5. pc'[Dispatcher(0)] = "announce" /\ \A t \in Threads \ {Dispatcher(0)} : pc'[t] = pc[t]
    BY <1>3, <2>1
  <2> QED
    BY <1>4, <1>6, <2>1, <2>2, <2>4, <2>5
<1>13. ~AnswerNeed(0)
  BY <1>6 DEF AnswerNeed, At
<1> QED
  BY <1>7, <1>8, <1>9, <1>10, <1>11, <1>12, <1>13 DEF DispatcherStep

-----------------------------------------------------------------------------
(* Announcements made while attach() runs.                                 *)

\* Only the dispatcher of connection 0 and attach() itself have any to make.
LEMMA AttachAnnouncers ==
  ASSUME AttachOnly, NEW t \in Threads, pc[t] = "announce"
  PROVE  t = Dispatcher(0) \/ t = Worker(0)
<1>1. Ids = {0} \union Attempts
  BY ControllerAssumption DEF Ids, Attempts
<1> QED
  BY <1>1 DEF AttachOnly, Threads, Worker, Dispatcher, Operator

\* Waking the workers moves nobody: none of them waits.
LEMMA AttachWakes ==
  ASSUME TypeOK, AttachOnly, NEW t \in Threads, NEW next \in Labels,
         t \in {Worker(0), Dispatcher(0)}, Announce(t),
         next \notin {"waitAuth", "waitSettled"},
         next = IF t = Worker(0) THEN "reattached" ELSE "idle"
  PROVE  /\ pc'[t] = next
         /\ \A u \in Threads \ {t} :
              pc[u] \notin {"waitAuth", "waitSettled"} => pc'[u] = pc[u]
<1> USE Identities, DistinctThreads
<1> DEFINE moved == [pc EXCEPT ![t] = next]
<1>1. pc \in [Threads -> Labels]
  BY DEF TypeOK
<1>2. moved \in [Threads -> Labels] /\ moved[t] = next
      /\ \A u \in Threads \ {t} : moved[u] = pc[u]
  BY <1>1
<1>3. t \notin {Worker(a) : a \in Attempts}
  OBVIOUS
<1>4. pc' = IF post[t].wake THEN WakeBoth(moved) ELSE moved
  BY <1>3 DEF Announce
<1> HIDE DEF moved
<1>5. \A u \in Threads : moved[u] \notin {"waitAuth", "waitSettled"} => pc'[u] = moved[u]
  BY <1>2, <1>4, WakeBothLeaves
<1> QED
  BY <1>2, <1>5

LEMMA AnnounceToldInv ==
  ASSUME TypeOK, TypeOK', ToldInv, pc[Worker(0)] # "done", NEW t \in Threads, Announce(t)
  PROVE  ToldInv'
<1> USE Identities, DistinctThreads
<1> DEFINE p == post[t]
           next == IF t = Worker(0) THEN "reattached" ELSE "idle"
<1>1. AttachOnly /\ Conversation /\ Ended /\ Told
  BY DEF ToldInv, AttachInv
<1>2. t \in {Worker(0), Dispatcher(0)} /\ pc[t] = "announce"
  BY <1>1, AttachAnnouncers DEF Announce
<1>3. /\ pc'[t] = next
      /\ \A u \in Threads \ {t} : pc[u] \notin {"waitAuth", "waitSettled"} => pc'[u] = pc[u]
  <2>1. next \in Labels /\ next \notin {"waitAuth", "waitSettled"}
    BY DEF Labels
  <2> QED
    BY <1>1, <1>2, <2>1, AttachWakes
<1>4. post \in [Threads -> Transition]
  BY DEF TypeOK
<1>5. post'[t] = NoPost /\ \A u \in Threads \ {t} : post'[u] = post[u]
  BY <1>4 DEF Announce
<1>6. UNCHANGED <<status, secret, link, daemon>>
  BY DEF Announce, auth
<1>7. AttachOnly'
  <2>1. pc'[Operator] = "idle" /\ secret' = None /\ status'.state # "disconnecting"
    BY <1>1, <1>2, <1>3, <1>6 DEF AttachOnly
  <2>2. \A a \in Attempts : pc'[Worker(a)] = "idle" /\ pc'[Dispatcher(a)] = "idle"
                            /\ link'[a] = NoLink
    BY <1>1, <1>2, <1>3, <1>6 DEF AttachOnly
  <2>3. pc'[Worker(0)] \in AttachLabels /\ pc'[Dispatcher(0)] \in {"idle", "announce"}
    BY <1>1, <1>2, <1>3 DEF AttachOnly, AttachLabels
  <2>4. post'[Dispatcher(0)].before # "disconnecting"
    BY <1>1, <1>5 DEF AttachOnly, NoPost
  <2>5. pc'[Worker(0)] = "announce" => post'[Worker(0)].after = "connected"
    BY <1>1, <1>2, <1>3, <1>5 DEF AttachOnly, AttachLabels
  <2>6. pc'[Worker(0)] # "socket"
    BY <1>1, <1>2, <1>3 DEF AttachOnly, AttachLabels
  <2> QED
    BY <2>1, <2>2, <2>3, <2>4, <2>5, <2>6 DEF AttachOnly
<1>8. Conversation'
  BY <1>1, <1>6 DEF Conversation, Running
<1>9. Gone' = Gone
  BY <1>6 DEF Gone
<1>10. /\ told' = IF GoesUp(p) THEN "up" ELSE IF GoesDown(p) THEN Reason(p) ELSE told
       /\ notifiedUp' = ((notifiedUp \/ GoesUp(p)) /\ ~GoesDown(p))
  BY DEF Announce
<1>11. GoesDown(p) => Reason(p) \in Downs /\ t = Dispatcher(0) /\ GoingDown
  BY <1>1, <1>2 DEF GoesDown, Reason, Downs, GoingDown, AttachOnly, DownStates
<1>12. Told'
  BY <1>1, <1>10 DEF Told
<1>13. Ended'
  <2>1. told' \in Downs \/ GoingDown' => told \in Downs \/ GoingDown
    <3>1. told' \in Downs => told \in Downs \/ GoingDown
      BY <1>10, <1>11 DEF Downs
    <3>2. GoingDown' => GoingDown
      BY <1>1, <1>2, <1>3, <1>5 DEF AttachOnly, GoingDown
    <3> QED
      BY <3>1, <3>2
  <2>2. pc'[Worker(0)] \in {"refresh", "announce", "reattached"} =>
          pc[Worker(0)] \in {"refresh", "announce", "reattached"}
    BY <1>1, <1>2, <1>3 DEF AttachOnly, AttachLabels
  <2>3. told # "nothing" => told' # "nothing"
    BY <1>10, <1>11 DEF Downs
  <2> QED
    BY <1>1, <1>6, <1>9, <2>1, <2>2, <2>3 DEF Ended
<1> QED
  BY <1>7, <1>8, <1>12, <1>13 DEF ToldInv, AttachInv

-----------------------------------------------------------------------------
(* The steps of attach() itself.                                           *)

\* Its steps leave the others where they are.
LEMMA AttachStepAlone ==
  ASSUME TypeOK, AttachOnly, NEW label \in AttachLabels \ {"socket"}, Goto(Worker(0), label),
         UNCHANGED <<secret, post>>, status'.state # "disconnecting", label # "announce",
         \A a \in Attempts : link'[a] = link[a]
  PROVE  AttachOnly' /\ pc'[Worker(0)] = label /\ pc'[Dispatcher(0)] = pc[Dispatcher(0)]
<1> USE Identities, DistinctThreads
<1>1. pc \in [Threads -> Labels]
  BY DEF TypeOK
<1>2. pc'[Worker(0)] = label /\ \A t \in Threads \ {Worker(0)} : pc'[t] = pc[t]
  BY <1>1 DEF Goto
<1>3. pc'[Operator] = "idle" /\ pc'[Dispatcher(0)] = pc[Dispatcher(0)]
      /\ \A a \in Attempts : pc'[Worker(a)] = "idle" /\ pc'[Dispatcher(a)] = "idle"
  BY <1>2 DEF AttachOnly
<1> QED
  BY <1>2, <1>3 DEF AttachOnly

LEMMA OpenSocketToldInv ==
  ASSUME TypeOK, ToldInv, OpenSocket(0), pc[Worker(0)] # "done"
  PROVE  ToldInv'
<1> USE Identities, DistinctThreads
<1>1. AttachOnly /\ Told /\ pc[Worker(0)] = "socket"
  BY DEF ToldInv, AttachInv, OpenSocket, At
<1>2. UNCHANGED <<status, secret, post, notifiedUp, told, daemon>>
  BY DEF OpenSocket, auth, flags, history
<1>3. Told'
  BY <1>1, <1>2 DEF Told
<1>4. /\ told = "nothing" /\ pc[Dispatcher(0)] = "idle" /\ status.state # "connected"
      /\ link[0] = NoLink /\ \A a \in Attempts : link[a] = NoLink
  BY <1>1 DEF AttachOnly
<1>5. CASE Running /\ link' = OpenLink(0) /\ Goto(Worker(0), "adopt")
  <2>1. \A d \in Ids : ~link[d].open
    <3>1. Ids = {0} \union Attempts
      BY ControllerAssumption DEF Ids, Attempts
    <3> QED
      BY <1>4, <3>1 DEF NoLink
  <2>2. link'[0] = [open |-> TRUE, daemon |-> daemon.id, queue |-> <<>>, served |-> TRUE]
        /\ \A a \in Attempts : link'[a] = link[a]
    BY <1>5, <2>1, QueueType DEF OpenLink
  <2>3. AttachOnly' /\ pc'[Worker(0)] = "adopt" /\ pc'[Dispatcher(0)] = "idle"
    BY <1>1, <1>2, <1>4, <1>5, <2>2, AttachStepAlone DEF AttachLabels, AttachOnly
  <2>4. Conversation'
    <3>1. Len(link'[0].queue) = 0 /\ link'[0].open /\ link'[0].served
          /\ link'[0].daemon = daemon'.id /\ Running'
      BY <1>2, <1>5, <2>2 DEF Running
    <3>2. status'.state # "connected"
      BY <1>2, <1>4
    <3> QED
      BY <3>1, <3>2 DEF Conversation
  <2>5. Ended'
    BY <1>2, <1>4, <2>3 DEF Ended, GoingDown, Downs
  <2> QED
    BY <1>3, <2>3, <2>4, <2>5 DEF ToldInv, AttachInv
<1>6. CASE Goto(Worker(0), "done")
  <2>1. pc'[Worker(0)] = "done"
    BY <1>6 DEF Goto, TypeOK
  <2> QED
    BY <1>3, <2>1 DEF ToldInv, AttachInv
<1> QED
  BY <1>5, <1>6 DEF OpenSocket

LEMMA AttachToldInv ==
  ASSUME TypeOK, TypeOK', ToldInv, pc[Worker(0)] # "done",
         AdoptClient(0) \/ AttachSession \/ AttachStatus \/ AttachRefresh \/ AttachEnd
  PROVE  ToldInv'
<1> USE Identities, DistinctThreads
<1>1. AttachOnly /\ Conversation /\ Ended /\ Told
  BY DEF ToldInv, AttachInv
<1>2. pc \in [Threads -> Labels] /\ post \in [Threads -> Transition] /\ status \in Status
  BY DEF TypeOK
<1>3. UNCHANGED <<secret, link, daemon>>
  BY DEF AdoptClient, AttachSession, AttachStatus, AttachRefresh, AttachEnd, auth
<1>4. Gone' = Gone
  BY <1>3 DEF Gone
\* The steps that leave the status other than connected.
<1>5. ASSUME NEW label \in AttachLabels \ {"socket", "announce"}, Goto(Worker(0), label),
             UNCHANGED post, status'.state = status.state \/ status'.state = "connecting",
             Told', told' \in Downs => told \in Downs,
             label \in {"refresh", "reattached"} =>
               /\ told' # "nothing"
               /\ pc[Worker(0)] = "refresh" \/ status'.state = "connecting"
      PROVE  ToldInv'
  <2>1. AttachOnly' /\ pc'[Worker(0)] = label /\ pc'[Dispatcher(0)] = pc[Dispatcher(0)]
    BY <1>1, <1>3, <1>5, AttachStepAlone DEF AttachOnly
  <2>2. Conversation'
    BY <1>1, <1>3, <1>5 DEF Conversation, Running
  <2>3. GoingDown' => GoingDown
    BY <1>5, <2>1 DEF GoingDown
  <2>4. Ended'
    BY <1>1, <1>4, <1>5, <2>1, <2>3 DEF Ended
  <2> QED
    BY <1>5, <2>1, <2>2, <2>4 DEF ToldInv, AttachInv
<1>6. CASE AdoptClient(0)
  BY <1>1, <1>5, <1>6 DEF AdoptClient, AttachLabels, Told, flags, history
<1>7. CASE AttachSession
  BY <1>1, <1>5, <1>7 DEF AttachSession, AttachLabels, Told, flags
<1>8. CASE AttachStatus
  <2>1. status'.state = "connecting" /\ told' = "adopted" /\ UNCHANGED post
        /\ Goto(Worker(0), "refresh")
    BY <1>2, <1>8 DEF AttachStatus, Status
  <2> QED
    BY <1>5, <2>1 DEF AttachLabels, Told, Downs
<1>9. CASE AttachRefresh
  <2>1. pc[Worker(0)] = "refresh" /\ told # "nothing" /\ UNCHANGED <<told, notifiedUp>>
    BY <1>1, <1>9 DEF AttachRefresh, At, Ended, history
  <2>2. Told'
    BY <1>1, <2>1 DEF Told
  <2>3. CASE Goto(Worker(0), "reattached") /\ UNCHANGED post
             /\ (status'.state = status.state \/ status'.state = "connecting")
    BY <1>5, <2>1, <2>2, <2>3 DEF AttachLabels
  <2>4. CASE /\ Reaches(0) /\ daemon.phase = "up"
             /\ Track(Worker(0), [state |-> "connected", error |-> FALSE], FALSE)
             /\ Goto(Worker(0), "announce")
    <3>1. link[0].open
      BY <2>4 DEF Reaches, IsOpen
    <3>2. status'.state = "connected" /\ post'[Worker(0)].after = "connected"
          /\ post'[Dispatcher(0)] = post[Dispatcher(0)]
      BY <1>2, <2>4 DEF Track
    <3>3. pc'[Worker(0)] = "announce" /\ \A t \in Threads \ {Worker(0)} : pc'[t] = pc[t]
      BY <1>2, <2>4 DEF Goto
    <3>4. AttachOnly'
      BY <1>1, <1>3, <3>2, <3>3 DEF AttachOnly, AttachLabels
    <3>5. Conversation'
      BY <1>1, <1>3, <2>4, <3>1 DEF Conversation, Running
    <3>6. ~(told' \in Downs \/ GoingDown')
      BY <1>1, <2>1, <3>1, <3>2, <3>3 DEF Ended, Gone, GoingDown
    <3>7. Ended'
      BY <2>1, <3>6 DEF Ended
    <3> QED
      BY <2>2, <3>4, <3>5, <3>7 DEF ToldInv, AttachInv
  <2>5. CASE /\ status' = IF status.state \in BusyStates THEN status
                           ELSE [status EXCEPT !.state = "connecting"]
             /\ Goto(Worker(0), "reattached") /\ UNCHANGED post
    BY <1>2, <2>3, <2>5 DEF Status
  <2>6. CASE Goto(Worker(0), "reattached") /\ UNCHANGED <<status, post>>
    BY <2>3, <2>6
  <2> QED
    BY <1>9, <2>4, <2>5, <2>6 DEF AttachRefresh
<1>10. CASE AttachEnd
  <2>1. pc'[Worker(0)] = "done" /\ UNCHANGED told /\ notifiedUp' = (status.state = "connected")
    BY <1>2, <1>10 DEF AttachEnd, Goto, history
  <2>2. status.state = "connected" => told \notin Downs /\ told # "nothing"
    BY <1>1, <1>10 DEF AttachEnd, At, Ended
  <2>3. told \in {"nothing", "up", "adopted"} \union Downs
    BY DEF TypeOK, Downs
  <2> QED
    BY <2>1, <2>2, <2>3 DEF ToldInv, AttachInv, Told
<1> QED
  BY <1>6, <1>7, <1>8, <1>9, <1>10

-----------------------------------------------------------------------------
(* OpenVPN's steps while attach() runs.                                    *)

\* What goes on at the other end of a closed connection does not concern it.
LEMMA ClosedConversation ==
  ASSUME Conversation, ~link[0].open, link'[0] = link[0], UNCHANGED status
  PROVE  Conversation'
BY DEF Conversation

\* OpenVPN moves to another phase and says so.
LEMMA ProgressConversation ==
  ASSUME TypeOK, Conversation, UNCHANGED status, link[0].open, daemon'.id = daemon.id,
         NEW word \in {"need", "progress", "connected"},
         link'[0].open, link'[0].daemon = link[0].daemon, link'[0].served,
         link'[0].queue = Append(link[0].queue, word),
         daemon.phase # "prompted",
         word = "need" => daemon.phase = "asking" /\ daemon'.phase = "prompted",
         daemon'.phase = "asking" => word = "progress"
  PROVE  Conversation'
<1> DEFINE q == link[0].queue
           r == link'[0].queue
<1>1. q \in Seq(Events) /\ Len(q) \in Nat /\ word \in Events
  BY QueueType DEF Events
<1>2. Len(r) = Len(q) + 1 /\ r[Len(q) + 1] = word /\ \A i \in 1 .. Len(q) : r[i] = q[i]
  BY <1>1
<1>3. \A i \in 1 .. Len(q) : q[i] \notin LastWords /\ q[i] # "need"
  BY DEF Conversation
<1>4. link'[0].open => Running' /\ link'[0].daemon = daemon'.id /\ link'[0].served
  BY DEF Conversation, Running
<1> HIDE DEF q, r
<1>5. \A i \in 1 .. Len(r) : r[i] \notin LastWords /\ (r[i] = "need" => i = Len(q) + 1)
  <2>1. \A i \in 1 .. Len(r) : i \in 1 .. Len(q) \/ i = Len(q) + 1
    BY <1>1, <1>2
  <2>2. word \notin LastWords
    BY DEF LastWords
  <2> QED
    BY <1>2, <1>3, <2>1, <2>2
<1>6. ASSUME NEW i \in 1 .. Len(r), r[i] = "need"
      PROVE  /\ link'[0].open => daemon'.phase = "prompted"
             /\ i = 1 => status'.state # "connected"
             /\ i > 1 => r[i - 1] = "progress"
  <2>1. i = Len(q) + 1 /\ word = "need"
    BY <1>2, <1>5, <1>6
  <2>2. /\ Len(q) = 0 => status.state # "connected"
        /\ Len(q) > 0 => q[Len(q)] = "progress"
    BY <2>1 DEF Conversation, q
  <2>3. Len(q) > 0 => Len(q) \in 1 .. Len(q) /\ i - 1 = Len(q)
    BY <1>1, <2>1
  <2> QED
    BY <1>1, <1>2, <2>1, <2>2, <2>3
<1>7. daemon'.phase = "asking" => Len(r) > 0 /\ r[Len(r)] = "progress"
  BY <1>1, <1>2
<1> QED
  BY <1>1, <1>2, <1>4, <1>5, <1>6, <1>7 DEF Conversation, r

\* OpenVPN exits with some last words and the end of the stream.
LEMMA ExitConversation ==
  ASSUME TypeOK, Conversation, UNCHANGED status, link[0].open, NEW words \in Seq(Events),
         \A i \in 1 .. Len(words) : words[i] \in LastWords,
         Kill(words)
  PROVE  Conversation'
<1> DEFINE q == link[0].queue
           w == words \o <<"eof">>
           r == link'[0].queue
<1>1. q \in Seq(Events) /\ Len(q) \in Nat /\ words \in Seq(Events) /\ Len(words) \in Nat
  BY QueueType
<1>2. link[0].daemon = daemon.id /\ link[0].served
  BY DEF Conversation
<1>3. ~link'[0].open /\ r = q \o words \o <<"eof">>
  BY <1>2, QueueType, Identities DEF Kill, Closed, Link
<1>4. <<"eof">> \in Seq(Events) /\ Len(<<"eof">>) = 1 /\ <<"eof">>[1] = "eof"
  BY DEF Events
<1>5. w \in Seq(Events) /\ Len(w) = Len(words) + 1
      /\ \A i \in 1 .. Len(words) : w[i] = words[i]
  BY <1>1, <1>4
<1>6. w[Len(words) + 1] = "eof"
  BY <1>1, <1>4
<1>7. \A i \in 1 .. Len(w) : w[i] \in LastWords
  BY <1>1, <1>5, <1>6 DEF LastWords
<1>8. r = q \o w
  <2>1. \A u \in Seq(Events) : (q \o words) \o u = q \o (words \o u)
    <3> HIDE DEF q
    <3> QED
      BY SMTT(30), <1>1, ConcatAssociative
  <2> QED
    BY <1>3, <1>4, <2>1
<1> HIDE DEF q, w, r
<1>9. /\ Len(r) = Len(q) + Len(w)
      /\ \A i \in 1 .. Len(q) : r[i] = q[i]
      /\ \A i \in 1 .. Len(r) : i > Len(q) => i - Len(q) \in 1 .. Len(w) /\ r[i] = w[i - Len(q)]
  <2>1. /\ Len(r) = Len(q) + Len(w)
        /\ \A i \in 1 .. Len(q) + Len(w) :
             r[i] = IF i <= Len(q) THEN q[i] ELSE w[i - Len(q)]
    BY <1>1, <1>5, <1>8, ConcatProperties
  <2>2. Len(q) \in Nat /\ Len(w) \in Nat
    BY <1>1, <1>5
  <2> QED
    BY <2>1, <2>2
<1>10. \A i \in 1 .. Len(q) : q[i] \notin LastWords
  BY DEF Conversation, q
<1>11. ASSUME NEW i \in 1 .. Len(r), r[i] \in LastWords, NEW j \in 1 .. Len(r), i <= j
       PROVE  r[j] # "connected"
  <2>1. i > Len(q)
    <3> SUFFICES ASSUME i <= Len(q) PROVE FALSE
      BY <1>1
    <3> QED
      BY <1>1, <1>9, <1>10, <1>11
  <2>2. j > Len(q)
    BY <1>1, <1>11, <2>1
  <2>3. r[j] \in LastWords
    BY <1>7, <1>9, <2>2
  <2> QED
    BY <2>3 DEF LastWords
<1>12. ASSUME NEW i \in 1 .. Len(r), r[i] = "need"
       PROVE  /\ i = 1 => status'.state # "connected"
              /\ i > 1 => r[i - 1] = "progress"
  <2>1. i \in 1 .. Len(q)
    <3> SUFFICES ASSUME i > Len(q) PROVE FALSE
      BY <1>1
    <3>1. r[i] \in LastWords
      BY <1>7, <1>9
    <3> QED
      BY <1>12, <3>1 DEF LastWords
  <2>2. q[i] = "need"
    BY <1>9, <1>12, <2>1
  <2>3. (i = 1 => status.state # "connected") /\ (i > 1 => q[i - 1] = "progress")
    BY <2>1, <2>2 DEF Conversation, q
  <2>4. i > 1 => i - 1 \in 1 .. Len(q)
    BY <1>1, <2>1
  <2> QED
    BY <1>9, <2>3, <2>4
<1> QED
  BY <1>3, <1>11, <1>12 DEF Conversation, r

\* A step of OpenVPN leaves a closed connection as it is.
LEMMA OvpnLinks ==
  ASSUME TypeOK, OvpnStep, NEW c \in Ids, ~link[c].open
  PROVE  link'[c] = link[c]
<1>1. CASE OvpnExits
  BY <1>1 DEF OvpnExits, Kill, Closed
<1>2. CASE ~OvpnExits
  <2>1. ~Reaches(c)
    BY DEF Reaches, IsOpen
  <2> QED
    BY <1>2, <2>1
       DEF OvpnStep, OvpnAsks, OvpnConnects, OvpnConnected, OvpnReconnects, Progress
<1> QED
  BY <1>1, <1>2

LEMMA OvpnToldInv ==
  ASSUME TypeOK, ToldInv, pc[Worker(0)] # "done", OvpnStep
  PROVE  ToldInv'
<1> USE Identities, DistinctThreads
<1>1. AttachOnly /\ Conversation /\ Ended /\ Told
  BY DEF ToldInv, AttachInv
<1>2. UNCHANGED <<status, pc, post, secret, told, notifiedUp>>
  BY DEF OvpnStep, OvpnAsks, OvpnConnects, OvpnConnected, OvpnReconnects, OvpnExits, Progress,
         Environment, auth, flags, history
<1>3. \A a \in Attempts : link'[a] = NoLink
  <2>1. ASSUME NEW a \in Attempts PROVE link'[a] = NoLink
    <3>1. link[a] = NoLink /\ a \in Ids /\ ~NoLink.open
      BY <1>1 DEF AttachOnly, NoLink
    <3> QED
      BY <3>1, OvpnLinks
  <2> QED
    BY <2>1
<1>4. ~link[0].open => link'[0] = link[0]
  BY OvpnLinks
<1>5. AttachOnly'
  <2>1. pc'[Worker(0)] = "socket" => link'[0] = NoLink
    BY <1>1, <1>2, <1>4 DEF AttachOnly, NoLink
  <2> QED
    BY <1>1, <1>2, <1>3, <2>1 DEF AttachOnly
<1>6. Ended'
  BY <1>1, <1>2, <1>4 DEF Ended, GoingDown, Gone
<1>7. Conversation'
  <2>1. CASE ~link[0].open
    BY <1>1, <1>2, <1>4, <2>1, ClosedConversation
  <2>2. CASE link[0].open /\ OvpnExits
    <3>1. PICK words \in {<<>>, <<"exiting">>, <<"fatal">>, <<"rejected", "exiting">>} :
            Kill(words)
      BY <2>2 DEF OvpnExits
    <3>2. words \in Seq(Events) /\ \A i \in 1 .. Len(words) : words[i] \in LastWords
      <4>1. CASE words = <<>>
        BY <4>1, WordsType
      <4>2. CASE words = <<"exiting">>
        BY <4>2, WordsType DEF LastWords
      <4>3. CASE words = <<"fatal">>
        BY <4>3, WordsType DEF LastWords
      <4>4. CASE words = <<"rejected", "exiting">>
        BY <4>4, WordsType DEF LastWords
      <4> QED
        BY <4>1, <4>2, <4>3, <4>4
    <3> QED
      BY <1>1, <1>2, <2>2, <3>1, <3>2, ExitConversation
  <2>3. CASE link[0].open /\ ~OvpnExits
    <3>1. Reaches(0)
      BY <1>1, <2>3, ControllerAssumption DEF Conversation, Reaches, IsOpen
    <3>2. ASSUME NEW word \in {"need", "progress", "connected"},
                 link' = [c \in Ids |-> IF Reaches(c)
                                          THEN [link[c] EXCEPT !.queue = Append(@, word)]
                                          ELSE link[c]]
          PROVE  /\ link'[0].open /\ link'[0].daemon = link[0].daemon /\ link'[0].served
                 /\ link'[0].queue = Append(link[0].queue, word)
      BY <2>3, <3>1, <3>2, QueueType DEF Link, Reaches
    <3>3. daemon \in Daemon
      BY DEF TypeOK
    <3>4. CASE OvpnAsks
      BY <1>1, <1>2, <2>3, <3>2, <3>3, <3>4, ProgressConversation
         DEF OvpnAsks, Progress, Daemon
    <3>5. CASE OvpnConnects
      BY <1>1, <1>2, <2>3, <3>2, <3>3, <3>5, ProgressConversation
         DEF OvpnConnects, Progress, Daemon
    <3>6. CASE OvpnConnected
      BY <1>1, <1>2, <2>3, <3>2, <3>3, <3>6, ProgressConversation
         DEF OvpnConnected, Progress, Daemon
    <3>7. CASE OvpnReconnects
      BY <1>1, <1>2, <2>3, <3>2, <3>3, <3>7, ProgressConversation
         DEF OvpnReconnects, Daemon
    <3> QED
      BY <2>3, <3>4, <3>5, <3>6, <3>7 DEF OvpnStep
  <2> QED
    BY <2>1, <2>2, <2>3
<1> QED
  BY <1>1, <1>2, <1>5, <1>6, <1>7 DEF ToldInv, AttachInv, Told

-----------------------------------------------------------------------------
(* After attach().                                                         *)

\* An announcement raises the flag with "up" and drops it with a "down".
LEMMA AnnounceTold ==
  ASSUME Told, NEW t \in Threads, Announce(t)
  PROVE  Told' /\ (told' \in Downs /\ told' # told => notifiedUp)
<1> DEFINE p == post[t]
<1>1. /\ told' = IF GoesUp(p) THEN "up" ELSE IF GoesDown(p) THEN Reason(p) ELSE told
      /\ notifiedUp' = ((notifiedUp \/ GoesUp(p)) /\ ~GoesDown(p))
  BY DEF Announce
<1>2. GoesDown(p) => notifiedUp
  BY DEF GoesDown
<1> QED
  BY <1>1, <1>2 DEF Told, Downs

\* Everything but an announcement and attach() leaves what was told, and can
\* only lower the flag.
LEMMA OthersTold ==
  ASSUME Next, ~AttachStep, \A t \in Threads : ~Announce(t)
  PROVE  UNCHANGED told /\ notifiedUp' \in {notifiedUp, FALSE}
<1>0. CASE Connect
  BY <1>0 DEF Connect
<1>1. CASE Disconnect \/ StopStep
  <2>1. UNCHANGED history /\ UNCHANGED notifiedUp
    BY <1>1 DEF Disconnect, StopStep, DisconnectSignal, DisconnectStop, DisconnectDone, flags
  <2> QED
    BY <2>1 DEF history
<1>2. ASSUME NEW a \in Attempts, WorkerStep(a)
      PROVE  UNCHANGED <<told, notifiedUp>>
  BY <1>2 DEF WorkerStep, Launch, OpenSocket, AdoptClient, Authenticate, Prime, WaitTimeout,
              Answered, Settle, Superseded, Report, AbortDaemon, Finish, flags, history
<1>3. ASSUME NEW c \in Ids, DispatcherStep(c)
      PROVE  UNCHANGED <<told, notifiedUp>>
  BY <1>3 DEF DispatcherStep, OnConnected, OnExiting, OnProgress, OnFatal, OnNeed, AnswerNeed,
              OnSocketClosed, flags, history
<1>4. CASE OvpnStep
  BY <1>4 DEF OvpnStep, OvpnAsks, OvpnConnects, OvpnConnected, OvpnReconnects, OvpnExits,
              Progress, Environment, flags, history
<1> QED
  BY <1>0, <1>1, <1>2, <1>3, <1>4 DEF Next

\* attach() is over once and for all.
LEMMA DoneStays ==
  ASSUME TypeOK, Next, pc[Worker(0)] = "done"
  PROVE  pc'[Worker(0)] = "done" /\ ~AttachStep
<1> USE Identities, DistinctThreads
<1>1. pc \in [Threads -> Labels]
  BY DEF TypeOK
<1>2. Wake(pc, "waitAuth", "answered")[Worker(0)] = "done"
      /\ Wake(pc, "waitSettled", "settled")[Worker(0)] = "done"
      /\ WakeBoth(pc)[Worker(0)] = "done"
  BY <1>1, WakeLeaves, WakeBothLeaves
<1>3. ~AttachStep
  BY DEF AttachStep, OpenSocket, AdoptClient, AttachSession, AttachStatus, AttachRefresh,
         AttachEnd, At
<1>4. ASSUME NEW t \in Threads, NEW label, t # Worker(0), Goto(t, label)
      PROVE  pc'[Worker(0)] = "done"
  BY <1>1, <1>4 DEF Goto
<1>5. CASE Connect
  <2>1. attempt + 1 \in Attempts
    BY <1>5, NextAttempt DEF Connect, TypeOK
  <2>2. Worker(attempt + 1) # Worker(0)
    BY <2>1
  <2> QED
    BY <1>3, <1>4, <1>5, <2>1, <2>2 DEF Connect
<1>6. CASE Disconnect \/ StopStep
  BY <1>3, <1>4, <1>6 DEF Disconnect, StopStep, DisconnectSignal, DisconnectStop, DisconnectDone
<1>7. ASSUME NEW a \in Attempts, WorkerStep(a) PROVE pc'[Worker(0)] = "done"
  <2>1. Worker(a) # Worker(0)
    OBVIOUS
  <2>2. \E label : Goto(Worker(a), label)
    BY <1>7 DEF WorkerStep, Launch, OpenSocket, AdoptClient, Authenticate, Prime, WaitTimeout,
                Answered, Settle, Superseded, Report, AbortDaemon, Finish
  <2> QED
    BY <1>4, <2>1, <2>2
<1>8. ASSUME NEW c \in Ids, DispatcherStep(c) PROVE pc'[Worker(0)] = "done"
  <2>1. CASE OnConnected(c) \/ OnExiting(c)
    BY <1>2, <2>1 DEF OnConnected, OnExiting, Wake
  <2>2. CASE OnFatal(c)
    BY <1>2, <1>4, <2>2 DEF OnFatal, Wake
  <2>3. CASE OnProgress(c) \/ OnNeed(c) \/ OnSocketClosed(c)
    BY <1>4, <2>3 DEF OnProgress, OnNeed, OnSocketClosed
  <2>4. CASE AnswerNeed(c)
    BY <1>2, <1>4, <2>4 DEF AnswerNeed, Wake
  <2> QED
    BY <1>8, <2>1, <2>2, <2>3, <2>4 DEF DispatcherStep
<1>9. ASSUME NEW t \in Threads, Announce(t) PROVE pc'[Worker(0)] = "done"
  <2> DEFINE next == CASE t \in {Worker(a) : a \in Attempts} -> "abort"
                       [] t = Worker(0) -> "reattached"
                       [] OTHER -> "idle"
             moved == [pc EXCEPT ![t] = next]
  <2>1. t # Worker(0)
    BY <1>9 DEF Announce
  <2>2. next \in Labels
    BY <2>1 DEF Labels
  <2>3. pc' = IF post[t].wake THEN WakeBoth(moved) ELSE moved
    BY <1>9 DEF Announce
  <2> HIDE DEF next
  <2>4. moved \in [Threads -> Labels] /\ moved[Worker(0)] = "done"
    BY <1>1, <2>1, <2>2
  <2> HIDE DEF moved
  <2> QED
    BY <2>3, <2>4, WakeBothLeaves
<1>10. CASE OvpnStep
  BY <1>3, <1>10 DEF OvpnStep, OvpnAsks, OvpnConnects, OvpnConnected, OvpnReconnects, OvpnExits,
               Progress, Environment
<1> QED
  BY <1>3, <1>5, <1>6, <1>7, <1>8, <1>9, <1>10 DEF Next

-----------------------------------------------------------------------------
(* The invariant and the theorem.                                          *)

LEMMA ToldInit == Init => ToldInv
<1> SUFFICES ASSUME Init PROVE ToldInv
  OBVIOUS
<1> USE Identities, DistinctThreads
<1>1. Told
  BY DEF Init, Told
<1>2. pc[Worker(0)] \in {"socket", "done"} /\ \A t \in Threads \ {Worker(0)} : pc[t] = "idle"
  BY DEF Init
<1>3. \A t \in Threads : post[t] = NoPost
  BY DEF Init
<1>4. \A c \in Ids : link[c] = NoLink
  BY DEF Init
<1>5. told = "nothing" /\ secret = None /\ status.state = "disconnected"
  BY DEF Init
<1>6. ASSUME pc[Worker(0)] # "done" PROVE AttachOnly /\ Conversation /\ Ended
  <2>1. pc[Worker(0)] = "socket" /\ pc[Dispatcher(0)] = "idle" /\ pc[Operator] = "idle"
        /\ \A a \in Attempts :
             pc[Worker(a)] = "idle" /\ pc[Dispatcher(a)] = "idle" /\ link[a] = NoLink
    BY <1>2, <1>4, <1>6
  <2>2. AttachOnly
    BY <1>3, <1>4, <1>5, <2>1 DEF AttachOnly, AttachLabels, NoPost
  <2>3. ~link[0].open /\ Len(link[0].queue) = 0
    BY <1>4 DEF NoLink
  <2>4. Conversation
    BY <2>3 DEF Conversation
  <2>5. Ended
    BY <1>5, <2>1 DEF Ended, GoingDown, Downs
  <2> QED
    BY <2>2, <2>4, <2>5
<1> QED
  BY <1>1, <1>6 DEF ToldInv, AttachInv

\* The steps attach() makes impossible until it is over.
LEMMA AttachExcludes ==
  ASSUME TypeOK, AttachOnly
  PROVE  /\ ~Connect /\ ~Disconnect /\ ~StopStep
         /\ \A a \in Attempts : ~WorkerStep(a) /\ ~DispatcherStep(a)
<1>1. ~Connect /\ ~Disconnect
  BY DEF AttachOnly, AttachLabels, Connect, Disconnect, Serving
<1>2. ~StopStep
  BY DEF AttachOnly, StopStep, DisconnectSignal, DisconnectStop, DisconnectDone, At
<1>3. ASSUME NEW a \in Attempts PROVE ~WorkerStep(a)
  <2>1. pc[Worker(a)] = "idle"
    BY DEF AttachOnly
  <2> QED
    BY <2>1 DEF WorkerStep, Launch, OpenSocket, AdoptClient, Authenticate, Prime, WaitTimeout,
                Answered, Settle, Superseded, Report, AbortDaemon, Finish, At
<1>4. ASSUME NEW a \in Attempts PROVE ~DispatcherStep(a)
  <2>1. pc[Dispatcher(a)] = "idle" /\ link[a].queue = <<>>
    BY DEF AttachOnly, NoLink
  <2>2. \A e : ~Take(a, e)
    BY <2>1 DEF Take
  <2> QED
    BY <2>1, <2>2 DEF DispatcherStep, OnConnected, OnExiting, OnProgress, OnFatal, OnNeed,
                      AnswerNeed, OnSocketClosed, At
<1> QED
  BY <1>1, <1>2, <1>3, <1>4

LEMMA ToldStep == TypeOK /\ TypeOK' /\ ToldInv /\ [Next]_vars => ToldInv'
<1> SUFFICES ASSUME TypeOK, TypeOK', ToldInv, [Next]_vars PROVE ToldInv'
  OBVIOUS
<1>1. CASE UNCHANGED vars
  BY <1>1 DEF vars, auth, flags, history, seen, ToldInv, Told, AttachInv, AttachOnly,
              Conversation, Running, Ended, Gone, GoingDown
<1>2. CASE Next /\ pc[Worker(0)] = "done"
  <2>1. pc'[Worker(0)] = "done" /\ ~AttachStep
    BY <1>2, DoneStays
  <2>2. Told'
    <3>1. Told
      BY DEF ToldInv
    <3>2. CASE \E t \in Threads : Announce(t)
      BY <3>1, <3>2, AnnounceTold
    <3>3. CASE \A t \in Threads : ~Announce(t)
      <4>1. UNCHANGED told /\ notifiedUp' \in {notifiedUp, FALSE}
        BY <1>2, <2>1, <3>3, OthersTold
      <4> QED
        BY <3>1, <4>1 DEF Told
    <3> QED
      BY <3>2, <3>3
  <2> QED
    BY <2>1, <2>2 DEF ToldInv, AttachInv
<1>3. CASE Next /\ pc[Worker(0)] # "done"
  <2>1. AttachOnly
    BY <1>3 DEF ToldInv, AttachInv
  <2>2. Ids = {0} \union Attempts
    BY ControllerAssumption DEF Ids, Attempts
  <2>3. CASE AttachStep
    BY <1>3, <2>3, OpenSocketToldInv, AttachToldInv DEF AttachStep
  <2>4. ASSUME NEW c \in Ids, DispatcherStep(c) PROVE ToldInv'
    BY <1>3, <2>1, <2>2, <2>4, AttachExcludes, DispatcherToldInv
  <2>5. ASSUME NEW t \in Threads, Announce(t) PROVE ToldInv'
    BY <1>3, <2>5, AnnounceToldInv
  <2>6. CASE OvpnStep
    BY <1>3, <2>6, OvpnToldInv
  <2> QED
    BY <1>3, <2>1, <2>3, <2>4, <2>5, <2>6, AttachExcludes DEF Next
<1> QED
  BY <1>1, <1>2, <1>3

\* A step announces a tunnel down only with the flag raised.
LEMMA DownOnlyWhenTold ==
  ASSUME Told, [Next]_vars
  PROVE  [told' \in Downs /\ told' # told => told \in {"up", "adopted"}]_vars
<1> SUFFICES ASSUME Next, told' \in Downs, told' # told
             PROVE  told \in {"up", "adopted"}
  BY DEF vars, history
<1>1. CASE \E t \in Threads : Announce(t)
  BY <1>1, AnnounceTold DEF Told
<1>2. CASE AttachStep
  BY <1>2 DEF AttachStep, OpenSocket, AdoptClient, AttachSession, AttachStatus, AttachRefresh,
              AttachEnd, history, Downs
<1>3. CASE ~AttachStep /\ \A t \in Threads : ~Announce(t)
  BY <1>3, OthersTold
<1> QED
  BY <1>1, <1>2, <1>3

\* The flag is raised only by what was told, whatever is found at start-up.
THEOREM ToldInvariant == Spec => []ToldInv
<1>1. TypeOK /\ TypeOK' /\ ToldInv /\ [Next]_vars => ToldInv'
  BY ToldStep
<1>2. Init => ToldInv
  BY ToldInit
<1> QED
  BY <1>1, <1>2, ControllerTypes, PTL DEF Spec

\* A "tunnel down" is recorded and notified only for a tunnel the operator was
\* told is up, or one the application found running (_notified_up).
THEOREM NeverDownUntoldHolds == Spec => NeverDownUntold
<1>1. ToldInv /\ [Next]_vars
        => [told' \in {"operator-requested", "link-lost"} /\ told' # told
              => told \in {"up", "adopted"}]_vars
  BY DownOnlyWhenTold DEF ToldInv, Downs
<1> QED
  BY <1>1, ToldInvariant, PTL DEF Spec, NeverDownUntold

-----------------------------------------------------------------------------
(* What the session history shows is an AttemptLog, in the environments in *)
(* which the code keeps to it: an attempt starts and is stopped when the   *)
(* threads of the last one rest, transitions are announced at once, and a  *)
(* tunnel that came up stays up until its process ends.                    *)

Plain == Hazards \subseteq {"faults", "timeouts"} /\ MaxReconnects = 0 /\ ~Adopt

Announcing(t) == pc[t] = "announce"

\* The notification word waits in the queue of connection c.
Says(c, word) == \E i \in 1 .. Len(link[c].queue) : link[c].queue[i] = word

\* One thread announces at a time, and announces the status as it is.
OneAnnounces ==
  /\ \A t, u \in Threads : Announcing(t) /\ Announcing(u) => t = u
  /\ \A t \in Threads : Announcing(t) => post[t].after = status.state

\* Nothing is left of the connections of earlier attempts.
OthersSilent ==
  \A c \in Ids : c # attempt =>
    ~link[c].open /\ link[c].queue = <<>> /\ pc[Dispatcher(c)] = "idle"

\* The attempt's worker has not opened its connection yet.
Launching ==
  pc[Worker(attempt)] \in {"launch", "socket"} =>
    /\ status.state = "starting" /\ ~notifiedUp
    /\ ~link[attempt].open /\ link[attempt].queue = <<>> /\ pc[Dispatcher(attempt)] = "idle"
    /\ pc[Worker(attempt)] = "launch" => ~Running

\* disconnect() is called when the worker rests, which it goes on doing.
StopsAtRest ==
  status.state = "disconnecting" \/ pc[Operator] # "idle" => pc[Worker(attempt)] \in {"idle", "done"}

\* The end of the stream comes last, and progress before the connection is up.
Ordered(c) ==
  LET q == link[c].queue IN
  /\ q = <<>> \/ link[c].open \/ q[Len(q)] = "eof"
  /\ \A i \in 1 .. Len(q) : q[i] = "eof" => i = Len(q) /\ ~link[c].open
  /\ \A i, j \in 1 .. Len(q) : i < j /\ q[i] = "connected" => q[j] # "progress"

LooksUp == status.state = "connected" \/ notifiedUp

\* What looks up is up as long as the process runs, with no progress to report.
UpForGood ==
  /\ LooksUp \/ (\E c \in Ids : Says(c, "connected")) => (Running => daemon.phase = "up")
  /\ LooksUp => \A c \in Ids : ~Says(c, "progress")

\* Some thread is about to announce that a tunnel went down.
DownPending ==
  \E t \in Threads : /\ Announcing(t)
                     /\ post[t].before \in {"connected", "disconnecting"}
                     /\ post[t].after \in DownStates

\* A tunnel that was told is up is in the status, or about to be told down.
Standing == notifiedUp => status.state \in {"connected", "disconnecting"} \/ DownPending

\* The end of what looks up is still to be heard of.
EndToCome == LooksUp => DownPending \/ \E c \in Ids : link[c].open \/ EofQueued(c)

\* The row that is open is the attempt's, and remembers what was told.
OneRow ==
  /\ session # None =>
       /\ session = attempt /\ rows[session].outcome = "open" /\ rows[session].reason = ""
       /\ rows[session].up = notifiedUp
  /\ \A a \in Ids : a > attempt => rows[a].outcome = "none"

UpIsTold == told = "up" => notifiedUp

\* The threads and the connections, then what they report, then what is recorded.
ThreadsInv ==
  /\ pc[Worker(0)] = "done" /\ OneWorker /\ LinksLive /\ OwnProcess
  /\ OneAnnounces /\ OthersSilent /\ Launching /\ StopsAtRest

ReportInv == (\A c \in Ids : Ordered(c)) /\ UpForGood /\ Standing /\ EndToCome

LogInv == ThreadsInv /\ ReportInv /\ OneRow /\ UpIsTold

\* Without "lateness" only the announcer moves while a transition is announced.
LEMMA AnnouncedFirst ==
  ASSUME TypeOK, ~Lateness, [Next]_vars
  PROVE  \/ UNCHANGED vars
         \/ \E t \in Threads : Announce(t)
         \/ \A t \in Threads : ~Announcing(t)
<1>1. CASE Timely
  BY <1>1 DEF Timely, Announcing
<1>2. CASE ~Timely
  BY <1>2 DEF Next, Connect, Disconnect, StopStep, DisconnectSignal, DisconnectStop, DisconnectDone,
              AttachStep, OpenSocket, AdoptClient, AttachSession, AttachStatus, AttachRefresh, AttachEnd,
              WorkerStep, Launch, Authenticate, Prime, WaitTimeout, Answered, Settle, Superseded, Report,
              AbortDaemon, Finish, DispatcherStep, OnConnected, OnExiting, OnProgress, OnFatal, OnNeed,
              AnswerNeed, OnSocketClosed, Take, At, OvpnStep, OvpnAsks, OvpnConnects, OvpnConnected,
              OvpnReconnects, Progress, OvpnExits
<1> QED  BY <1>1, <1>2

\* The transitions of a dispatcher.
LEMMA DispatcherTracks ==
  ASSUME TypeOK, NEW c \in Ids, DispatcherStep(c), pc'[Dispatcher(c)] = "announce"
  PROVE  post'[Dispatcher(c)].before = status.state /\ post'[Dispatcher(c)].after = status'.state
<1> USE Identities
<1>1. ~OnProgress(c)
  BY DEF OnProgress, Take, At
<1>2. \E new, wake : Track(Dispatcher(c), new, wake)
  BY <1>1 DEF DispatcherStep, OnConnected, OnExiting, OnFatal, OnNeed, AnswerNeed, OnSocketClosed, Goto, TypeOK,
         Wake
<1> QED  BY <1>2 DEF Track, TypeOK

LEMMA WorkerTracks ==
  ASSUME TypeOK, NEW a \in Attempts, WorkerStep(a), pc'[Worker(a)] = "announce"
  PROVE  /\ Report(a) /\ status'.state = "failed"
         /\ post'[Worker(a)].before = status.state /\ post'[Worker(a)].after = status'.state
<1> USE Identities
<1>1. Report(a)
  BY DEF WorkerStep, Launch, OpenSocket, AdoptClient, Authenticate, Prime, WaitTimeout, Answered,
         Settle, Superseded, AbortDaemon, Finish, Goto, AfterWaiting, TypeOK, At
<1>2. Track(Worker(a), [state |-> "failed", error |-> TRUE], TRUE)
  BY <1>1 DEF Report
<1> QED  BY <1>1, <1>2 DEF Track, TypeOK

LEMMA StopTracks ==
  ASSUME TypeOK, Disconnect \/ StopStep, pc'[Operator] = "announce"
  PROVE  /\ status'.state = "disconnected"
         /\ post'[Operator].before = status.state /\ post'[Operator].after = status'.state
<1> USE Identities
<1>1. DisconnectDone
  BY DEF Disconnect, StopStep, DisconnectSignal, DisconnectStop, Goto, TypeOK
<1>2. Track(Operator, [state |-> "disconnected", error |-> FALSE], FALSE)
  BY <1>1 DEF DisconnectDone
<1> QED  BY <1>2 DEF Track, TypeOK

LEMMA AttachTracks ==
  ASSUME TypeOK, AttachStep, pc'[Worker(0)] = "announce"
  PROVE  post'[Worker(0)].before = status.state /\ post'[Worker(0)].after = status'.state
<1> USE Identities
<1>1. AttachRefresh /\ Track(Worker(0), [state |-> "connected", error |-> FALSE], FALSE)
  BY DEF AttachStep, OpenSocket, AdoptClient, AttachSession, AttachStatus, AttachRefresh, AttachEnd, Goto, TypeOK
<1> QED  BY <1>1 DEF Track, TypeOK

\* While nothing is announced, a step makes at most its own thread an announcer, of
\* the transition it makes.
LEMMA NewAnnouncer ==
  ASSUME TypeOK, [Next]_vars, \A t \in Threads : ~Announcing(t)
  PROVE  /\ \A t, u \in Threads : Announcing(t)' /\ Announcing(u)' => t = u
         /\ \A t \in Threads : Announcing(t)' =>
              post'[t].before = status.state /\ post'[t].after = status'.state
<1> USE Identities DEF Announcing
<1>1. CASE Connect
  <2>1. attempt + 1 \in Attempts /\ Goto(Worker(attempt + 1), "launch")
    BY <1>1, NextAttempt DEF Connect, TypeOK
  <2> QED  BY <2>1, GotoRests
<1>2. CASE Disconnect \/ StopStep
  BY <1>2, StopMoves, StopTracks
<1>3. CASE AttachStep
  BY <1>3, AttachMoves, AttachTracks
<1>4. ASSUME NEW a \in Attempts, WorkerStep(a)
      PROVE  /\ \A t, u \in Threads : Announcing(t)' /\ Announcing(u)' => t = u
             /\ \A t \in Threads : Announcing(t)' =>
                  post'[t].before = status.state /\ post'[t].after = status'.state
  BY <1>4, WorkerMoves, WorkerTracks
<1>5. ASSUME NEW c \in Ids, DispatcherStep(c)
      PROVE  /\ \A t, u \in Threads : Announcing(t)' /\ Announcing(u)' => t = u
             /\ \A t \in Threads : Announcing(t)' =>
                  post'[t].before = status.state /\ post'[t].after = status'.state
  BY <1>5, DispatcherMoves, DispatcherTracks DEF Rests
<1>6. ASSUME NEW t \in Threads, Announce(t) PROVE FALSE
  BY <1>6, AnnounceMoves
<1>7. CASE OvpnStep \/ UNCHANGED vars
  BY <1>7 DEF OvpnStep, OvpnAsks, OvpnConnects, OvpnConnected, OvpnReconnects, OvpnExits, Progress,
              Environment, vars
<1> QED  BY <1>1, <1>2, <1>3, <1>4, <1>5, <1>6, <1>7 DEF Next

LEMMA OneAnnouncesStep ==
  ASSUME TypeOK, ~Lateness, OneAnnounces, [Next]_vars
  PROVE  OneAnnounces'
<1>1. CASE UNCHANGED vars
  BY <1>1 DEF OneAnnounces, Announcing, vars
<1>2. ASSUME NEW t \in Threads, Announce(t) PROVE OneAnnounces'
  <2>1. /\ pc[t] = "announce" /\ pc'[t] # "announce" /\ status' = status
        /\ \A u \in Threads \ {t} : Rests(u) /\ post'[u] = post[u]
    BY <1>2, AnnounceMoves
  <2> QED  BY <2>1 DEF OneAnnounces, Announcing, Rests
<1>3. CASE \A t \in Threads : ~Announcing(t)
  BY <1>3, NewAnnouncer DEF OneAnnounces
<1> QED  BY <1>1, <1>2, <1>3, AnnouncedFirst

\* A step of the attempt under way: which worker and which connection it can be.
LEMMA ConnectFacts ==
  ASSUME TypeOK, Connect, ~Overlap, LinksLive
  PROVE  /\ attempt + 1 \in Attempts /\ attempt' = attempt + 1 /\ attempt \in Int
         /\ \A c \in Ids : ~link[c].open /\ link[c].queue = <<>> /\ pc[Dispatcher(c)] = "idle"
         /\ \A c \in Ids : pc'[Dispatcher(c)] = "idle"
         /\ pc[Operator] = "idle" /\ pc'[Operator] = "idle"
         /\ pc'[Worker(attempt + 1)] = "launch"
         /\ \A t \in Threads : ~Announcing(t) /\ ~Announcing(t)'
         /\ status'.state = "starting" /\ notifiedUp' = FALSE
         /\ ~Running /\ UNCHANGED <<link, daemon, told>>
<1> USE Identities, DistinctThreads
<1>1. attempt + 1 \in Attempts /\ attempt' = attempt + 1 /\ Goto(Worker(attempt + 1), "launch")
  BY NextAttempt DEF Connect, TypeOK
<1>2. attempt \in Int
  BY ControllerAssumption DEF TypeOK, Ids
<1>3. ~Running /\ status'.state = "starting" /\ notifiedUp' = FALSE /\ UNCHANGED <<link, daemon, told>> /\ Quiet
  BY DEF Connect
<1>4. \A c \in Ids : ~link[c].open /\ link[c].queue = <<>> /\ pc[Dispatcher(c)] = "idle"
  BY <1>3 DEF Quiet, LinksLive
<1>5. pc'[Worker(attempt + 1)] = "launch" /\ \A u \in Threads \ {Worker(attempt + 1)} : pc'[u] = pc[u]
  BY <1>1, GotoRests
<1>6. pc[Operator] = "idle" /\ \A t \in Threads : ~Announcing(t)
  BY <1>3 DEF Quiet, Announcing, Threads
<1>7. pc'[Operator] = "idle" /\ \A c \in Ids : pc'[Dispatcher(c)] = "idle"
  BY <1>1, <1>4, <1>5, <1>6
<1>8. \A t \in Threads : ~Announcing(t)'
  BY <1>5, <1>6 DEF Announcing
<1> QED  BY <1>1, <1>2, <1>3, <1>4, <1>5, <1>6, <1>7, <1>8

\* The dispatcher that moves is the one of the attempt's connection.
LEMMA DispatcherIsCurrent ==
  ASSUME OthersSilent, NEW c \in Ids, DispatcherStep(c)
  PROVE  c = attempt
BY DEF OthersSilent, DispatcherStep, OnConnected, OnExiting, OnProgress, OnFatal, OnNeed, AnswerNeed,
       OnSocketClosed, Take, At

\* While the attempt lasts the other connections stay as they are.
LEMMA OtherLinks ==
  ASSUME TypeOK, pc[Worker(0)] = "done", OneWorker, OthersSilent, [Next]_vars, NEW c \in Ids, c # attempt
  PROVE  link'[c] = link[c]
<1>0. ~link[c].open /\ link[c].queue = <<>>
  BY DEF OthersSilent
<1>1. ASSUME NEW words, Kill(words) PROVE link'[c] = link[c]
  BY <1>0, <1>1 DEF Kill, Closed
<1>2. ASSUME NEW a \in Ids, OpenSocket(a), link' = OpenLink(a) PROVE link'[c] = link[c]
  <2>1. a # 0 /\ pc[Worker(a)] = "socket"
    BY <1>2 DEF OpenSocket, At
  <2>2. a \in Attempts
    BY <2>1, ControllerAssumption DEF Ids, Attempts
  <2>3. a = attempt
    BY <2>1, <2>2, WorkerIsCurrent
  <2> QED  BY <1>2, <2>3 DEF OpenLink, TypeOK
<1>3. ASSUME NEW d \in Ids, NEW e, Take(d, e) PROVE link'[c] = link[c]
  <2>1. d # c
    BY <1>0, <1>3 DEF Take
  <2> QED  BY <1>3, <2>1 DEF Take, TypeOK
<1>4. CASE OvpnAsks \/ OvpnConnects \/ OvpnConnected \/ OvpnReconnects
  BY <1>0, <1>4 DEF OvpnAsks, OvpnConnects, OvpnConnected, OvpnReconnects, Progress, Reaches, IsOpen
<1> QED  BY <1>1, <1>2, <1>3, <1>4, WorldSteps

LEMMA OthersSilentStep ==
  ASSUME TypeOK, ~Overlap, pc[Worker(0)] = "done", OneWorker, LinksLive, OthersSilent, [Next]_vars
  PROVE  OthersSilent'
<1> USE Identities, DistinctThreads
<1>1. CASE Connect
  BY <1>1, ConnectFacts DEF OthersSilent
<1>2. CASE ~Connect
  <2>1. attempt' = attempt
    BY <1>2, AttemptStays
  <2>2. ASSUME NEW c \in Ids, c # attempt
        PROVE  ~link'[c].open /\ link'[c].queue = <<>> /\ pc'[Dispatcher(c)] = "idle"
    <3>1. link'[c] = link[c] /\ ~link[c].open /\ link[c].queue = <<>> /\ pc[Dispatcher(c)] = "idle"
      BY <2>2, OtherLinks DEF OthersSilent
    <3>2. pc'[Dispatcher(c)] = pc[Dispatcher(c)]
      <4>1. ASSUME NEW d \in Ids, DispatcherStep(d) PROVE pc'[Dispatcher(c)] = pc[Dispatcher(c)]
        BY <2>2, <3>1, <4>1, DispatcherIsCurrent, DispatcherMoves DEF Rests
      <4>2. ASSUME NEW t \in Threads, Announce(t) PROVE pc'[Dispatcher(c)] = pc[Dispatcher(c)]
        BY <3>1, <4>2, AnnounceMoves DEF Rests
      <4> QED  BY <1>2, <4>1, <4>2, StopMoves, AttachMoves, WorkerMoves
               DEF Next, OvpnStep, OvpnAsks, OvpnConnects, OvpnConnected, OvpnReconnects, OvpnExits,
                   Progress, Environment, vars
    <3> QED  BY <3>1, <3>2
  <2> QED  BY <2>1, <2>2 DEF OthersSilent
<1> QED  BY <1>1, <1>2

\* The operator moves only while the attempt's worker rests, and so does the status
\* "disconnecting" appear.
LEMMA StopsAtRestStep ==
  ASSUME TypeOK, ~Overlap, ~Haste, pc[Worker(0)] = "done", OneWorker, LinksLive, OthersSilent,
         StopsAtRest, [Next]_vars
  PROVE  StopsAtRest'
<1> USE Identities, DistinctThreads
<1>0. attempt \in Ids /\ (attempt = 0 \/ attempt \in Attempts) /\ Worker(attempt) \in Threads
  BY ControllerAssumption DEF TypeOK, Ids, Attempts
<1> DEFINE Resting == pc[Worker(attempt)] \in {"idle", "done"}
           Stopped == status.state = "disconnecting" \/ pc[Operator] # "idle"
<1>1. CASE Connect
  <2>1. status'.state # "disconnecting" /\ pc'[Operator] = "idle"
    BY <1>1, ConnectFacts
  <2> QED  BY <2>1 DEF StopsAtRest
<1>2. CASE Disconnect
  <2>1. Resting
    BY <1>0, <1>2 DEF Disconnect
  <2> QED  BY <1>0, <1>2, <2>1, StopMoves DEF StopsAtRest
<1>3. CASE StopStep
  <2>1. Resting
    BY <1>3 DEF StopsAtRest, StopStep, DisconnectSignal, DisconnectStop, DisconnectDone, At
  <2> QED  BY <1>0, <1>3, <2>1, StopMoves DEF StopsAtRest
<1>4. CASE AttachStep
  BY <1>4, AttachMoves
<1>5. ASSUME NEW a \in Attempts, WorkerStep(a) PROVE StopsAtRest'
  <2>1. ~Stopped
    BY <1>5, WorkerMoves, WorkerIsCurrent DEF StopsAtRest
  <2>2. pc'[Operator] = pc[Operator]
    BY <1>5, WorkerMoves
  <2>3. status'.state # "disconnecting"
    <3>1. status' \in {status, Advanced("authenticating"), Advanced("connecting"),
                       [state |-> "failed", error |-> TRUE]}
      BY <1>5 DEF WorkerStep, Launch, OpenSocket, AdoptClient, Authenticate, Prime, WaitTimeout, Answered,
             Settle, Superseded, Report, AbortDaemon, Finish, Track
    <3>2. status \in Status
      BY DEF TypeOK
    <3> QED  BY <2>1, <3>1, <3>2 DEF Advanced, Status
  <2> QED  BY <2>1, <2>2, <2>3 DEF StopsAtRest
<1>6. ASSUME NEW c \in Ids, DispatcherStep(c) PROVE StopsAtRest'
  <2>1. /\ attempt' = attempt /\ Rests(Worker(attempt))
        /\ pc'[Operator] # "idle" => pc[Operator] # "idle"
    BY <1>0, <1>6, DispatcherMoves DEF Rests
  <2>2. status'.state = "disconnecting" => status.state = "disconnecting"
    BY <1>6 DEF DispatcherStep, OnConnected, OnExiting, OnProgress, OnFatal, OnNeed, AnswerNeed,
                OnSocketClosed, Track, TypeOK, Status
  <2> QED  BY <2>1, <2>2 DEF StopsAtRest, Rests
<1>7. ASSUME NEW t \in Threads, Announce(t) PROVE StopsAtRest'
  <2>1. /\ pc[t] = "announce" /\ \A u \in Threads \ {t} : Rests(u)
        /\ UNCHANGED <<attempt, status>> /\ (t = Operator => pc'[Operator] = "idle")
    BY <1>7, AnnounceMoves
  <2>2. pc'[Operator] # "idle" => pc[Operator] # "idle"
    BY <2>1 DEF Rests
  <2>3. CASE t = Worker(attempt)
    <3>1. ~Stopped
      BY <2>1, <2>3 DEF StopsAtRest
    <3> QED  BY <2>1, <2>2, <3>1 DEF StopsAtRest
  <2>4. CASE t # Worker(attempt)
    BY <1>0, <2>1, <2>2, <2>4 DEF StopsAtRest, Rests
  <2> QED  BY <2>3, <2>4
<1>8. CASE OvpnStep \/ UNCHANGED vars
  BY <1>8 DEF OvpnStep, OvpnAsks, OvpnConnects, OvpnConnected, OvpnReconnects, OvpnExits, Progress,
              Environment, vars, StopsAtRest
<1> QED  BY <1>1, <1>2, <1>3, <1>4, <1>5, <1>6, <1>7, <1>8 DEF Next

\* Only connect() and announcements write the history or the flag.
LEMMA Unrecorded ==
  ASSUME TypeOK, pc[Worker(0)] = "done", [Next]_vars, ~Connect, \A t \in Threads : ~Announce(t)
  PROVE  UNCHANGED <<attempt, notifiedUp, told, session, rows>>
<1>1. ~AttachStep
  BY AttachMoves
<1>2. UNCHANGED <<notifiedUp, told, session, rows>>
  BY <1>1 DEF Next, Disconnect, StopStep, DisconnectSignal, DisconnectStop, DisconnectDone,
             WorkerStep, Launch, OpenSocket, AdoptClient, Authenticate, Prime, WaitTimeout, Answered, Settle,
             Superseded, Report, AbortDaemon, Finish, DispatcherStep, OnConnected, OnExiting, OnProgress, OnFatal,
             OnNeed, AnswerNeed, OnSocketClosed, OvpnStep, OvpnAsks, OvpnConnects, OvpnConnected,
             OvpnReconnects, OvpnExits, Progress, Environment, flags, history, vars
<1> QED  BY <1>2, AttemptStays

\* Until its worker has opened the connection nothing disturbs the attempt.
LEMMA LaunchingStep ==
  ASSUME TypeOK, ~Overlap, ~Haste, pc[Worker(0)] = "done", OneWorker, LinksLive, OwnProcess, OneAnnounces,
         OthersSilent, StopsAtRest, Launching, [Next]_vars
  PROVE  Launching'
<1> USE Identities, DistinctThreads
<1>1. CASE Connect
  BY <1>1, ConnectFacts DEF Launching, Running
<1>2. CASE ~Connect /\ pc'[Worker(attempt)] \in {"launch", "socket"}
  <2>0. PICK k \in Ids : k = attempt
    BY DEF TypeOK
  <2>1. attempt' = attempt /\ k \in Attempts
    <3>1. attempt' = attempt
      BY <1>2, AttemptStays
    <3>2. k # 0
      <4>1. pc'[Worker(0)] = "done"
        BY StartedStays
      <4> QED  BY <1>2, <2>0, <4>1
    <3> QED  BY <3>1, <3>2, ControllerAssumption DEF Ids, Attempts
  <2> DEFINE Early(l) == l \in {"launch", "socket"}
             Still == /\ Early(pc[Worker(k)])
                      /\ status'.state = "starting" /\ pc'[Dispatcher(k)] = "idle"
                      /\ notifiedUp' = notifiedUp
                      /\ pc'[Worker(k)] = "launch" =>
                           pc[Worker(k)] = "launch" /\ ~(\E a \in Attempts : Launch(a))
  <2>2. Still
    <3>0. Early(pc[Worker(k)]) => status.state = "starting" /\ pc[Dispatcher(k)] = "idle"
      BY <2>0 DEF Launching
    <3>9. ASSUME pc'[Worker(k)] = pc[Worker(k)], UNCHANGED <<status, notifiedUp>>,
                 pc'[Dispatcher(k)] = pc[Dispatcher(k)], \A a \in Attempts : ~Launch(a)
          PROVE  Still
      BY <1>2, <2>0, <3>0, <3>9
    <3>1. CASE Disconnect
      BY <1>2, <2>0, <2>1, <3>1, StopMoves DEF Disconnect
    <3>2. CASE StopStep
      <4>1. pc[Operator] # "idle" /\ pc'[Worker(k)] = pc[Worker(k)]
        BY <3>2, StopMoves DEF StopStep, DisconnectSignal, DisconnectStop, DisconnectDone, At
      <4> QED  BY <1>2, <2>0, <2>1, <4>1 DEF StopsAtRest
    <3>3. CASE AttachStep
      BY <3>3, AttachMoves
    <3>4. ASSUME NEW a \in Attempts, WorkerStep(a)
          PROVE  Still
      <4>1. a = k
        BY <2>0, <3>4, WorkerMoves, WorkerIsCurrent
      <4>2. Launch(a)
        BY <1>2, <2>0, <3>4, <4>1 DEF WorkerStep, OpenSocket, AdoptClient, Authenticate, Prime, WaitTimeout,
           Answered, Settle, Superseded, Report, AbortDaemon, Finish, Goto, AfterWaiting, TypeOK, At
      <4>3. /\ pc[Worker(k)] = "launch" /\ pc'[Worker(k)] # "launch"
            /\ UNCHANGED <<status, notifiedUp>> /\ pc'[Dispatcher(k)] = pc[Dispatcher(k)]
        BY <4>1, <4>2 DEF Launch, At, Goto, TypeOK, flags
      <4> QED  BY <3>0, <4>3
    <3>5. ASSUME NEW c \in Ids, DispatcherStep(c) PROVE FALSE
      <4>1. c = k /\ Rests(Worker(k))
        BY <2>0, <3>5, DispatcherIsCurrent, DispatcherMoves
      <4>2. link[c].queue = <<>> /\ pc[Dispatcher(c)] = "idle"
        BY <1>2, <2>0, <4>1 DEF Rests, Launching
      <4> QED  BY <3>5, <4>2 DEF DispatcherStep, OnConnected, OnExiting, OnProgress, OnFatal, OnNeed,
                  AnswerNeed, OnSocketClosed, Take, At
    <3>6. ASSUME NEW t \in Threads, Announce(t)
          PROVE  Still
      <4>1. /\ pc[t] = "announce" /\ \A u \in Threads \ {t} : Rests(u)
            /\ t = Worker(k) => pc'[t] = "abort"
            /\ status' = status
        BY <2>1, <3>6, AnnounceMoves
      <4>2. t # Worker(k) /\ pc'[Worker(k)] = pc[Worker(k)] /\ pc[Worker(k)] \in {"launch", "socket"}
        BY <1>2, <2>0, <2>1, <4>1 DEF Rests
      <4>3. status.state = "starting" /\ pc[Dispatcher(k)] = "idle"
        BY <2>0, <4>2 DEF Launching
      <4>4. post[t].after = "starting"
        BY <4>1, <4>3 DEF OneAnnounces, Announcing
      <4>5. pc'[Dispatcher(k)] = "idle"
        BY <4>1, <4>3 DEF Rests
      <4>6. notifiedUp' = notifiedUp
        BY <3>6, <4>4 DEF Announce, GoesUp, GoesDown, DownStates, TypeOK
      <4>7. \A a \in Attempts : ~Launch(a)
        BY <3>6, <4>1, AnnounceMoves DEF Launch, At, Timely, Goto, TypeOK, auth
      <4> QED  BY <3>9, <4>1, <4>2, <4>3, <4>5, <4>6, <4>7
    <3>7. CASE OvpnStep \/ UNCHANGED vars
      <4>1. UNCHANGED <<pc, status, notifiedUp>>
        BY <3>7 DEF OvpnStep, OvpnAsks, OvpnConnects, OvpnConnected, OvpnReconnects, OvpnExits, Progress,
              Environment, vars, flags
      <4>2. \A a \in Attempts : ~Launch(a)
        BY <4>1 DEF Launch, At, Goto, TypeOK
      <4> QED  BY <3>9, <4>1, <4>2
    <3> QED  BY <1>2, <3>1, <3>2, <3>3, <3>4, <3>5, <3>6, <3>7 DEF Next
  <2>3. ~notifiedUp /\ ~link[k].open /\ link[k].queue = <<>> /\ (pc[Worker(k)] = "launch" => ~Running)
    BY <2>0, <2>2 DEF Launching
  <2>4. link'[k] = link[k]
    <3>1. ~OpenSocket(k)
      BY <1>2, <2>0, <2>1 DEF OpenSocket, Goto, TypeOK
    <3>2. \A a \in Ids : OpenSocket(a) => a = k
      <4>1. \A a \in Ids : OpenSocket(a) => a \in Attempts
        BY ControllerAssumption DEF OpenSocket, At, Ids, Attempts
      <4>2. \A a \in Attempts : OpenSocket(a) => pc[Worker(a)] \notin {"idle", "done"}
        BY DEF OpenSocket, At
      <4> QED  BY <2>0, <4>1, <4>2, WorkerIsCurrent
    <3>3. ASSUME NEW words, Kill(words) PROVE link'[k] = link[k]
      BY <2>3, <3>3 DEF Kill, Closed
    <3>4. ASSUME NEW d \in Ids, NEW e, Take(d, e) PROVE link'[k] = link[k]
      BY <2>3, <3>4 DEF Take, TypeOK
    <3>5. CASE OvpnAsks \/ OvpnConnects \/ OvpnConnected \/ OvpnReconnects
      BY <2>3, <3>5 DEF OvpnAsks, OvpnConnects, OvpnConnected, OvpnReconnects, Progress, Reaches, IsOpen
    <3> QED  BY <3>1, <3>2, <3>3, <3>4, <3>5, WorldSteps
  <2>5. pc'[Worker(k)] = "launch" => ~Running'
    BY <2>0, <2>1, <2>2, <2>3, ProcessStep
  <2> QED  BY <2>0, <2>1, <2>2, <2>3, <2>4, <2>5 DEF Launching
<1>3. CASE pc'[Worker(attempt)] \notin {"launch", "socket"} /\ ~Connect
  BY <1>3, AttemptStays DEF Launching
<1> QED  BY <1>1, <1>2, <1>3

-----------------------------------------------------------------------------
\* The end of the process adds its last words to the queue of an open connection.
LEMMA KilledQueue ==
  ASSUME TypeOK, NEW words \in Farewells, Kill(words), NEW c \in Ids
  PROVE  \/ link'[c] = link[c]
         \/ LET q == link[c].queue
                r == link'[c].queue
            IN  /\ link[c].open /\ ~link'[c].open
                /\ Len(q) \in Nat /\ Len(r) \in Nat /\ Len(r) > Len(q) /\ r[Len(r)] = "eof" /\ r # <<>>
                /\ \A i \in 1 .. Len(q) : r[i] = q[i]
                /\ \A i \in Len(q) + 1 .. Len(r) - 1 : r[i] \in {"exiting", "fatal", "rejected"}
<1>1. link'[c] = IF link[c].open /\ link[c].daemon = daemon.id
                   THEN [link[c] EXCEPT !.open  = FALSE,
                                        !.queue = IF link[c].served THEN @ \o words \o <<"eof">>
                                                                    ELSE Append(@, "eof")]
                   ELSE link[c]
  BY DEF Kill, Closed
<1>2. link[c] \in Link /\ link[c].queue \in Seq(Events) /\ Len(link[c].queue) \in Nat
  BY DEF TypeOK, Link
<1>3. CASE link[c].open /\ link[c].daemon = daemon.id
  <2> DEFINE q == link[c].queue
  <2>1. PICK w \in Farewells : link'[c].queue = Append(q \o w, "eof") /\ ~link'[c].open
    <3>1. CASE link[c].served
      <4>1. link'[c] = [link[c] EXCEPT !.open = FALSE, !.queue = q \o words \o <<"eof">>]
        BY <1>1, <1>3, <3>1
      <4>2. q \o words \in Seq(Events)
        BY <1>2, FarewellsAre
      <4>3. q \o words \o <<"eof">> = Append(q \o words, "eof")
        BY <4>2
      <4> HIDE DEF q
      <4> QED  BY <1>2, <4>1, <4>3 DEF Link
    <3>2. CASE ~link[c].served
      <4>1. link'[c] = [link[c] EXCEPT !.open = FALSE, !.queue = Append(q, "eof")]
        BY <1>1, <1>3, <3>2
      <4>2. q \o <<>> = q
        BY <1>2
      <4> HIDE DEF q
      <4> QED  BY <1>2, <4>1, <4>2, FarewellsAre DEF Link
    <3> QED  BY <3>1, <3>2
  <2>2. w \in Seq(Events) /\ Len(w) \in Nat /\ \A i \in 1 .. Len(w) : w[i] \in {"exiting", "fatal", "rejected"}
    BY DEF Farewells
  <2> DEFINE front == q \o w
  <2>3. /\ front \in Seq(Events) /\ Len(front) = Len(q) + Len(w)
        /\ \A i \in 1 .. Len(q) : front[i] = q[i]
        /\ \A i \in 1 .. Len(w) : front[Len(q) + i] = w[i]
    BY <1>2, <2>2
  <2>4. q \in Seq(Events) /\ Len(q) \in Nat
    BY <1>2
  <2> HIDE DEF front, q
  <2> DEFINE r == Append(front, "eof")
  <2>5. Len(r) = Len(front) + 1 /\ r[Len(r)] = "eof" /\ r # <<>> /\ \A i \in 1 .. Len(front) : r[i] = front[i]
    BY <2>3
  <2> HIDE DEF r
  <2>6. \A i \in 1 .. Len(q) : r[i] = q[i]
    BY <2>2, <2>3, <2>4, <2>5
  <2>7. ASSUME NEW i \in Len(q) + 1 .. Len(r) - 1 PROVE r[i] \in {"exiting", "fatal", "rejected"}
    <3>1. i - Len(q) \in 1 .. Len(w) /\ i \in 1 .. Len(front) /\ i = Len(q) + (i - Len(q))
      BY <2>2, <2>3, <2>4, <2>5
    <3>2. r[i] = front[i] /\ front[i] = w[i - Len(q)]
      BY <2>3, <2>5, <3>1
    <3> QED  BY <2>2, <3>1, <3>2
  <2>8. link'[c].queue = r
    BY <2>1 DEF r, front
  <2>9. Len(r) \in Nat /\ Len(r) > Len(q)
    BY <2>2, <2>3, <2>4, <2>5
  <2>10. link[c].queue = q
    BY DEF q
  <2> QED  BY <1>3, <2>1, <2>4, <2>5, <2>6, <2>7, <2>8, <2>9, <2>10
<1> QED  BY <1>1, <1>3

\* A notification goes to the end of the queue of the connection OpenVPN serves.
LEMMA AppendedQueue ==
  ASSUME TypeOK, NEW c \in Ids, NEW word,
         link' = [d \in Ids |-> IF Reaches(d) THEN [link[d] EXCEPT !.queue = Append(@, word)] ELSE link[d]]
  PROVE  \/ link'[c] = link[c]
         \/ LET q == link[c].queue
                r == link'[c].queue
            IN  /\ link[c].open /\ link'[c].open /\ Reaches(c)
                /\ Len(q) \in Nat /\ Len(r) = Len(q) + 1 /\ r[Len(r)] = word
                /\ \A i \in 1 .. Len(q) : r[i] = q[i]
<1>1. link[c] \in Link /\ link[c].queue \in Seq(Events) /\ Len(link[c].queue) \in Nat
  BY DEF TypeOK, Link
<1>2. CASE Reaches(c)
  <2>1. link'[c] = [link[c] EXCEPT !.queue = Append(@, word)]
    BY <1>2
  <2>2. link'[c].queue = Append(link[c].queue, word) /\ link'[c].open = link[c].open
    BY <1>1, <2>1 DEF Link
  <2> QED  BY <1>1, <1>2, <2>2 DEF Reaches, IsOpen
<1> QED  BY <1>2

\* What OpenVPN says while it runs.
LEMMA OpenVpnSays ==
  ASSUME TypeOK, OvpnAsks \/ OvpnConnects \/ OvpnConnected \/ OvpnReconnects
  PROVE  \E word \in Events :
           /\ link' = [d \in Ids |-> IF Reaches(d) THEN [link[d] EXCEPT !.queue = Append(@, word)]
                                                   ELSE link[d]]
           /\ word # "eof"
           /\ word = "progress" => OvpnConnects \/ OvpnReconnects
           /\ word = "connected" => OvpnConnected
BY DEF OvpnAsks, OvpnConnects, OvpnConnected, OvpnReconnects, Progress, Events

\* Only OpenVPN's own progress adds such a word to a queue.
LEMMA SaysStep ==
  ASSUME TypeOK, [Next]_vars, NEW c \in Ids, NEW word \in {"connected", "progress"}, Says(c, word)'
  PROVE  \/ Says(c, word)
         \/ word = "progress" /\ (OvpnConnects \/ OvpnReconnects) /\ Reaches(c)
         \/ word = "connected" /\ OvpnConnected /\ Reaches(c)
<1> DEFINE q == link[c].queue
           r == link'[c].queue
<1>0. PICK i \in 1 .. Len(r) : r[i] = word
  BY DEF Says
<1>1. ASSUME NEW words \in Farewells, Kill(words) PROVE Says(c, word)
  <2>1. CASE link'[c] = link[c]
    BY <1>0, <2>1 DEF Says
  <2>2. CASE link'[c] # link[c]
    <3>1. /\ Len(q) \in Nat /\ Len(r) \in Nat /\ Len(r) > Len(q) /\ r[Len(r)] = "eof"
          /\ \A j \in 1 .. Len(q) : r[j] = q[j]
          /\ \A j \in Len(q) + 1 .. Len(r) - 1 : r[j] \in {"exiting", "fatal", "rejected"}
      BY <1>1, <2>2, KilledQueue
    <3> HIDE DEF q, r
    <3>2. i \in 1 .. Len(q) \/ i \in Len(q) + 1 .. Len(r) - 1 \/ i = Len(r)
      BY <3>1
    <3>3. i \in 1 .. Len(q) /\ q[i] = word
      BY <1>0, <3>1, <3>2
    <3> QED  BY <3>3 DEF Says, q
  <2> QED  BY <2>1, <2>2
<1>2. CASE link' = link
  BY <1>0, <1>2 DEF Says
<1>3. ASSUME NEW a \in Ids, link' = OpenLink(a) PROVE Says(c, word)
  <2>1. CASE a = c
    <3>1. link'[c].queue = <<>>
      BY <1>3, <2>1 DEF OpenLink, TypeOK
    <3> QED  BY <1>0, <3>1
  <2>2. CASE a # c
    <3>1. link'[c] = link[c]
      BY <1>3, <2>2 DEF OpenLink, TypeOK
    <3> QED  BY <1>0, <3>1 DEF Says
  <2> QED  BY <2>1, <2>2
<1>4. ASSUME NEW d \in Ids, NEW e, Take(d, e) PROVE Says(c, word)
  <2>1. CASE d # c
    <3>1. link'[c] = link[c]
      BY <1>4, <2>1, TakenQueue
    <3> QED  BY <1>0, <3>1 DEF Says
  <2>2. CASE d = c
    <3>1. /\ Len(q) \in Nat /\ Len(r) = Len(q) - 1
          /\ \A j \in 1 .. Len(r) : r[j] = q[j + 1]
      BY <1>4, <2>2, TakenQueue
    <3> HIDE DEF q, r
    <3>2. i + 1 \in 1 .. Len(q) /\ q[i + 1] = word
      BY <1>0, <3>1
    <3> QED  BY <3>2 DEF Says, q
  <2> QED  BY <2>1, <2>2
<1>5. CASE OvpnAsks \/ OvpnConnects \/ OvpnConnected \/ OvpnReconnects
  <2>1. PICK w \in Events :
           /\ link' = [d \in Ids |-> IF Reaches(d) THEN [link[d] EXCEPT !.queue = Append(@, w)] ELSE link[d]]
           /\ w = "progress" => OvpnConnects \/ OvpnReconnects
           /\ w = "connected" => OvpnConnected
    BY <1>5, OpenVpnSays
  <2>2. CASE link'[c] = link[c]
    BY <1>0, <2>2 DEF Says
  <2>3. CASE link'[c] # link[c]
    <3>1. /\ Reaches(c) /\ Len(q) \in Nat /\ Len(r) = Len(q) + 1 /\ r[Len(r)] = w
          /\ \A j \in 1 .. Len(q) : r[j] = q[j]
      BY <2>1, <2>3, AppendedQueue
    <3> HIDE DEF q, r
    <3>2. (i \in 1 .. Len(q) /\ q[i] = word) \/ w = word
      BY <1>0, <3>1
    <3> QED  BY <2>1, <3>1, <3>2 DEF Says, q
  <2> QED  BY <2>2, <2>3
<1> QED  BY <1>1, <1>2, <1>3, <1>4, <1>5, WorldSteps

\* OpenVPN reports progress only before it is up.
LEMMA NoReconnects ==
  ASSUME TypeOK, MaxReconnects = 0
  PROVE  ~OvpnReconnects /\ (OvpnConnects => Running /\ daemon.phase = "tunnel")
BY DEF OvpnReconnects, OvpnConnects, Progress, TypeOK, Daemon

LEMMA OrderedStep ==
  ASSUME TypeOK, MaxReconnects = 0, UpForGood, NEW c \in Ids, Ordered(c), [Next]_vars
  PROVE  Ordered(c)'
<1> DEFINE q == link[c].queue
           r == link'[c].queue
<1>0. q \in Seq(Events) /\ Len(q) \in Nat
  BY DEF TypeOK, Link
<1>1. CASE link'[c] = link[c]
  BY <1>1 DEF Ordered
<1>2. ASSUME NEW words \in Farewells, Kill(words), link'[c] # link[c] PROVE Ordered(c)'
  <2>1. /\ link[c].open /\ ~link'[c].open
        /\ Len(r) \in Nat /\ Len(r) > Len(q) /\ r[Len(r)] = "eof" /\ r # <<>>
        /\ \A j \in 1 .. Len(q) : r[j] = q[j]
        /\ \A j \in Len(q) + 1 .. Len(r) - 1 : r[j] \in {"exiting", "fatal", "rejected"}
    BY <1>2, KilledQueue
  <2>2. /\ \A i \in 1 .. Len(q) : q[i] # "eof"
        /\ \A i, j \in 1 .. Len(q) : i < j /\ q[i] = "connected" => q[j] # "progress"
    BY <2>1 DEF Ordered
  <2> HIDE DEF q, r
  <2>3. \A i \in 1 .. Len(r) : i \in 1 .. Len(q) \/ i \in Len(q) + 1 .. Len(r) - 1 \/ i = Len(r)
    BY <1>0, <2>1
  <2>4. \A i \in 1 .. Len(r) : r[i] = "eof" => i = Len(r)
    BY <2>1, <2>2, <2>3
  <2>5. ASSUME NEW i \in 1 .. Len(r), NEW j \in 1 .. Len(r), i < j, r[i] = "connected"
        PROVE  r[j] # "progress"
    <3>1. i \in 1 .. Len(q) /\ q[i] = "connected"
      BY <2>1, <2>3, <2>5
    <3> QED  BY <2>1, <2>2, <2>3, <2>5, <3>1
  <2> QED  BY <2>1, <2>4, <2>5 DEF Ordered, r
<1>3. ASSUME NEW a \in Ids, link' = OpenLink(a), link'[c] # link[c] PROVE Ordered(c)'
  <2>1. a = c
    BY <1>3 DEF OpenLink, TypeOK
  <2>2. r = <<>>
    BY <1>3, <2>1 DEF OpenLink, TypeOK
  <2> QED  BY <2>2 DEF Ordered
<1>4. ASSUME NEW d \in Ids, NEW e, Take(d, e), link'[c] # link[c] PROVE Ordered(c)'
  <2>1. d = c
    BY <1>4, TakenQueue
  <2>2. /\ Len(q) \in Nat /\ Len(q) > 0 /\ Len(r) = Len(q) - 1
        /\ \A j \in 1 .. Len(r) : r[j] = q[j + 1]
        /\ link'[c].open = link[c].open
    BY <1>4, <2>1, TakenQueue
  <2>3. r \in Seq(Events)
    BY <1>0, <1>4, <2>1, TakeType DEF TypeOK, Link, Take
  <2>4. /\ q = <<>> \/ link[c].open \/ q[Len(q)] = "eof"
        /\ \A i \in 1 .. Len(q) : q[i] = "eof" => i = Len(q) /\ ~link[c].open
        /\ \A i, j \in 1 .. Len(q) : i < j /\ q[i] = "connected" => q[j] # "progress"
    BY DEF Ordered
  <2> HIDE DEF q, r
  <2>5. \A i \in 1 .. Len(r) : i + 1 \in 1 .. Len(q)
    BY <2>2
  <2>6. r = <<>> \/ link'[c].open \/ r[Len(r)] = "eof"
    <3>1. CASE Len(r) = 0
      BY <2>3, <3>1
    <3>2. CASE Len(r) # 0
      BY <1>0, <2>2, <2>4, <3>2
    <3> QED  BY <3>1, <3>2
  <2>7. \A i \in 1 .. Len(r) : r[i] = "eof" => i = Len(r) /\ ~link'[c].open
    BY <2>2, <2>4, <2>5
  <2>8. \A i, j \in 1 .. Len(r) : i < j /\ r[i] = "connected" => r[j] # "progress"
    BY <2>2, <2>4, <2>5
  <2> QED  BY <2>6, <2>7, <2>8 DEF Ordered, r
<1>5. CASE (OvpnAsks \/ OvpnConnects \/ OvpnConnected \/ OvpnReconnects) /\ link'[c] # link[c]
  <2>1. PICK w \in Events :
           /\ link' = [d \in Ids |-> IF Reaches(d) THEN [link[d] EXCEPT !.queue = Append(@, w)] ELSE link[d]]
           /\ w # "eof"
           /\ w = "progress" => OvpnConnects \/ OvpnReconnects
    BY <1>5, OpenVpnSays
  <2>2. /\ link[c].open /\ link'[c].open /\ Reaches(c)
        /\ Len(r) = Len(q) + 1 /\ r[Len(r)] = w
        /\ \A j \in 1 .. Len(q) : r[j] = q[j]
    BY <1>5, <2>1, AppendedQueue
  <2>3. /\ \A i \in 1 .. Len(q) : q[i] # "eof"
        /\ \A i, j \in 1 .. Len(q) : i < j /\ q[i] = "connected" => q[j] # "progress"
    BY <2>2 DEF Ordered
  <2>4. w = "progress" => \A i \in 1 .. Len(q) : q[i] # "connected"
    BY <2>1, NoReconnects DEF UpForGood, Says
  <2> HIDE DEF q, r
  <2>5. \A i \in 1 .. Len(r) : i \in 1 .. Len(q) \/ i = Len(r)
    BY <1>0, <2>2
  <2>6. \A i \in 1 .. Len(r) : r[i] # "eof"
    BY <2>1, <2>2, <2>3, <2>5
  <2>7. ASSUME NEW i \in 1 .. Len(r), NEW j \in 1 .. Len(r), i < j, r[i] = "connected"
        PROVE  r[j] # "progress"
    <3>1. i \in 1 .. Len(q) /\ q[i] = "connected"
      BY <1>0, <2>2, <2>5, <2>7
    <3> QED  BY <2>2, <2>3, <2>4, <2>5, <2>7, <3>1
  <2> QED  BY <2>2, <2>6, <2>7 DEF Ordered, r
<1> QED  BY <1>1, <1>2, <1>3, <1>4, <1>5, WorldSteps

LEMMA UpStays ==
  ASSUME TypeOK, MaxReconnects = 0, [Next]_vars, Running, Running', daemon.phase = "up"
  PROVE  daemon'.phase = "up"
<1>1. daemon \in Daemon /\ NoDaemon.id = None
  BY DEF TypeOK, NoDaemon
<1>2. ASSUME NEW words, Kill(words) PROVE FALSE
  BY <1>1, <1>2 DEF Kill, Running
<1>3. CASE daemon' \in {daemon, [daemon EXCEPT !.term = TRUE]}
  BY <1>1, <1>3 DEF Daemon
<1>4. CASE OvpnAsks \/ OvpnConnects \/ OvpnConnected
  BY <1>4 DEF OvpnAsks, OvpnConnects, OvpnConnected, Progress
<1> QED  BY <1>2, <1>3, <1>4, WorldSteps, NoReconnects

\* The status becomes "connected" when a dispatcher hears that it is, and not before.
LEMMA ConnectedFrom ==
  ASSUME TypeOK, pc[Worker(0)] = "done", [Next]_vars, status'.state = "connected"
  PROVE  status.state = "connected" \/ \E c \in Ids : OnConnected(c)
<1> USE Identities
<1>0. status \in Status
  BY DEF TypeOK
<1>1. CASE Connect
  BY <1>1 DEF Connect
<1>2. CASE Disconnect \/ StopStep
  BY <1>2 DEF Disconnect, StopStep, DisconnectSignal, DisconnectStop, DisconnectDone, Track
<1>3. CASE AttachStep
  BY <1>3, AttachMoves
<1>4. ASSUME NEW a \in Attempts, WorkerStep(a) PROVE status.state = "connected"
  <2>1. status' \in {status, Advanced("authenticating"), Advanced("connecting"),
                     [state |-> "failed", error |-> TRUE]}
    BY <1>4 DEF WorkerStep, Launch, OpenSocket, AdoptClient, Authenticate, Prime, WaitTimeout, Answered,
             Settle, Superseded, Report, AbortDaemon, Finish, Track
  <2> QED  BY <1>0, <2>1 DEF Advanced, Status
<1>5. ASSUME NEW c \in Ids, DispatcherStep(c), ~OnConnected(c) PROVE status.state = "connected"
  BY <1>0, <1>5 DEF DispatcherStep, OnExiting, OnProgress, OnFatal, OnNeed, AnswerNeed, OnSocketClosed,
                    Track, Status
<1>6. ASSUME NEW t \in Threads, Announce(t) PROVE status.state = "connected"
  BY <1>6, AnnounceMoves
<1>7. CASE OvpnStep \/ UNCHANGED vars
  BY <1>7 DEF OvpnStep, OvpnAsks, OvpnConnects, OvpnConnected, OvpnReconnects, OvpnExits, Progress,
              Environment, vars
<1> QED  BY <1>1, <1>2, <1>3, <1>4, <1>5, <1>6, <1>7 DEF Next

LEMMA LooksUpFrom ==
  ASSUME TypeOK, pc[Worker(0)] = "done", OneAnnounces, [Next]_vars, LooksUp'
  PROVE  LooksUp \/ \E c \in Ids : OnConnected(c)
<1>1. CASE status'.state = "connected"
  BY <1>1, ConnectedFrom DEF LooksUp
<1>2. CASE notifiedUp'
  <2>1. CASE Connect
    BY <1>2, <2>1 DEF Connect
  <2>2. ASSUME NEW t \in Threads, Announce(t) PROVE LooksUp
    <3>1. post[t].after = status.state
      BY <2>2 DEF OneAnnounces, Announce, Announcing
    <3> QED  BY <1>2, <2>2, <3>1 DEF Announce, GoesUp, LooksUp
  <2>3. CASE ~Connect /\ \A t \in Threads : ~Announce(t)
    BY <1>2, <2>3, Unrecorded DEF LooksUp
  <2> QED  BY <2>1, <2>2, <2>3
<1> QED  BY <1>1, <1>2 DEF LooksUp

\* A dispatcher that hears "connected" took it from its queue, behind which no
\* progress waits.
LEMMA ConnectedHeard ==
  ASSUME TypeOK, OthersSilent, NEW c \in Ids, Ordered(c), OnConnected(c)
  PROVE  Says(c, "connected") /\ \A d \in Ids : ~Says(d, "progress")
<1>1. c = attempt
  BY DispatcherIsCurrent DEF DispatcherStep
<1>2. Take(c, "connected")
  BY DEF OnConnected
<1>3. Len(link[c].queue) \in Nat /\ Len(link[c].queue) > 0 /\ link[c].queue[1] = "connected"
  BY <1>2, TakenQueue
<1>4. ~Says(c, "progress")
  BY <1>3 DEF Ordered, Says
<1>5. \A d \in Ids : d # c => ~Says(d, "progress")
  BY <1>1 DEF OthersSilent, Says
<1> QED  BY <1>3, <1>4, <1>5 DEF Says

LEMMA UpForGoodStep ==
  ASSUME TypeOK, MaxReconnects = 0, ~Overlap, pc[Worker(0)] = "done", OneWorker, LinksLive, OwnProcess,
         OneAnnounces, OthersSilent, Launching, \A c \in Ids : Ordered(c), UpForGood, [Next]_vars
  PROVE  UpForGood'
<1> DEFINE Heard == LooksUp \/ \E c \in Ids : Says(c, "connected")
<1>1. CASE Connect
  <2>1. ~LooksUp' /\ \A c \in Ids : ~Says(c, "connected")'
    BY <1>1, ConnectFacts DEF LooksUp, Says
  <2> QED  BY <2>1 DEF UpForGood
<1>2. CASE ~Connect
  <2>1. attempt' = attempt
    BY <1>2, AttemptStays
  <2>2. LooksUp' => Heard
    BY LooksUpFrom, ConnectedHeard
  <2>3. Heard /\ Running => daemon.phase = "up"
    BY DEF UpForGood
  <2>4. ASSUME NEW c \in Ids, Says(c, "connected")' PROVE Heard \/ OvpnConnected
    BY <2>4, SaysStep
  <2>5. ASSUME Heard, Running' PROVE Running
    <3>1. SUFFICES ASSUME ~Running PROVE FALSE
      OBVIOUS
    <3>2. PICK a \in Attempts : Launch(a)
      BY <2>1, <2>5, <3>1, ProcessStep
    <3>3. pc[Worker(a)] = "launch" /\ a = attempt
      BY <3>2, WorkerIsCurrent DEF Launch, At
    <3>4. ~LooksUp
      BY <3>3 DEF Launching, LooksUp
    <3>5. \A c \in Ids : link[c].queue = <<>>
      BY <3>3 DEF Launching, OthersSilent
    <3> QED  BY <2>5, <3>4, <3>5 DEF Says
  <2>6. Heard /\ Running' => daemon'.phase = "up"
    BY <2>3, <2>5, UpStays
  <2>7. OvpnConnected => daemon'.phase = "up"
    BY DEF OvpnConnected, Progress, TypeOK, Daemon
  <2>8. ASSUME LooksUp', NEW c \in Ids, Says(c, "progress")' PROVE FALSE
    <3>1. ~Says(c, "progress")
      BY <2>8, LooksUpFrom, ConnectedHeard DEF UpForGood
    <3>2. OvpnConnects
      BY <2>8, <3>1, SaysStep, NoReconnects
    <3> QED  BY <2>2, <2>3, <2>8, <3>2, NoReconnects
  <2> QED  BY <2>2, <2>4, <2>6, <2>7, <2>8 DEF UpForGood
<1> QED  BY <1>1, <1>2

\* A tunnel that is up or being stopped leaves these states only for its end.
LEMMA StandingStays ==
  ASSUME TypeOK, ~Overlap, pc[Worker(0)] = "done", OneWorker, StopsAtRest, UpForGood, [Next]_vars,
         \A t \in Threads : ~Announcing(t), status.state \in {"connected", "disconnecting"}
  PROVE  status'.state \in {"connected", "disconnecting"} \/ (DownPending' /\ status'.state \in DownStates)
<1> USE Identities
<1>0. status \in Status
  BY DEF TypeOK
<1>1. ~Connect /\ (\A t \in Threads : ~Announce(t)) /\ status.state \notin DownStates
  BY DEF Connect, BusyStates, Announce, Announcing, DownStates
<1>2. status'.state \in DownStates => DownPending'
  <2>1. status'.state \in DownStates => Owed'
    BY <1>1, StepOwes
  <2> QED  BY <2>1, NewAnnouncer DEF Owed, DownPending, Announcing
<1>3. status'.state \in {"connected", "disconnecting"} \/ status'.state \in DownStates
  <2>1. CASE Disconnect \/ StopStep
    BY <1>0, <2>1 DEF Disconnect, StopStep, DisconnectSignal, DisconnectStop, DisconnectDone, Track, DownStates
  <2>2. CASE AttachStep
    BY <2>2, AttachMoves
  <2>3. ASSUME NEW a \in Attempts, WorkerStep(a)
        PROVE  status'.state \in {"connected", "disconnecting"} \/ status'.state \in DownStates
    <3>1. status.state = "connected"
      BY <2>3, WorkerMoves, WorkerIsCurrent DEF StopsAtRest
    <3>2. status' \in {status, Advanced("authenticating"), Advanced("connecting"),
                     [state |-> "failed", error |-> TRUE]}
      BY <2>3 DEF WorkerStep, Launch, OpenSocket, AdoptClient, Authenticate, Prime, WaitTimeout, Answered,
             Settle, Superseded, Report, AbortDaemon, Finish, Track
    <3> QED  BY <1>0, <3>1, <3>2 DEF Advanced, DownStates
  <2>4. ASSUME NEW c \in Ids, DispatcherStep(c)
        PROVE  status'.state \in {"connected", "disconnecting"} \/ status'.state \in DownStates
    <3>1. CASE OnProgress(c)
      <4>1. Says(c, "progress")
        BY <3>1, TakenQueue DEF OnProgress, Says
      <4>2. status.state # "connected"
        BY <4>1 DEF UpForGood, LooksUp
      <4> QED  BY <3>1, <4>2 DEF OnProgress, BusyStates
    <3> QED  BY <1>0, <2>4, <3>1 DEF DispatcherStep, OnConnected, OnExiting, OnFatal, OnNeed, AnswerNeed,
                  OnSocketClosed, Track, DownStates, Status
  <2>5. CASE OvpnStep \/ UNCHANGED vars
    BY <2>5 DEF OvpnStep, OvpnAsks, OvpnConnects, OvpnConnected, OvpnReconnects, OvpnExits, Progress,
              Environment, vars
  <2> QED  BY <1>1, <2>1, <2>2, <2>3, <2>4, <2>5 DEF Next
<1> QED  BY <1>2, <1>3

\* An announcement that leaves the flag raised was not of an end.
LEMMA RaisedByUp ==
  ASSUME TypeOK, OneAnnounces, Standing, NEW t \in Threads, Announce(t), notifiedUp'
  PROVE  /\ status' = status /\ link' = link
         /\ status.state \in {"connected", "disconnecting"} /\ ~DownPending
<1>1. pc[t] = "announce" /\ UNCHANGED <<status, link>>
  BY AnnounceMoves
<1>2. post[t].after = status.state
  BY <1>1 DEF OneAnnounces, Announcing
<1>3. (notifiedUp \/ GoesUp(post[t])) /\ ~GoesDown(post[t])
  BY DEF Announce
<1>4. ~DownPending
  <2> SUFFICES ASSUME DownPending PROVE FALSE
    OBVIOUS
  <2>1. post[t].before \in {"connected", "disconnecting"} /\ post[t].after \in DownStates
    BY <1>1 DEF DownPending, OneAnnounces, Announcing
  <2>2. ~GoesUp(post[t])
    BY <2>1 DEF GoesUp, DownStates
  <2> QED  BY <1>3, <2>1, <2>2 DEF GoesDown
<1> QED  BY <1>1, <1>2, <1>3, <1>4 DEF Standing, GoesUp

LEMMA StandingStep ==
  ASSUME TypeOK, ~Lateness, ~Overlap, pc[Worker(0)] = "done", OneWorker, LinksLive, OneAnnounces, StopsAtRest,
         UpForGood, Standing, [Next]_vars
  PROVE  Standing'
<1>1. CASE UNCHANGED vars
  BY <1>1 DEF vars, flags, Standing, DownPending, Announcing
<1>2. ASSUME NEW t \in Threads, Announce(t) PROVE Standing'
  BY <1>2, RaisedByUp DEF Standing
<1>3. CASE Connect
  BY <1>3, ConnectFacts DEF Standing
<1>4. CASE ~Connect /\ ~UNCHANGED vars /\ \A t \in Threads : ~Announcing(t)
  <2>1. notifiedUp' => notifiedUp
    <3>1. \A t \in Threads : ~Announce(t)
      BY <1>4 DEF Announce, Announcing
    <3>2. ~AttachStep
      BY AttachMoves
    <3> QED  BY <1>4, <3>1, <3>2
         DEF Next, Disconnect, StopStep, DisconnectSignal, DisconnectStop, DisconnectDone,
             WorkerStep, Launch, OpenSocket, AdoptClient, Authenticate, Prime, WaitTimeout, Answered, Settle,
             Superseded, Report, AbortDaemon, Finish, DispatcherStep, OnConnected, OnExiting, OnProgress, OnFatal,
             OnNeed, AnswerNeed, OnSocketClosed, OvpnStep, OvpnAsks, OvpnConnects, OvpnConnected,
             OvpnReconnects, OvpnExits, Progress, Environment, flags
  <2>2. ~DownPending
    BY <1>4 DEF DownPending
  <2>3. notifiedUp => status.state \in {"connected", "disconnecting"}
    BY <2>2 DEF Standing
  <2> QED  BY <1>4, <2>1, <2>3, StandingStays DEF Standing
<1> QED  BY <1>1, <1>2, <1>3, <1>4, AnnouncedFirst

LEMMA EndToComeStep ==
  ASSUME TypeOK, ~Lateness, ~Overlap, pc[Worker(0)] = "done", OneWorker, LinksLive, OneAnnounces, StopsAtRest,
         OthersSilent, \A c \in Ids : Ordered(c), UpForGood, Standing, EndToCome, [Next]_vars
  PROVE  EndToCome'
<1> DEFINE Coming == \E c \in Ids : link[c].open \/ EofQueued(c)
<1>1. CASE UNCHANGED vars
  BY <1>1 DEF vars, flags, EndToCome, LooksUp, DownPending, Announcing, EofQueued
<1>2. ASSUME NEW t \in Threads, Announce(t), LooksUp' PROVE Coming'
  <2>0. status' = status /\ link' = link /\ pc[t] = "announce"
    BY <1>2, AnnounceMoves
  <2>1. ~DownPending
    <3>1. CASE notifiedUp'
      BY <1>2, <3>1, RaisedByUp
    <3>2. CASE status.state = "connected"
      BY <3>2 DEF DownPending, OneAnnounces, DownStates
    <3> QED  BY <1>2, <2>0, <3>1, <3>2 DEF LooksUp
  <2>2. LooksUp
    <3>1. ~(\E c \in Ids : OnConnected(c))
      BY <2>0, Identities DEF OnConnected, Take, At, Timely, Track, Announcing, OneAnnounces, TypeOK, Status
    <3> QED  BY <1>2, <3>1, LooksUpFrom
  <2> QED  BY <2>0, <2>1, <2>2 DEF EndToCome, EofQueued
<1>3. CASE Connect
  BY <1>3, ConnectFacts DEF EndToCome, LooksUp
<1>4. CASE ~Connect /\ LooksUp' /\ \A t \in Threads : ~Announcing(t)
  <2>0. ~DownPending
    BY <1>4 DEF DownPending
  <2>1. CASE LooksUp
    <3>1. status.state \in {"connected", "disconnecting"}
      BY <2>0, <2>1 DEF LooksUp, Standing
    <3>2. PICK c \in Ids : link[c].open \/ EofQueued(c)
      BY <2>0, <2>1 DEF EndToCome
    <3>3. CASE OnSocketClosed(c)
      <4>1. Owed'
        BY <3>1, <3>3, EofOwes DEF DownStates
      <4> QED  BY <1>4, <3>1, <4>1, NewAnnouncer DEF Owed, EndToCome, DownPending, Announcing
    <3> QED  BY <3>2, <3>3, LinkUnfinished DEF EndToCome
  <2>2. ASSUME NEW c \in Ids, OnConnected(c) PROVE EndToCome'
    <3>1. Take(c, "connected")
      BY <2>2 DEF OnConnected
    <3>2. link'[c].open = link[c].open /\ Len(link[c].queue) \in Nat /\ Len(link[c].queue) > 0
      BY <3>1, TakenQueue
    <3>3. link[c].queue # <<>>
      BY <3>1 DEF Take
    <3>4. link[c].open \/ EofQueued(c)
      BY <3>2, <3>3 DEF Ordered, EofQueued
    <3>5. EofQueued(c) => EofQueued(c)'
      BY <3>1, TakenKeepsEof
    <3> QED  BY <3>2, <3>4, <3>5 DEF EndToCome
  <2> QED  BY <1>4, <2>1, <2>2, LooksUpFrom
<1> QED  BY <1>1, <1>2, <1>3, <1>4, AnnouncedFirst DEF EndToCome

-----------------------------------------------------------------------------
(* What is recorded.                                                       *)

\* The end that is announced of a tunnel that was told up is a tunnel's end.
LEMMA EndIsDown ==
  ASSUME TypeOK, OneAnnounces, Standing, NEW t \in Threads, Announce(t),
         post[t].before # post[t].after, post[t].after \in DownStates
  PROVE  GoesDown(post[t]) <=> notifiedUp
<1>1. Announcing(t) /\ post[t].after = status.state
  BY DEF Announce, Announcing, OneAnnounces
<1>2. notifiedUp => DownPending
  BY <1>1 DEF Standing, DownStates
<1>3. DownPending => post[t].before \in {"connected", "disconnecting"}
  BY <1>1 DEF DownPending, OneAnnounces
<1> QED  BY <1>2, <1>3 DEF GoesDown

\* What an announcement makes of the row that is open, and of no other.
LEMMA AnnounceRecords ==
  ASSUME TypeOK, OneAnnounces, Standing, OneRow, NEW t \in Threads, Announce(t), NEW k \in Ids, session = k
  PROVE  /\ \A a \in Ids \ {k} : rows'[a] = rows[a]
         /\ \/ session' = k /\ rows'[k] = rows[k] /\ notifiedUp' = notifiedUp
            \/ session' = k /\ rows'[k] = [rows[k] EXCEPT !.up = TRUE] /\ notifiedUp' = TRUE
            \/ /\ session' = None /\ rows'[k].up = rows[k].up /\ rows'[k].outcome \in {"failed", "disconnected"}
               /\ rows'[k].reason \in IF notifiedUp THEN {"operator-requested", "link-lost"} ELSE {""}
<1> DEFINE p == post[t]
<1>0. rows \in [Ids -> Row] /\ rows[k] \in Row /\ k # None /\ p.before \in States /\ p.after \in States
  BY ControllerAssumption DEF TypeOK, Ids, Transition
<1>1. notifiedUp' = ((notifiedUp \/ GoesUp(p)) /\ ~GoesDown(p)) /\ Record(p)
  BY DEF Announce
<1>2. CASE p.before # p.after /\ p.after = "connected"
  <2>1. rows' = [rows EXCEPT ![k].up = TRUE] /\ session' = session
    BY <1>0, <1>1, <1>2 DEF Record, MarkConnected, DownStates, BusyStates
  <2>2. notifiedUp' = TRUE
    BY <1>1, <1>2 DEF GoesUp, GoesDown, DownStates, TypeOK
  <2> QED  BY <1>0, <2>1, <2>2
<1>3. CASE p.before # p.after /\ p.after \in DownStates
  <2>1. GoesDown(p) <=> notifiedUp
    BY <1>3, EndIsDown
  <2>2. session' = None /\ \E o \in {"failed", "disconnected"} :
          rows' = [rows EXCEPT ![k].outcome = o, ![k].reason = Reason(p)]
    BY <1>0, <1>1, <1>3 DEF Record, EndSession, DownStates, BusyStates
  <2>3. Reason(p) \in IF notifiedUp THEN {"operator-requested", "link-lost"} ELSE {""}
    BY <2>1 DEF Reason
  <2> HIDE DEF p
  <2>4. /\ rows'[k].up = rows[k].up /\ rows'[k].outcome \in {"failed", "disconnected"}
        /\ rows'[k].reason = Reason(p)
    <3>1. PICK o \in {"failed", "disconnected"} :
            rows' = [rows EXCEPT ![k].outcome = o, ![k].reason = Reason(p)]
      BY <2>2
    <3>2. rows'[k] = [rows[k] EXCEPT !.outcome = o, !.reason = Reason(p)]
      BY <1>0, <3>1
    <3> QED  BY <1>0, <3>2 DEF Row
  <2>5. \A a \in Ids \ {k} : rows'[a] = rows[a]
    BY <1>0, <2>2
  <2> QED  BY <2>2, <2>3, <2>4, <2>5
<1>4. CASE p.before = p.after \/ p.after \in BusyStates
  <2>1. session' = session /\ rows' = rows
    BY <1>1, <1>4 DEF Record, DownStates, BusyStates
  <2>2. notifiedUp' = notifiedUp
    BY <1>1, <1>4 DEF GoesUp, GoesDown, DownStates, BusyStates, TypeOK
  <2> QED  BY <2>1, <2>2
<1> QED  BY <1>0, <1>2, <1>3, <1>4 DEF States

\* connect() opens the next row and closes the last one if it is open.
LEMMA ConnectRecords ==
  ASSUME TypeOK, OneRow, Connect
  PROVE  /\ attempt + 1 \in Ids /\ attempt' = attempt + 1 /\ session' = attempt + 1
         /\ rows'[attempt + 1] = [NoRow EXCEPT !.outcome = "open"]
         /\ \A a \in Ids \ {attempt + 1} :
              rows'[a] = IF a = session THEN [rows[a] EXCEPT !.outcome = "interrupted"] ELSE rows[a]
<1>1. attempt + 1 \in Ids /\ attempt' = attempt + 1 /\ StartSession(attempt + 1)
  BY NextAttempt, Identities DEF Connect, TypeOK
<1>2. rows \in [Ids -> Row] /\ None \notin Ids /\ session \in OrNone(Ids)
  BY ControllerAssumption DEF TypeOK, Ids
<1> DEFINE ended == IF session = None THEN rows ELSE [rows EXCEPT ![session].outcome = "interrupted"]
<1>3. session' = attempt + 1 /\ rows' = [ended EXCEPT ![attempt + 1] = [NoRow EXCEPT !.outcome = "open"]]
  BY <1>1 DEF StartSession
<1>4. /\ DOMAIN ended = Ids
      /\ \A a \in Ids : ended[a] = IF a = session THEN [rows[a] EXCEPT !.outcome = "interrupted"] ELSE rows[a]
  BY <1>2 DEF OrNone
<1> HIDE DEF ended
<1> QED  BY <1>1, <1>3, <1>4

LEMMA OneRowStep ==
  ASSUME TypeOK, ~Overlap, pc[Worker(0)] = "done", OneAnnounces, Standing, OneRow, [Next]_vars
  PROVE  OneRow'
<1>0. attempt \in Int /\ Ids \subseteq Int /\ None \notin Ids /\ rows \in [Ids -> Row]
  BY ControllerAssumption DEF TypeOK, Ids
<1>1. CASE Connect
  <2>1. rows'[attempt + 1] = [NoRow EXCEPT !.outcome = "open"] /\ notifiedUp' = FALSE
    BY <1>1, ConnectRecords DEF Connect
  <2>2. ASSUME NEW a \in Ids, a > attempt + 1 PROVE rows'[a] = rows[a]
    <3>1. a # session
      <4>1. session = None \/ session = attempt
        BY DEF OneRow
      <4>2. a # None /\ a # attempt
        BY <1>0, <2>2
      <4> QED  BY ONLY <4>1, <4>2
    <3>2. a \in Ids \ {attempt + 1}
      BY <1>0, <2>2
    <3> QED  BY <1>1, <3>1, <3>2, ConnectRecords
  <2>3. rows'[attempt + 1].outcome = "open" /\ rows'[attempt + 1].reason = "" /\ rows'[attempt + 1].up = FALSE
    BY <2>1 DEF NoRow
  <2>4. attempt' = attempt + 1 /\ session' = attempt + 1
    BY <1>1, ConnectRecords
  <2>5. \A a \in Ids : a > attempt' => rows'[a].outcome = "none"
    <3>1. \A a \in Ids : a > attempt + 1 => a > attempt
      BY <1>0
    <3> QED  BY <2>2, <2>4, <3>1 DEF OneRow
  <2>6. session' = attempt' /\ rows'[session'] = rows'[attempt + 1]
    BY <2>4
  <2> QED  BY <2>1, <2>3, <2>5, <2>6 DEF OneRow
<1>2. ASSUME NEW t \in Threads, Announce(t) PROVE OneRow'
  <2>1. attempt' = attempt
    BY <1>2, AnnounceMoves
  <2>2. CASE session = None
    <3>1. session' = None /\ rows' = rows
      BY <1>2, <2>2 DEF Announce, Record, MarkConnected, EndSession
    <3> QED  BY <2>1, <3>1 DEF OneRow
  <2>3. ASSUME NEW k \in Ids, session = k PROVE OneRow'
    <3>1. \A a \in Ids \ {k} : rows'[a] = rows[a]
      BY <1>2, <2>3, AnnounceRecords
    <3>2. k = attempt /\ rows[k].outcome = "open" /\ rows[k].reason = "" /\ rows[k].up = notifiedUp
      BY <1>0, <2>3 DEF OneRow
    <3>3. \/ session' = k /\ rows'[k] = rows[k] /\ notifiedUp' = notifiedUp
          \/ session' = k /\ rows'[k] = [rows[k] EXCEPT !.up = TRUE] /\ notifiedUp' = TRUE
          \/ session' = None
      BY <1>2, <2>3, AnnounceRecords
    <3>4. session' # None => /\ session' = k /\ rows'[k].outcome = "open" /\ rows'[k].reason = ""
                             /\ rows'[k].up = notifiedUp'
      BY <1>0, <3>2, <3>3 DEF Row
    <3> QED  BY <1>0, <2>1, <3>1, <3>2, <3>4 DEF OneRow
  <2> QED  BY <2>2, <2>3 DEF TypeOK, OrNone
<1>3. CASE ~Connect /\ \A t \in Threads : ~Announce(t)
  BY <1>3, Unrecorded DEF OneRow
<1> QED  BY <1>1, <1>2, <1>3

LEMMA UpIsToldStep ==
  ASSUME TypeOK, ~Overlap, pc[Worker(0)] = "done", OneAnnounces, Standing, UpIsTold, LinksLive, [Next]_vars
  PROVE  UpIsTold'
<1>1. CASE Connect
  <2>1. ~DownPending /\ told' = told
    BY <1>1, ConnectFacts DEF DownPending
  <2>2. status.state \notin {"connected", "disconnecting"}
    BY <1>1 DEF Connect, BusyStates
  <2> QED  BY <2>1, <2>2 DEF Standing, UpIsTold
<1>2. ASSUME NEW t \in Threads, Announce(t) PROVE UpIsTold'
  BY <1>2 DEF Announce, UpIsTold, GoesUp, GoesDown, Reason, DownStates
<1>3. CASE ~Connect /\ \A t \in Threads : ~Announce(t)
  BY <1>3, Unrecorded DEF UpIsTold
<1> QED  BY <1>1, <1>2, <1>3

-----------------------------------------------------------------------------
(* The refinement.                                                         *)

LEMMA LogConnects ==
  ASSUME TypeOK, TypeOK', OneRow, Connect
  PROVE  \E b \in Ids : Log!Begin(b)
<1>0. attempt \in Int /\ attempt + 1 \in Ids /\ None \notin Ids /\ rows \in [Ids -> Row] /\ rows' \in [Ids -> Row]
  BY ConnectRecords, ControllerAssumption DEF TypeOK, Ids
<1> DEFINE b == attempt + 1
<1>1. PICK n \in Ids : n = b
  BY <1>0
<1> HIDE DEF b
<1>2. session' = n /\ rows'[n] = [NoRow EXCEPT !.outcome = "open"]
  BY <1>1, ConnectRecords DEF b
<1>3. \A a \in Ids \ {n} : rows'[a] = IF a = session THEN [rows[a] EXCEPT !.outcome = "interrupted"] ELSE rows[a]
  BY <1>1, ConnectRecords DEF b
<1>4. session # n /\ rows[n].outcome = "none"
  <2>1. session = None \/ session = attempt
    BY DEF OneRow
  <2>2. n # None /\ n # attempt /\ n > attempt
    BY <1>0, <1>1 DEF b
  <2> QED  BY <2>1, <2>2 DEF OneRow
<1>5. Kind(n) = "none"
  BY <1>4 DEF Kind
<1>6. Kind(n)' = "trying"
  BY <1>2 DEF Kind, NoRow
<1>7. ASSUME NEW a \in Ids \ {n}
      PROVE  Kind(a)' = IF Kind(a) \in Log!Live THEN "interrupted" ELSE Kind(a)
  <2>1. CASE a = session
    <3>1. rows[a].outcome = "open" /\ rows[a].reason = "" /\ rows[a] \in Row
      BY <1>0, <2>1 DEF OneRow
    <3>2. rows'[a] = [rows[a] EXCEPT !.outcome = "interrupted"] /\ session' # a
      BY <1>2, <1>3, <2>1
    <3>3. rows'[a].outcome = "interrupted" /\ rows'[a].reason = ""
      BY <3>1, <3>2 DEF Row
    <3>4. Kind(a)' = "interrupted"
      BY <3>2, <3>3 DEF Kind
    <3>5. Kind(a) \in Log!Live
      BY <2>1, <3>1 DEF Kind, Log!Live
    <3> QED  BY <3>4, <3>5
  <2>2. CASE a # session
    <3>1. rows'[a] = rows[a] /\ session' # a
      BY <1>2, <1>3, <2>2
    <3>2. Kind(a)' = Kind(a)
      BY <2>2, <3>1 DEF Kind
    <3>3. Kind(a) \notin Log!Live
      BY <2>2 DEF Kind, Log!Live
    <3> QED  BY <3>2, <3>3
  <2> QED  BY <2>1, <2>2
<1>8. [a \in Ids |-> Kind(a)]' =
        [a \in Ids |-> IF a = n THEN "trying" ELSE IF Kind(a) \in Log!Live THEN "interrupted" ELSE Kind(a)]
  BY <1>6, <1>7
<1>9. Log!Begin(n)
  BY <1>5, <1>8 DEF Log!Begin
<1> QED  BY <1>9

LEMMA LogAnnounces ==
  ASSUME TypeOK, TypeOK', OneAnnounces, Standing, OneRow, NEW t \in Threads, Announce(t)
  PROVE  Log!Next \/ UNCHANGED [a \in Ids |-> Kind(a)]
<1>1. CASE session = None
  <2>1. UNCHANGED <<session, rows>>
    BY <1>1 DEF Announce, Record, MarkConnected, EndSession
  <2> QED  BY <2>1 DEF Kind
<1>2. ASSUME NEW k \in Ids, session = k
      PROVE  Log!Next \/ UNCHANGED [a \in Ids |-> Kind(a)]
  <2>0. k # None /\ rows \in [Ids -> Row] /\ rows[k] \in Row
    BY ControllerAssumption DEF TypeOK, Ids
  <2>1. rows[k].outcome = "open" /\ rows[k].reason = "" /\ rows[k].up = notifiedUp
    BY <1>2, <2>0 DEF OneRow
  <2>2. Kind(k) = IF notifiedUp THEN "up" ELSE "trying"
    BY <1>2, <2>1 DEF Kind
  <2>3. \A a \in Ids \ {k} : rows'[a] = rows[a]
    BY <1>2, AnnounceRecords
  <2>4. session' \in {k, None}
    BY <1>2, AnnounceRecords
  <2>5. \A a \in Ids \ {k} : Kind(a)' = Kind(a)
    BY <1>2, <2>3, <2>4, ControllerAssumption DEF Kind, Ids
  <2>6. ASSUME NEW to, Kind(k)' = to
        PROVE  [a \in Ids |-> Kind(a)]' = [[a \in Ids |-> Kind(a)] EXCEPT ![k] = to]
    BY <2>5, <2>6
  <2>7. CASE session' = k
    <3>1. Kind(k)' \in {Kind(k), "up"}
      <4>1. rows'[k] = rows[k] \/ rows'[k] = [rows[k] EXCEPT !.up = TRUE]
        BY <1>2, <2>0, <2>7, AnnounceRecords
      <4>2. rows'[k] = rows[k] => Kind(k)' = Kind(k)
        BY <1>2, <2>7 DEF Kind
      <4>3. rows'[k] = [rows[k] EXCEPT !.up = TRUE] => Kind(k)' = "up"
        BY <2>0, <2>1, <2>7 DEF Kind, Row
      <4> QED  BY <4>1, <4>2, <4>3
    <3>2. CASE Kind(k)' = Kind(k)
      BY <2>5, <3>2
    <3>3. CASE Kind(k) = "trying" /\ Kind(k)' = "up"
      BY <2>6, <3>3 DEF Log!Next, Log!ComeUp, Log!Change
    <3> QED  BY <2>2, <3>1, <3>2, <3>3
  <2>8. CASE session' = None
    <3>1. /\ rows'[k].up = rows[k].up /\ rows'[k].outcome \in {"failed", "disconnected"}
          /\ rows'[k].reason \in IF notifiedUp THEN {"operator-requested", "link-lost"} ELSE {""}
      BY <1>2, <2>0, <2>8, AnnounceRecords
    <3>2. CASE notifiedUp
      <4>1. Kind(k) = "up" /\ Kind(k)' \in {"dropped", "disconnected"}
        BY <2>0, <2>2, <2>8, <3>1, <3>2 DEF Kind
      <4> QED  BY <2>6, <4>1 DEF Log!Next, Log!Drop, Log!Stop, Log!Change
    <3>3. CASE ~notifiedUp
      <4>1. Kind(k) = "trying" /\ Kind(k)' = "failed"
        BY <2>0, <2>1, <2>2, <2>8, <3>1, <3>3 DEF Kind
      <4> QED  BY <2>6, <4>1 DEF Log!Next, Log!Fail, Log!Change
    <3> QED  BY <3>2, <3>3
  <2> QED  BY <2>4, <2>7, <2>8
<1> QED  BY <1>1, <1>2 DEF TypeOK, OrNone

\* The invariant that the properties of the contract rest on.
LEMMA LogInvStep ==
  ASSUME Plain, TypeOK, LogInv, [Next]_vars
  PROVE  LogInv'
<1>0. ~Overlap /\ ~Haste /\ ~Lateness /\ MaxReconnects = 0
  BY DEF Plain, Overlap, Haste, Lateness
<1> USE <1>0 DEF LogInv, ThreadsInv, ReportInv
<1>1. pc'[Worker(0)] = "done" /\ OneWorker' /\ LinksLive'
  BY StartedStays, OneWorkerStep, LinksLiveStep
<1>2. OwnProcess'
  BY ProcessInvStep
<1>3. OneAnnounces' /\ OthersSilent'
  BY OneAnnouncesStep, OthersSilentStep
<1>4. Launching' /\ StopsAtRest'
  BY LaunchingStep, StopsAtRestStep
<1>5. \A c \in Ids : Ordered(c)'
  BY OrderedStep
<1>6. UpForGood'
  BY UpForGoodStep
<1>7. Standing' /\ EndToCome'
  BY StandingStep, EndToComeStep
<1>8. OneRow' /\ UpIsTold'
  BY OneRowStep, UpIsToldStep
<1> QED  BY <1>1, <1>2, <1>3, <1>4, <1>5, <1>6, <1>7, <1>8

LEMMA LogInit == Plain /\ Init => LogInv
<1> SUFFICES ASSUME Plain, Init PROVE LogInv
  OBVIOUS
<1> USE Identities, DistinctThreads, ControllerAssumption
<1>1. /\ pc = [t \in Threads |-> IF t = Worker(0) THEN "done" ELSE "idle"]
      /\ attempt = 0 /\ link = [c \in Ids |-> NoLink] /\ daemon = NoDaemon
      /\ status.state = "disconnected" /\ ~notifiedUp /\ session = None /\ told = "nothing"
      /\ rows = [a \in Ids |-> NoRow]
  BY DEF Init, Plain
<1>2. \A c \in Ids : ~link[c].open /\ link[c].queue = <<>>
  BY <1>1 DEF NoLink
<1>3. pc[Worker(0)] = "done" /\ OneWorker /\ LinksLive /\ OwnProcess
  BY <1>1, <1>2 DEF OneWorker, LinksLive, OwnProcess, Running, NoDaemon
<1>4. \A t \in Threads : ~Announcing(t)
  BY <1>1 DEF Announcing
<1>5. OneAnnounces /\ OthersSilent /\ Launching /\ StopsAtRest
  BY <1>1, <1>2, <1>4 DEF OneAnnounces, OthersSilent, Launching, StopsAtRest
<1>6. ASSUME NEW c \in Ids PROVE Ordered(c) /\ \A word : ~Says(c, word)
  BY <1>2 DEF Ordered, Says
<1>7. UpForGood /\ Standing /\ EndToCome
  BY <1>1, <1>6 DEF UpForGood, Standing, EndToCome, LooksUp
<1>8. OneRow /\ UpIsTold
  BY <1>1 DEF OneRow, UpIsTold, NoRow
<1> QED  BY <1>3, <1>5, <1>6, <1>7, <1>8 DEF LogInv, ThreadsInv, ReportInv

\* Threads, reports and records fit together in every reachable state, where
\* the history is kept as the attempt log says (_record(), _kind()).
THEOREM LogInvariant == Plain => (Spec => []LogInv)
<1>1. Plain /\ TypeOK /\ LogInv /\ [Next]_vars => LogInv'
  BY LogInvStep
<1> SUFFICES ASSUME Plain PROVE Spec => []LogInv
  OBVIOUS
<1> QED  BY <1>1, LogInit, ControllerTypes, PTL DEF Spec

\* Once every thread has come to rest and no OpenVPN is left, the last thing the
\* operator was told is not that the tunnel is up (_announce(), _on_socket_closed()):
\* for any number of attempts and any bounds, in the plain environments.
THEOREM EveryDropIsAnnounced == Plain => (Spec => []DropAnnounced)
<1>1. LogInv => DropAnnounced
  <2> SUFFICES ASSUME LogInv, Quiet, ~Running, told = "up" PROVE FALSE
    BY DEF DropAnnounced
  <2>1. LooksUp
    BY DEF LogInv, UpIsTold, LooksUp
  <2>2. \A t \in Threads : ~Announcing(t)
    BY Identities DEF Quiet, Announcing, Threads, Ids, Attempts
  <2>3. PICK c \in Ids : link[c].open \/ EofQueued(c)
    BY <2>1, <2>2 DEF LogInv, ReportInv, EndToCome, DownPending
  <2>4. link[c].queue = <<>> /\ ~link[c].open
    BY DEF Quiet, LogInv, ThreadsInv, LinksLive
  <2> QED  BY <2>3, <2>4 DEF EofQueued
<1> QED  BY <1>1, LogInvariant, PTL

\* What the session history shows is an AttemptLog (_kind() of
\* app/services/sessions.py over the rows that connect() and _announce() write).
THEOREM ControllerImplementsAttemptLog == Plain => (Spec => ImplementsAttemptLog)
<1> SUFFICES ASSUME Plain PROVE Spec => ImplementsAttemptLog
  OBVIOUS
<1>1. Init => Log!Init
  <2> SUFFICES ASSUME Init PROVE [a \in Ids |-> Kind(a)] = [a \in Ids |-> "none"]
    BY DEF Log!Init
  <2>1. \A a \in Ids : rows[a].outcome = "none"
    BY DEF Init, NoRow
  <2> QED  BY <2>1 DEF Kind
<1>2. TypeOK /\ TypeOK' /\ LogInv /\ [Next]_vars => [Log!Next]_([a \in Ids |-> Kind(a)])
  <2> SUFFICES ASSUME TypeOK, TypeOK', LogInv, [Next]_vars
               PROVE  Log!Next \/ UNCHANGED [a \in Ids |-> Kind(a)]
    OBVIOUS
  <2> USE DEF LogInv, ThreadsInv, ReportInv
  <2>1. CASE Connect
    BY <2>1, LogConnects DEF Log!Next
  <2>2. ASSUME NEW t \in Threads, Announce(t) PROVE Log!Next \/ UNCHANGED [a \in Ids |-> Kind(a)]
    BY <2>2, LogAnnounces
  <2>3. CASE ~Connect /\ \A t \in Threads : ~Announce(t)
    <3>1. UNCHANGED <<session, rows>>
      BY <2>3, Unrecorded
    <3> QED  BY <3>1 DEF Kind
  <2> QED  BY <2>1, <2>2, <2>3
<1> QED  BY <1>1, <1>2, LogInvariant, ControllerTypes, PTL DEF Spec, ImplementsAttemptLog, Log!Spec

-----------------------------------------------------------------------------
(* Whom a stop is attributed to.  disconnect() and the worker that gives   *)
(* an attempt up both set _shutdown_requested.  As long as disconnect()    *)
(* was not called, the second happens only in an attempt that can no       *)
(* longer come up: without timeouts the worker gives up when its status    *)
(* failed, and by then OpenVPN is gone or waits for an answer it will not  *)
(* get.                                                                    *)

OnlyLast(q) == \A i \in 1 .. Len(q) : q[i] \in LastWords

\* Last words are said by a process that is gone, and nothing follows them.
LastWordsLast(c) ==
  LET q == link[c].queue IN
  \A i \in 1 .. Len(q) : q[i] \in LastWords =>
    ~link[c].open /\ \A j \in i .. Len(q) : q[j] \in LastWords

\* disconnect() was not called in this attempt.
Untouched == asked[attempt] = 0

Asked ==
  /\ Untouched => pc[Operator] = "idle" /\ status.state # "disconnecting"
  /\ Untouched /\ attempt = 0 => ~shutdownRequested
  /\ \A a \in Ids : a > attempt => asked[a] = 0

\* The attempt's worker has not opened its connection yet.
Opening ==
  pc[Worker(attempt)] \in {"launch", "socket"} =>
    /\ ~link[attempt].open /\ link[attempt].queue = <<>> /\ pc[Dispatcher(attempt)] = "idle"
    /\ pc[Worker(attempt)] = "launch" => ~Running
    /\ Running => daemon.phase = "held"
    /\ Untouched => status.state = "starting" /\ ~shutdownRequested

\* OpenVPN, if it runs, waits for the credential.
Waits == Running => daemon.phase = "prompted"

Asking ==
  LET q == link[attempt].queue IN
  /\ \A i \in 1 .. Len(q) : q[i] \in LastWords => ~Running
  /\ \A i \in 1 .. Len(q) : q[i] = "need" => Waits /\ \A j \in i + 1 .. Len(q) : q[j] \in LastWords
  /\ pc[Dispatcher(attempt)] = "answer" => Waits /\ OnlyLast(q)

\* The attempt cannot come up any more.
Hopeless ==
  /\ status.state # "connected"
  /\ OnlyLast(link[attempt].queue) /\ pc[Dispatcher(attempt)] # "answer"
  /\ pc[Worker(attempt)] \notin {"launch", "socket"}
  /\ Running => \/ daemon.phase = "prompted"
                \/ daemon.phase = "held" /\ pc[Worker(attempt)] \notin {"adopt", "authenticate", "prime"}

Failing ==
  \/ status.state = "failed" \/ shutdownRequested
  \/ pc[Worker(attempt)] \in {"failing", "report", "announce", "abort"}

\* The end that is announced is not the end of a tunnel.
NoDownPending == \A t \in Threads : Announcing(t) => post[t].before \notin {"connected", "disconnecting"}

StopInv ==
  /\ OneWorker /\ LinksLive /\ OwnProcess /\ OneAnnounces /\ Asked
  /\ \A c \in Ids : LastWordsLast(c)
  /\ attempt # 0 => /\ OthersSilent /\ Opening /\ Asking
                    /\ Untouched /\ Failing => Hopeless
                    /\ Untouched /\ shutdownRequested => NoDownPending

LEMMA LastWordsStep ==
  ASSUME TypeOK, NEW c \in Ids, LastWordsLast(c), [Next]_vars
  PROVE  LastWordsLast(c)'
<1> DEFINE q == link[c].queue
           r == link'[c].queue
<1>0. q \in Seq(Events) /\ Len(q) \in Nat
  BY DEF TypeOK, Link
<1>1. CASE link'[c] = link[c]
  BY <1>1 DEF LastWordsLast
<1>2. ASSUME NEW words \in Farewells, Kill(words), link'[c] # link[c] PROVE LastWordsLast(c)'
  <2>1. /\ link[c].open /\ ~link'[c].open
        /\ Len(r) \in Nat /\ Len(r) > Len(q) /\ r[Len(r)] = "eof"
        /\ \A j \in 1 .. Len(q) : r[j] = q[j]
        /\ \A j \in Len(q) + 1 .. Len(r) - 1 : r[j] \in {"exiting", "fatal", "rejected"}
    BY <1>2, KilledQueue
  <2>2. \A i \in 1 .. Len(q) : q[i] \notin LastWords
    BY <2>1 DEF LastWordsLast
  <2> HIDE DEF q, r
  <2>3. \A i \in 1 .. Len(r) : r[i] \in LastWords <=> i > Len(q)
    BY <1>0, <2>1, <2>2 DEF LastWords
  <2>4. ASSUME NEW i \in 1 .. Len(r), r[i] \in LastWords, NEW j \in i .. Len(r) PROVE r[j] \in LastWords
    <3>1. j \in 1 .. Len(r) /\ j > Len(q)
      BY <1>0, <2>1, <2>3, <2>4
    <3> QED  BY <2>3, <3>1
  <2> QED  BY <2>1, <2>4 DEF LastWordsLast, r
<1>3. ASSUME NEW a \in Ids, link' = OpenLink(a), link'[c] # link[c] PROVE LastWordsLast(c)'
  <2>1. a = c
    BY <1>3 DEF OpenLink, TypeOK
  <2>2. r = <<>>
    BY <1>3, <2>1 DEF OpenLink, TypeOK
  <2> QED  BY <2>2 DEF LastWordsLast
<1>4. ASSUME NEW d \in Ids, NEW e, Take(d, e), link'[c] # link[c] PROVE LastWordsLast(c)'
  <2>1. d = c
    BY <1>4, TakenQueue
  <2>2. /\ Len(q) > 0 /\ Len(r) = Len(q) - 1
        /\ \A j \in 1 .. Len(r) : r[j] = q[j + 1]
        /\ link'[c].open = link[c].open
    BY <1>4, <2>1, TakenQueue
  <2>3. \A i \in 1 .. Len(q) : q[i] \in LastWords => ~link[c].open /\ \A j \in i .. Len(q) : q[j] \in LastWords
    BY DEF LastWordsLast
  <2> HIDE DEF q, r
  <2>4. ASSUME NEW i \in 1 .. Len(r), r[i] \in LastWords
        PROVE  ~link'[c].open /\ \A j \in i .. Len(r) : r[j] \in LastWords
    <3>1. i + 1 \in 1 .. Len(q) /\ q[i + 1] \in LastWords
      BY <1>0, <2>2, <2>4
    <3>2. ASSUME NEW j \in i .. Len(r) PROVE r[j] \in LastWords
      <4>1. j \in 1 .. Len(r) /\ j + 1 \in i + 1 .. Len(q)
        BY <1>0, <2>2
      <4> QED  BY <2>2, <2>3, <3>1, <4>1
    <3> QED  BY <2>2, <2>3, <3>1, <3>2
  <2> QED  BY <2>4 DEF LastWordsLast, r
<1>5. CASE (OvpnAsks \/ OvpnConnects \/ OvpnConnected \/ OvpnReconnects) /\ link'[c] # link[c]
  <2>1. PICK w \in {"need", "progress", "connected"} :
           link' = [d \in Ids |-> IF Reaches(d) THEN [link[d] EXCEPT !.queue = Append(@, w)] ELSE link[d]]
    BY <1>5 DEF OvpnAsks, OvpnConnects, OvpnConnected, OvpnReconnects, Progress
  <2>2. /\ link[c].open /\ Len(r) = Len(q) + 1 /\ r[Len(r)] = w
        /\ \A j \in 1 .. Len(q) : r[j] = q[j]
    BY <1>5, <2>1, AppendedQueue
  <2>3. \A i \in 1 .. Len(q) : q[i] \notin LastWords
    BY <2>2 DEF LastWordsLast
  <2> HIDE DEF q, r
  <2>4. \A i \in 1 .. Len(r) : r[i] \notin LastWords
    BY <1>0, <2>1, <2>2, <2>3 DEF LastWords
  <2> QED  BY <2>4 DEF LastWordsLast, r
<1> QED  BY <1>1, <1>2, <1>3, <1>4, <1>5, WorldSteps

\* What changes what disconnect() leaves behind.
LEMMA Unasked ==
  ASSUME TypeOK, [Next]_vars, ~Disconnect
  PROVE  /\ asked' = asked
         /\ status'.state = "disconnecting" => status.state = "disconnecting"
         /\ pc'[Operator] # "idle" => pc[Operator] # "idle"
         /\ shutdownRequested' =>
              shutdownRequested \/ pc[Operator] # "idle" \/ \E a \in Attempts : AbortDaemon(a)
<1> USE Identities, DistinctThreads
<1>0. status \in Status
  BY DEF TypeOK
<1> DEFINE Goal == /\ asked' = asked
                   /\ status'.state = "disconnecting" => status.state = "disconnecting"
                   /\ pc'[Operator] # "idle" => pc[Operator] # "idle"
                   /\ shutdownRequested' => shutdownRequested \/ pc[Operator] # "idle"
<1>1. CASE Connect
  <2>1. attempt + 1 \in Attempts /\ Goto(Worker(attempt + 1), "launch")
    BY <1>1, NextAttempt DEF Connect, TypeOK
  <2>2. pc'[Operator] = pc[Operator]
    BY <2>1, GotoRests
  <2> QED  BY <1>1, <2>2 DEF Connect, seen
<1>2. CASE StopStep
  BY <1>2 DEF StopStep, DisconnectSignal, DisconnectStop, DisconnectDone, At, Track, seen, flags
<1>3. CASE AttachStep
  <2>1. pc'[Operator] = pc[Operator] /\ asked' = asked
    BY <1>3, AttachMoves DEF seen
  <2>2. /\ shutdownRequested' = shutdownRequested
        /\ status'.state = "disconnecting" => status.state = "disconnecting"
    BY <1>0, <1>3 DEF AttachStep, OpenSocket, AdoptClient, AttachSession, AttachStatus, AttachRefresh, AttachEnd,
                 Track, flags, Status
  <2> QED  BY <2>1, <2>2
<1>4. ASSUME NEW a \in Attempts, WorkerStep(a) 
      PROVE  \/ Goal
             \/ AbortDaemon(a) /\ asked' = asked /\ pc'[Operator] = pc[Operator] /\ status' = status
  <2>1. pc'[Operator] = pc[Operator] /\ asked' = asked
    BY <1>4, WorkerMoves DEF seen
  <2>2. CASE ~AbortDaemon(a)
    <3>1. /\ shutdownRequested' = shutdownRequested
          /\ \/ status' \in {status, Advanced("authenticating"), Advanced("connecting")}
             \/ status' = [state |-> "failed", error |-> TRUE]
      BY <1>4, <2>2 DEF WorkerStep, Launch, OpenSocket, AdoptClient, Authenticate, Prime, WaitTimeout, Answered,
             Settle, Superseded, Report, Finish, Track, flags
    <3>2. status'.state = "disconnecting" => status.state = "disconnecting"
      BY <1>0, <3>1 DEF Advanced, Status
    <3>3. shutdownRequested' => shutdownRequested
      BY <3>1
    <3> QED  BY <2>1, <3>2, <3>3
  <2> QED  BY <2>1, <2>2 DEF AbortDaemon
<1>5. ASSUME NEW c \in Ids, DispatcherStep(c) PROVE Goal
  <2>1. asked' = asked /\ (pc'[Operator] # "idle" => pc[Operator] # "idle")
    BY <1>5, DispatcherMoves DEF Rests
  <2>2. shutdownRequested' = shutdownRequested
    BY <1>5 DEF DispatcherStep, OnConnected, OnExiting, OnProgress, OnFatal, OnNeed, AnswerNeed,
                OnSocketClosed, flags
  <2>3. status'.state = "disconnecting" => status.state = "disconnecting"
    BY <1>0, <1>5 DEF DispatcherStep, OnConnected, OnExiting, OnProgress, OnFatal, OnNeed, AnswerNeed,
                OnSocketClosed, Track, Status
  <2> QED  BY <2>1, <2>2, <2>3
<1>6. ASSUME NEW t \in Threads, Announce(t) PROVE Goal
  <2>1. /\ asked' = asked /\ status' = status /\ pc[t] = "announce"
        /\ \A u \in Threads \ {t} : Rests(u)
    BY <1>6, AnnounceMoves DEF seen
  <2>2. shutdownRequested' => shutdownRequested
    BY <1>6 DEF Announce
  <2> QED  BY <2>1, <2>2 DEF Rests
<1>7. CASE OvpnStep \/ UNCHANGED vars
  BY <1>7 DEF OvpnStep, OvpnAsks, OvpnConnects, OvpnConnected, OvpnReconnects, OvpnExits, Progress,
              Environment, vars, flags, seen
<1> QED  BY <1>1, <1>2, <1>3, <1>4, <1>5, <1>6, <1>7 DEF Next

LEMMA AskedStep ==
  ASSUME TypeOK, ~Overlap, OneWorker, LinksLive, Asked, [Next]_vars
  PROVE  Asked'
<1>0. attempt \in Int /\ Ids \subseteq Int /\ attempt \in Ids /\ asked \in [Ids -> Nat]
  BY ControllerAssumption DEF TypeOK, Ids
<1>1. CASE Connect
  <2>1. /\ attempt + 1 \in Ids /\ attempt' = attempt + 1 /\ status'.state = "starting" /\ pc'[Operator] = "idle"
    BY <1>1, ConnectFacts, Identities
  <2>2. asked' = asked /\ shutdownRequested' = FALSE
    BY <1>1 DEF Connect, seen
  <2> QED  BY <1>0, <2>1, <2>2 DEF Asked, Untouched
<1>2. CASE Disconnect
  <2>1. attempt' = attempt /\ asked' = [asked EXCEPT ![attempt] = @ + 1]
    BY <1>2 DEF Disconnect
  <2>2. asked'[attempt] # 0 /\ \A a \in Ids : a > attempt => asked'[a] = asked[a]
    BY <1>0, <2>1
  <2> QED  BY <2>1, <2>2 DEF Asked, Untouched
<1>3. CASE ~Connect /\ ~Disconnect
  <2>1. /\ attempt' = attempt /\ asked' = asked
        /\ status'.state = "disconnecting" => status.state = "disconnecting"
        /\ pc'[Operator] # "idle" => pc[Operator] # "idle"
        /\ shutdownRequested' =>
             shutdownRequested \/ pc[Operator] # "idle" \/ \E a \in Attempts : AbortDaemon(a)
    BY <1>3, Unasked, AttemptStays
  <2>2. attempt = 0 => \A a \in Attempts : ~AbortDaemon(a)
    <3>1. \A a \in Attempts : AbortDaemon(a) => a = attempt
      BY WorkerIsCurrent DEF AbortDaemon, At
    <3> QED  BY <3>1 DEF Attempts
  <2> QED  BY <2>1, <2>2 DEF Asked, Untouched
<1> QED  BY <1>1, <1>2, <1>3

\* Until the connection is opened the attempt's queue and its dispatcher are quiet.
LEMMA OpeningQuiet ==
  ASSUME TypeOK, OneWorker, OthersSilent, NEW k \in Attempts, k = attempt, pc[Worker(0)] = "done",
         [Next]_vars, ~Connect, pc'[Worker(k)] \in {"launch", "socket"},
         pc[Worker(k)] \in {"launch", "socket"} =>
           ~link[k].open /\ link[k].queue = <<>> /\ pc[Dispatcher(k)] = "idle"
  PROVE  /\ pc[Worker(k)] \in {"launch", "socket"}
         /\ pc'[Dispatcher(k)] = "idle" /\ link'[k] = link[k]
         /\ \/ pc'[Worker(k)] = pc[Worker(k)] /\ \A a \in Attempts : ~WorkerStep(a)
            \/ Launch(k) /\ pc'[Worker(k)] = "socket"
<1> USE Identities, DistinctThreads
<1>1. \A c \in Ids : ~DispatcherStep(c)
  <2> SUFFICES ASSUME NEW c \in Ids, DispatcherStep(c) PROVE FALSE
    OBVIOUS
  <2>1. c = k /\ Rests(Worker(k))
    BY DispatcherIsCurrent, DispatcherMoves
  <2>2. link[c].queue = <<>> /\ pc[Dispatcher(c)] = "idle"
    BY <2>1 DEF Rests
  <2> QED  BY <2>2 DEF DispatcherStep, OnConnected, OnExiting, OnProgress, OnFatal, OnNeed,
                  AnswerNeed, OnSocketClosed, Take, At
<1>2. ASSUME NEW a \in Attempts, WorkerStep(a)
      PROVE  a = k /\ Launch(k) /\ pc[Worker(k)] = "launch" /\ pc'[Worker(k)] = "socket"
             /\ pc'[Dispatcher(k)] = pc[Dispatcher(k)]
  <2>1. a = k
    BY <1>2, WorkerMoves, WorkerIsCurrent
  <2>2. Launch(a)
    BY <1>2, <2>1 DEF WorkerStep, OpenSocket, AdoptClient, Authenticate, Prime, WaitTimeout,
       Answered, Settle, Superseded, Report, AbortDaemon, Finish, Goto, AfterWaiting, TypeOK, At
  <2> QED  BY <2>1, <2>2 DEF Launch, At, Goto, TypeOK
<1>3. ASSUME \A a \in Attempts : ~WorkerStep(a)
      PROVE  pc'[Worker(k)] = pc[Worker(k)] /\ (pc[Dispatcher(k)] = "idle" => pc'[Dispatcher(k)] = "idle")
  <2>1. ASSUME NEW t \in Threads, Announce(t)
        PROVE  pc'[Worker(k)] = pc[Worker(k)] /\ (pc[Dispatcher(k)] = "idle" => pc'[Dispatcher(k)] = "idle")
    <3>1. /\ pc[t] = "announce" /\ \A u \in Threads \ {t} : Rests(u)
          /\ t = Worker(k) => pc'[t] = "abort"
      BY <2>1, AnnounceMoves
    <3> QED  BY <3>1 DEF Rests
  <2> QED  BY <1>1, <1>3, <2>1, StopMoves, AttachMoves
           DEF Next, OvpnStep, OvpnAsks, OvpnConnects, OvpnConnected, OvpnReconnects, OvpnExits, Progress,
               Environment, vars
<1>4. /\ pc[Worker(k)] \in {"launch", "socket"} /\ pc'[Dispatcher(k)] = "idle"
      /\ ~link[k].open /\ link[k].queue = <<>>
  <2>1. CASE \A a \in Attempts : ~WorkerStep(a)
    BY <1>3, <2>1
  <2>2. CASE \E a \in Attempts : WorkerStep(a)
    BY <1>2, <2>2
  <2> QED  BY <2>1, <2>2
<1>5. link'[k] = link[k]
  <2>1. ~OpenSocket(k)
    BY DEF OpenSocket, Goto, TypeOK, At, Attempts
  <2>2. \A a \in Ids : OpenSocket(a) => a = k
    <3>1. \A a \in Ids : OpenSocket(a) => a \in Attempts
      BY ControllerAssumption DEF OpenSocket, At, Ids, Attempts
    <3>2. \A a \in Attempts : OpenSocket(a) => pc[Worker(a)] \notin {"idle", "done"}
      BY DEF OpenSocket, At
    <3> QED  BY <3>1, <3>2, WorkerIsCurrent
  <2>3. ASSUME NEW words, Kill(words) PROVE link'[k] = link[k]
    BY <1>4, <2>3 DEF Kill, Closed
  <2>4. ASSUME NEW d \in Ids, NEW e, Take(d, e) PROVE link'[k] = link[k]
    BY <1>4, <2>4 DEF Take, TypeOK
  <2>5. CASE OvpnAsks \/ OvpnConnects \/ OvpnConnected \/ OvpnReconnects
    BY <1>4, <2>5 DEF OvpnAsks, OvpnConnects, OvpnConnected, OvpnReconnects, Progress, Reaches, IsOpen
  <2> QED  BY <2>1, <2>2, <2>3, <2>4, <2>5, WorldSteps
<1> QED  BY <1>2, <1>3, <1>4, <1>5

\* In an attempt that disconnect() leaves alone only the attempt's own threads,
\* announcements and OpenVPN move.
LEMMA UntouchedSteps ==
  ASSUME TypeOK, OneWorker, OthersSilent, Asked, NEW k \in Attempts, k = attempt, [Next]_vars, ~Connect,
         Untouched'
  PROVE  /\ Untouched /\ attempt' = attempt /\ asked' = asked
         /\ pc[Operator] = "idle" /\ status.state # "disconnecting"
         /\ \/ WorkerStep(k)
            \/ DispatcherStep(k)
            \/ \E t \in Threads : Announce(t)
            \/ OvpnStep
            \/ UNCHANGED vars
<1> USE Identities, DistinctThreads
<1>1. attempt' = attempt
  BY AttemptStays
<1>2. ~Disconnect
  BY <1>1 DEF Disconnect, Untouched, TypeOK
<1>3. Untouched /\ asked' = asked
  BY <1>1, <1>2, Unasked DEF Untouched
<1>4. pc[Operator] = "idle" /\ status.state # "disconnecting"
  BY <1>3 DEF Asked
<1>5. ~StopStep
  BY <1>4 DEF StopStep, DisconnectSignal, DisconnectStop, DisconnectDone, At
<1>6. ~AttachStep
  BY AttachMoves DEF OneWorker
<1>7. \A a \in Attempts : WorkerStep(a) => a = k
  BY WorkerMoves, WorkerIsCurrent
<1>8. \A c \in Ids : DispatcherStep(c) => c = k
  BY DispatcherIsCurrent
<1> QED  BY <1>1, <1>2, <1>3, <1>4, <1>5, <1>6, <1>7, <1>8 DEF Next

\* Where a worker can be on its way to the credential.
LEMMA EarlySteps ==
  ASSUME TypeOK, [Next]_vars, ~Connect, NEW k \in Attempts
  PROVE  /\ pc'[Worker(k)] \in {"launch", "socket"} => pc[Worker(k)] \in {"launch", "socket"}
         /\ pc'[Worker(k)] \in {"adopt", "authenticate", "prime"} =>
              pc[Worker(k)] \in {"socket", "adopt", "authenticate", "prime"}
<1> USE Identities, DistinctThreads
<1>1. ASSUME NEW a \in Attempts, WorkerStep(a), a = k
      PROVE  /\ pc'[Worker(k)] = "socket" => pc[Worker(k)] = "launch"
             /\ pc'[Worker(k)] = "adopt" => pc[Worker(k)] = "socket"
             /\ pc'[Worker(k)] = "authenticate" => pc[Worker(k)] = "adopt"
             /\ pc'[Worker(k)] = "prime" => pc[Worker(k)] = "authenticate"
             /\ pc'[Worker(k)] # "launch"
  BY <1>1 DEF WorkerStep, Launch, OpenSocket, AdoptClient, Authenticate, Prime, WaitTimeout,
       Answered, Settle, Superseded, Report, AbortDaemon, Finish, Goto, AfterWaiting, TypeOK, At
<1>2. ASSUME NEW a \in Attempts, WorkerStep(a), a # k PROVE pc'[Worker(k)] = pc[Worker(k)]
  BY <1>2, WorkerMoves
<1>3. CASE Disconnect \/ StopStep
  BY <1>3, StopMoves
<1>4. CASE AttachStep
  BY <1>4, AttachMoves
<1>5. ASSUME NEW c \in Ids, DispatcherStep(c) PROVE Rests(Worker(k))
  BY <1>5, DispatcherMoves
<1>6. ASSUME NEW t \in Threads, Announce(t) PROVE Rests(Worker(k)) \/ pc'[Worker(k)] = "abort"
  <2>1. /\ \A u \in Threads \ {t} : Rests(u)
        /\ t = Worker(k) => pc'[t] = "abort"
    BY <1>6, AnnounceMoves
  <2> QED  BY <2>1
<1>7. CASE OvpnStep \/ UNCHANGED vars
  BY <1>7 DEF OvpnStep, OvpnAsks, OvpnConnects, OvpnConnected, OvpnReconnects, OvpnExits, Progress,
              Environment, vars
<1> QED  BY <1>1, <1>2, <1>3, <1>4, <1>5, <1>6, <1>7 DEF Next, Rests

LEMMA OpeningStays ==
  ASSUME TypeOK, OneWorker, LinksLive, OwnProcess, OthersSilent, Asked, Opening, NEW k \in Attempts,
         k = attempt, [Next]_vars, ~Connect
  PROVE  Opening'
<1> USE Identities, DistinctThreads
<1>0. attempt' = attempt /\ pc[Worker(0)] = "done" /\ daemon \in Daemon
  BY AttemptStays DEF OneWorker, TypeOK
<1> SUFFICES ASSUME pc'[Worker(k)] \in {"launch", "socket"} PROVE Opening'
  BY <1>0 DEF Opening
<1>1. /\ pc[Worker(k)] \in {"launch", "socket"}
      /\ pc'[Dispatcher(k)] = "idle" /\ link'[k] = link[k]
      /\ \/ pc'[Worker(k)] = pc[Worker(k)] /\ \A a \in Attempts : ~WorkerStep(a)
         \/ Launch(k) /\ pc'[Worker(k)] = "socket"
  BY <1>0, OpeningQuiet DEF Opening
<1>2. /\ ~link[k].open /\ link[k].queue = <<>> /\ pc[Dispatcher(k)] = "idle"
      /\ pc[Worker(k)] = "launch" => ~Running
      /\ Running => daemon.phase = "held"
      /\ Untouched => status.state = "starting" /\ ~shutdownRequested
  BY <1>1 DEF Opening
<1>3. pc'[Worker(k)] = "launch" => ~Running'
  <2> SUFFICES ASSUME pc'[Worker(k)] = "launch" PROVE ~Running'
    OBVIOUS
  <2>1. pc[Worker(k)] = "launch" /\ \A a \in Attempts : ~Launch(a)
    BY <1>1 DEF WorkerStep
  <2> QED  BY <1>0, <1>2, <2>1, ProcessStep
<1>4. Running' => daemon'.phase = "held"
  <2>1. \A c \in Ids : ~DispatcherStep(c)
    <3> SUFFICES ASSUME NEW c \in Ids, DispatcherStep(c) PROVE FALSE
      OBVIOUS
    <3>1. c = k
      BY DispatcherIsCurrent
    <3> QED  BY <1>2, <3>1 DEF DispatcherStep, OnConnected, OnExiting, OnProgress, OnFatal, OnNeed,
                AnswerNeed, OnSocketClosed, Take, At
  <2>2. \A a \in Attempts : ~Prime(a)
    <3> SUFFICES ASSUME NEW a \in Attempts, Prime(a) PROVE FALSE
      OBVIOUS
    <3>1. a = k
      BY WorkerIsCurrent DEF Prime, At
    <3> QED  BY <1>1, <3>1 DEF Prime, At
  <2>3. CASE \E words \in Farewells : Kill(words)
    BY <2>3 DEF Kill, NoDaemon, Running
  <2>4. CASE daemon' \in {daemon, [daemon EXCEPT !.term = TRUE]}
    BY <1>0, <1>2, <2>4 DEF Running, Daemon
  <2>5. ASSUME NEW a, daemon' = [NoDaemon EXCEPT !.id = a] PROVE daemon'.phase = "held"
    BY <2>5 DEF NoDaemon
  <2>6. CASE OvpnAsks \/ OvpnConnects \/ OvpnConnected \/ OvpnReconnects
    BY <1>2, <2>6 DEF OvpnAsks, OvpnConnects, OvpnConnected, OvpnReconnects, Progress
  <2> QED  BY <2>1, <2>2, <2>3, <2>4, <2>5, <2>6, WorldSteps DEF DispatcherStep
<1>5. Untouched' => status'.state = "starting" /\ ~shutdownRequested'
  <2> SUFFICES ASSUME Untouched' PROVE status'.state = "starting" /\ ~shutdownRequested'
    OBVIOUS
  <2>1. /\ Untouched
        /\ \/ WorkerStep(k) \/ DispatcherStep(k) \/ (\E t \in Threads : Announce(t))
           \/ OvpnStep \/ UNCHANGED vars
    BY UntouchedSteps
  <2>2. WorkerStep(k) => status' = status /\ shutdownRequested' = shutdownRequested
    BY <1>1 DEF Launch, flags
  <2>3. ~DispatcherStep(k)
    BY <1>2 DEF DispatcherStep, OnConnected, OnExiting, OnProgress, OnFatal, OnNeed,
                AnswerNeed, OnSocketClosed, Take, At
  <2>4. ASSUME NEW t \in Threads, Announce(t) PROVE status' = status /\ (shutdownRequested' => shutdownRequested)
    BY <2>4 DEF Announce
  <2>5. CASE OvpnStep \/ UNCHANGED vars
    <3>1. OvpnStep => Environment
      BY DEF OvpnStep, OvpnAsks, OvpnConnects, OvpnConnected, OvpnReconnects, OvpnExits, Progress
    <3>2. status' = status /\ shutdownRequested' = shutdownRequested
      BY <2>5, <3>1 DEF Environment, vars, flags
    <3> QED  BY <1>2, <2>1, <3>2
  <2> QED  BY <1>2, <2>1, <2>2, <2>3, <2>4, <2>5
<1> QED  BY <1>0, <1>1, <1>2, <1>3, <1>4, <1>5 DEF Opening

\* What the queue of connection k promises, apart from the dispatcher.
Promised(k) ==
  LET q == link[k].queue IN
  /\ \A i \in 1 .. Len(q) : q[i] \in LastWords => ~Running
  /\ \A i \in 1 .. Len(q) : q[i] = "need" => Waits /\ \A j \in i + 1 .. Len(q) : q[j] \in LastWords

\* Last words that are added change nothing about what was said before.
LEMMA KilledPromise ==
  ASSUME TypeOK, NEW k \in Ids, Promised(k), NEW words \in Farewells, Kill(words)
  PROVE  ~Running' /\ Promised(k)' /\ (OnlyLast(link[k].queue) => OnlyLast(link'[k].queue))
<1> DEFINE q == link[k].queue
           r == link'[k].queue
<1>0. ~Running' /\ Waits'
  BY DEF Kill, NoDaemon, Running, Waits
<1>1. CASE link'[k] = link[k]
  BY <1>0, <1>1 DEF Promised
<1>2. CASE link'[k] # link[k]
  <2>1. /\ Len(q) \in Nat /\ Len(r) \in Nat /\ Len(r) > Len(q) /\ r[Len(r)] = "eof"
        /\ \A i \in 1 .. Len(q) : r[i] = q[i]
        /\ \A i \in Len(q) + 1 .. Len(r) - 1 : r[i] \in {"exiting", "fatal", "rejected"}
    BY <1>2, KilledQueue
  <2>2. \A i \in 1 .. Len(q) : q[i] = "need" => \A j \in i + 1 .. Len(q) : q[j] \in LastWords
    BY DEF Promised
  <2> HIDE DEF q, r
  <2>3. \A i \in 1 .. Len(r) : i > Len(q) => r[i] \in LastWords
    BY <2>1 DEF LastWords
  <2>4. ASSUME NEW i \in 1 .. Len(r), r[i] = "need", NEW j \in i + 1 .. Len(r) PROVE r[j] \in LastWords
    <3>1. i \in 1 .. Len(q) /\ q[i] = "need" /\ j \in 1 .. Len(r)
      BY <2>1, <2>3, <2>4 DEF LastWords
    <3>2. CASE j > Len(q)
      BY <2>3, <3>1, <3>2
    <3>3. CASE ~(j > Len(q))
      <4>1. j \in i + 1 .. Len(q) /\ j \in 1 .. Len(q)
        BY <2>1, <2>4, <3>1, <3>3
      <4> QED  BY <2>1, <2>2, <3>1, <4>1
    <3> QED  BY <3>2, <3>3
  <2>5. OnlyLast(q) => OnlyLast(r)
    BY <2>1, <2>3 DEF OnlyLast
  <2> QED  BY <1>0, <2>4, <2>5 DEF Promised, q, r
<1> QED  BY <1>1, <1>2

\* What is taken leaves the rest of the promise.
LEMMA TakenPromise ==
  ASSUME TypeOK, NEW k \in Ids, Promised(k), LastWordsLast(k), NEW e, Take(k, e), daemon' = daemon
  PROVE  /\ Promised(k)'
         /\ OnlyLast(link[k].queue) => e \in LastWords /\ OnlyLast(link'[k].queue)
         /\ e = "need" \/ e \in LastWords => OnlyLast(link'[k].queue)
         /\ e = "need" => Waits
         /\ e \in LastWords => ~Running
<1> DEFINE q == link[k].queue
           r == link'[k].queue
<1>1. /\ Len(q) \in Nat /\ Len(q) > 0 /\ q[1] = e /\ Len(r) = Len(q) - 1
      /\ \A i \in 1 .. Len(r) : r[i] = q[i + 1]
  BY TakenQueue
<1>2. /\ \A i \in 1 .. Len(q) : q[i] \in LastWords => ~Running /\ \A j \in i .. Len(q) : q[j] \in LastWords
      /\ \A i \in 1 .. Len(q) : q[i] = "need" => Waits /\ \A j \in i + 1 .. Len(q) : q[j] \in LastWords
  BY DEF Promised, LastWordsLast
<1>3. Running' = Running /\ Waits' = Waits
  BY DEF Running, Waits
<1> HIDE DEF q, r
<1>4. 1 \in 1 .. Len(q) /\ \A i \in 1 .. Len(r) : i + 1 \in 1 .. Len(q)
  BY <1>1
<1>5. \A i \in 1 .. Len(r) : r[i] \in LastWords => ~Running
  BY <1>1, <1>2, <1>4
<1>6. ASSUME NEW i \in 1 .. Len(r), r[i] = "need"
      PROVE  Waits /\ \A j \in i + 1 .. Len(r) : r[j] \in LastWords
  <2>1. i + 1 \in 1 .. Len(q) /\ q[i + 1] = "need"
    BY <1>1, <1>4, <1>6
  <2>2. Waits /\ \A j \in (i + 1) + 1 .. Len(q) : q[j] \in LastWords
    BY <1>2, <2>1
  <2>3. ASSUME NEW j \in i + 1 .. Len(r) PROVE r[j] \in LastWords
    <3>1. j \in 1 .. Len(r) /\ j + 1 \in (i + 1) + 1 .. Len(q)
      BY <1>1, <2>3
    <3> QED  BY <1>1, <2>2, <3>1
  <2> QED  BY <2>2, <2>3
<1>7. OnlyLast(q) => e \in LastWords /\ OnlyLast(r)
  BY <1>1, <1>4 DEF OnlyLast
<1>8. ASSUME e = "need" \/ e \in LastWords PROVE OnlyLast(r)
  <2>1. \A j \in 2 .. Len(q) : q[j] \in LastWords
    BY <1>1, <1>2, <1>4, <1>8
  <2>2. \A i \in 1 .. Len(r) : i + 1 \in 2 .. Len(q)
    BY <1>1
  <2> QED  BY <1>1, <2>1, <2>2 DEF OnlyLast
<1>9. (e = "need" => Waits) /\ (e \in LastWords => ~Running)
  BY <1>1, <1>2, <1>4
<1> QED  BY <1>3, <1>5, <1>6, <1>7, <1>8, <1>9 DEF Promised, q, r

\* OpenVPN speaks when it is not waiting, and asks when it starts to.
LEMMA SpokenPromise ==
  ASSUME TypeOK, NEW k \in Ids, Promised(k), OvpnAsks \/ OvpnConnects \/ OvpnConnected \/ OvpnReconnects
  PROVE  Running /\ ~Waits /\ daemon.phase # "held" /\ Promised(k)'
<1> DEFINE q == link[k].queue
           r == link'[k].queue
<1>0. Running /\ ~Waits /\ daemon.phase # "held" /\ daemon \in Daemon
  BY DEF OvpnAsks, OvpnConnects, OvpnConnected, OvpnReconnects, Progress, Waits, TypeOK
<1>1. \A i \in 1 .. Len(q) : q[i] \notin LastWords /\ q[i] # "need"
  BY <1>0 DEF Promised
<1>2. PICK w \in {"need", "progress", "connected"} :
         /\ link' = [d \in Ids |-> IF Reaches(d) THEN [link[d] EXCEPT !.queue = Append(@, w)] ELSE link[d]]
         /\ w = "need" => OvpnAsks
  BY DEF OvpnAsks, OvpnConnects, OvpnConnected, OvpnReconnects, Progress
<1>3. w = "need" => Waits'
  BY <1>0, <1>2 DEF OvpnAsks, Progress, Waits, Daemon
<1>4. CASE link'[k] = link[k]
  <2>1. \A i \in 1 .. Len(r) : r[i] \notin LastWords /\ r[i] # "need"
    BY <1>1, <1>4
  <2> QED  BY <1>0, <2>1 DEF Promised
<1>5. CASE link'[k] # link[k]
  <2>1. /\ Len(q) \in Nat /\ Len(r) = Len(q) + 1 /\ r[Len(r)] = w
        /\ \A j \in 1 .. Len(q) : r[j] = q[j]
    BY <1>2, <1>5, AppendedQueue
  <2> HIDE DEF q, r
  <2>2. \A i \in 1 .. Len(r) : r[i] \notin LastWords /\ (r[i] = "need" => i = Len(r) /\ w = "need")
    BY <1>1, <2>1 DEF LastWords
  <2>3. ASSUME NEW i \in 1 .. Len(r), r[i] = "need"
        PROVE  Waits' /\ \A j \in i + 1 .. Len(r) : r[j] \in LastWords
    <3>1. i = Len(r) /\ w = "need"
      BY <2>2, <2>3
    <3>2. \A j \in i + 1 .. Len(r) : FALSE
      BY <2>1, <3>1
    <3> QED  BY <1>3, <3>1, <3>2
  <2> QED  BY <1>0, <2>2, <2>3 DEF Promised, r
<1> QED  BY <1>0, <1>4, <1>5

LEMMA AskingStep ==
  ASSUME TypeOK, OneWorker, LinksLive, OthersSilent, Opening, Asking, NEW k \in Attempts, k = attempt,
         LastWordsLast(k), [Next]_vars, ~Connect
  PROVE  Asking'
<1> USE Identities, DistinctThreads
<1> DEFINE answering == pc[Dispatcher(k)] = "answer"
<1>0. /\ attempt' = attempt /\ daemon \in Daemon
      /\ Promised(k) /\ (answering => Waits /\ OnlyLast(link[k].queue))
  BY AttemptStays DEF TypeOK, Asking, Promised
<1> SUFFICES Promised(k)' /\ (answering' => Waits' /\ OnlyLast(link'[k].queue))
  BY <1>0 DEF Asking, Promised
<1>1. answering' => answering \/ OnNeed(k)
  <2>1. ASSUME NEW c \in Ids, DispatcherStep(c) PROVE answering' => answering \/ OnNeed(k)
    <3>1. c = k
      BY <2>1, DispatcherIsCurrent
    <3> QED  BY <2>1, <3>1 DEF DispatcherStep, OnConnected, OnExiting, OnProgress, OnFatal, OnNeed,
                AnswerNeed, OnSocketClosed, Goto, Wake, TypeOK
  <2>2. ASSUME NEW t \in Threads, Announce(t) PROVE answering' => answering
    <3>1. \A u \in Threads \ {t} : Rests(u)
      BY <2>2, AnnounceMoves
    <3>2. t = Dispatcher(k) => pc'[t] = "idle"
      BY <2>2, AnnounceMoves
    <3> QED  BY <3>1, <3>2 DEF Rests
  <2> QED  BY <2>1, <2>2, StopMoves, AttachMoves, WorkerMoves
           DEF Next, OvpnStep, OvpnAsks, OvpnConnects, OvpnConnected, OvpnReconnects, OvpnExits, Progress,
               Environment, vars
<1>2. OnNeed(k) => Take(k, "need") /\ daemon' = daemon
  BY DEF OnNeed
<1>3. CASE Running /\ \E words \in Farewells : Kill(words)
  <2>1. ~OnNeed(k)
    BY <1>2, <1>3 DEF Kill, Running, NoDaemon
  <2> QED  BY <1>0, <1>1, <1>3, <2>1, KilledPromise DEF Waits
<1>4. CASE link' = link /\ daemon' \in {daemon, [daemon EXCEPT !.term = TRUE]}
  <2>1. Running' = Running /\ Waits' = Waits
    BY <1>0, <1>4 DEF Running, Waits, Daemon
  <2>2. ~OnNeed(k)
    BY <1>4, <1>2, TakenQueue
  <2> QED  BY <1>0, <1>1, <1>4, <2>1, <2>2 DEF Promised
<1>5. ASSUME NEW a \in Ids, Launch(a) \/ OpenSocket(a), link' = link \/ link' = OpenLink(a)
      PROVE  Promised(k)' /\ ~answering'
  <2>1. a = k
    <3>1. a \in Attempts
      BY <1>5, ControllerAssumption DEF Launch, OpenSocket, At, OneWorker, Ids, Attempts
    <3> QED  BY <1>5, <3>1, WorkerIsCurrent DEF Launch, OpenSocket, At
  <2>2. link[k].queue = <<>> /\ pc[Dispatcher(k)] = "idle"
    BY <1>5, <2>1 DEF Launch, OpenSocket, At, Opening
  <2>3. link'[k].queue = <<>>
    BY <1>5, <2>1, <2>2 DEF OpenLink, TypeOK
  <2>4. ~OnNeed(k)
    BY <2>2 DEF OnNeed, Take
  <2> QED  BY <1>1, <2>2, <2>3, <2>4 DEF Promised
<1>6. ASSUME NEW a \in Attempts, Prime(a), Reaches(a), daemon.phase = "held",
             daemon' = [daemon EXCEPT !.phase = "asking"], link' = link
      PROVE  Promised(k)' /\ ~answering'
  <2>1. Running
    BY <1>6 DEF Reaches, IsOpen, LinksLive
  <2>2. ~Waits /\ ~OnNeed(k) /\ Running' = Running
    BY <1>0, <1>2, <1>6, <2>1, TakenQueue DEF Waits, Running, Daemon
  <2> QED  BY <1>0, <1>1, <1>6, <2>2 DEF Promised
<1>7. ASSUME NEW c \in Ids, NEW e \in Events, Take(c, e), DispatcherStep(c), daemon' = daemon
      PROVE  Promised(k)' /\ (answering' => Waits' /\ OnlyLast(link'[k].queue))
  <2>1. c = k /\ ~answering
    BY <1>7, DispatcherIsCurrent DEF Take, At
  <2>2. OnNeed(k) => e = "need"
    BY <1>2, <1>7, <2>1, TakenQueue
  <2>3. Waits' = Waits
    BY <1>7 DEF Waits, Running
  <2> QED  BY <1>0, <1>1, <1>7, <2>1, <2>2, <2>3, TakenPromise
<1>8. ASSUME NEW c \in Ids, AnswerNeed(c), daemon' = [daemon EXCEPT !.phase = "tunnel"], link' = link
      PROVE  Promised(k)' /\ ~answering'
  <2>1. c = k
    BY <1>8, DispatcherIsCurrent DEF DispatcherStep
  <2>2. answering /\ ~answering'
    BY <1>8, <2>1 DEF AnswerNeed, At, Goto, Wake, TypeOK
  <2>3. Running' = Running /\ OnlyLast(link[k].queue)
    BY <1>0, <1>8, <2>2 DEF Running, Daemon
  <2>4. \A i \in 1 .. Len(link[k].queue) : link[k].queue[i] # "need"
    BY <2>3 DEF OnlyLast, LastWords
  <2> QED  BY <1>0, <1>8, <2>2, <2>3, <2>4 DEF Promised
<1>9. CASE OvpnAsks \/ OvpnConnects \/ OvpnConnected \/ OvpnReconnects
  <2>1. ~Waits /\ Promised(k)'
    BY <1>0, <1>9, SpokenPromise
  <2>2. pc' = pc
    BY <1>9 DEF OvpnAsks, OvpnConnects, OvpnConnected, OvpnReconnects, Progress, Environment
  <2> QED  BY <1>0, <2>1, <2>2
<1> QED  BY <1>3, <1>4, <1>5, <1>6, <1>7, <1>8, <1>9, WorldSteps

\* An attempt without hope has none after any step that leaves it alone.
LEMMA HopelessStays ==
  ASSUME TypeOK, OneWorker, LinksLive, OthersSilent, Asked, Asking, NEW k \in Attempts, k = attempt,
         LastWordsLast(k), [Next]_vars, ~Connect, Untouched', Hopeless
  PROVE  Hopeless'
<1> USE Identities, DistinctThreads
<1> DEFINE held0 == daemon.phase = "held"
<1>0. /\ attempt' = attempt /\ daemon \in Daemon /\ pc[Worker(0)] = "done"
      /\ Promised(k)
  BY UntouchedSteps DEF TypeOK, Asking, Promised, OneWorker
<1>1. /\ status.state # "connected"
      /\ OnlyLast(link[k].queue) /\ pc[Dispatcher(k)] # "answer"
      /\ pc[Worker(k)] \notin {"launch", "socket"}
      /\ Running => \/ daemon.phase = "prompted"
                    \/ held0 /\ pc[Worker(k)] \notin {"adopt", "authenticate", "prime"}
  BY DEF Hopeless
<1>2. /\ pc'[Worker(k)] \notin {"launch", "socket"}
      /\ pc[Worker(k)] \notin {"adopt", "authenticate", "prime"} =>
           pc'[Worker(k)] \notin {"adopt", "authenticate", "prime"}
  BY <1>1, EarlySteps
<1>3. \A c \in Ids : \A e \in Events : Take(c, e) /\ DispatcherStep(c) => c = k /\ e \in LastWords
  <2> SUFFICES ASSUME NEW c \in Ids, NEW e \in Events, Take(c, e), DispatcherStep(c)
               PROVE  c = k /\ e \in LastWords
    OBVIOUS
  <2>1. c = k
    BY DispatcherIsCurrent
  <2>2. Len(link[k].queue) \in Nat /\ Len(link[k].queue) > 0 /\ link[k].queue[1] = e
    BY <2>1, TakenQueue
  <2> QED  BY <1>1, <2>1, <2>2 DEF OnlyLast
<1>4. status'.state # "connected"
  <2>1. \A c \in Ids : ~OnConnected(c)
    <3>1. \A c \in Ids : OnConnected(c) => DispatcherStep(c) /\ Take(c, "connected")
      BY DEF OnConnected, DispatcherStep
    <3> QED  BY <1>3, <3>1 DEF Events, LastWords
  <2> QED  BY <1>0, <1>1, <2>1, ConnectedFrom
<1>5. pc'[Dispatcher(k)] # "answer"
  <2>1. ~OnNeed(k)
    <3>1. OnNeed(k) => DispatcherStep(k) /\ Take(k, "need")
      BY DEF OnNeed, DispatcherStep
    <3> QED  BY <1>3, <3>1 DEF Events, LastWords
  <2>2. ASSUME DispatcherStep(k) PROVE pc'[Dispatcher(k)] # "answer"
    BY <1>1, <2>1, <2>2 DEF DispatcherStep, OnConnected, OnExiting, OnProgress, OnFatal,
                AnswerNeed, OnSocketClosed, Goto, Wake, TypeOK
  <2>3. ASSUME NEW t \in Threads, Announce(t) PROVE pc'[Dispatcher(k)] # "answer"
    <3>1. (\A u \in Threads \ {t} : Rests(u)) /\ (t = Dispatcher(k) => pc'[t] = "idle")
      BY <2>3, AnnounceMoves
    <3> QED  BY <1>1, <3>1 DEF Rests
  <2>4. WorkerStep(k) => pc'[Dispatcher(k)] = pc[Dispatcher(k)]
    BY WorkerMoves
  <2>5. OvpnStep \/ UNCHANGED vars => pc' = pc
    BY DEF OvpnStep, OvpnAsks, OvpnConnects, OvpnConnected, OvpnReconnects, OvpnExits, Progress,
           Environment, vars
  <2> QED  BY <1>1, <2>2, <2>3, <2>4, <2>5, UntouchedSteps
<1> DEFINE World == /\ OnlyLast(link'[k].queue)
                    /\ Running' => \/ daemon'.phase = "prompted"
                                   \/ /\ daemon'.phase = "held"
                                      /\ pc'[Worker(k)] \notin {"adopt", "authenticate", "prime"}
<1>6. World
  <2>1. CASE \E words \in Farewells : Kill(words)
    BY <1>0, <1>1, <2>1, KilledPromise
  <2>2. CASE link' = link /\ daemon' \in {daemon, [daemon EXCEPT !.term = TRUE]}
    <3>1. Running' = Running /\ daemon'.phase = daemon.phase
      BY <1>0, <2>2 DEF Running, Daemon
    <3> QED  BY <1>1, <1>2, <2>2, <3>1
  <2>3. \A a \in Ids : ~Launch(a) /\ ~OpenSocket(a)
    <3> SUFFICES ASSUME NEW a \in Ids, Launch(a) \/ OpenSocket(a) PROVE FALSE
      OBVIOUS
    <3>1. a \in Attempts
      BY <1>0, ControllerAssumption DEF Launch, OpenSocket, At, OneWorker, Ids, Attempts
    <3>2. a = k
      BY <3>1, WorkerIsCurrent DEF Launch, OpenSocket, At
    <3> QED  BY <1>1, <3>2 DEF Launch, OpenSocket, At
  <2>4. ASSUME NEW a \in Attempts, Prime(a), Reaches(a), daemon.phase = "held" PROVE FALSE
    <3>1. Running /\ a = k /\ pc[Worker(k)] = "prime"
      BY <2>4, WorkerIsCurrent DEF Reaches, IsOpen, LinksLive, Prime, At
    <3> QED  BY <1>1, <2>4, <3>1
  <2>5. ASSUME NEW c \in Ids, NEW e \in Events, Take(c, e), DispatcherStep(c), daemon' = daemon PROVE World
    <3>1. c = k /\ e \in LastWords
      BY <1>3, <2>5
    <3>2. ~Running /\ OnlyLast(link'[k].queue)
      BY <1>0, <2>5, <3>1, TakenPromise
    <3> QED  BY <2>5, <3>2 DEF Running
  <2>6. ASSUME NEW c \in Ids, AnswerNeed(c) PROVE FALSE
    <3>1. c = k
      BY <2>6, DispatcherIsCurrent DEF DispatcherStep
    <3> QED  BY <1>1, <2>6, <3>1 DEF AnswerNeed, At
  <2>7. CASE OvpnAsks \/ OvpnConnects \/ OvpnConnected \/ OvpnReconnects
    <3>1. Running /\ ~Waits /\ daemon.phase # "held"
      BY <1>0, <2>7, SpokenPromise
    <3> QED  BY <1>1, <3>1 DEF Waits
  <2> QED  BY <1>2, <2>1, <2>2, <2>3, <2>4, <2>5, <2>6, <2>7, WorldSteps
<1> QED  BY <1>0, <1>2, <1>4, <1>5, <1>6 DEF Hopeless

\* The dispatcher gives the attempt up only when there is no hope.
LEMMA DispatcherDespairs ==
  ASSUME TypeOK, OneWorker, OthersSilent, Opening, Asking, NEW k \in Attempts, k = attempt,
         LastWordsLast(k), DispatcherStep(k), attempt' = attempt,
         status.state # "failed", status'.state = "failed"
  PROVE  Hopeless'
<1> USE Identities, DistinctThreads
<1> DEFINE q == link[k].queue
<1>0. /\ Promised(k) /\ (pc[Dispatcher(k)] = "answer" => Waits /\ OnlyLast(q)) /\ daemon \in Daemon
  BY DEF Asking, Promised, TypeOK
<1>1. pc[Worker(k)] \notin {"launch", "socket"}
  <2>1. pc[Dispatcher(k)] = "answer" \/ q # <<>>
    BY DEF DispatcherStep, OnConnected, OnExiting, OnProgress, OnFatal, OnNeed, AnswerNeed, OnSocketClosed,
           Take, At
  <2> QED  BY <2>1 DEF Opening
<1>2. pc'[Worker(k)] \notin {"launch", "socket"}
  BY <1>1, DispatcherMoves DEF Rests
<1>3. CASE AnswerNeed(k)
  <2>1. Waits /\ OnlyLast(q)
    BY <1>0, <1>3 DEF AnswerNeed, At
  <2>2. UNCHANGED <<daemon, link>> /\ pc'[Dispatcher(k)] = "announce"
    BY <1>3 DEF AnswerNeed, Goto, TypeOK
  <2>3. Running' = Running
    BY <2>2 DEF Running
  <2> QED  BY <1>2, <2>1, <2>2, <2>3 DEF Hopeless, Waits
<1>4. CASE ~AnswerNeed(k)
  <2>1. PICK e \in LastWords \union {"need"} :
           /\ Take(k, e) /\ daemon' = daemon
           /\ pc'[Dispatcher(k)] = "announce"
    <3>1. ~OnConnected(k) /\ ~OnProgress(k)
      BY DEF OnConnected, OnProgress, Track, TypeOK, Status
    <3> QED  BY <1>4, <3>1 DEF DispatcherStep, OnExiting, OnFatal, OnNeed, OnSocketClosed, Track,
                Goto, Wake, TypeOK, LastWords
  <2>2. /\ OnlyLast(link'[k].queue) /\ (e = "need" => Waits) /\ (e \in LastWords => ~Running)
    BY <1>0, <2>1, TakenPromise
  <2>3. Running' => daemon'.phase = "prompted"
    BY <2>1, <2>2 DEF Waits, Running
  <2> QED  BY <1>2, <2>1, <2>2, <2>3 DEF Hopeless
<1> QED  BY <1>3, <1>4

\* Without timeouts an attempt is given up only when there is no hope.
LEMMA HopelessStep ==
  ASSUME TypeOK, ~Timeouts, OneWorker, LinksLive, OthersSilent, Asked, Opening, Asking, NEW k \in Attempts,
         k = attempt, LastWordsLast(k), [Next]_vars, ~Connect, Untouched /\ Failing => Hopeless
  PROVE  (Untouched /\ Failing => Hopeless)'
<1> USE Identities, DistinctThreads
<1> SUFFICES ASSUME Untouched', Failing' PROVE Hopeless'
  OBVIOUS
<1>0. /\ Untouched /\ attempt' = attempt
      /\ \/ WorkerStep(k) \/ DispatcherStep(k) \/ (\E t \in Threads : Announce(t))
         \/ OvpnStep \/ UNCHANGED vars
  BY UntouchedSteps
<1>1. CASE Failing
  BY <1>0, <1>1, HopelessStays
<1>2. CASE ~Failing
  <2>0. /\ status.state # "failed" /\ ~shutdownRequested
        /\ pc[Worker(k)] \notin {"failing", "report", "announce", "abort"}
    BY <1>2 DEF Failing
  <2>00. \/ status'.state = "failed" \/ shutdownRequested'
         \/ pc'[Worker(k)] \in {"failing", "report", "announce", "abort"}
    BY <1>0 DEF Failing
  <2>1. CASE WorkerStep(k)
    <3>1. /\ (Launch(k) \/ OpenSocket(k)) /\ pc'[Worker(k)] = "failing"
          /\ UNCHANGED <<status, shutdownRequested, link, daemon>>
      <4>1. ~Report(k) /\ ~AbortDaemon(k) /\ ~Superseded(k) /\ ~WaitTimeout(k)
        BY <2>0 DEF Report, AbortDaemon, Superseded, WaitTimeout, At
      <4>2. ASSUME Authenticate(k) \/ Answered(k) PROVE status'.state # "failed"
        BY <2>0, <4>2 DEF Authenticate, Answered, Advanced, TypeOK, Status
      <4>3. shutdownRequested' = shutdownRequested
        BY <2>1, <4>1 DEF WorkerStep, Launch, OpenSocket, AdoptClient, Authenticate, Prime, Answered,
                          Settle, Finish, flags
      <4>4. status'.state # "failed"
        BY <2>0, <2>1, <4>1, <4>2 DEF WorkerStep, Launch, OpenSocket, AdoptClient, Prime, Settle, Finish
      <4>5. pc'[Worker(k)] \in {"failing", "report", "announce", "abort"}
        BY <2>0, <2>00, <4>3, <4>4
      <4>6. Launch(k) \/ OpenSocket(k)
        BY <2>0, <2>1, <4>1, <4>5 DEF WorkerStep, AdoptClient, Authenticate, Prime, Answered,
                          Settle, Finish, Goto, AfterWaiting, TypeOK
      <4> QED  BY <4>5, <4>6 DEF Launch, OpenSocket, Goto, TypeOK, flags
    <3>2. /\ link[k].queue = <<>> /\ pc[Dispatcher(k)] = "idle"
          /\ Running => daemon.phase = "held"
          /\ status.state = "starting"
      BY <1>0, <3>1 DEF Launch, OpenSocket, At, Opening
    <3>3. pc'[Dispatcher(k)] = "idle"
      BY <2>1, <3>2, WorkerMoves
    <3> QED  BY <1>0, <3>1, <3>2, <3>3 DEF Hopeless, OnlyLast, Running
  <2>2. CASE DispatcherStep(k)
    <3>1. shutdownRequested' = shutdownRequested /\ Rests(Worker(k))
      BY <2>2, DispatcherMoves DEF DispatcherStep, OnConnected, OnExiting, OnProgress, OnFatal, OnNeed,
         AnswerNeed, OnSocketClosed, flags
    <3>2. status'.state = "failed"
      BY <2>0, <2>00, <3>1 DEF Rests
    <3> QED  BY <1>0, <2>0, <2>2, <3>2, DispatcherDespairs
  <2>3. ASSUME NEW t \in Threads, Announce(t) PROVE FALSE
    <3>1. t # Worker(k)
      BY <2>0, <2>3, AnnounceMoves
    <3>2. Rests(Worker(k)) /\ status' = status
      BY <2>3, <3>1, AnnounceMoves
    <3>3. shutdownRequested' => shutdownRequested
      BY <2>3 DEF Announce
    <3> QED  BY <2>0, <2>00, <3>2, <3>3 DEF Rests
  <2>4. CASE OvpnStep \/ UNCHANGED vars
    BY <2>0, <2>00, <2>4 DEF OvpnStep, OvpnAsks, OvpnConnects, OvpnConnected, OvpnReconnects, OvpnExits,
              Progress, Environment, vars, flags
  <2> QED  BY <1>0, <2>1, <2>2, <2>3, <2>4
<1> QED  BY <1>1, <1>2

\* While the attempt may still be blamed on nobody, no end of a tunnel is announced.
LEMMA NoDownPendingStep ==
  ASSUME TypeOK, ~Lateness, OneWorker, OneAnnounces, OthersSilent, Asked, NEW k \in Attempts, k = attempt,
         [Next]_vars, ~Connect, Untouched /\ Failing => Hopeless,
         Untouched /\ shutdownRequested => NoDownPending
  PROVE  (Untouched /\ shutdownRequested => NoDownPending)'
<1> USE Identities, DistinctThreads
<1> SUFFICES ASSUME Untouched', shutdownRequested', NEW t \in Threads, Announcing(t)'
             PROVE  post'[t].before \notin {"connected", "disconnecting"}
  BY DEF NoDownPending
<1>0. /\ Untouched /\ attempt' = attempt
      /\ pc[Operator] = "idle" /\ status.state # "disconnecting"
  BY UntouchedSteps
<1>1. CASE UNCHANGED vars
  BY <1>0, <1>1 DEF vars, flags, NoDownPending, Announcing
<1>2. ASSUME NEW u \in Threads, Announce(u) PROVE FALSE
  <2>1. pc[u] = "announce" /\ pc'[u] # "announce" /\ (t # u => Rests(t))
    BY <1>2, AnnounceMoves
  <2>2. t # u /\ Announcing(t) /\ Announcing(u)
    BY <2>1 DEF Rests, Announcing
  <2> QED  BY <2>2 DEF OneAnnounces
<1>3. CASE \A u \in Threads : ~Announcing(u)
  <2>1. post'[t].before = status.state
    BY <1>3, NewAnnouncer
  <2>2. CASE shutdownRequested
    BY <1>0, <2>1, <2>2 DEF Failing, Hopeless
  <2>3. CASE ~shutdownRequested
    <3>1. ~Disconnect
      BY <1>0 DEF Disconnect, Untouched, TypeOK
    <3>2. PICK a \in Attempts : AbortDaemon(a)
      BY <1>0, <2>3, <3>1, Unasked
    <3>3. Goto(Worker(a), "finish")
      BY <3>2 DEF AbortDaemon
    <3>4. \A u \in Threads : pc'[u] # "announce"
      BY <1>3, <3>3, GotoRests DEF Announcing
    <3> QED  BY <3>4 DEF Announcing
  <2> QED  BY <2>2, <2>3
<1> QED  BY <1>1, <1>2, <1>3, AnnouncedFirst

LEMMA StopInvConnects ==
  ASSUME TypeOK, ~Overlap, ~Lateness, StopInv, Connect
  PROVE  StopInv'
<1> USE Identities, DistinctThreads
<1>1. OneWorker' /\ LinksLive' /\ OwnProcess' /\ OneAnnounces' /\ Asked' /\ \A c \in Ids : LastWordsLast(c)'
  BY OneWorkerStep, LinksLiveStep, ProcessInvStep, OneAnnouncesStep, AskedStep, LastWordsStep DEF Next, StopInv
<1>2. PICK k \in Attempts : k = attempt + 1
  BY ConnectFacts DEF StopInv
<1>3. /\ attempt' = k /\ status'.state = "starting" /\ pc'[Worker(k)] = "launch"
      /\ \A c \in Ids : ~link'[c].open /\ link'[c].queue = <<>> /\ pc'[Dispatcher(c)] = "idle"
      /\ ~Running'
  BY <1>2, ConnectFacts DEF StopInv, Running
<1>4. ~shutdownRequested'
  BY DEF Connect
<1>5. OthersSilent'
  BY <1>3 DEF OthersSilent
<1>6. Opening'
  BY <1>3, <1>4 DEF Opening
<1>7. Asking'
  BY <1>3 DEF Asking
<1>8. ~Failing'
  BY <1>3, <1>4 DEF Failing
<1> QED  BY <1>1, <1>4, <1>5, <1>6, <1>7, <1>8 DEF StopInv

\* The invariant is kept where no wait runs out, no transition is announced late
\* and connect() waits for the threads of the last attempt.
LEMMA StopInvStep ==
  ASSUME TypeOK, ~Overlap, ~Lateness, ~Timeouts, StopInv, [Next]_vars
  PROVE  StopInv'
<1>1. CASE Connect
  BY <1>1, StopInvConnects
<1>2. CASE ~Connect
  <2>1. OneWorker' /\ LinksLive' /\ OwnProcess' /\ OneAnnounces' /\ Asked' /\ \A c \in Ids : LastWordsLast(c)'
    BY OneWorkerStep, LinksLiveStep, ProcessInvStep, OneAnnouncesStep, AskedStep, LastWordsStep DEF StopInv
  <2>2. attempt' = attempt
    BY <1>2, AttemptStays
  <2>3. CASE attempt = 0
    BY <2>1, <2>2, <2>3 DEF StopInv
  <2>4. CASE attempt # 0
    <3>1. PICK k \in Attempts : k = attempt
      BY <2>4, ControllerAssumption DEF TypeOK, Ids, Attempts
    <3>2. /\ OneWorker /\ LinksLive /\ OwnProcess /\ OneAnnounces /\ Asked /\ LastWordsLast(k)
          /\ OthersSilent /\ Opening /\ Asking
          /\ Untouched /\ Failing => Hopeless
          /\ Untouched /\ shutdownRequested => NoDownPending
      BY <2>4, <3>1, Identities DEF StopInv
    <3>3. pc[Worker(0)] = "done"
      BY <2>4, <3>2 DEF OneWorker
    <3>4. OthersSilent' /\ Opening' /\ Asking'
      BY <1>2, <3>1, <3>2, <3>3, OthersSilentStep, OpeningStays, AskingStep
    <3>5. (Untouched /\ Failing => Hopeless)'
      BY <1>2, <3>1, <3>2, HopelessStep
    <3>6. (Untouched /\ shutdownRequested => NoDownPending)'
      BY <1>2, <3>1, <3>2, NoDownPendingStep
    <3> QED  BY <2>1, <3>4, <3>5, <3>6 DEF StopInv
  <2> QED  BY <2>3, <2>4
<1> QED  BY <1>1, <1>2

LEMMA StopInit == Init => StopInv
<1> SUFFICES ASSUME Init PROVE StopInv
  OBVIOUS
<1> USE Identities, DistinctThreads
<1>1. /\ attempt = 0 /\ shutdownRequested = FALSE /\ status.state = "disconnected"
      /\ \A a \in Ids : link[a] = NoLink /\ asked[a] = 0
      /\ \A t \in Threads : pc[t] \in {"idle", "done", "socket"} /\ (t # Worker(0) => pc[t] = "idle")
  BY DEF Init
<1>2. OneWorker
  <2>1. \A a \in Attempts : Worker(a) # Worker(0)
    BY DEF Attempts, Worker
  <2>2. \A a \in Attempts : pc[Worker(a)] = "idle"
    BY <1>1, <2>1
  <2> QED  BY <1>1, <2>2 DEF OneWorker
<1>3. LinksLive /\ \A c \in Ids : LastWordsLast(c)
  BY <1>1 DEF LinksLive, LastWordsLast, NoLink
<1>4. OwnProcess
  <2>1. CASE Adopt
    <3>1. PICK p \in Phases : daemon = [NoDaemon EXCEPT !.id = 0, !.phase = p]
      BY <2>1 DEF Init
    <3>2. daemon.id = 0
      BY <3>1 DEF NoDaemon
    <3>3. Running
      BY <3>2, ControllerAssumption DEF Running
    <3> QED  BY <1>1, <3>2, <3>3 DEF OwnProcess
  <2>2. CASE ~Adopt
    BY <2>2 DEF Init, OwnProcess, NoDaemon, Running
  <2> QED  BY <2>1, <2>2
<1>5. OneAnnounces
  BY <1>1 DEF OneAnnounces, Announcing
<1>6. Asked
  BY <1>1 DEF Asked, Untouched
<1> QED  BY <1>1, <1>2, <1>3, <1>4, <1>5, <1>6 DEF StopInv

\* As long as disconnect() was not called, the attempt that is given up is one
\* that cannot come up any more (_fail(), _abort_daemon()).
THEOREM StopInvariant == Hazards \subseteq {"faults", "haste"} => (Spec => []StopInv)
<1> SUFFICES ASSUME Hazards \subseteq {"faults", "haste"} PROVE Spec => []StopInv
  OBVIOUS
<1>1. ~Overlap /\ ~Lateness /\ ~Timeouts
  BY DEF Overlap, Lateness, Timeouts
<1>2. TypeOK /\ StopInv /\ [Next]_vars => StopInv'
  BY <1>1, StopInvStep
<1> QED  BY <1>2, StopInit, ControllerTypes, PTL DEF Spec

\* A step tells of a deliberate stop only in an attempt that was to be stopped.
LEMMA StopToldAfterAsking ==
  ASSUME TypeOK, StopInv, [Next]_vars, told' = "operator-requested", told' # told
  PROVE  asked[attempt] > 0
<1> USE Identities, DistinctThreads
<1>1. PICK t \in Threads : Announce(t)
  <2>1. \A c \in Ids : DispatcherStep(c) => told' = told
    BY DispatcherMoves
  <2>2. \A a \in Attempts : WorkerStep(a) => told' = told
    BY WorkerMoves
  <2>3. Disconnect \/ StopStep => told' = told
    BY StopMoves
  <2>4. Connect \/ AttachStep => told' \in {told, "adopted"}
    BY DEF Connect, AttachStep, OpenSocket, AdoptClient, AttachSession, AttachStatus, AttachRefresh, AttachEnd,
           history
  <2>5. OvpnStep \/ UNCHANGED vars => told' = told
    BY DEF OvpnStep, OvpnAsks, OvpnConnects, OvpnConnected, OvpnReconnects, OvpnExits, Progress,
           Environment, vars, history
  <2> QED  BY <2>1, <2>2, <2>3, <2>4, <2>5 DEF Next
<1>2. GoesDown(post[t]) /\ shutdownRequested /\ Announcing(t)
  BY <1>1 DEF Announce, Reason, Announcing
<1>3. attempt \in Ids /\ asked[attempt] \in Nat
  BY DEF TypeOK
<1>4. ~Untouched
  <2> SUFFICES ASSUME Untouched PROVE FALSE
    OBVIOUS
  <2>1. attempt # 0
    BY <1>2 DEF StopInv, Asked
  <2>2. NoDownPending
    BY <1>2, <2>1 DEF StopInv
  <2> QED  BY <1>2, <2>2 DEF NoDownPending, GoesDown
<1> QED  BY <1>3, <1>4 DEF Untouched

\* A tunnel is reported as stopped by the operator only in an attempt in which
\* disconnect() was called (_shutdown_requested): for any number of attempts,
\* any bounds, reconnections of OpenVPN's own and with or without a tunnel that
\* was adopted, as long as no wait runs out and requests do not overlap.
THEOREM OnlyOperatorStopsHolds ==
  Hazards \subseteq {"faults", "haste"} => (Spec => OnlyOperatorStops)
<1> SUFFICES ASSUME Hazards \subseteq {"faults", "haste"} PROVE Spec => OnlyOperatorStops
  OBVIOUS
<1>1. TypeOK /\ StopInv /\ [Next]_vars
        => [told' = "operator-requested" /\ told' # told => asked[attempt] > 0]_vars
  BY StopToldAfterAsking
<1>2. Spec => []StopInv
  BY StopInvariant
<1> QED  BY <1>1, <1>2, ControllerTypes, PTL DEF Spec, OnlyOperatorStops
=============================================================================
