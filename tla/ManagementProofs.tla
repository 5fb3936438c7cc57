-------------------------- MODULE ManagementProofs --------------------------
(***************************************************************************)
(* Proofs about Management: types, and whose replies a command takes, for  *)
(* any number of threads, commands and notifications.                      *)
(***************************************************************************)
EXTENDS Management, SequenceTheorems, TLAPS

-----------------------------------------------------------------------------
(* What is in a queue after an operation on it.                            *)

LEMMA AppendedTo ==
  ASSUME NEW S, NEW s \in Seq(S), NEW e \in S
  PROVE  Append(s, e) \in Seq(S) /\ ToSet(Append(s, e)) = ToSet(s) \union {e}
<1>1. /\ Append(s, e) \in Seq(S) /\ Len(Append(s, e)) = Len(s) + 1
      /\ \A i \in 1 .. Len(s) : Append(s, e)[i] = s[i]
      /\ Append(s, e)[Len(s) + 1] = e
  BY AppendProperties
<1>2. DOMAIN s = 1 .. Len(s) /\ DOMAIN Append(s, e) = 1 .. (Len(s) + 1) /\ Len(s) \in Nat
  BY <1>1
<1> QED  BY <1>1, <1>2 DEF ToSet

LEMMA TakenFrom ==
  ASSUME NEW S, NEW s \in Seq(S), s # <<>>
  PROVE  /\ Tail(s) \in Seq(S) /\ ToSet(Tail(s)) \subseteq ToSet(s)
         /\ Head(s) \in ToSet(s) /\ Head(s) \in S
<1>1. /\ Head(s) \in S /\ Tail(s) \in Seq(S) /\ Len(Tail(s)) = Len(s) - 1
      /\ \A i \in 1 .. Len(Tail(s)) : Tail(s)[i] = s[i + 1]
      /\ Head(s) = s[1]
  BY HeadTailProperties
<1>2. DOMAIN s = 1 .. Len(s) /\ DOMAIN Tail(s) = 1 .. Len(Tail(s)) /\ Len(s) \in Nat /\ Len(s) # 0
  BY <1>1, EmptySeq
<1> QED  BY <1>1, <1>2 DEF ToSet

LEMMA Joined ==
  ASSUME NEW S, NEW s \in Seq(S), NEW t \in Seq(S)
  PROVE  s \o t \in Seq(S) /\ ToSet(s \o t) = ToSet(s) \union ToSet(t)
<1>1. /\ s \o t \in Seq(S) /\ Len(s \o t) = Len(s) + Len(t)
      /\ \A i \in 1 .. (Len(s) + Len(t)) :
           (s \o t)[i] = IF i =< Len(s) THEN s[i] ELSE t[i - Len(s)]
  BY ConcatProperties
<1>2. /\ DOMAIN s = 1 .. Len(s) /\ DOMAIN t = 1 .. Len(t) /\ DOMAIN (s \o t) = 1 .. (Len(s) + Len(t))
      /\ Len(s) \in Nat /\ Len(t) \in Nat
  BY <1>1
<1>3. ToSet(s \o t) \subseteq ToSet(s) \union ToSet(t)
  BY <1>1, <1>2 DEF ToSet
<1>4. ToSet(s) \subseteq ToSet(s \o t)
  BY <1>1, <1>2 DEF ToSet
<1>5. ToSet(t) \subseteq ToSet(s \o t)
  <2> SUFFICES ASSUME NEW i \in 1 .. Len(t) PROVE \E j \in DOMAIN (s \o t) : (s \o t)[j] = t[i]
    BY <1>2 DEF ToSet
  <2>1. Len(s) + i \in 1 .. (Len(s) + Len(t)) /\ ~(Len(s) + i =< Len(s)) /\ (Len(s) + i) - Len(s) = i
    BY <1>2
  <2> QED  BY <1>1, <1>2, <2>1
<1> QED  BY <1>1, <1>3, <1>4, <1>5

LEMMA ElementsOf ==
  ASSUME NEW S, NEW s \in Seq(S)
  PROVE  \A i \in DOMAIN s : s[i] \in S
<1>1. DOMAIN s = 1 .. Len(s)
  OBVIOUS
<1> QED  BY <1>1, ElementOfSeq

-----------------------------------------------------------------------------
(* The inductive invariant.                                                *)

ReplyLines == {Line(k, c) : k \in {"line", "end"}, c \in 1 .. MaxCommands}

Call == [at : {"idle", "lock", "write", "wait", "done"}, cmd : 0 .. MaxCommands,
         got : SUBSET (1 .. MaxCommands), behind : SUBSET (1 .. MaxCommands)]

\* The queue of replies never holds a notification.
RepliesOnly == responses \in Seq(ReplyLines \union {EOF})

\* Commands whose replies have not been taken from the queue.
Outstanding ==
  (ToSet(toVpn) \union {l.cmd : l \in ToSet(toApp)} \union {r.cmd : r \in ToSet(responses)}) \ {0}

\* What is outstanding when a command writes was so when it took the lock, and
\* afterwards only itself comes in addition.
Accounted ==
  \A t \in Threads :
    /\ call[t].got \subseteq {call[t].cmd} \union call[t].behind
    /\ call[t].at = "lock" => call[t].got = {}
    /\ call[t].at # "idle" => call[t].cmd # 0
    /\ call[t].at = "write" => Outstanding \subseteq call[t].behind
    /\ call[t].at = "wait" => Outstanding \subseteq {call[t].cmd} \union call[t].behind

ManagementInv == TypeOK /\ RepliesOnly /\ commands \in 0 .. MaxCommands /\ Accounted

-----------------------------------------------------------------------------

LEMMA LinesAre ==
  /\ \A l \in ReplyLines : l.kind \in {"line", "end"} /\ l.cmd \in 1 .. MaxCommands
  /\ EOF.kind = "eof" /\ EOF.cmd = 0
  /\ \A l \in Lines : l \in ReplyLines \/ (l.kind \in Notices /\ l.cmd = 0)
  /\ \A l \in ReplyLines : l.kind \notin Notices
  /\ ReplyLines \subseteq Lines
BY DEF ReplyLines, Lines, Line, EOF, Notices

LEMMA UnansweredIsTyped ==
  ASSUME ManagementInv
  PROVE  Unanswered \subseteq 1 .. MaxCommands
<1>1. toVpn \in Seq(1 .. MaxCommands) /\ toApp \in Seq(Lines)
  BY DEF ManagementInv, TypeOK
<1>2. \A i \in DOMAIN toVpn : toVpn[i] \in 1 .. MaxCommands
  BY <1>1, ElementsOf
<1>3. \A i \in DOMAIN toApp : toApp[i] \in Lines
  BY <1>1, ElementsOf
<1> QED  BY <1>2, <1>3, LinesAre DEF Unanswered

\* The callers stay where they are, and nothing comes to be outstanding.
LEMMA CallersStay ==
  ASSUME ManagementInv, UNCHANGED call, Outstanding' \subseteq Outstanding
  PROVE  Accounted'
BY DEF ManagementInv, Accounted

\* A caller goes on, by itself at the lock or without it.
LEMMA CallerMoves ==
  ASSUME ManagementInv, NEW t \in Threads, NEW record \in Call,
         call' = [call EXCEPT ![t] = record],
         record.got \subseteq {record.cmd} \union record.behind,
         record.at = "lock" => record.got = {},
         record.at # "idle" => record.cmd # 0,
         record.at = "write" => Outstanding' \subseteq record.behind,
         record.at = "wait" => Outstanding' \subseteq {record.cmd} \union record.behind,
         lock = t \/ Outstanding' \subseteq Outstanding,
         IF record.at \in {"write", "wait"} THEN lock \in {t, Nobody} /\ lock' = t
                                           ELSE lock' = IF lock = t THEN Nobody ELSE lock
  PROVE  /\ call' \in [Threads -> Call] /\ lock' \in Threads \union {Nobody}
         /\ \A u \in Threads : call'[u].at \in {"write", "wait"} <=> lock' = u
         /\ Accounted'
<1>1. call \in [Threads -> Call] /\ lock \in Threads \union {Nobody} /\ \A u \in Threads : call[u].at \in {"write", "wait"} <=> lock = u
  BY DEF ManagementInv, TypeOK, Call
<1>2. call'[t] = record /\ \A u \in Threads : u # t => call'[u] = call[u]
  BY <1>1
<1>3. call' \in [Threads -> Call]
  BY <1>1
<1>4. ASSUME NEW u \in Threads, u # t
      PROVE  /\ call[u].got \subseteq {call[u].cmd} \union call[u].behind
             /\ call[u].at = "lock" => call[u].got = {}
             /\ call[u].at # "idle" => call[u].cmd # 0
             /\ call[u].at = "write" => Outstanding' \subseteq call[u].behind
             /\ call[u].at = "wait" => Outstanding' \subseteq {call[u].cmd} \union call[u].behind
  <2>1. CASE lock = t
    <3>1. call[u].at \notin {"write", "wait"}
      BY <1>1, <1>4, <2>1
    <3> QED  BY <3>1 DEF ManagementInv, Accounted
  <2>2. CASE Outstanding' \subseteq Outstanding
    BY <2>2 DEF ManagementInv, Accounted
  <2> QED  BY <2>1, <2>2
<1>5. Accounted'
  BY <1>2, <1>4 DEF Accounted
<1>6. /\ lock' \in Threads \union {Nobody}
      /\ \A u \in Threads : call'[u].at \in {"write", "wait"} <=> lock' = u
  <2>1. Nobody \notin Threads
    BY ManagementAssumption DEF Threads
  <2> QED  BY <1>1, <1>2, <2>1
<1> QED  BY <1>3, <1>5, <1>6

\* The same with an end to the invariant, where only the caller and what is
\* outstanding change.
LEMMA CallerKeeps ==
  ASSUME ManagementInv, RepliesOnly', commands' \in 0 .. MaxCommands,
         UNCHANGED <<closed, open, closing, events, reader, handling, alive, toApp, announced>>,
         toVpn' \in Seq(1 .. MaxCommands), responses' \in Seq(Lines \union {EOF}),
         call' \in [Threads -> Call], lock' \in Threads \union {Nobody},
         \A u \in Threads : call'[u].at \in {"write", "wait"} <=> lock' = u,
         Accounted'
  PROVE  ManagementInv'
BY DEF ManagementInv, TypeOK, Call

LEMMA BeginPreserves ==
  ASSUME ManagementInv, NEW t \in Threads, Begin(t)
  PROVE  ManagementInv'
<1> DEFINE record == [NoCall EXCEPT !.at = "lock", !.cmd = commands + 1]
<1>1. /\ call[t].at = "idle" /\ commands < MaxCommands /\ commands' = commands + 1
      /\ call' = [call EXCEPT ![t] = record]
      /\ UNCHANGED <<closed, open, closing, lock, responses, events, reader, handling, alive, toVpn,
                     toApp, announced>>
  BY DEF Begin, Calling, Turn, peer
<1>2. commands' \in 0 .. MaxCommands /\ commands + 1 \in 0 .. MaxCommands /\ commands + 1 # 0
  BY <1>1, ManagementAssumption DEF ManagementInv
<1>3. record \in Call /\ record.at = "lock" /\ record.got = {} /\ record.cmd # 0
  <2>1. NoCall \in Call /\ NoCall.got = {}
    BY ManagementAssumption DEF NoCall, Call
  <2> QED  BY <1>2, <2>1 DEF Call
<1>4. Outstanding' = Outstanding
  BY <1>1 DEF Outstanding
<1>5. lock # t
  BY <1>1 DEF ManagementInv, TypeOK
<1> HIDE DEF record
<1>6. /\ call' \in [Threads -> Call] /\ lock' \in Threads \union {Nobody}
      /\ \A u \in Threads : call'[u].at \in {"write", "wait"} <=> lock' = u
      /\ Accounted'
  BY <1>1, <1>3, <1>4, <1>5, CallerMoves
<1>7. RepliesOnly' /\ toVpn' \in Seq(1 .. MaxCommands) /\ responses' \in Seq(Lines \union {EOF})
  BY <1>1 DEF ManagementInv, RepliesOnly, TypeOK
<1> QED  BY <1>1, <1>2, <1>6, <1>7, CallerKeeps

\* The lock is taken and the queue drained: all that is outstanding then is behind.
LEMMA LockPreserves ==
  ASSUME ManagementInv, NEW t \in Threads, Lock(t)
  PROVE  ManagementInv'
<1> DEFINE record == [call[t] EXCEPT !.at = "write", !.behind = Unanswered]
<1>1. /\ call[t].at = "lock" /\ lock = Nobody /\ lock' = t /\ responses' = <<>>
      /\ call' = [call EXCEPT ![t] = record]
      /\ UNCHANGED <<closed, open, closing, events, reader, handling, alive, toVpn, toApp, commands,
                     announced>>
  BY DEF Lock, Calling, Turn, peer, counts
<1>2. call[t] \in Call
  BY DEF ManagementInv, TypeOK, Call
<1>3. record \in Call /\ record.at = "write" /\ record.behind = Unanswered /\ record.got = call[t].got
      /\ record.cmd = call[t].cmd
  BY <1>2, UnansweredIsTyped DEF Call
<1> HIDE DEF record
<1>4. Outstanding' \subseteq Unanswered /\ Outstanding' \subseteq Outstanding
  <2>1. ToSet(responses') = {}
    BY <1>1 DEF ToSet
  <2>2. Outstanding' = (ToSet(toVpn) \union {l.cmd : l \in ToSet(toApp)}) \ {0}
    BY <1>1, <2>1 DEF Outstanding
  <2>3. Outstanding' = Unanswered
    BY <2>2 DEF Unanswered, ToSet
  <2> QED  BY <2>2, <2>3 DEF Outstanding
<1>5. record.got = {} /\ record.cmd # 0
  BY <1>1, <1>3 DEF ManagementInv, Accounted
<1>6. /\ call' \in [Threads -> Call] /\ lock' \in Threads \union {Nobody}
      /\ \A u \in Threads : call'[u].at \in {"write", "wait"} <=> lock' = u
      /\ Accounted'
  BY <1>1, <1>3, <1>4, <1>5, CallerMoves
<1>7. RepliesOnly' /\ toVpn' \in Seq(1 .. MaxCommands) /\ responses' \in Seq(Lines \union {EOF})
      /\ commands' \in 0 .. MaxCommands
  BY <1>1 DEF ManagementInv, RepliesOnly, TypeOK
<1> QED  BY <1>1, <1>6, <1>7, CallerKeeps

\* A command that ends, whatever comes.
LEMMA FinishPreserves ==
  ASSUME ManagementInv, NEW t \in Threads, lock = t, Finish(t),
         UNCHANGED <<closed, open, closing, events, reader, handling, alive, toVpn, toApp, commands,
                     announced>>,
         responses' \in Seq(ReplyLines \union {EOF})
  PROVE  ManagementInv'
<1>1. call' = [call EXCEPT ![t] = NoCall] /\ lock' = Nobody
  BY DEF Finish, Turn
<1>2. NoCall \in Call /\ NoCall.at = "idle" /\ NoCall.got = {}
  BY ManagementAssumption DEF NoCall, Call
<1>3. /\ call' \in [Threads -> Call] /\ lock' \in Threads \union {Nobody}
      /\ \A u \in Threads : call'[u].at \in {"write", "wait"} <=> lock' = u
      /\ Accounted'
  BY <1>1, <1>2, CallerMoves
<1>4. RepliesOnly' /\ toVpn' \in Seq(1 .. MaxCommands) /\ responses' \in Seq(Lines \union {EOF})
      /\ commands' \in 0 .. MaxCommands
  <2>1. ReplyLines \union {EOF} \subseteq Lines \union {EOF}
    BY LinesAre
  <2> QED  BY <2>1 DEF ManagementInv, RepliesOnly, TypeOK
<1> QED  BY <1>3, <1>4, CallerKeeps

LEMMA WritePreserves ==
  ASSUME ManagementInv, NEW t \in Threads, Write(t)
  PROVE  ManagementInv'
<1>1. /\ call[t].at = "write" /\ lock = t /\ call[t] \in Call
      /\ responses \in Seq(ReplyLines \union {EOF})
  BY DEF Write, Calling, ManagementInv, RepliesOnly, TypeOK, Call
<1>2. UNCHANGED <<closed, open, closing, events, reader, handling, alive, responses, toApp, commands,
                  announced>>
  BY DEF Write, counts
<1>3. CASE Finish(t) /\ UNCHANGED toVpn
  BY <1>1, <1>2, <1>3, FinishPreserves
<1>4. CASE /\ toVpn' = Append(toVpn, call[t].cmd) /\ UNCHANGED lock
           /\ Turn(t, [call[t] EXCEPT !.at = "wait"])
  <2> DEFINE record == [call[t] EXCEPT !.at = "wait"]
  <2>1. /\ record \in Call /\ record.at = "wait" /\ record.cmd = call[t].cmd
        /\ record.got = call[t].got /\ record.behind = call[t].behind
    BY <1>1 DEF Call
  <2>2. call' = [call EXCEPT ![t] = record]
    BY <1>4 DEF Turn
  <2> HIDE DEF record
  <2>3. call[t].cmd \in 1 .. MaxCommands
    <3>1. call[t].cmd # 0 /\ call[t].cmd \in 0 .. MaxCommands
      BY <1>1 DEF ManagementInv, Accounted, Call
    <3> QED  BY <3>1, ManagementAssumption
  <2>4. toVpn' \in Seq(1 .. MaxCommands) /\ ToSet(toVpn') = ToSet(toVpn) \union {call[t].cmd}
    <3>1. toVpn \in Seq(1 .. MaxCommands) /\ toVpn' = Append(toVpn, call[t].cmd)
      BY <1>4 DEF ManagementInv, TypeOK
    <3> QED  BY ONLY ZenonT(60), <2>3, <3>1, AppendedTo
  <2>5. Outstanding' \subseteq Outstanding \union {call[t].cmd}
    BY <1>2, <2>4 DEF Outstanding
  <2>6. Outstanding' \subseteq {record.cmd} \union record.behind
    BY <1>1, <2>1, <2>5 DEF ManagementInv, Accounted
  <2>7. record.got \subseteq {record.cmd} \union record.behind /\ record.cmd # 0
    BY <2>1, <2>3 DEF ManagementInv, Accounted
  <2>8. /\ call' \in [Threads -> Call] /\ lock' \in Threads \union {Nobody}
        /\ \A u \in Threads : call'[u].at \in {"write", "wait"} <=> lock' = u
        /\ Accounted'
    BY <1>1, <1>4, <2>1, <2>2, <2>6, <2>7, CallerMoves
  <2>9. RepliesOnly' /\ responses' \in Seq(Lines \union {EOF}) /\ commands' \in 0 .. MaxCommands
    BY <1>2 DEF ManagementInv, RepliesOnly, TypeOK
  <2> QED  BY <1>2, <2>4, <2>8, <2>9, CallerKeeps
<1> QED  BY <1>3, <1>4 DEF Write

\* A reply line is of a command that is outstanding, hence of this one or of
\* one behind it.
LEMMA TakePreserves ==
  ASSUME ManagementInv, NEW t \in Threads, Take(t)
  PROVE  ManagementInv'
<1> DEFINE reply == Head(responses)
<1>1. /\ call[t].at = "wait" /\ lock = t /\ call[t] \in Call /\ call[t].cmd # 0
      /\ responses \in Seq(ReplyLines \union {EOF}) /\ responses # <<>>
      /\ responses' = Tail(responses)
  BY DEF Take, Calling, ManagementInv, RepliesOnly, Accounted, TypeOK, Call
<1>2. UNCHANGED <<closed, open, closing, events, reader, handling, alive, toVpn, toApp, commands,
                  announced>>
  BY DEF Take, peer, counts
<1>3. /\ responses' \in Seq(ReplyLines \union {EOF}) /\ ToSet(responses') \subseteq ToSet(responses)
      /\ reply \in ToSet(responses) /\ reply \in ReplyLines \union {EOF}
  BY ONLY <1>1, TakenFrom
<1>4. Outstanding' \subseteq Outstanding
  BY <1>2, <1>3 DEF Outstanding
<1>5. CASE Finish(t)
  BY <1>1, <1>2, <1>3, <1>5, FinishPreserves
<1>6. ASSUME NEW at \in {"wait", "done"}, reply # EOF,
             call' = [call EXCEPT ![t] = [call[t] EXCEPT !.at = at, !.got = @ \union {reply.cmd}]],
             lock' = IF at = "wait" THEN lock ELSE Nobody
      PROVE  ManagementInv'
  <2> DEFINE record == [call[t] EXCEPT !.at = at, !.got = @ \union {reply.cmd}]
  <2>1. reply.cmd \in 1 .. MaxCommands /\ reply.cmd # 0
    <3>1. reply \in ReplyLines
      BY <1>3, <1>6
    <3>2. reply.cmd \in 1 .. MaxCommands
      BY <3>1, LinesAre
    <3> QED  BY <3>2, ManagementAssumption
  <2>2. reply.cmd \in Outstanding
    BY <1>3, <2>1 DEF Outstanding
  <2>3. /\ record \in Call /\ record.at = at /\ record.got = call[t].got \union {reply.cmd}
        /\ record.cmd = call[t].cmd /\ record.behind = call[t].behind
    BY <1>1, <2>1 DEF Call
  <2>4. call' = [call EXCEPT ![t] = record]
    BY <1>6
  <2> HIDE DEF record
  <2>5. /\ Outstanding \subseteq {call[t].cmd} \union call[t].behind
        /\ call[t].got \subseteq {call[t].cmd} \union call[t].behind
    BY <1>1 DEF ManagementInv, Accounted
  <2>6. /\ record.got \subseteq {record.cmd} \union record.behind
        /\ Outstanding' \subseteq {record.cmd} \union record.behind
    BY <1>4, <2>2, <2>3, <2>5
  <2>7. /\ call' \in [Threads -> Call] /\ lock' \in Threads \union {Nobody}
        /\ \A u \in Threads : call'[u].at \in {"write", "wait"} <=> lock' = u
        /\ Accounted'
    BY <1>1, <1>4, <1>6, <2>3, <2>4, <2>6, CallerMoves
  <2>8. RepliesOnly' /\ toVpn' \in Seq(1 .. MaxCommands) /\ commands' \in 0 .. MaxCommands
    BY <1>2, <1>3 DEF ManagementInv, RepliesOnly, TypeOK
  <2>9. responses' \in Seq(Lines \union {EOF})
    <3>1. ReplyLines \union {EOF} \subseteq Lines \union {EOF}
      BY LinesAre
    <3> QED  BY <1>3, <3>1
  <2> QED  BY <1>2, <2>7, <2>8, <2>9, CallerKeeps
<1>7. CASE /\ Turn(t, [call[t] EXCEPT !.at = "done", !.got = @ \union {reply.cmd}])
           /\ lock' = Nobody /\ reply # EOF
  BY <1>6, <1>7 DEF Turn
<1>8. CASE /\ Turn(t, [call[t] EXCEPT !.got = @ \union {reply.cmd}]) /\ UNCHANGED lock /\ reply # EOF
  <2>1. [call[t] EXCEPT !.got = @ \union {reply.cmd}]
          = [call[t] EXCEPT !.at = "wait", !.got = @ \union {reply.cmd}]
    BY <1>1 DEF Call
  <2>2. call' = [call EXCEPT ![t] = [call[t] EXCEPT !.at = "wait", !.got = @ \union {reply.cmd}]]
    BY <1>8, <2>1 DEF Turn
  <2> QED  BY <1>6, <1>8, <2>2
<1> QED  BY <1>5, <1>7, <1>8 DEF Take

LEMMA TimeOutPreserves ==
  ASSUME ManagementInv, NEW t \in Threads, TimeOut(t)
  PROVE  ManagementInv'
<1>1. lock = t /\ responses \in Seq(ReplyLines \union {EOF})
  BY DEF TimeOut, Calling, ManagementInv, RepliesOnly, TypeOK
<1>2. /\ Finish(t) /\ responses' = responses
      /\ UNCHANGED <<closed, open, closing, events, reader, handling, alive, toVpn, toApp, commands,
                     announced>>
  BY DEF TimeOut, peer, counts
<1> QED  BY <1>1, <1>2, FinishPreserves

LEMMA ReturnPreserves ==
  ASSUME ManagementInv, NEW t \in Threads, Return(t)
  PROVE  ManagementInv'
<1>1. /\ call[t].at = "done" /\ call' = [call EXCEPT ![t] = NoCall]
      /\ UNCHANGED <<closed, open, closing, lock, responses, events, reader, handling, alive, toVpn,
                     toApp, commands, announced>>
  BY DEF Return, Calling, Turn, peer, counts
<1>2. NoCall \in Call /\ NoCall.at = "idle" /\ NoCall.got = {}
  BY ManagementAssumption DEF NoCall, Call
<1>3. lock # t /\ Outstanding' = Outstanding
  BY <1>1 DEF ManagementInv, TypeOK, Outstanding
<1>4. /\ call' \in [Threads -> Call] /\ lock' \in Threads \union {Nobody}
      /\ \A u \in Threads : call'[u].at \in {"write", "wait"} <=> lock' = u
      /\ Accounted'
  BY <1>1, <1>2, <1>3, CallerMoves
<1>5. RepliesOnly' /\ toVpn' \in Seq(1 .. MaxCommands) /\ responses' \in Seq(Lines \union {EOF})
      /\ commands' \in 0 .. MaxCommands
  BY <1>1 DEF ManagementInv, RepliesOnly, TypeOK
<1> QED  BY <1>1, <1>4, <1>5, CallerKeeps

-----------------------------------------------------------------------------
(* The threads, close(), and OpenVPN: they leave the callers alone.        *)

LEMMA OthersKeep ==
  ASSUME ManagementInv, UNCHANGED <<call, lock, commands>>, Outstanding' \subseteq Outstanding,
         {closed, open, reader, alive, closing, announced}' \subseteq BOOLEAN,
         responses' \in Seq(ReplyLines \union {EOF}), toApp' \in Seq(Lines),
         toVpn' \in Seq(1 .. MaxCommands),
         events' \in Seq(Notices \union {"disconnected", "end"}),
         handling' \in Notices \union {"none", "disconnected", "ended"}
  PROVE  ManagementInv'
<1>1. ReplyLines \union {EOF} \subseteq Lines \union {EOF}
  BY LinesAre
<1>2. responses' \in Seq(Lines \union {EOF})
  BY <1>1
<1>3. Accounted'
  BY CallersStay
<1> QED  BY <1>2, <1>3 DEF ManagementInv, RepliesOnly, TypeOK

\* What the queues hold, for the steps below.
LEMMA QueuesAre ==
  ASSUME ManagementInv
  PROVE  /\ responses \in Seq(ReplyLines \union {EOF}) /\ toApp \in Seq(Lines)
         /\ toVpn \in Seq(1 .. MaxCommands)
         /\ events \in Seq(Notices \union {"disconnected", "end"})
         /\ handling \in Notices \union {"none", "disconnected", "ended"}
         /\ {closed, open, reader, alive, closing, announced} \subseteq BOOLEAN
BY DEF ManagementInv, RepliesOnly, TypeOK

\* A line goes from the socket to the queue it belongs to.
LEMMA ReadPreserves ==
  ASSUME ManagementInv, Read
  PROVE  ManagementInv'
<1> DEFINE line == Head(toApp)
<1>1. /\ toApp # <<>> /\ toApp' = Tail(toApp)
      /\ UNCHANGED <<closed, open, closing, lock, call, reader, handling, alive, toVpn, commands,
                     announced>>
  BY DEF Read, counts
<1>2. /\ toApp' \in Seq(Lines) /\ ToSet(toApp') \subseteq ToSet(toApp)
      /\ line \in ToSet(toApp) /\ line \in Lines
  <2>1. toApp \in Seq(Lines)
    BY QueuesAre
  <2> QED  BY ONLY <1>1, <2>1, TakenFrom
<1>3. CASE line.kind \in Notices /\ events' = Append(events, line.kind) /\ UNCHANGED responses
  <2>1. events' \in Seq(Notices \union {"disconnected", "end"})
    BY <1>3, QueuesAre
  <2>2. Outstanding' \subseteq Outstanding
    BY <1>1, <1>2, <1>3 DEF Outstanding
  <2> QED  BY <1>1, <1>2, <1>3, <2>1, <2>2, QueuesAre, OthersKeep
<1>4. CASE line.kind \notin Notices /\ responses' = Append(responses, line) /\ UNCHANGED events
  <2>1. line \in ReplyLines \union {EOF}
    BY <1>2, <1>4, LinesAre
  <2>2. responses \in Seq(ReplyLines \union {EOF})
    BY QueuesAre
  <2>3. /\ responses' \in Seq(ReplyLines \union {EOF})
        /\ ToSet(responses') = ToSet(responses) \union {line}
    BY ONLY <1>4, <2>1, <2>2, AppendedTo
  <2>4. Outstanding' \subseteq Outstanding
    BY <1>1, <1>2, <2>3 DEF Outstanding
  <2> QED  BY <1>1, <1>2, <1>4, <2>3, <2>4, QueuesAre, OthersKeep
<1> QED  BY <1>3, <1>4 DEF Read

LEMMA ReaderEndsPreserves ==
  ASSUME ManagementInv, ReaderEnds
  PROVE  ManagementInv'
<1>1. /\ reader' = FALSE /\ closed' = TRUE /\ responses' = Append(responses, EOF)
      /\ events' = events \o <<"disconnected", "end">>
      /\ UNCHANGED <<open, closing, lock, call, handling, alive, toVpn, toApp, commands, announced>>
  BY DEF ReaderEnds, peer, counts
<1>2. /\ responses' \in Seq(ReplyLines \union {EOF})
      /\ ToSet(responses') = ToSet(responses) \union {EOF}
  <2>1. responses \in Seq(ReplyLines \union {EOF}) /\ EOF \in ReplyLines \union {EOF}
    BY QueuesAre
  <2> QED  BY ONLY <1>1, <2>1, AppendedTo
<1>3. events' \in Seq(Notices \union {"disconnected", "end"})
  BY <1>1, QueuesAre
<1>4. Outstanding' \subseteq Outstanding
  BY <1>1, <1>2, LinesAre DEF Outstanding
<1> QED  BY <1>1, <1>2, <1>3, <1>4, QueuesAre, OthersKeep

LEMMA DispatchPreserves ==
  ASSUME ManagementInv, Dispatch
  PROVE  ManagementInv'
<1>1. /\ events # <<>> /\ events' = Tail(events)
      /\ handling' = IF Head(events) = "end" THEN "ended" ELSE Head(events)
      /\ UNCHANGED <<closed, open, closing, lock, call, responses, reader, alive, toVpn, toApp,
                     commands, announced>>
  BY DEF Dispatch, peer, counts
<1>2. /\ events' \in Seq(Notices \union {"disconnected", "end"})
      /\ handling' \in Notices \union {"none", "disconnected", "ended"}
  BY <1>1, QueuesAre
<1>3. Outstanding' = Outstanding
  BY <1>1 DEF Outstanding
<1> QED  BY <1>1, <1>2, <1>3, QueuesAre, OthersKeep

LEMMA HandledPreserves ==
  ASSUME ManagementInv, Handled
  PROVE  ManagementInv'
<1>1. /\ handling' = "none" /\ announced' \in BOOLEAN
      /\ UNCHANGED <<closed, open, closing, lock, call, responses, events, reader, alive, toVpn, toApp,
                     commands>>
  BY DEF Handled, peer
<1>2. Outstanding' = Outstanding
  BY <1>1 DEF Outstanding
<1> QED  BY <1>1, <1>2, QueuesAre, OthersKeep

LEMMA ClosePreserves ==
  ASSUME ManagementInv, Close
  PROVE  ManagementInv'
<1>1. /\ closing' = TRUE /\ closed' = TRUE /\ events' = Append(events, "end")
      /\ UNCHANGED <<open, lock, call, responses, reader, handling, alive, toVpn, toApp, commands,
                     announced>>
  BY DEF Close, peer, counts
<1>2. events' \in Seq(Notices \union {"disconnected", "end"})
  BY <1>1, QueuesAre
<1>3. Outstanding' = Outstanding
  BY <1>1 DEF Outstanding
<1> QED  BY <1>1, <1>2, <1>3, QueuesAre, OthersKeep

LEMMA ShutDownPreserves ==
  ASSUME ManagementInv, ShutDown
  PROVE  ManagementInv'
<1>1. /\ open' = FALSE /\ alive' = FALSE /\ toVpn' = <<>> /\ toApp' = <<>>
      /\ UNCHANGED <<closed, closing, lock, call, responses, events, reader, handling, commands,
                     announced>>
  BY DEF ShutDown, counts
<1>2. toVpn' \in Seq(1 .. MaxCommands) /\ toApp' \in Seq(Lines)
  BY <1>1
<1>3. ToSet(toVpn') = {} /\ ToSet(toApp') = {}
  BY <1>1 DEF ToSet
<1>4. Outstanding' \subseteq Outstanding
  BY <1>1, <1>3 DEF Outstanding
<1> QED  BY <1>1, <1>2, <1>4, QueuesAre, OthersKeep

\* The lines are of the command it takes.
LEMMA VpnRepliesPreserves ==
  ASSUME ManagementInv, VpnReplies
  PROVE  ManagementInv'
<1> DEFINE cmd == Head(toVpn)
<1>1. /\ toVpn # <<>> /\ toVpn' = Tail(toVpn)
      /\ UNCHANGED <<closed, open, closing, lock, call, responses, events, reader, handling, alive,
                     commands, announced>>
  BY DEF VpnReplies, local, counts
<1>2. /\ toVpn' \in Seq(1 .. MaxCommands) /\ ToSet(toVpn') \subseteq ToSet(toVpn)
      /\ cmd \in ToSet(toVpn) /\ cmd \in 1 .. MaxCommands
  <2>1. toVpn \in Seq(1 .. MaxCommands)
    BY QueuesAre
  <2> QED  BY ONLY <1>1, <2>1, TakenFrom
<1>3. PICK lines \in Replies : toApp' = toApp \o [i \in DOMAIN lines |-> Line(lines[i], cmd)]
  BY DEF VpnReplies
<1> DEFINE sent == [i \in DOMAIN lines |-> Line(lines[i], cmd)]
<1>4. sent \in Seq(Lines) /\ \A l \in ToSet(sent) : l.cmd = cmd
  <2>1. DOMAIN lines = 1 .. Len(lines) /\ Len(lines) \in Nat
        /\ \A i \in DOMAIN lines : lines[i] \in {"line", "end"}
    BY DEF Replies
  <2>2. \A i \in DOMAIN lines : Line(lines[i], cmd) \in Lines /\ Line(lines[i], cmd).cmd = cmd
    BY <1>2, <2>1 DEF Lines, Line
  <2> QED  BY <2>1, <2>2 DEF ToSet
<1>5. toApp \in Seq(Lines) /\ toApp' = toApp \o sent
  BY <1>3, QueuesAre
<1> HIDE DEF sent
<1>6. toApp' \in Seq(Lines) /\ ToSet(toApp') = ToSet(toApp) \union ToSet(sent)
  BY ONLY <1>4, <1>5, Joined
<1>7. Outstanding' \subseteq Outstanding
  BY <1>1, <1>2, <1>4, <1>6 DEF Outstanding
<1> QED  BY <1>1, <1>2, <1>6, <1>7, QueuesAre, OthersKeep

LEMMA VpnNotifiesPreserves ==
  ASSUME ManagementInv, VpnNotifies
  PROVE  ManagementInv'
<1>1. UNCHANGED <<closed, open, closing, lock, call, responses, events, reader, handling, alive, toVpn,
                  commands, announced>>
  BY DEF VpnNotifies, local
<1>2. PICK kind \in Notices : toApp' = Append(toApp, Line(kind, 0))
  BY DEF VpnNotifies
<1>3. Line(kind, 0) \in Lines /\ Line(kind, 0).cmd = 0
  BY DEF Lines, Line
<1>4. toApp' \in Seq(Lines) /\ ToSet(toApp') = ToSet(toApp) \union {Line(kind, 0)}
  <2>1. toApp \in Seq(Lines)
    BY QueuesAre
  <2> QED  BY ONLY <1>2, <1>3, <2>1, AppendedTo
<1>5. Outstanding' \subseteq Outstanding
  BY <1>1, <1>3, <1>4 DEF Outstanding
<1> QED  BY <1>1, <1>4, <1>5, QueuesAre, OthersKeep

LEMMA VpnExitsPreserves ==
  ASSUME ManagementInv, VpnExits
  PROVE  ManagementInv'
<1>1. /\ alive' = FALSE /\ toVpn' = <<>>
      /\ UNCHANGED <<closed, open, closing, lock, call, responses, events, reader, handling, toApp,
                     commands, announced>>
  BY DEF VpnExits, local, counts
<1>2. toVpn' \in Seq(1 .. MaxCommands) /\ ToSet(toVpn') = {}
  BY <1>1 DEF ToSet
<1>3. Outstanding' \subseteq Outstanding
  BY <1>1, <1>2 DEF Outstanding
<1> QED  BY <1>1, <1>2, <1>3, QueuesAre, OthersKeep

-----------------------------------------------------------------------------
(* The theorems.                                                           *)

LEMMA InvInitially == Init => ManagementInv
<1> SUFFICES ASSUME Init PROVE ManagementInv
  OBVIOUS
<1>1. NoCall \in Call /\ NoCall.at = "idle" /\ NoCall.got = {} /\ Nobody \notin Threads
  BY ManagementAssumption DEF NoCall, Call, Threads
<1>2. call \in [Threads -> Call] /\ \A t \in Threads : call[t] = NoCall
  BY <1>1 DEF Init
<1>3. /\ responses \in Seq(ReplyLines \union {EOF}) /\ responses \in Seq(Lines \union {EOF})
      /\ toApp \in Seq(Lines) /\ toVpn \in Seq(1 .. MaxCommands)
      /\ events \in Seq(Notices \union {"disconnected", "end"})
  BY DEF Init
<1>4. TypeOK
  BY <1>1, <1>2, <1>3 DEF Init, TypeOK, Call
<1>5. Accounted
  BY <1>1, <1>2 DEF Accounted
<1> QED  BY <1>3, <1>4, <1>5, ManagementAssumption DEF Init, ManagementInv, RepliesOnly

LEMMA InvPreserved == ManagementInv /\ [Next]_vars => ManagementInv'
<1> SUFFICES ASSUME ManagementInv, [Next]_vars PROVE ManagementInv'
  OBVIOUS
<1>1. ASSUME NEW t \in Threads, Begin(t) \/ Continue(t) \/ TimeOut(t) PROVE ManagementInv'
  BY <1>1, BeginPreserves, LockPreserves, WritePreserves, TakePreserves, ReturnPreserves,
     TimeOutPreserves DEF Continue
<1>2. CASE Work
  BY <1>2, ReadPreserves, ReaderEndsPreserves DEF Work
<1>3. CASE Dispatch
  BY <1>3, DispatchPreserves
<1>4. CASE Handled
  BY <1>4, HandledPreserves
<1>5. CASE Close
  BY <1>5, ClosePreserves
<1>6. CASE ShutDown
  BY <1>6, ShutDownPreserves
<1>7. CASE VpnReplies
  BY <1>7, VpnRepliesPreserves
<1>8. CASE VpnNotifies
  BY <1>8, VpnNotifiesPreserves
<1>9. CASE VpnExits
  BY <1>9, VpnExitsPreserves
<1>10. CASE UNCHANGED vars
  <2>1. UNCHANGED <<closed, open, closing, lock, call, responses, events, reader, handling, alive,
                    toVpn, toApp, commands, announced>>
    BY <1>10 DEF vars, local, peer, counts
  <2>2. Outstanding' = Outstanding
    BY <2>1 DEF Outstanding
  <2> QED  BY <2>1, <2>2, QueuesAre, OthersKeep
<1> QED  BY <1>1, <1>2, <1>3, <1>4, <1>5, <1>6, <1>7, <1>8, <1>9, <1>10 DEF Next

\* Every variable of the client holds values of its kind, and whoever writes or
\* waits is the one that holds _send_lock.
THEOREM TypeCorrect == Spec => []TypeOK
<1>1. Spec => []ManagementInv
  BY InvInitially, InvPreserved, PTL DEF Spec
<1>2. ManagementInv => TypeOK
  BY DEF ManagementInv
<1> QED  BY <1>1, <1>2, PTL

\* command() collects the lines of its own reply, and at most those of commands
\* given up whose replies were still to come when it drained the queue.
THEOREM RepliesAreMatched == Spec => []RepliesMatch
<1>1. Spec => []ManagementInv
  BY InvInitially, InvPreserved, PTL DEF Spec
<1>2. ManagementInv => RepliesMatch
  BY DEF ManagementInv, Accounted, RepliesMatch
<1> QED  BY <1>1, <1>2, PTL
=============================================================================
