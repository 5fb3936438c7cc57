------------------------------ MODULE History -------------------------------
(***************************************************************************)
(* History (app/services/history.py) over the session tables of            *)
(* app/services/store.py: the attempt being recorded, the buffer of log    *)
(* lines waiting to be written, and the rows they are written to.          *)
(*                                                                         *)
(* Its methods are called by the controller's threads at any time.  A step *)
(* is a region of History._lock, or the beginning or the end of one        *)
(* database transaction.  All threads share one SQLite connection          *)
(* (app/__init__.py), and SQLite refuses to begin a transaction inside     *)
(* another one; the method that meets the refusal swallows it.             *)
(***************************************************************************)
EXTENDS Integers, Sequences, FiniteSets

CONSTANTS
  Threads,      \* the threads that call the History
  MaxSessions,  \* bound: rows the run has room for
  MaxLines,     \* bound: lines accepted for one session
  FlushAt,      \* FLUSH_AT
  Cap,          \* MAX_LINES_PER_SESSION
  Keep,         \* KEEP_SESSIONS
  Hazards,      \* what the threads and the database may do: see below
  None          \* Python's None

ASSUME HistoryAssumption ==
  /\ MaxSessions \in Nat \ {0}
  /\ MaxLines \in Nat
  /\ FlushAt \in Nat \ {0}
  /\ Cap \in Nat \ {0}
  /\ Keep \in Nat \ {0}
  /\ Hazards \subseteq {"threads", "contention", "restart"}
  /\ None \notin Threads /\ None \notin 1 .. MaxSessions

Interleaved == "threads" \in Hazards     \* methods of different threads overlap
Contended   == "contention" \in Hazards  \* and so do their transactions
Restarts    == "restart" \in Hazards     \* the application stops and is started again

VARIABLES
  session,   \* _session_id
  pending,   \* _pending
  pc,        \* where each thread is in its call
  op,        \* the method it called, or the outcome it ends the session with
  mine,      \* its local session_id
  batch,     \* its local pending lines
  txn,       \* the thread inside a transaction, or None
  rows,      \* table sessions
  stored,    \* table log_lines, by session, in insertion order
  accepted,  \* how many lines append() took in each session (history variable)
  unclosed   \* rows whose closing was never written (history variable)

locals == <<pc, op, mine, batch>>
tables == <<rows, stored>>
ghosts == <<accepted, unclosed>>
vars   == <<session, pending, locals, txn, tables, ghosts>>

Sessions == 1 .. MaxSessions
Line     == [of : Sessions, number : 1 .. MaxLines]
Outcomes == {"failed", "disconnected"}
Methods  == Outcomes \union {"", "start", "flush", "mark"}
Labels   == {"idle", "take", "write", "read", "mark", "null", "close", "open", "adopt", "prune"}
Row      == [phase : {"none", "open", "ended", "gone"},
             outcome : Outcomes \union {"", "interrupted"}, connected : BOOLEAN]
NoRow    == [phase |-> "none", outcome |-> "", connected |-> FALSE]

\* Each thread's turn: alone, unless threads are interleaved.
Turn(t) == Interleaved \/ \A u \in Threads \ {t} : pc[u] = "idle"

At(t, label) == pc[t] = label /\ Turn(t)

\* The labels at which a call still uses its local session_id.
Holding == {"write", "mark", "close", "adopt"}

\* Thread t goes on at label, with local session s and, if it is to write, lines.
Continue(t, label, s, lines) ==
  /\ pc' = [pc EXCEPT ![t] = label]
  /\ op' = IF label = "idle" THEN [op EXCEPT ![t] = ""] ELSE op
  /\ mine' = [mine EXCEPT ![t] = IF label \in Holding THEN s ELSE None]
  /\ batch' = [batch EXCEPT ![t] = IF label = "write" THEN lines ELSE <<>>]

-----------------------------------------------------------------------------
(* The methods, as the controller calls them.                              *)

Call(t, method, label) ==
  /\ At(t, "idle")
  /\ op' = [op EXCEPT ![t] = method]
  /\ pc' = [pc EXCEPT ![t] = label]
  /\ UNCHANGED <<session, pending, mine, batch, txn, tables, ghosts>>

\* Deliberate fault: the new session is opened without ending the last one.
StartWithoutEnd(t) ==
  /\ \A u \in Threads : op[u] # "start"
  /\ \E s \in Sessions : rows[s].phase = "none"
  /\ Call(t, "start", "open")

\* connect() and attach() open a session one at a time: connect() holds the
\* controller's lock and attach() runs before any request is served.
StartSession(t) ==
  /\ \A u \in Threads : op[u] # "start"
  /\ \E s \in Sessions : rows[s].phase = "none"
  /\ Call(t, "start", "take")

FlushCall(t)     == Call(t, "flush", "take")
MarkConnected(t) == Call(t, "mark", "read")
EndSession(t)    == \E outcome \in Outcomes : Call(t, outcome, "take")

AppendLine(t) ==
  /\ At(t, "idle")
  /\ session # None
  /\ accepted[session] < MaxLines
  /\ accepted' = [accepted EXCEPT ![session] = @ + 1]
  /\ pending' = Append(pending, [of |-> session, number |-> accepted[session] + 1])
  /\ IF Len(pending') < FlushAt
       THEN UNCHANGED <<pc, op>>
       ELSE /\ op' = [op EXCEPT ![t] = "flush"]
            /\ pc' = [pc EXCEPT ![t] = "take"]
  /\ UNCHANGED <<session, mine, batch, txn, tables, unclosed>>

-----------------------------------------------------------------------------
(* The regions of History._lock.                                           *)

\* Where a call goes on after its flush, and where end_session() returns to.
AfterFlush(t) == IF op[t] = "flush" THEN "idle" ELSE "null"
AfterEnd(t)   == IF op[t] = "start" THEN "open" ELSE "idle"

\* Deliberate fault: the lines are read, and leave the buffer only when the
\* session ends.
TakeKeepsBuffer(t) ==
  /\ At(t, "take")
  /\ Continue(t, IF session = None \/ pending = <<>> THEN AfterFlush(t) ELSE "write",
              session, pending)
  /\ UNCHANGED <<session, pending, txn, tables, ghosts>>

\* flush(): the buffer and the session it belongs to are taken together.
Take(t) ==
  /\ At(t, "take")
  /\ pending' = <<>>
  /\ Continue(t, IF session = None \/ pending = <<>> THEN AfterFlush(t) ELSE "write",
              session, pending)
  /\ UNCHANGED <<session, txn, tables, ghosts>>

\* mark_connected(): the session is read, and used after the lock is released.
Read(t) ==
  /\ At(t, "read")
  /\ Continue(t, IF session = None THEN "idle" ELSE "mark", session, <<>>)
  /\ UNCHANGED <<session, pending, txn, tables, ghosts>>

\* Deliberate fault: the session stays the current one.
NullLater(t) ==
  /\ At(t, "null")
  /\ Continue(t, IF session = None THEN AfterEnd(t) ELSE "close", session, <<>>)
  /\ UNCHANGED <<session, pending, txn, tables, ghosts>>

\* end_session(): from here on no other thread sees this session.
Null(t) ==
  /\ At(t, "null")
  /\ session' = None
  /\ Continue(t, IF session = None THEN AfterEnd(t) ELSE "close", session, <<>>)
  /\ UNCHANGED <<pending, txn, tables, ghosts>>

\* Deliberate fault: what the last session left in the buffer stays in it.
AdoptKeepsBuffer(t) ==
  /\ At(t, "adopt")
  /\ session' = mine[t]
  /\ Continue(t, "prune", mine[t], <<>>)
  /\ UNCHANGED <<pending, txn, tables, ghosts>>

Adopt(t) ==
  /\ At(t, "adopt")
  /\ session' = mine[t]
  /\ pending' = <<>>
  /\ Continue(t, "prune", mine[t], <<>>)
  /\ UNCHANGED <<txn, tables, ghosts>>

-----------------------------------------------------------------------------
(* The transactions.                                                       *)

StorageLabels == {"write", "mark", "close", "open", "prune"}

\* Where a call goes on after its transaction, done or refused.
AfterTransaction(t, ok) ==
  CASE pc[t] = "write" -> AfterFlush(t)
    [] pc[t] = "close" -> AfterEnd(t)
    [] pc[t] = "open" /\ ok -> "adopt"
    [] OTHER -> "idle"

Begin(t) ==
  /\ pc[t] \in StorageLabels /\ Turn(t)
  /\ txn = None
  /\ txn' = t
  /\ UNCHANGED <<session, pending, locals, tables, ghosts>>

\* "cannot start a transaction within a transaction", logged and passed over.
Refused(t) ==
  /\ Contended
  /\ pc[t] \in StorageLabels /\ Turn(t)
  /\ txn \notin {None, t}
  /\ Continue(t, AfterTransaction(t, FALSE), None, <<>>)
  /\ unclosed' = IF pc[t] = "close" THEN unclosed \union {mine[t]} ELSE unclosed
  /\ UNCHANGED <<session, pending, txn, tables, accepted>>

\* The transaction of the call at label ends; an inserted row's id is s.
Commit(t, label, s) ==
  /\ At(t, label)
  /\ txn = t
  /\ txn' = None
  /\ Continue(t, AfterTransaction(t, TRUE), s, <<>>)
  /\ UNCHANGED <<session, pending, ghosts>>

\* The newest lines, in insertion order.
Newest(lines) == SubSeq(lines, IF Len(lines) > Cap THEN Len(lines) - Cap + 1 ELSE 1, Len(lines))

\* append_lines(): a row that was swept away takes no more lines.
AppendLines(t) ==
  /\ Commit(t, "write", None)
  /\ stored' = IF rows[mine[t]].phase = "gone" THEN stored
               ELSE [stored EXCEPT ![mine[t]] = Newest(@ \o batch[t])]
  /\ UNCHANGED rows

MarkRow(t) ==
  /\ Commit(t, "mark", None)
  /\ rows' = IF rows[mine[t]].phase = "gone" THEN rows
             ELSE [rows EXCEPT ![mine[t]].connected = TRUE]
  /\ UNCHANGED stored

\* Deliberate fault: the outcome recorded is the name of the method that closed the row.
CloseRowAsMethod(t) ==
  /\ Commit(t, "close", None)
  /\ rows' = IF rows[mine[t]].phase = "gone" THEN rows
             ELSE [rows EXCEPT ![mine[t]].phase = "ended", ![mine[t]].outcome = op[t]]
  /\ UNCHANGED stored

CloseRow(t) ==
  /\ Commit(t, "close", None)
  /\ rows' = IF rows[mine[t]].phase = "gone" THEN rows
             ELSE [rows EXCEPT ![mine[t]].phase = "ended",
                               ![mine[t]].outcome = IF op[t] = "start" THEN "interrupted"
                                                                       ELSE op[t]]
  /\ UNCHANGED stored

\* Row ids grow.
InsertRow(t) ==
  /\ \E s \in Sessions :
       /\ Commit(t, "open", s)
       /\ rows[s].phase = "none"
       /\ \A r \in Sessions : rows[r].phase = "none" => s <= r
       /\ rows' = [rows EXCEPT ![s].phase = "open"]
  /\ UNCHANGED stored

Listed(s) == rows[s].phase \in {"open", "ended"}

\* prune_sessions(): rows that ended RETENTION_DAYS ago, which no thread has in
\* hand any more, and all but the newest Keep rows.
PruneRows(t) ==
  /\ Commit(t, "prune", None)
  /\ \E aged \in SUBSET {s \in Sessions : /\ rows[s].phase = "ended"
                                          /\ \A u \in Threads : mine[u] # s} :
       LET newer(s) == {r \in Sessions \ aged : Listed(r) /\ r > s}
           excess   == {s \in Sessions \ aged : Listed(s) /\ Cardinality(newer(s)) >= Keep}
           swept    == aged \union excess
       IN  /\ rows' = [s \in Sessions |->
                        IF s \in swept THEN [rows[s] EXCEPT !.phase = "gone"] ELSE rows[s]]
           /\ stored' = [s \in Sessions |-> IF s \in swept THEN <<>> ELSE stored[s]]

\* The process ends, wherever its threads are; SQLite rolls the transaction back.
Restart ==
  /\ Restarts
  /\ session' = None
  /\ pending' = <<>>
  /\ pc' = [t \in Threads |-> "idle"]
  /\ op' = [t \in Threads |-> ""]
  /\ mine' = [t \in Threads |-> None]
  /\ batch' = [t \in Threads |-> <<>>]
  /\ txn' = None
  /\ unclosed' = unclosed \union {s \in Sessions : rows[s].phase = "open"}
  /\ UNCHANGED <<tables, accepted>>

-----------------------------------------------------------------------------

Init ==
  /\ session = None
  /\ pending = <<>>
  /\ pc = [t \in Threads |-> "idle"]
  /\ op = [t \in Threads |-> ""]
  /\ mine = [t \in Threads |-> None]
  /\ batch = [t \in Threads |-> <<>>]
  /\ txn = None
  /\ rows = [s \in Sessions |-> NoRow]
  /\ stored = [s \in Sessions |-> <<>>]
  /\ accepted = [s \in Sessions |-> 0]
  /\ unclosed = {}

Step(t) ==
  \/ StartSession(t) \/ FlushCall(t) \/ MarkConnected(t) \/ EndSession(t) \/ AppendLine(t)
  \/ Take(t) \/ Read(t) \/ Null(t) \/ Adopt(t)
  \/ Begin(t) \/ Refused(t)
  \/ AppendLines(t) \/ MarkRow(t) \/ CloseRow(t) \/ InsertRow(t) \/ PruneRows(t)

Next == (\E t \in Threads : Step(t)) \/ Restart

Spec == Init /\ [][Next]_vars

TypeOK ==
  /\ session \in Sessions \union {None}
  /\ pending \in Seq(Line)
  /\ pc \in [Threads -> Labels]
  /\ op \in [Threads -> Methods]
  /\ mine \in [Threads -> Sessions \union {None}]
  /\ batch \in [Threads -> Seq(Line)]
  /\ txn \in Threads \union {None}
  /\ rows \in [Sessions -> Row]
  /\ stored \in [Sessions -> Seq(Line)]
  /\ accepted \in [Sessions -> 0 .. MaxLines]
  /\ unclosed \subseteq Sessions

-----------------------------------------------------------------------------
(* Safety.                                                                 *)

\* A log line is stored with the attempt it was logged in, whoever writes the
\* buffer out and however late: "Selecting a row opens the log that attempt left
\* behind" (README.md, "Session history").
OwnLines == \A s \in Sessions : \A i \in 1 .. Len(stored[s]) : stored[s][i].of = s

\* Two threads that flush at once do not both write the same lines.
NoLineTwice ==
  \A s \in Sessions : \A i, j \in 1 .. Len(stored[s]) : i # j => stored[s][i] # stored[s][j]

\* How an attempt ended is recorded once: of two threads that see it end, one writes.
ClosedOnce ==
  [][\A s \in Sessions : rows[s].phase = "ended" =>
       rows'[s].outcome = rows[s].outcome /\ rows'[s].phase \in {"ended", "gone"}]_vars

AllIdle == \A t \in Threads : pc[t] = "idle"

\* When no call is under way a row is open only for the attempt being recorded,
\* or for one whose end the database never saw.
OnlyLiveRowOpen ==
  AllIdle => \A s \in Sessions : rows[s].phase = "open" => s = session \/ s \in unclosed

\* "Any unfinished previous session is closed first" (start_session, history.py:59).
UnfinishedClosed ==
  AllIdle /\ session # None =>
    \A s \in Sessions : rows[s].phase = "open" => s = session
=============================================================================
