--------------------------- MODULE HistoryProofs ----------------------------
(***************************************************************************)
(* Proofs about History, for any threads, bounds and hazards.              *)
(***************************************************************************)
EXTENDS History, TLAPS

-----------------------------------------------------------------------------
(* The inductive invariant, in the parts the proofs use.                   *)

\* What each call may be doing: only end_session() and start_session() close rows,
\* and a call that still uses its session_id has one.
CallsKnown ==
  \A t \in Threads :
    /\ pc[t] \in Holding => mine[t] # None
    /\ pc[t] \in {"take", "write"} => op[t] \in Outcomes \union {"start", "flush"}
    /\ pc[t] \in {"null", "close"} => op[t] \in Outcomes \union {"start"}

\* Every line in the buffer, or in a thread's hands, is of the session it goes to.
OwnBuffers ==
  /\ session # None => \A i \in 1 .. Len(pending) : pending[i].of = session
  /\ \A t \in Threads : \A i \in 1 .. Len(batch[t]) : batch[t][i].of = mine[t]

\* A thread that is to close a row, or has just inserted it, is the only one to
\* know of it, and nobody has closed it before.
Private(t) == pc[t] \in {"close", "adopt"}

Unended == {"open", "gone"}

OneCloser ==
  /\ session # None => rows[session].phase \in Unended
  /\ \A t \in Threads : Private(t) => rows[mine[t]].phase \in Unended /\ mine[t] # session
  /\ \A t, u \in Threads : Private(t) /\ Private(u) /\ t # u => mine[t] # mine[u]

\* start_session() runs once at a time, and nothing is recorded while it does.
OneStarter ==
  /\ \A t, u \in Threads : op[t] = "start" /\ op[u] = "start" => t = u
  /\ \A t \in Threads : pc[t] \in {"open", "adopt", "prune"} => op[t] = "start"
  /\ \A t \in Threads :
       op[t] = "start" /\ pc[t] \in {"close", "open", "adopt"} => session = None

\* An open row is the current one, in some thread's hands, or given up.
OpenRowsKnown ==
  \A s \in Sessions : rows[s].phase = "open" =>
    \/ s = session
    \/ s \in unclosed
    \/ \E t \in Threads : Private(t) /\ mine[t] = s

-----------------------------------------------------------------------------
(* Types.                                                                  *)

LocalsOK ==
  /\ pc \in [Threads -> Labels]
  /\ op \in [Threads -> Methods]
  /\ mine \in [Threads -> Sessions \union {None}]
  /\ batch \in [Threads -> Seq(Line)]

\* Wherever a call goes on, its locals keep their types.
LEMMA ContinueTypes ==
  ASSUME TypeOK, NEW t \in Threads, NEW label \in Labels,
         NEW s \in Sessions \union {None}, NEW lines \in Seq(Line),
         Continue(t, label, s, lines)
  PROVE  LocalsOK'
<1>1. pc' \in [Threads -> Labels] /\ op' \in [Threads -> Methods]
  BY DEF TypeOK, Continue, Methods
<1>2. mine' \in [Threads -> Sessions \union {None}]
  BY DEF TypeOK, Continue
<1>3. batch' \in [Threads -> Seq(Line)]
  <2>1. (IF label = "write" THEN lines ELSE <<>>) \in Seq(Line)
    OBVIOUS
  <2> QED
    BY <2>1 DEF TypeOK, Continue
<1> QED
  BY <1>1, <1>2, <1>3 DEF LocalsOK

\* The newest lines of a session are lines of it.
LEMMA NewestType ==
  ASSUME NEW lines \in Seq(Line)
  PROVE  Newest(lines) \in Seq(Line)
BY HistoryAssumption DEF Newest

LEMMA NextLabels ==
  ASSUME NEW t \in Threads, NEW ok \in BOOLEAN
  PROVE  /\ AfterFlush(t) \in Labels
         /\ AfterEnd(t) \in Labels
         /\ AfterTransaction(t, ok) \in Labels
BY DEF AfterFlush, AfterEnd, AfterTransaction, Labels

\* The locals after the end of a transaction.
LEMMA CommitTypes ==
  ASSUME TypeOK, NEW t \in Threads, NEW label, NEW s \in Sessions \union {None},
         Commit(t, label, s)
  PROVE  LocalsOK' /\ txn' = None
<1>1. AfterTransaction(t, TRUE) \in Labels
  BY NextLabels
<1>2. <<>> \in Seq(Line)
  OBVIOUS
<1> QED
  BY <1>1, <1>2, ContinueTypes DEF Commit

\* Whatever prune_sessions() chooses, a row it sweeps is gone with its lines and
\* the others stay as they are.
LEMMA PruneSweeps ==
  ASSUME NEW t \in Threads, PruneRows(t)
  PROVE  \E swept :
           /\ rows' = [s \in Sessions |->
                IF s \in swept THEN [rows[s] EXCEPT !.phase = "gone"] ELSE rows[s]]
           /\ stored' = [s \in Sessions |-> IF s \in swept THEN <<>> ELSE stored[s]]
BY DEF PruneRows

LEMMA TypeInit == Init => TypeOK
<1> SUFFICES ASSUME Init PROVE TypeOK
  OBVIOUS
<1>1. <<>> \in Seq(Line)
  OBVIOUS
<1>2. pc \in [Threads -> Labels] /\ op \in [Threads -> Methods]
  BY DEF Init, Labels, Methods
<1>3. rows \in [Sessions -> Row]
  BY DEF Init, NoRow, Row
<1>4. accepted \in [Sessions -> 0 .. MaxLines]
  <2>1. 0 \in 0 .. MaxLines
    BY HistoryAssumption
  <2> QED
    BY <2>1 DEF Init
<1> QED
  BY <1>1, <1>2, <1>3, <1>4 DEF Init, TypeOK

LEMMA TypeStep == TypeOK /\ CallsKnown /\ [Next]_vars => TypeOK'
<1> SUFFICES ASSUME TypeOK, CallsKnown, [Next]_vars PROVE TypeOK'
  OBVIOUS
<1>0. <<>> \in Seq(Line)
  OBVIOUS
<1>1. ASSUME NEW t \in Threads, NEW method \in Methods, NEW label \in Labels,
             Call(t, method, label)
      PROVE  TypeOK'
  BY <1>1 DEF TypeOK, Call, locals, tables, ghosts
<1>2. ASSUME NEW t \in Threads, StartSession(t) \/ FlushCall(t) \/ MarkConnected(t) \/ EndSession(t)
      PROVE  TypeOK'
  <2>1. Outcomes \subseteq Methods /\ {"start", "flush", "mark"} \subseteq Methods
    BY DEF Methods
  <2>2. {"take", "read"} \subseteq Labels
    BY DEF Labels
  <2> QED
    BY <1>1, <1>2, <2>1, <2>2 DEF StartSession, FlushCall, MarkConnected, EndSession
<1>3. ASSUME NEW t \in Threads, AppendLine(t) PROVE TypeOK'
  <2>1. session \in Sessions /\ accepted[session] \in 0 .. MaxLines
    BY <1>3 DEF AppendLine, TypeOK
  <2>2. accepted[session] + 1 \in 1 .. MaxLines
    BY <1>3, <2>1, HistoryAssumption DEF AppendLine
  <2>3. pending' \in Seq(Line)
    BY <1>3, <2>1, <2>2 DEF AppendLine, TypeOK, Line
  <2>4. accepted' \in [Sessions -> 0 .. MaxLines]
    BY <1>3, <2>1, <2>2 DEF AppendLine, TypeOK
  <2>5. pc' \in [Threads -> Labels] /\ op' \in [Threads -> Methods]
    BY <1>3 DEF AppendLine, TypeOK, Labels, Methods
  <2> QED
    BY <1>3, <2>3, <2>4, <2>5 DEF AppendLine, TypeOK, tables
<1>4. ASSUME NEW t \in Threads, Take(t) PROVE TypeOK'
  <2>1. LocalsOK'
    <3>1. AfterFlush(t) \in Labels /\ "write" \in Labels
      BY NextLabels DEF Labels
    <3>2. session \in Sessions \union {None} /\ pending \in Seq(Line)
      BY DEF TypeOK
    <3> QED
      BY <1>4, <3>1, <3>2, ContinueTypes DEF Take
  <2> QED
    BY <1>0, <1>4, <2>1 DEF Take, TypeOK, LocalsOK, tables, ghosts
<1>5. ASSUME NEW t \in Threads, Read(t) PROVE TypeOK'
  <2>1. LocalsOK'
    <3>1. session \in Sessions \union {None} /\ {"idle", "mark"} \subseteq Labels
      BY DEF TypeOK, Labels
    <3> QED
      BY <1>0, <1>5, <3>1, ContinueTypes DEF Read
  <2> QED
    BY <1>5, <2>1 DEF Read, TypeOK, LocalsOK, tables, ghosts
<1>6. ASSUME NEW t \in Threads, Null(t) PROVE TypeOK'
  <2>1. LocalsOK'
    <3>1. session \in Sessions \union {None} /\ AfterEnd(t) \in Labels /\ "close" \in Labels
      BY NextLabels DEF TypeOK, Labels
    <3> QED
      BY <1>0, <1>6, <3>1, ContinueTypes DEF Null
  <2> QED
    BY <1>6, <2>1 DEF Null, TypeOK, LocalsOK, tables, ghosts
<1>7. ASSUME NEW t \in Threads, Adopt(t) PROVE TypeOK'
  <2>1. LocalsOK'
    <3>1. mine[t] \in Sessions \union {None} /\ "prune" \in Labels
      BY DEF TypeOK, Labels
    <3> QED
      BY <1>0, <1>7, <3>1, ContinueTypes DEF Adopt
  <2> QED
    BY <1>0, <1>7, <2>1 DEF Adopt, TypeOK, LocalsOK, tables, ghosts
<1>8. ASSUME NEW t \in Threads, Begin(t) PROVE TypeOK'
  BY <1>8 DEF Begin, TypeOK, locals, tables, ghosts
<1>9. ASSUME NEW t \in Threads, Refused(t) PROVE TypeOK'
  <2>1. LocalsOK'
    <3>1. AfterTransaction(t, FALSE) \in Labels
      BY NextLabels
    <3> QED
      BY <1>0, <1>9, <3>1, ContinueTypes DEF Refused
  <2>2. unclosed' \subseteq Sessions
    BY <1>9 DEF Refused, TypeOK, CallsKnown, Holding
  <2> QED
    BY <1>9, <2>1, <2>2 DEF Refused, TypeOK, LocalsOK, tables
<1>10. ASSUME NEW t \in Threads, AppendLines(t) PROVE TypeOK'
  <2>1. LocalsOK' /\ txn' = None
    BY <1>10, CommitTypes DEF AppendLines
  <2>2. stored' \in [Sessions -> Seq(Line)]
    <3>1. ASSUME NEW s \in Sessions PROVE Newest(stored[s] \o batch[t]) \in Seq(Line)
      <4>1. stored[s] \in Seq(Line) /\ batch[t] \in Seq(Line)
        BY DEF TypeOK
      <4>2. stored[s] \o batch[t] \in Seq(Line)
        BY <4>1
      <4> QED
        BY <4>2, NewestType
    <3> QED
      BY <1>10, <3>1 DEF AppendLines, TypeOK
  <2> QED
    BY <1>10, <2>1, <2>2 DEF AppendLines, Commit, TypeOK, LocalsOK, ghosts
<1>11. ASSUME NEW t \in Threads, MarkRow(t) PROVE TypeOK'
  <2>1. LocalsOK' /\ txn' = None
    BY <1>11, CommitTypes DEF MarkRow
  <2>2. rows' \in [Sessions -> Row]
    <3>1. \A s \in Sessions : [rows[s] EXCEPT !.connected = TRUE] \in Row
      BY DEF TypeOK, Row
    <3> QED
      BY <1>11, <3>1 DEF MarkRow, TypeOK
  <2> QED
    BY <1>11, <2>1, <2>2 DEF MarkRow, Commit, TypeOK, LocalsOK, ghosts
<1>12. ASSUME NEW t \in Threads, CloseRow(t) PROVE TypeOK'
  <2>1. LocalsOK' /\ txn' = None
    BY <1>12, CommitTypes DEF CloseRow
  <2>2. op[t] \in Outcomes \union {"start"}
    BY <1>12 DEF CloseRow, Commit, At, CallsKnown
  <2>3. rows' \in [Sessions -> Row]
    <3>1. \A s \in Sessions : \A o \in Outcomes \union {"interrupted"} :
            [rows[s] EXCEPT !.phase = "ended", !.outcome = o] \in Row
      BY DEF TypeOK, Row
    <3> QED
      BY <1>12, <2>2, <3>1 DEF CloseRow, TypeOK
  <2> QED
    BY <1>12, <2>1, <2>3 DEF CloseRow, Commit, TypeOK, LocalsOK, ghosts
<1>13. ASSUME NEW t \in Threads, InsertRow(t) PROVE TypeOK'
  <2>1. PICK s \in Sessions : Commit(t, "open", s) /\ rows' = [rows EXCEPT ![s].phase = "open"]
    BY <1>13 DEF InsertRow
  <2>2. LocalsOK' /\ txn' = None
    BY <2>1, CommitTypes
  <2>3. rows' \in [Sessions -> Row]
    BY <2>1 DEF TypeOK, Row
  <2> QED
    BY <1>13, <2>1, <2>2, <2>3 DEF InsertRow, Commit, TypeOK, LocalsOK, ghosts
<1>14. ASSUME NEW t \in Threads, PruneRows(t) PROVE TypeOK'
  <2>1. LocalsOK' /\ txn' = None
    BY <1>14, CommitTypes DEF PruneRows
  <2>2. PICK swept : /\ rows' = [s \in Sessions |->
                            IF s \in swept THEN [rows[s] EXCEPT !.phase = "gone"] ELSE rows[s]]
                     /\ stored' = [s \in Sessions |-> IF s \in swept THEN <<>> ELSE stored[s]]
    BY <1>14, PruneSweeps
  <2>3. rows' \in [Sessions -> Row]
    BY <2>2 DEF TypeOK, Row
  <2>4. stored' \in [Sessions -> Seq(Line)]
    BY <1>0, <2>2 DEF TypeOK
  <2> QED
    BY <1>14, <2>1, <2>3, <2>4 DEF PruneRows, Commit, TypeOK, LocalsOK, ghosts
<1>15. ASSUME Restart PROVE TypeOK'
  BY <1>0, <1>15 DEF Restart, TypeOK, Labels, Methods, tables
<1>16. ASSUME UNCHANGED vars PROVE TypeOK'
  BY <1>16 DEF TypeOK, vars, locals, tables, ghosts
<1> QED
  BY <1>2, <1>3, <1>4, <1>5, <1>6, <1>7, <1>8, <1>9, <1>10, <1>11, <1>12, <1>13, <1>14, <1>15,
     <1>16 DEF Next, Step

-----------------------------------------------------------------------------
(* The calls.                                                              *)

LEMMA CallsInit == Init => CallsKnown
BY DEF Init, CallsKnown, Holding

\* A call that goes on at label, with session s in hand, is still a known one.
LEMMA ContinueCalls ==
  ASSUME TypeOK, CallsKnown, NEW t \in Threads, NEW label, NEW s, NEW lines,
         Continue(t, label, s, lines),
         label \in Holding => s # None,
         label \in {"take", "write"} => op[t] \in Outcomes \union {"start", "flush"},
         label \in {"null", "close"} => op[t] \in Outcomes \union {"start"}
  PROVE  CallsKnown'
<1> SUFFICES ASSUME NEW u \in Threads
             PROVE  /\ pc'[u] \in Holding => mine'[u] # None
                    /\ pc'[u] \in {"take", "write"} => op'[u] \in Outcomes \union {"start", "flush"}
                    /\ pc'[u] \in {"null", "close"} => op'[u] \in Outcomes \union {"start"}
  BY DEF CallsKnown
<1>1. CASE u = t
  BY <1>1 DEF Continue, TypeOK
<1>2. CASE u # t
  BY <1>2 DEF Continue, TypeOK, CallsKnown
<1> QED
  BY <1>1, <1>2

\* The same, after a transaction.
LEMMA CommitCalls ==
  ASSUME TypeOK, CallsKnown, NEW t \in Threads, NEW label, NEW s, NEW ok \in BOOLEAN,
         pc[t] \in StorageLabels, pc[t] = "open" => s # None,
         Continue(t, AfterTransaction(t, ok), s, <<>>)
  PROVE  CallsKnown'
<1>1. CASE pc[t] = "write"
  <2>1. AfterTransaction(t, ok) \in {"idle", "null"}
    BY <1>1 DEF AfterTransaction, AfterFlush
  <2>2. AfterTransaction(t, ok) = "null" => op[t] \in Outcomes \union {"start"}
    BY <1>1 DEF AfterTransaction, AfterFlush, CallsKnown
  <2> QED
    BY <2>1, <2>2, ContinueCalls DEF Holding
<1>2. CASE pc[t] # "write"
  <2>1. AfterTransaction(t, ok) \in {"idle", "open", "adopt"}
    BY <1>2 DEF AfterTransaction, AfterEnd
  <2>2. AfterTransaction(t, ok) = "adopt" => pc[t] = "open"
    BY <1>2 DEF AfterTransaction, AfterEnd
  <2> QED
    BY <2>1, <2>2, ContinueCalls DEF Holding
<1> QED
  BY <1>1, <1>2

LEMMA CallsStep == TypeOK /\ CallsKnown /\ [Next]_vars => CallsKnown'
<1> SUFFICES ASSUME TypeOK, CallsKnown, [Next]_vars PROVE CallsKnown'
  OBVIOUS
<1>1. ASSUME NEW t \in Threads, StartSession(t) \/ FlushCall(t) \/ MarkConnected(t) \/ EndSession(t)
      PROVE  CallsKnown'
  BY <1>1 DEF StartSession, FlushCall, MarkConnected, EndSession, Call, CallsKnown, TypeOK, Holding
<1>2. ASSUME NEW t \in Threads, AppendLine(t) PROVE CallsKnown'
  BY <1>2 DEF AppendLine, CallsKnown, TypeOK, Holding
<1>3. ASSUME NEW t \in Threads, Take(t) PROVE CallsKnown'
  <2> DEFINE label == IF session = None \/ pending = <<>> THEN AfterFlush(t) ELSE "write"
  <2>1. Continue(t, label, session, pending) /\ op[t] \in Outcomes \union {"start", "flush"}
    BY <1>3 DEF Take, At, CallsKnown
  <2>2. label \in {"idle", "null", "write"} /\ (label = "write" => session # None)
    BY DEF AfterFlush
  <2>3. label = "null" => op[t] \in Outcomes \union {"start"}
    BY <2>1 DEF AfterFlush
  <2> HIDE DEF label
  <2> QED
    BY <2>1, <2>2, <2>3, ContinueCalls DEF Holding
<1>4. ASSUME NEW t \in Threads, Read(t) PROVE CallsKnown'
  <2> DEFINE label == IF session = None THEN "idle" ELSE "mark"
  <2>1. Continue(t, label, session, <<>>)
    BY <1>4 DEF Read
  <2>2. label \in {"idle", "mark"} /\ (label = "mark" => session # None)
    OBVIOUS
  <2> HIDE DEF label
  <2> QED
    BY <2>1, <2>2, ContinueCalls DEF Holding
<1>5. ASSUME NEW t \in Threads, Null(t) PROVE CallsKnown'
  <2> DEFINE label == IF session = None THEN AfterEnd(t) ELSE "close"
  <2>1. Continue(t, label, session, <<>>) /\ op[t] \in Outcomes \union {"start"}
    BY <1>5 DEF Null, At, CallsKnown
  <2>2. label \in {"idle", "open", "close"} /\ (label = "close" => session # None)
    BY DEF AfterEnd
  <2> HIDE DEF label
  <2> QED
    BY <2>1, <2>2, ContinueCalls DEF Holding
<1>6. ASSUME NEW t \in Threads, Adopt(t) PROVE CallsKnown'
  <2>1. Continue(t, "prune", mine[t], <<>>)
    BY <1>6 DEF Adopt
  <2> QED
    BY <2>1, ContinueCalls DEF Holding
<1>7. ASSUME NEW t \in Threads, Begin(t) PROVE CallsKnown'
  BY <1>7 DEF Begin, locals, CallsKnown
<1>8. ASSUME NEW t \in Threads, Refused(t) PROVE CallsKnown'
  <2>1. CASE pc[t] = "open"
    <3>1. AfterTransaction(t, FALSE) = "idle"
      BY <2>1 DEF AfterTransaction
    <3> QED
      BY <1>8, <3>1, ContinueCalls DEF Refused, Holding
  <2>2. CASE pc[t] # "open"
    BY <1>8, <2>2, CommitCalls DEF Refused
  <2> QED
    BY <2>1, <2>2
<1>9. ASSUME NEW t \in Threads,
             AppendLines(t) \/ MarkRow(t) \/ CloseRow(t) \/ PruneRows(t)
      PROVE  CallsKnown'
  <2>1. pc[t] \in StorageLabels \ {"open"} /\ Continue(t, AfterTransaction(t, TRUE), None, <<>>)
    BY <1>9 DEF AppendLines, MarkRow, CloseRow, PruneRows, Commit, At, StorageLabels
  <2> QED
    BY <2>1, CommitCalls
<1>10. ASSUME NEW t \in Threads, InsertRow(t) PROVE CallsKnown'
  <2>1. PICK s \in Sessions : Commit(t, "open", s)
    BY <1>10 DEF InsertRow
  <2>2. s # None
    BY HistoryAssumption DEF Sessions
  <2> QED
    BY <2>1, <2>2, CommitCalls DEF Commit, At, StorageLabels
<1>11. ASSUME Restart PROVE CallsKnown'
  BY <1>11 DEF Restart, CallsKnown, Holding
<1>12. ASSUME UNCHANGED vars PROVE CallsKnown'
  BY <1>12 DEF vars, locals, CallsKnown
<1> QED
  BY <1>1, <1>2, <1>3, <1>4, <1>5, <1>6, <1>7, <1>8, <1>9, <1>10, <1>11, <1>12 DEF Next, Step

\* Every variable keeps its type, however the threads, the transactions and the
\* restarts of the application interleave.
THEOREM HistoryTypes == Spec => [](TypeOK /\ CallsKnown)
<1>1. Init => TypeOK /\ CallsKnown
  BY TypeInit, CallsInit
<1>2. TypeOK /\ CallsKnown /\ [Next]_vars => (TypeOK /\ CallsKnown)'
  BY TypeStep, CallsStep
<1> QED
  BY <1>1, <1>2, PTL DEF Spec

-----------------------------------------------------------------------------
(* Lines.                                                                  *)

\* What a thread that goes on leaves alone, and where it is then.
LEMMA ContinueEffect ==
  ASSUME TypeOK, NEW t \in Threads, NEW label, NEW s, NEW lines, Continue(t, label, s, lines)
  PROVE  /\ pc'[t] = label
         /\ op'[t] = IF label = "idle" THEN "" ELSE op[t]
         /\ mine'[t] = IF label \in Holding THEN s ELSE None
         /\ batch'[t] = IF label = "write" THEN lines ELSE <<>>
         /\ \A u \in Threads \ {t} : /\ pc'[u] = pc[u] /\ op'[u] = op[u]
                                     /\ mine'[u] = mine[u] /\ batch'[u] = batch[u]
BY DEF TypeOK, Continue

AllOf(lines, s) == \A i \in 1 .. Len(lines) : lines[i].of = s

\* Joining two runs of lines of session s, and trimming them to the newest.
LEMMA NewestOf ==
  ASSUME NEW s, NEW one \in Seq(Line), NEW two \in Seq(Line), AllOf(one, s), AllOf(two, s)
  PROVE  AllOf(Newest(one \o two), s)
<1> DEFINE lines == one \o two
<1>1. lines \in Seq(Line) /\ Len(lines) = Len(one) + Len(two)
  OBVIOUS
<1>2. AllOf(lines, s)
  <2> SUFFICES ASSUME NEW i \in 1 .. Len(lines) PROVE lines[i].of = s
    BY DEF AllOf
  <2>1. CASE i <= Len(one)
    BY <2>1 DEF AllOf
  <2>2. CASE i > Len(one)
    <3>1. lines[i] = two[i - Len(one)] /\ i - Len(one) \in 1 .. Len(two)
      BY <2>2, <1>1
    <3> QED
      BY <3>1 DEF AllOf
  <2> QED
    BY <2>1, <2>2
<1> HIDE DEF lines
<1> DEFINE from == IF Len(lines) > Cap THEN Len(lines) - Cap + 1 ELSE 1
<1>3. from \in 1 .. Len(lines) + 1 /\ Newest(lines) = SubSeq(lines, from, Len(lines))
  BY <1>1, HistoryAssumption DEF Newest
<1> HIDE DEF from
<1>4. /\ Len(Newest(lines)) = Len(lines) - from + 1
      /\ \A i \in 1 .. Len(lines) - from + 1 : Newest(lines)[i] = lines[from + i - 1]
  BY <1>1, <1>3
<1>5. AllOf(Newest(lines), s)
  BY <1>1, <1>2, <1>3, <1>4 DEF AllOf
<1> QED
  BY <1>5 DEF lines

OwnInv == OwnBuffers /\ OwnLines

LEMMA OwnInit == Init => OwnInv
<1> SUFFICES ASSUME Init PROVE OwnInv
  OBVIOUS
<1>1. session = None /\ Len(<<>>) = 0
  BY DEF Init
<1>2. \A t \in Threads : batch[t] = <<>>
  BY DEF Init
<1>3. \A s \in Sessions : stored[s] = <<>>
  BY DEF Init
<1> QED
  BY <1>1, <1>2, <1>3 DEF OwnInv, OwnBuffers, OwnLines

LEMMA OwnStep == TypeOK /\ CallsKnown /\ OwnInv /\ [Next]_vars => OwnInv'
<1> SUFFICES ASSUME TypeOK, CallsKnown, OwnInv, [Next]_vars PROVE OwnInv'
  OBVIOUS
<1>0. /\ session # None => AllOf(pending, session)
      /\ \A t \in Threads : AllOf(batch[t], mine[t])
      /\ \A s \in Sessions : AllOf(stored[s], s)
  BY DEF OwnInv, OwnBuffers, OwnLines, AllOf
<1>e. \A s : AllOf(<<>>, s)
  BY DEF AllOf
<1>q. ASSUME session' # None => AllOf(pending', session'),
             \A t \in Threads : AllOf(batch'[t], mine'[t]),
             \A s \in Sessions : AllOf(stored'[s], s)
      PROVE  OwnInv'
  BY <1>q DEF OwnInv, OwnBuffers, OwnLines, AllOf
\* A thread goes on without lines in hand.
<1>c. ASSUME NEW t \in Threads, NEW label, NEW s, NEW lines, Continue(t, label, s, lines),
             label = "write" => AllOf(lines, s)
      PROVE  \A u \in Threads : AllOf(batch'[u], mine'[u])
  <2> TAKE u \in Threads
  <2>1. CASE u = t
    <3>1. batch'[t] = IF label = "write" THEN lines ELSE <<>>
      BY <1>c, ContinueEffect
    <3>2. mine'[t] = IF label \in Holding THEN s ELSE None
      BY <1>c, ContinueEffect
    <3> QED
      BY <1>c, <1>e, <2>1, <3>1, <3>2 DEF Holding
  <2>2. CASE u # t
    BY <1>c, <1>0, <2>2, ContinueEffect
  <2> QED
    BY <2>1, <2>2
<1>1. ASSUME NEW t \in Threads,
             StartSession(t) \/ FlushCall(t) \/ MarkConnected(t) \/ EndSession(t) \/ Begin(t)
      PROVE  OwnInv'
  BY <1>1, <1>0, <1>q DEF StartSession, FlushCall, MarkConnected, EndSession, Call, Begin,
                          locals, tables
<1>2. ASSUME NEW t \in Threads, AppendLine(t) PROVE OwnInv'
  <2> DEFINE line == [of |-> session, number |-> accepted[session] + 1]
  <2>1. session # None /\ pending' = Append(pending, line) /\ pending \in Seq(Line)
    BY <1>2 DEF AppendLine, TypeOK
  <2>2. line.of = session
    OBVIOUS
  <2> HIDE DEF line
  <2>3. AllOf(pending', session)
    BY <1>0, <2>1, <2>2 DEF AllOf
  <2>4. UNCHANGED <<session, batch, mine, stored>>
    BY <1>2 DEF AppendLine, tables
  <2> QED
    BY <1>0, <1>q, <2>3, <2>4
<1>3. ASSUME NEW t \in Threads, Take(t) PROVE OwnInv'
  <2> DEFINE label == IF session = None \/ pending = <<>> THEN AfterFlush(t) ELSE "write"
  <2>1. Continue(t, label, session, pending) /\ label = "write" => session # None
    BY DEF AfterFlush
  <2>2. Continue(t, label, session, pending)
    BY <1>3 DEF Take
  <2> HIDE DEF label
  <2>3. \A u \in Threads : AllOf(batch'[u], mine'[u])
    BY <1>0, <1>c, <2>1, <2>2
  <2> QED
    BY <1>0, <1>3, <1>e, <1>q, <2>3 DEF Take, tables
<1>4. ASSUME NEW t \in Threads, Read(t) \/ Null(t) \/ Adopt(t) \/ Refused(t) PROVE OwnInv'
  <2>1. /\ \E label, s : Continue(t, label, s, <<>>)
        /\ UNCHANGED stored
        /\ (session' = session /\ pending' = pending) \/ session' = None \/ pending' = <<>>
    BY <1>4 DEF Read, Null, Adopt, Refused, tables
  <2>2. \A u \in Threads : AllOf(batch'[u], mine'[u])
    BY <1>c, <1>e, <2>1
  <2> QED
    BY <1>0, <1>e, <1>q, <2>1, <2>2
<1>5. ASSUME NEW t \in Threads, AppendLines(t) PROVE OwnInv'
  <2>1. /\ Continue(t, AfterTransaction(t, TRUE), None, <<>>)
        /\ pc[t] = "write" /\ UNCHANGED <<session, pending>>
    BY <1>5 DEF AppendLines, Commit, At
  <2>2. \A u \in Threads : AllOf(batch'[u], mine'[u])
    BY <1>c, <1>e, <2>1
  <2>3. mine[t] \in Sessions
    BY <2>1 DEF CallsKnown, Holding, TypeOK
  <2>4. AllOf(Newest(stored[mine[t]] \o batch[t]), mine[t])
    <3>1. stored[mine[t]] \in Seq(Line) /\ batch[t] \in Seq(Line)
      BY <2>3 DEF TypeOK
    <3> QED
      BY <1>0, <2>3, <3>1, NewestOf
  <2>5. \A s \in Sessions : AllOf(stored'[s], s)
    BY <1>0, <1>5, <2>3, <2>4 DEF AppendLines, TypeOK
  <2> QED
    BY <1>0, <1>q, <2>1, <2>2, <2>5
<1>6. ASSUME NEW t \in Threads, MarkRow(t) \/ CloseRow(t) \/ InsertRow(t) PROVE OwnInv'
  <2>1. /\ \E label, s : Continue(t, label, s, <<>>)
        /\ UNCHANGED <<session, pending, stored>>
    BY <1>6 DEF MarkRow, CloseRow, InsertRow, Commit
  <2>2. \A u \in Threads : AllOf(batch'[u], mine'[u])
    BY <1>c, <1>e, <2>1
  <2> QED
    BY <1>0, <1>q, <2>1, <2>2
<1>7. ASSUME NEW t \in Threads, PruneRows(t) PROVE OwnInv'
  <2>1. /\ \E label, s : Continue(t, label, s, <<>>)
        /\ UNCHANGED <<session, pending>>
    BY <1>7 DEF PruneRows, Commit
  <2>2. \A u \in Threads : AllOf(batch'[u], mine'[u])
    BY <1>c, <1>e, <2>1
  <2>3. \A s \in Sessions : AllOf(stored'[s], s)
    BY <1>0, <1>7, <1>e, PruneSweeps
  <2> QED
    BY <1>0, <1>q, <2>1, <2>2, <2>3
<1>8. ASSUME Restart PROVE OwnInv'
  BY <1>0, <1>8, <1>e, <1>q DEF Restart, tables
<1>9. ASSUME UNCHANGED vars PROVE OwnInv'
  BY <1>0, <1>9, <1>q DEF vars, locals, tables
<1> QED
  BY <1>1, <1>2, <1>3, <1>4, <1>5, <1>6, <1>7, <1>8, <1>9 DEF Next, Step

\* Every stored line belongs to the attempt it was logged in: append() and flush()
\* read the buffer and the session in one lock region, and start_session() empties
\* the buffer in the region that changes the session.
THEOREM StoredLinesAreOwn == Spec => []OwnLines
<1>1. Init => TypeOK /\ CallsKnown /\ OwnInv
  BY TypeInit, CallsInit, OwnInit
<1>2. TypeOK /\ CallsKnown /\ OwnInv /\ [Next]_vars => (TypeOK /\ CallsKnown /\ OwnInv)'
  BY TypeStep, CallsStep, OwnStep
<1>3. OwnInv => OwnLines
  BY DEF OwnInv
<1> QED
  BY <1>1, <1>2, <1>3, PTL DEF Spec

-----------------------------------------------------------------------------
(* Rows.                                                                   *)

LEMMA CloserInit == Init => OneCloser
BY DEF Init, OneCloser, Private

\* A thread goes on to a place where it has no row of its own; the only row it may
\* have closed is the one it had.
LEMMA CloserLeaves ==
  ASSUME TypeOK, CallsKnown, OneCloser, NEW t \in Threads, NEW label, NEW s, NEW lines,
         Continue(t, label, s, lines), label \notin {"close", "adopt"},
         session' \in {session, None},
         \A r \in Sessions : rows[r].phase \in Unended =>
           rows'[r].phase \in Unended \/ (Private(t) /\ r = mine[t])
  PROVE  OneCloser'
<1>1. ASSUME NEW u \in Threads, pc'[u] \in {"close", "adopt"}
      PROVE  u # t /\ Private(u) /\ mine'[u] = mine[u]
  <2>1. pc'[t] = label /\ (u # t => pc'[u] = pc[u] /\ mine'[u] = mine[u])
    BY ContinueEffect
  <2> QED
    BY <1>1, <2>1 DEF Private
<1>2. \A u \in Threads : Private(u) => mine[u] \in Sessions /\ mine[u] # None
  BY DEF TypeOK, CallsKnown, Private, Holding
<1>3. session # None => session \in Sessions
  BY DEF TypeOK
<1>4. session' # None => rows'[session'].phase \in Unended
  BY <1>3 DEF OneCloser
<1>5. ASSUME NEW u \in Threads, pc'[u] \in {"close", "adopt"}
      PROVE  rows'[mine'[u]].phase \in Unended /\ mine'[u] # session'
  <2>1. u # t /\ Private(u) /\ mine'[u] = mine[u]
    BY <1>1, <1>5
  <2>2. /\ rows[mine[u]].phase \in Unended /\ mine[u] # session
        /\ Private(t) => mine[u] # mine[t]
    BY <2>1 DEF OneCloser
  <2> QED
    BY <1>2, <2>1, <2>2
<1>6. ASSUME NEW u \in Threads, NEW v \in Threads, u # v,
             pc'[u] \in {"close", "adopt"}, pc'[v] \in {"close", "adopt"}
      PROVE  mine'[u] # mine'[v]
  BY <1>1, <1>6 DEF OneCloser
<1> QED
  BY <1>4, <1>5, <1>6 DEF OneCloser, Private

LEMMA CloserStep == TypeOK /\ CallsKnown /\ OneCloser /\ [Next]_vars => OneCloser'
<1> SUFFICES ASSUME TypeOK, CallsKnown, OneCloser, [Next]_vars PROVE OneCloser'
  OBVIOUS
<1>1. ASSUME NEW t \in Threads,
             \/ StartSession(t) \/ FlushCall(t) \/ MarkConnected(t) \/ EndSession(t)
             \/ AppendLine(t)
      PROVE  OneCloser'
  <2>1. /\ UNCHANGED <<session, mine, rows>>
        /\ \A u \in Threads : pc'[u] \in {"close", "adopt"} => pc'[u] = pc[u]
    BY <1>1 DEF StartSession, FlushCall, MarkConnected, EndSession, Call, AppendLine, tables, TypeOK
  <2> QED
    BY <2>1 DEF OneCloser, Private
<1>2. ASSUME NEW t \in Threads, Take(t) \/ Read(t) PROVE OneCloser'
  <2>1. /\ UNCHANGED <<session, rows>>
        /\ \E label \in {"idle", "null", "write", "mark"} : \E s, lines : Continue(t, label, s, lines)
    BY <1>2 DEF Take, Read, AfterFlush, tables
  <2> QED
    BY <2>1, CloserLeaves
<1>3. ASSUME NEW t \in Threads, Null(t) PROVE OneCloser'
  <2>1. session' = None /\ UNCHANGED rows
    BY <1>3 DEF Null, tables
  <2>2. CASE session = None
    <3>1. AfterEnd(t) \in {"open", "idle"} /\ Continue(t, AfterEnd(t), session, <<>>)
      BY <1>3, <2>2 DEF Null, AfterEnd
    <3> QED
      BY <2>1, <3>1, CloserLeaves
  <2>3. CASE session # None
    <3>1. Continue(t, "close", session, <<>>)
      BY <1>3, <2>3 DEF Null
    <3>2. /\ pc'[t] = "close" /\ mine'[t] = session
          /\ \A u \in Threads \ {t} : pc'[u] = pc[u] /\ mine'[u] = mine[u]
      BY <3>1, ContinueEffect DEF Holding
    <3>3. \A u \in Threads : Private(u) => mine[u] # None
      BY DEF CallsKnown, Private, Holding
    <3> QED
      BY <2>1, <2>3, <3>2, <3>3 DEF OneCloser, Private
  <2> QED
    BY <2>2, <2>3
<1>4. ASSUME NEW t \in Threads, Adopt(t) PROVE OneCloser'
  <2>1. /\ session' = mine[t] /\ UNCHANGED rows
        /\ Private(t) /\ Continue(t, "prune", mine[t], <<>>)
    BY <1>4 DEF Adopt, At, Private, tables
  <2>2. /\ pc'[t] = "prune"
        /\ \A u \in Threads \ {t} : pc'[u] = pc[u] /\ mine'[u] = mine[u]
    BY <2>1, ContinueEffect
  <2> QED
    BY <2>1, <2>2 DEF OneCloser, Private
<1>5. ASSUME NEW t \in Threads, Begin(t) PROVE OneCloser'
  BY <1>5 DEF Begin, locals, tables, OneCloser, Private
<1>6. ASSUME NEW t \in Threads, Refused(t) PROVE OneCloser'
  <2>1. /\ UNCHANGED <<session, rows>>
        /\ AfterTransaction(t, FALSE) \in {"idle", "null", "open"}
        /\ Continue(t, AfterTransaction(t, FALSE), None, <<>>)
    BY <1>6 DEF Refused, AfterTransaction, AfterFlush, AfterEnd, tables
  <2> QED
    BY <2>1, CloserLeaves
<1>7. ASSUME NEW t \in Threads, AppendLines(t) \/ MarkRow(t) \/ PruneRows(t) PROVE OneCloser'
  <2>1. /\ UNCHANGED session
        /\ pc[t] \in {"write", "mark", "prune"}
        /\ Continue(t, AfterTransaction(t, TRUE), None, <<>>)
    BY <1>7 DEF AppendLines, MarkRow, PruneRows, Commit, At
  <2>2. AfterTransaction(t, TRUE) \in {"idle", "null"}
    BY <2>1 DEF AfterTransaction, AfterFlush
  <2>3. ASSUME NEW r \in Sessions, rows[r].phase \in Unended PROVE rows'[r].phase \in Unended
    <3>1. CASE AppendLines(t)
      BY <2>3, <3>1 DEF AppendLines
    <3>2. CASE MarkRow(t)
      BY ZenonT(60), <2>3, <3>2 DEF MarkRow, TypeOK, Row
    <3>3. CASE PruneRows(t)
      BY ZenonT(60), <2>3, <3>3, PruneSweeps DEF TypeOK, Row, Unended
    <3> QED
      BY <1>7, <3>1, <3>2, <3>3
  <2> QED
    BY <2>1, <2>2, <2>3, CloserLeaves
<1>8. ASSUME NEW t \in Threads, CloseRow(t) PROVE OneCloser'
  <2>1. /\ UNCHANGED session
        /\ pc[t] = "close"
        /\ Continue(t, AfterTransaction(t, TRUE), None, <<>>)
    BY <1>8 DEF CloseRow, Commit, At
  <2>2. AfterTransaction(t, TRUE) \in {"idle", "open"}
    BY <2>1 DEF AfterTransaction, AfterEnd
  <2>3. \A r \in Sessions : r # mine[t] => rows'[r] = rows[r]
    BY <1>8 DEF CloseRow, TypeOK
  <2> QED
    BY <2>1, <2>2, <2>3, CloserLeaves DEF Private
<1>9. ASSUME NEW t \in Threads, InsertRow(t) PROVE OneCloser'
  <2>1. PICK s \in Sessions : /\ Commit(t, "open", s) /\ rows[s].phase = "none"
                              /\ rows' = [rows EXCEPT ![s].phase = "open"]
    BY <1>9 DEF InsertRow
  <2>2. UNCHANGED session /\ pc[t] = "open" /\ Continue(t, "adopt", s, <<>>)
    BY <2>1 DEF Commit, At, AfterTransaction
  <2>3. /\ pc'[t] = "adopt" /\ mine'[t] = s
        /\ \A u \in Threads \ {t} : pc'[u] = pc[u] /\ mine'[u] = mine[u]
    BY <2>2, ContinueEffect DEF Holding
  <2>4. /\ rows'[s].phase = "open"
        /\ \A r \in Sessions \ {s} : rows'[r] = rows[r]
    BY <2>1 DEF TypeOK, Row
  <2>5. \A u \in Threads : Private(u) => mine[u] \in Sessions \ {s}
    BY <2>1 DEF OneCloser, TypeOK, CallsKnown, Private, Holding, Unended
  <2>6. session # None => session \in Sessions \ {s}
    BY <2>1 DEF OneCloser, TypeOK, Unended
  <2>7. s # None
    BY HistoryAssumption DEF Sessions
  <2> QED
    BY <2>2, <2>3, <2>4, <2>5, <2>6, <2>7 DEF OneCloser, Private, Unended
<1>10. ASSUME Restart PROVE OneCloser'
  BY <1>10 DEF Restart, OneCloser, Private
<1>11. ASSUME UNCHANGED vars PROVE OneCloser'
  BY <1>11 DEF vars, locals, tables, OneCloser, Private
<1> QED
  BY <1>1, <1>2, <1>3, <1>4, <1>5, <1>6, <1>7, <1>8, <1>9, <1>10, <1>11 DEF Next, Step

\* However many threads see an attempt end, its row is closed by one of them: the
\* one that took the session away from the others (end_session(), history.py:104).
THEOREM RowsAreClosedOnce == Spec => ClosedOnce
<1> DEFINE Inv == TypeOK /\ CallsKnown /\ OneCloser
<1>1. Init => Inv
  BY TypeInit, CallsInit, CloserInit
<1>2. Inv /\ [Next]_vars => Inv'
  BY TypeStep, CallsStep, CloserStep
<1>3. ASSUME Inv, [Next]_vars, NEW s \in Sessions, rows[s].phase = "ended"
      PROVE  rows'[s].outcome = rows[s].outcome /\ rows'[s].phase \in {"ended", "gone"}
  <2>1. ASSUME rows' = rows PROVE rows'[s] = rows[s]
    BY <2>1
  <2>2. ASSUME NEW t \in Threads, MarkRow(t)
        PROVE  rows'[s].outcome = rows[s].outcome /\ rows'[s].phase = "ended"
    <3>1. [rows[s] EXCEPT !.connected = TRUE].outcome = rows[s].outcome
      BY DEF Inv, TypeOK, Row
    <3>2. [rows[s] EXCEPT !.connected = TRUE].phase = rows[s].phase
      BY DEF Inv, TypeOK, Row
    <3>3. rows'[s] = rows[s] \/ rows'[s] = [rows[s] EXCEPT !.connected = TRUE]
      BY <1>3, <2>2 DEF MarkRow, TypeOK
    <3> QED
      BY <1>3, <3>1, <3>2, <3>3
  <2>3. ASSUME NEW t \in Threads, CloseRow(t) PROVE rows'[s] = rows[s]
    <3>1. Private(t)
      BY <2>3 DEF CloseRow, Commit, At, Private
    <3>2. mine[t] # s
      BY <1>3, <3>1 DEF OneCloser, Unended
    <3> QED
      BY <1>3, <2>3, <3>2 DEF CloseRow, TypeOK
  <2>4. ASSUME NEW t \in Threads, InsertRow(t) PROVE rows'[s] = rows[s]
    BY <1>3, <2>4 DEF InsertRow, TypeOK
  <2>5. ASSUME NEW t \in Threads, PruneRows(t)
        PROVE  rows'[s].outcome = rows[s].outcome /\ rows'[s].phase \in {"ended", "gone"}
    <3>1. /\ [rows[s] EXCEPT !.phase = "gone"].outcome = rows[s].outcome
          /\ [rows[s] EXCEPT !.phase = "gone"].phase = "gone"
      BY DEF Inv, TypeOK, Row
    <3>2. rows'[s] = rows[s] \/ rows'[s] = [rows[s] EXCEPT !.phase = "gone"]
      BY <2>5, PruneSweeps
    <3> QED
      BY <1>3, <3>1, <3>2
  <2>6. \/ rows' = rows
        \/ \E t \in Threads : MarkRow(t) \/ CloseRow(t) \/ InsertRow(t) \/ PruneRows(t)
    BY <1>3 DEF Next, Step, vars, tables, StartSession, FlushCall, MarkConnected, EndSession,
                Call, AppendLine, Take, Read, Null, Adopt, Begin, Refused, AppendLines, Restart
  <2> QED
    BY <1>3, <2>1, <2>2, <2>3, <2>4, <2>5, <2>6
<1>4. Inv /\ [Next]_vars =>
        [\A s \in Sessions : rows[s].phase = "ended" =>
           rows'[s].outcome = rows[s].outcome /\ rows'[s].phase \in {"ended", "gone"}]_vars
  BY <1>3
<1> HIDE DEF Inv
<1> QED
  BY <1>1, <1>2, <1>4, PTL DEF Spec, ClosedOnce

LEMMA StarterInit == Init => OneStarter
BY DEF Init, OneStarter

\* A thread goes on, the session stays or ends.
LEMMA StarterGoesOn ==
  ASSUME TypeOK, OneStarter, NEW t \in Threads, NEW label, NEW s, NEW lines,
         Continue(t, label, s, lines), session' \in {session, None},
         label \in {"open", "adopt", "prune"} => op[t] = "start",
         op[t] = "start" /\ label \in {"close", "open", "adopt"} => session' = None
  PROVE  OneStarter'
<1>1. /\ pc'[t] = label
      /\ op'[t] = IF label = "idle" THEN "" ELSE op[t]
      /\ \A u \in Threads \ {t} : pc'[u] = pc[u] /\ op'[u] = op[u]
  BY ContinueEffect
<1>2. \A u \in Threads : op'[u] = "start" => op[u] = "start"
  BY <1>1
<1>3. \A u, v \in Threads : op'[u] = "start" /\ op'[v] = "start" => u = v
  BY <1>2 DEF OneStarter
<1>4. \A u \in Threads : pc'[u] \in {"open", "adopt", "prune"} => op'[u] = "start"
  BY <1>1 DEF OneStarter
<1>5. \A u \in Threads :
        op'[u] = "start" /\ pc'[u] \in {"close", "open", "adopt"} => session' = None
  BY <1>1, <1>2 DEF OneStarter
<1> QED
  BY <1>3, <1>4, <1>5 DEF OneStarter

LEMMA StarterStep == TypeOK /\ OneStarter /\ [Next]_vars => OneStarter'
<1> SUFFICES ASSUME TypeOK, OneStarter, [Next]_vars PROVE OneStarter'
  OBVIOUS
<1>1. ASSUME NEW t \in Threads, StartSession(t) PROVE OneStarter'
  <2>1. /\ UNCHANGED session /\ \A u \in Threads : op[u] # "start"
        /\ pc' = [pc EXCEPT ![t] = "take"] /\ op' = [op EXCEPT ![t] = "start"]
    BY <1>1 DEF StartSession, Call
  <2> QED
    BY <2>1 DEF OneStarter, TypeOK
<1>2. ASSUME NEW t \in Threads,
             FlushCall(t) \/ MarkConnected(t) \/ EndSession(t) \/ AppendLine(t)
      PROVE  OneStarter'
  <2>1. /\ UNCHANGED session
        /\ \/ UNCHANGED <<pc, op>>
           \/ \E method \in Methods \ {"start"}, label \in {"take", "read"} :
                pc' = [pc EXCEPT ![t] = label] /\ op' = [op EXCEPT ![t] = method]
    BY <1>2 DEF FlushCall, MarkConnected, EndSession, AppendLine, Call, Methods, Outcomes
  <2> QED
    BY <2>1 DEF OneStarter, TypeOK
<1>3. ASSUME NEW t \in Threads, Take(t) \/ Read(t) PROVE OneStarter'
  <2>1. /\ UNCHANGED session
        /\ \E label \in {"idle", "null", "write", "mark"} : \E s, lines : Continue(t, label, s, lines)
    BY <1>3 DEF Take, Read, AfterFlush
  <2> QED
    BY <2>1, StarterGoesOn
<1>4. ASSUME NEW t \in Threads, Null(t) PROVE OneStarter'
  <2> DEFINE label == IF session = None THEN AfterEnd(t) ELSE "close"
  <2>1. session' = None /\ Continue(t, label, session, <<>>)
    BY <1>4 DEF Null
  <2>2. label \notin {"adopt", "prune"} /\ (label = "open" => op[t] = "start")
    BY DEF AfterEnd
  <2> HIDE DEF label
  <2> QED
    BY <2>1, <2>2, StarterGoesOn
<1>5. ASSUME NEW t \in Threads, Adopt(t) PROVE OneStarter'
  <2>1. pc[t] = "adopt" /\ Continue(t, "prune", mine[t], <<>>)
    BY <1>5 DEF Adopt, At
  <2>2. /\ pc'[t] = "prune" /\ op'[t] = op[t]
        /\ \A u \in Threads \ {t} : pc'[u] = pc[u] /\ op'[u] = op[u]
    BY <2>1, ContinueEffect
  <2>3. op[t] = "start"
    BY <2>1 DEF OneStarter
  <2> QED
    BY <2>2, <2>3 DEF OneStarter
<1>6. ASSUME NEW t \in Threads, Begin(t) PROVE OneStarter'
  BY <1>6 DEF Begin, locals, OneStarter
<1>7. ASSUME NEW t \in Threads, NEW ok \in BOOLEAN, NEW s, pc[t] \in StorageLabels,
             Continue(t, AfterTransaction(t, ok), s, <<>>), UNCHANGED session
      PROVE  OneStarter'
  <2> DEFINE label == AfterTransaction(t, ok)
  <2>1. CASE pc[t] = "write"
    <3>1. label \in {"idle", "null"}
      BY <2>1 DEF AfterTransaction, AfterFlush
    <3> HIDE DEF label
    <3> QED
      BY <1>7, <3>1, StarterGoesOn DEF label
  <2>2. CASE pc[t] = "close"
    <3>1. label \in {"idle", "open"} /\ (label = "open" => op[t] = "start" /\ session = None)
      BY <2>2 DEF AfterTransaction, AfterEnd, OneStarter
    <3> HIDE DEF label
    <3> QED
      BY <1>7, <3>1, StarterGoesOn DEF label
  <2>3. CASE pc[t] = "open"
    <3>1. label \in {"idle", "adopt"} /\ op[t] = "start" /\ session = None
      BY <2>3 DEF AfterTransaction, OneStarter
    <3> HIDE DEF label
    <3> QED
      BY <1>7, <3>1, StarterGoesOn DEF label
  <2>4. CASE pc[t] \in {"mark", "prune"}
    <3>1. label = "idle"
      BY <2>4 DEF AfterTransaction
    <3> HIDE DEF label
    <3> QED
      BY <1>7, <3>1, StarterGoesOn DEF label
  <2> QED
    BY <1>7, <2>1, <2>2, <2>3, <2>4 DEF StorageLabels
<1>8. ASSUME NEW t \in Threads, Refused(t) PROVE OneStarter'
  BY <1>7, <1>8 DEF Refused
<1>9. ASSUME NEW t \in Threads,
             AppendLines(t) \/ MarkRow(t) \/ CloseRow(t) \/ InsertRow(t) \/ PruneRows(t)
      PROVE  OneStarter'
  <2>1. /\ UNCHANGED session /\ pc[t] \in StorageLabels
        /\ \E s : Continue(t, AfterTransaction(t, TRUE), s, <<>>)
    BY <1>9 DEF AppendLines, MarkRow, CloseRow, InsertRow, PruneRows, Commit, At, StorageLabels
  <2> QED
    BY <1>7, <2>1
<1>10. ASSUME Restart PROVE OneStarter'
  BY <1>10 DEF Restart, OneStarter
<1>11. ASSUME UNCHANGED vars PROVE OneStarter'
  BY <1>11 DEF vars, locals, OneStarter
<1> QED
  BY <1>1, <1>2, <1>3, <1>4, <1>5, <1>6, <1>8, <1>9, <1>10, <1>11 DEF Next, Step

LEMMA KnownInit == Init => OpenRowsKnown
<1>1. NoRow.phase # "open"
  BY DEF NoRow
<1> QED
  BY <1>1 DEF Init, OpenRowsKnown

\* No row is opened, and a thread that had a row has dealt with it.
LEMMA KnownGoesOn ==
  ASSUME TypeOK, OpenRowsKnown, NEW t \in Threads, NEW label, NEW s, NEW lines,
         Continue(t, label, s, lines), session' = session, unclosed \subseteq unclosed',
         \A r \in Sessions : rows'[r].phase = "open" => rows[r].phase = "open",
         Private(t) => mine[t] \in unclosed' \/ rows'[mine[t]].phase # "open"
  PROVE  OpenRowsKnown'
<1> SUFFICES ASSUME NEW r \in Sessions, rows'[r].phase = "open"
             PROVE  r = session' \/ r \in unclosed' \/ \E u \in Threads : Private(u)' /\ mine'[u] = r
  BY DEF OpenRowsKnown
<1>1. r = session \/ r \in unclosed \/ \E u \in Threads : Private(u) /\ mine[u] = r
  BY DEF OpenRowsKnown
<1>2. \A u \in Threads \ {t} : pc'[u] = pc[u] /\ mine'[u] = mine[u]
  BY ContinueEffect
<1>3. ASSUME NEW u \in Threads, Private(u), mine[u] = r
      PROVE  r \in unclosed' \/ \E v \in Threads : Private(v)' /\ mine'[v] = r
  <2>1. CASE u = t
    BY <1>3, <2>1
  <2>2. CASE u # t
    BY <1>2, <1>3, <2>2 DEF Private
  <2> QED
    BY <2>1, <2>2
<1> QED
  BY <1>1, <1>3

LEMMA KnownStep ==
  TypeOK /\ CallsKnown /\ OneStarter /\ OpenRowsKnown /\ [Next]_vars => OpenRowsKnown'
<1> SUFFICES ASSUME TypeOK, CallsKnown, OneStarter, OpenRowsKnown, [Next]_vars
             PROVE  OpenRowsKnown'
  OBVIOUS
<1>1. ASSUME NEW t \in Threads,
             \/ StartSession(t) \/ FlushCall(t) \/ MarkConnected(t) \/ EndSession(t)
             \/ AppendLine(t)
      PROVE  OpenRowsKnown'
  <2>1. /\ UNCHANGED <<session, mine, rows, unclosed>>
        /\ \A u \in Threads : pc[u] \in {"close", "adopt"} => pc'[u] = pc[u]
    BY <1>1 DEF StartSession, FlushCall, MarkConnected, EndSession, Call, At, AppendLine, tables,
                ghosts, TypeOK
  <2> QED
    BY <2>1 DEF OpenRowsKnown, Private
<1>2. ASSUME NEW t \in Threads, Take(t) \/ Read(t) PROVE OpenRowsKnown'
  <2>1. /\ UNCHANGED <<session, rows, unclosed>> /\ ~Private(t)
        /\ \E label, s, lines : Continue(t, label, s, lines)
    BY <1>2 DEF Take, Read, At, Private, tables, ghosts
  <2> QED
    BY <2>1, KnownGoesOn
<1>3. ASSUME NEW t \in Threads, Null(t) PROVE OpenRowsKnown'
  <2>1. /\ session' = None /\ UNCHANGED <<rows, unclosed>> /\ pc[t] = "null"
        /\ Continue(t, IF session = None THEN AfterEnd(t) ELSE "close", session, <<>>)
    BY <1>3 DEF Null, At, tables, ghosts
  <2>2. /\ session # None => pc'[t] = "close" /\ mine'[t] = session
        /\ \A u \in Threads \ {t} : pc'[u] = pc[u] /\ mine'[u] = mine[u]
    BY <2>1, ContinueEffect DEF Holding
  <2>3. \A r \in Sessions : r # None
    BY HistoryAssumption DEF Sessions
  <2> QED
    BY <2>1, <2>2, <2>3 DEF OpenRowsKnown, Private
<1>4. ASSUME NEW t \in Threads, Adopt(t) PROVE OpenRowsKnown'
  <2>1. /\ session' = mine[t] /\ UNCHANGED <<rows, unclosed>> /\ pc[t] = "adopt"
        /\ Continue(t, "prune", mine[t], <<>>)
    BY <1>4 DEF Adopt, At, tables, ghosts
  <2>2. \A u \in Threads \ {t} : pc'[u] = pc[u] /\ mine'[u] = mine[u]
    BY <2>1, ContinueEffect
  <2>3. session = None
    BY <2>1 DEF OneStarter
  <2>4. \A r \in Sessions : r # None
    BY HistoryAssumption DEF Sessions
  <2> QED
    BY <2>1, <2>2, <2>3, <2>4 DEF OpenRowsKnown, Private
<1>5. ASSUME NEW t \in Threads, Begin(t) PROVE OpenRowsKnown'
  BY <1>5 DEF Begin, locals, tables, ghosts, OpenRowsKnown, Private
<1>6. ASSUME NEW t \in Threads, Refused(t) PROVE OpenRowsKnown'
  <2>1. /\ UNCHANGED <<session, rows>> /\ pc[t] # "adopt"
        /\ unclosed' = IF pc[t] = "close" THEN unclosed \union {mine[t]} ELSE unclosed
        /\ \E label, s, lines : Continue(t, label, s, lines)
    BY <1>6 DEF Refused, StorageLabels, tables
  <2> QED
    BY <2>1, KnownGoesOn DEF Private
<1>7. ASSUME NEW t \in Threads, AppendLines(t) \/ MarkRow(t) \/ PruneRows(t)
      PROVE  OpenRowsKnown'
  <2>1. /\ UNCHANGED <<session, unclosed>> /\ ~Private(t)
        /\ \E label, s, lines : Continue(t, label, s, lines)
    BY <1>7 DEF AppendLines, MarkRow, PruneRows, Commit, At, Private, ghosts
  <2>2. ASSUME NEW r \in Sessions, rows'[r].phase = "open" PROVE rows[r].phase = "open"
    <3>1. CASE AppendLines(t)
      BY <2>2, <3>1 DEF AppendLines
    <3>2. CASE MarkRow(t)
      BY <2>2, <3>2 DEF MarkRow, TypeOK, Row
    <3>3. CASE PruneRows(t)
      <4>1. [rows[r] EXCEPT !.phase = "gone"].phase = "gone"
        BY DEF TypeOK, Row
      <4> QED
        BY <2>2, <3>3, <4>1, PruneSweeps
    <3> QED
      BY <1>7, <3>1, <3>2, <3>3
  <2> QED
    BY <2>1, <2>2, KnownGoesOn
<1>8. ASSUME NEW t \in Threads, CloseRow(t) PROVE OpenRowsKnown'
  <2>1. /\ UNCHANGED <<session, unclosed>> /\ pc[t] = "close"
        /\ \E label, s, lines : Continue(t, label, s, lines)
    BY <1>8 DEF CloseRow, Commit, At, ghosts
  <2>2. mine[t] \in Sessions
    BY <2>1 DEF TypeOK, CallsKnown, Holding
  <2>3. /\ rows'[mine[t]].phase # "open"
        /\ \A r \in Sessions \ {mine[t]} : rows'[r] = rows[r]
    BY <1>8, <2>2 DEF CloseRow, TypeOK, Row
  <2> QED
    BY <2>1, <2>3, KnownGoesOn
<1>9. ASSUME NEW t \in Threads, InsertRow(t) PROVE OpenRowsKnown'
  <2>1. PICK s \in Sessions : /\ Commit(t, "open", s)
                              /\ rows' = [rows EXCEPT ![s].phase = "open"]
    BY <1>9 DEF InsertRow
  <2>2. /\ UNCHANGED <<session, unclosed>> /\ pc[t] = "open" /\ Continue(t, "adopt", s, <<>>)
    BY <2>1 DEF Commit, At, AfterTransaction, ghosts
  <2>3. /\ pc'[t] = "adopt" /\ mine'[t] = s
        /\ \A u \in Threads \ {t} : pc'[u] = pc[u] /\ mine'[u] = mine[u]
    BY <2>2, ContinueEffect DEF Holding
  <2>4. \A r \in Sessions \ {s} : rows'[r] = rows[r]
    BY <2>1 DEF TypeOK
  <2> QED
    BY <2>2, <2>3, <2>4 DEF OpenRowsKnown, Private
<1>10. ASSUME Restart PROVE OpenRowsKnown'
  BY <1>10 DEF Restart, tables, OpenRowsKnown
<1>11. ASSUME UNCHANGED vars PROVE OpenRowsKnown'
  BY <1>11 DEF vars, locals, tables, ghosts, OpenRowsKnown, Private
<1> QED
  BY <1>1, <1>2, <1>3, <1>4, <1>5, <1>6, <1>7, <1>8, <1>9, <1>10, <1>11 DEF Next, Step

\* A row stays open after its attempt only if the database never took its end: the
\* application stopped, or SQLite refused the transaction.  No interleaving of the
\* threads that announce transitions leaves one open behind them.
THEOREM NoRowIsForgotten == Spec => []OnlyLiveRowOpen
<1> DEFINE Inv == TypeOK /\ CallsKnown /\ OneStarter /\ OpenRowsKnown
<1>1. Init => Inv
  BY TypeInit, CallsInit, StarterInit, KnownInit
<1>2. Inv /\ [Next]_vars => Inv'
  BY TypeStep, CallsStep, StarterStep, KnownStep
<1>3. Inv => OnlyLiveRowOpen
  BY DEF OnlyLiveRowOpen, OpenRowsKnown, AllIdle, Private
<1> HIDE DEF Inv
<1> QED
  BY <1>1, <1>2, <1>3, PTL DEF Spec

-----------------------------------------------------------------------------
(* Each line once.                                                         *)

Once(lines) == \A i, j \in 1 .. Len(lines) : i # j => lines[i] # lines[j]

Elements(lines) == {lines[i] : i \in 1 .. Len(lines)}

Logged(lines) == \A line \in Elements(lines) : line.number =< accepted[line.of]

\* No line is twice in one place, and none in two: in the buffer, in a thread's hands
\* or in the table; and the next line that is logged is none of them.
SingleInv ==
  /\ Once(pending) /\ Logged(pending)
  /\ \A t \in Threads : /\ Once(batch[t]) /\ Logged(batch[t])
                        /\ Elements(batch[t]) \intersect Elements(pending) = {}
  /\ \A s \in Sessions : /\ Once(stored[s]) /\ Logged(stored[s])
                         /\ Elements(stored[s]) \intersect Elements(pending) = {}
  /\ \A t, u \in Threads : t # u => Elements(batch[t]) \intersect Elements(batch[u]) = {}
  /\ \A t \in Threads, s \in Sessions : Elements(batch[t]) \intersect Elements(stored[s]) = {}

LEMMA NothingTwice == Once(<<>>) /\ Elements(<<>>) = {} /\ Logged(<<>>)
<1>1. Len(<<>>) = 0 /\ 1 .. 0 = {}
  OBVIOUS
<1> QED
  BY <1>1 DEF Once, Elements, Logged

\* Joining two runs of lines that have none in common, and trimming them to the newest.
LEMMA NewestOnce ==
  ASSUME NEW one \in Seq(Line), NEW two \in Seq(Line), Once(one), Once(two),
         Elements(one) \intersect Elements(two) = {}
  PROVE  /\ Once(Newest(one \o two))
         /\ Elements(Newest(one \o two)) \subseteq Elements(one) \union Elements(two)
<1> DEFINE lines == one \o two
<1>1. lines \in Seq(Line) /\ Len(lines) = Len(one) + Len(two) /\ Len(one) \in Nat /\ Len(two) \in Nat
  OBVIOUS
<1>2. \A i \in 1 .. Len(lines) :
        \/ i \in 1 .. Len(one) /\ lines[i] = one[i]
        \/ i - Len(one) \in 1 .. Len(two) /\ lines[i] = two[i - Len(one)]
  OBVIOUS
<1> HIDE DEF lines
<1>3. Once(lines)
  <2> SUFFICES ASSUME NEW i \in 1 .. Len(lines), NEW j \in 1 .. Len(lines), i # j
               PROVE  lines[i] # lines[j]
    BY DEF Once
  <2>1. CASE i \in 1 .. Len(one) /\ j \in 1 .. Len(one) /\ lines[i] = one[i] /\ lines[j] = one[j]
    BY <2>1 DEF Once
  <2>2. CASE /\ i - Len(one) \in 1 .. Len(two) /\ lines[i] = two[i - Len(one)]
             /\ j - Len(one) \in 1 .. Len(two) /\ lines[j] = two[j - Len(one)]
    <3>1. i - Len(one) # j - Len(one)
      BY <1>1
    <3> QED
      BY <2>2, <3>1 DEF Once
  <2>3. CASE /\ i \in 1 .. Len(one) /\ lines[i] = one[i]
             /\ j - Len(one) \in 1 .. Len(two) /\ lines[j] = two[j - Len(one)]
    <3>1. lines[i] \in Elements(one) /\ lines[j] \in Elements(two)
      BY <2>3 DEF Elements
    <3> QED
      BY <3>1
  <2>4. CASE /\ j \in 1 .. Len(one) /\ lines[j] = one[j]
             /\ i - Len(one) \in 1 .. Len(two) /\ lines[i] = two[i - Len(one)]
    <3>1. lines[j] \in Elements(one) /\ lines[i] \in Elements(two)
      BY <2>4 DEF Elements
    <3> QED
      BY <3>1
  <2> QED
    BY <1>2, <2>1, <2>2, <2>3, <2>4
<1>4. Elements(lines) \subseteq Elements(one) \union Elements(two)
  BY <1>2 DEF Elements
<1> DEFINE from == IF Len(lines) > Cap THEN Len(lines) - Cap + 1 ELSE 1
<1>5. from \in 1 .. Len(lines) + 1 /\ Newest(lines) = SubSeq(lines, from, Len(lines))
  BY <1>1, HistoryAssumption DEF Newest
<1> HIDE DEF from
<1>6. /\ Len(Newest(lines)) = Len(lines) - from + 1
      /\ \A i \in 1 .. Len(Newest(lines)) :
           from + i - 1 \in 1 .. Len(lines) /\ Newest(lines)[i] = lines[from + i - 1]
  <2>1. /\ Len(Newest(lines)) = Len(lines) - from + 1
        /\ \A i \in 1 .. Len(lines) - from + 1 : Newest(lines)[i] = lines[from + i - 1]
    <3>1. lines \in Seq(Line)
      BY <1>1
    <3> QED
      BY ONLY <1>5, <3>1
  <2>2. \A i \in 1 .. Len(lines) - from + 1 : from + i - 1 \in 1 .. Len(lines)
    BY <1>1, <1>5
  <2> QED
    BY <2>1, <2>2
<1>7. Once(Newest(lines))
  <2> SUFFICES ASSUME NEW i \in 1 .. Len(Newest(lines)), NEW j \in 1 .. Len(Newest(lines)), i # j
               PROVE  Newest(lines)[i] # Newest(lines)[j]
    BY DEF Once
  <2> DEFINE a == from + i - 1
             b == from + j - 1
  <2>1. a # b
    BY <1>1, <1>5, <1>6
  <2>2. /\ a \in 1 .. Len(lines) /\ b \in 1 .. Len(lines)
        /\ Newest(lines)[i] = lines[a] /\ Newest(lines)[j] = lines[b]
    BY <1>6
  <2> HIDE DEF a, b
  <2>3. \A k, l \in 1 .. Len(lines) : k # l => lines[k] # lines[l]
    BY ONLY <1>3 DEF Once
  <2> QED
    BY ONLY <2>1, <2>2, <2>3
<1>8. Elements(Newest(lines)) \subseteq Elements(lines)
  BY <1>6 DEF Elements
<1> QED
  BY <1>4, <1>7, <1>8 DEF lines

LEMMA SingleInit == Init => SingleInv
<1> SUFFICES ASSUME Init PROVE SingleInv
  OBVIOUS
<1>1. pending = <<>> /\ (\A t \in Threads : batch[t] = <<>>) /\ \A s \in Sessions : stored[s] = <<>>
  BY DEF Init
<1> QED
  BY <1>1, NothingTwice DEF SingleInv

\* Where every place keeps its lines or loses them all, none is anywhere twice.
LEMMA SingleShrinks ==
  ASSUME SingleInv, accepted' = accepted, pending' \in {pending, <<>>},
         \A t \in Threads : batch'[t] \in {batch[t], <<>>},
         \A s \in Sessions : stored'[s] \in {stored[s], <<>>}
  PROVE  SingleInv'
<1>1. Once(pending)' /\ Logged(pending)'
  BY NothingTwice DEF SingleInv, Logged, Once, Elements
<1>2. ASSUME NEW t \in Threads
      PROVE  /\ Once(batch'[t]) /\ Logged(batch[t])'
             /\ Elements(batch'[t]) \intersect Elements(pending') = {}
  <2>1. batch'[t] \in {batch[t], <<>>}
    OBVIOUS
  <2> QED
    BY <2>1, NothingTwice DEF SingleInv, Logged
<1>3. ASSUME NEW s \in Sessions
      PROVE  /\ Once(stored'[s]) /\ Logged(stored[s])'
             /\ Elements(stored'[s]) \intersect Elements(pending') = {}
  <2>1. stored'[s] \in {stored[s], <<>>}
    OBVIOUS
  <2> QED
    BY <2>1, NothingTwice DEF SingleInv, Logged
<1>4. \A t, u \in Threads : t # u => Elements(batch'[t]) \intersect Elements(batch'[u]) = {}
  BY NothingTwice DEF SingleInv
<1>5. \A t \in Threads, s \in Sessions : Elements(batch'[t]) \intersect Elements(stored'[s]) = {}
  BY NothingTwice DEF SingleInv
<1> QED
  BY <1>1, <1>2, <1>3, <1>4, <1>5 DEF SingleInv, Once, Elements

LEMMA SingleStep == TypeOK /\ CallsKnown /\ SingleInv /\ [Next]_vars => SingleInv'
<1> SUFFICES ASSUME TypeOK, CallsKnown, SingleInv, [Next]_vars PROVE SingleInv'
  OBVIOUS
\* A thread goes on without lines in hand.
<1>c. ASSUME NEW t \in Threads, NEW label, NEW s, Continue(t, label, s, <<>>)
      PROVE  batch'[t] = <<>> /\ \A u \in Threads \ {t} : batch'[u] = batch[u]
  BY <1>c DEF TypeOK, Continue
<1>1. ASSUME NEW t \in Threads,
             StartSession(t) \/ FlushCall(t) \/ MarkConnected(t) \/ EndSession(t) \/ Begin(t)
      PROVE  SingleInv'
  <2>1. UNCHANGED <<pending, batch, stored, accepted>>
    BY <1>1 DEF StartSession, FlushCall, MarkConnected, EndSession, Call, Begin, locals, tables, ghosts
  <2> QED
    BY <2>1, SingleShrinks
\* The line that is logged has a number that no line of its session has.
<1>2. ASSUME NEW t \in Threads, AppendLine(t) PROVE SingleInv'
  <2>1. PICK line : line = [of |-> session, number |-> accepted[session] + 1]
    OBVIOUS
  <2>2. /\ session \in Sessions /\ accepted[session] \in Nat /\ pending \in Seq(Line)
        /\ pending' = Append(pending, line) /\ UNCHANGED <<batch, stored>>
        /\ accepted' = [accepted EXCEPT ![session] = @ + 1]
    <3>1. session # None /\ session \in Sessions
      BY <1>2 DEF AppendLine, TypeOK
    <3> QED
      BY <1>2, <2>1, <3>1 DEF AppendLine, TypeOK, tables
  <2>3. \A lines \in Seq(Line) : Logged(lines) =>
          line \notin Elements(lines)
            /\ \A x \in Elements(lines) : x.number =< accepted'[x.of]
    <3> TAKE lines \in Seq(Line)
    <3> HAVE Logged(lines)
    <3>1. \A x \in Elements(lines) : x \in Line
      BY DEF Elements
    <3>2. \A x \in Line : x.of \in Sessions /\ x.number \in Nat
      BY HistoryAssumption DEF Line
    <3>3. \A s \in Sessions : accepted[s] \in Nat
      BY HistoryAssumption DEF TypeOK
    <3>4. \A s \in Sessions : accepted[s] =< accepted'[s] /\ accepted'[s] \in Nat
      BY <2>2, <3>3 DEF TypeOK
    <3>5. line \notin Elements(lines)
      BY <2>1, <2>2 DEF Logged
    <3> QED
      BY <3>1, <3>2, <3>3, <3>4, <3>5 DEF Logged
  <2>4. Elements(pending') = Elements(pending) \union {line}
    BY <2>2 DEF Elements
  <2>5. line.number =< accepted'[line.of]
    BY <2>1, <2>2 DEF TypeOK
  <2>6. Logged(pending)' /\ Once(pending')
    <3>1. Logged(pending)'
      BY <2>2, <2>3, <2>4, <2>5 DEF SingleInv, Logged, Elements
    <3>2. Once(pending')
      <4>1. Once(pending) /\ line \notin Elements(pending)
        BY <2>2, <2>3 DEF SingleInv
      <4> QED
        BY <2>2, <4>1 DEF Once, Elements
    <3> QED
      BY <3>1, <3>2
  <2>7. \A u \in Threads : /\ Logged(batch[u])' /\ Once(batch'[u])
                           /\ Elements(batch'[u]) \intersect Elements(pending') = {}
    <3>1. \A u \in Threads : batch[u] \in Seq(Line) /\ Logged(batch[u])
      BY DEF TypeOK, SingleInv
    <3> QED
      BY <2>2, <2>3, <2>4, <3>1 DEF SingleInv, Logged
  <2>8. \A s \in Sessions : /\ Logged(stored[s])' /\ Once(stored'[s])
                            /\ Elements(stored'[s]) \intersect Elements(pending') = {}
    <3>1. \A s \in Sessions : stored[s] \in Seq(Line) /\ Logged(stored[s])
      BY DEF TypeOK, SingleInv
    <3> QED
      BY <2>2, <2>3, <2>4, <3>1 DEF SingleInv, Logged
  <2> QED
    BY <2>2, <2>6, <2>7, <2>8 DEF SingleInv
\* The buffer goes into one thread's hands, and is empty.
<1>3. ASSUME NEW t \in Threads, Take(t) PROVE SingleInv'
  <2>1. pending' = <<>> /\ UNCHANGED <<stored, accepted>>
    BY <1>3 DEF Take, tables, ghosts
  <2>2. batch'[t] \in {pending, <<>>} /\ \A u \in Threads \ {t} : batch'[u] = batch[u]
    <3> DEFINE label == IF session = None \/ pending = <<>> THEN AfterFlush(t) ELSE "write"
    <3>1. Continue(t, label, session, pending)
      BY <1>3 DEF Take
    <3> HIDE DEF label
    <3> QED
      BY <3>1 DEF TypeOK, Continue
  <2>3. \A u \in Threads : /\ Once(batch'[u]) /\ Logged(batch[u])'
                           /\ \A s \in Sessions : Elements(batch'[u]) \intersect Elements(stored'[s]) = {}
    <3> TAKE u \in Threads
    <3>1. batch'[u] \in {batch[u], pending, <<>>}
      BY <2>2
    <3> QED
      BY <2>1, <3>1, NothingTwice DEF SingleInv, Logged
  <2>4. \A u, v \in Threads : u # v => Elements(batch'[u]) \intersect Elements(batch'[v]) = {}
    BY <2>2, NothingTwice DEF SingleInv
  <2>5. Once(pending') /\ Elements(pending') = {} /\ Logged(pending)'
    BY <2>1, NothingTwice DEF Logged
  <2>6. \A s \in Sessions : Once(stored'[s]) /\ Logged(stored[s])'
    BY <2>1 DEF SingleInv, Logged, Elements, Once
  <2> QED
    BY <2>3, <2>4, <2>5, <2>6 DEF SingleInv, Once, Elements
<1>4. ASSUME NEW t \in Threads, Read(t) \/ Null(t) \/ Adopt(t) \/ Refused(t) PROVE SingleInv'
  <2>1. /\ \E label, s : Continue(t, label, s, <<>>)
        /\ UNCHANGED <<stored, accepted>> /\ pending' \in {pending, <<>>}
    BY <1>4 DEF Read, Null, Adopt, Refused, tables, ghosts
  <2>2. \A u \in Threads : batch'[u] \in {batch[u], <<>>}
    BY <1>c, <2>1
  <2> QED
    BY <2>1, <2>2, SingleShrinks
\* What was in one thread's hands goes into the table.
<1>5. ASSUME NEW t \in Threads, AppendLines(t) PROVE SingleInv'
  <2>1. /\ Continue(t, AfterTransaction(t, TRUE), None, <<>>)
        /\ pc[t] = "write" /\ UNCHANGED <<pending, accepted>>
    BY <1>5 DEF AppendLines, Commit, At, ghosts
  <2>2. batch'[t] = <<>> /\ \A u \in Threads \ {t} : batch'[u] = batch[u]
    BY <1>c, <2>1
  <2>3. PICK m \in Sessions : m = mine[t]
    BY <2>1 DEF CallsKnown, Holding, TypeOK
  <2>4. CASE stored' = stored
    BY <2>1, <2>2, <2>4, SingleShrinks
  <2>5. CASE stored' = [stored EXCEPT ![m] = Newest(@ \o batch[t])]
    <3> DEFINE new == Newest(stored[m] \o batch[t])
    <3>1. stored'[m] = new /\ \A s \in Sessions \ {m} : stored'[s] = stored[s]
      BY <2>5 DEF TypeOK
    <3>2. Once(new) /\ Elements(new) \subseteq Elements(stored[m]) \union Elements(batch[t])
      <4>1. stored[m] \in Seq(Line) /\ batch[t] \in Seq(Line)
        BY DEF TypeOK
      <4>2. /\ Once(stored[m]) /\ Once(batch[t])
            /\ Elements(stored[m]) \intersect Elements(batch[t]) = {}
        BY DEF SingleInv
      <4> QED
        BY <4>1, <4>2, NewestOnce
    <3> HIDE DEF new
    <3>3. \A s \in Sessions : /\ Once(stored'[s]) /\ Logged(stored[s])'
                              /\ Elements(stored'[s]) \intersect Elements(pending') = {}
      <4>1. /\ Once(stored'[m]) /\ Logged(stored[m])'
            /\ Elements(stored'[m]) \intersect Elements(pending') = {}
        BY <2>1, <3>1, <3>2 DEF SingleInv, Logged
      <4>2. \A s \in Sessions \ {m} : /\ Once(stored'[s]) /\ Logged(stored[s])'
                                      /\ Elements(stored'[s]) \intersect Elements(pending') = {}
        BY <2>1, <3>1 DEF SingleInv, Logged
      <4> QED
        BY <4>1, <4>2
    <3>4. \A u \in Threads : /\ Once(batch'[u]) /\ Logged(batch[u])'
                             /\ Elements(batch'[u]) \intersect Elements(pending') = {}
      BY <2>1, <2>2, NothingTwice DEF SingleInv, Logged
    <3>5. \A u, v \in Threads : u # v => Elements(batch'[u]) \intersect Elements(batch'[v]) = {}
      BY <2>2, NothingTwice DEF SingleInv
    <3>6. \A u \in Threads, s \in Sessions : Elements(batch'[u]) \intersect Elements(stored'[s]) = {}
      <4>1. \A u \in Threads : Elements(batch'[u]) \intersect Elements(stored'[m]) = {}
        BY <2>2, <3>1, <3>2, NothingTwice DEF SingleInv
      <4>2. \A u \in Threads, s \in Sessions \ {m} :
              Elements(batch'[u]) \intersect Elements(stored'[s]) = {}
        BY <2>2, <3>1, NothingTwice DEF SingleInv
      <4> QED
        BY <4>1, <4>2
    <3>7. Once(pending') /\ Logged(pending)'
      BY <2>1 DEF SingleInv, Logged
    <3> QED
      BY <3>3, <3>4, <3>5, <3>6, <3>7 DEF SingleInv, Once, Elements
  <2> QED
    BY <1>5, <2>3, <2>4, <2>5 DEF AppendLines
<1>6. ASSUME NEW t \in Threads, MarkRow(t) \/ CloseRow(t) \/ InsertRow(t) PROVE SingleInv'
  <2>1. /\ \E label, s : Continue(t, label, s, <<>>)
        /\ UNCHANGED <<pending, stored, accepted>>
    BY <1>6 DEF MarkRow, CloseRow, InsertRow, Commit, ghosts
  <2>2. \A u \in Threads : batch'[u] \in {batch[u], <<>>}
    BY <1>c, <2>1
  <2> QED
    BY <2>1, <2>2, SingleShrinks
<1>7. ASSUME NEW t \in Threads, PruneRows(t) PROVE SingleInv'
  <2>1. /\ \E label, s : Continue(t, label, s, <<>>)
        /\ UNCHANGED <<pending, accepted>>
    BY <1>7 DEF PruneRows, Commit, ghosts
  <2>2. \A u \in Threads : batch'[u] \in {batch[u], <<>>}
    BY <1>c, <2>1
  <2>3. \A s \in Sessions : stored'[s] \in {stored[s], <<>>}
    BY <1>7, PruneSweeps
  <2> QED
    BY <2>1, <2>2, <2>3, SingleShrinks
<1>8. ASSUME Restart PROVE SingleInv'
  BY <1>8, SingleShrinks DEF Restart, tables
<1>9. ASSUME UNCHANGED vars PROVE SingleInv'
  BY <1>9, SingleShrinks DEF vars, locals, tables, ghosts
<1> QED
  BY <1>1, <1>2, <1>3, <1>4, <1>5, <1>6, <1>7, <1>8, <1>9 DEF Next, Step

\* No line of an attempt is stored twice, however many threads flush at once and
\* whichever of them the database refuses: flush() takes the lines out of the buffer
\* in the lock region that reads them.
THEOREM EachLineOnce == Spec => []NoLineTwice
<1>1. Init => TypeOK /\ CallsKnown /\ SingleInv
  BY TypeInit, CallsInit, SingleInit
<1>2. TypeOK /\ CallsKnown /\ SingleInv /\ [Next]_vars => (TypeOK /\ CallsKnown /\ SingleInv)'
  BY TypeStep, CallsStep, SingleStep
<1>3. SingleInv => NoLineTwice
  BY DEF SingleInv, Once, NoLineTwice
<1> QED
  BY <1>1, <1>2, <1>3, PTL DEF Spec

-----------------------------------------------------------------------------
(* Whose fault it is that a row is left open.                              *)

\* "Any unfinished previous session is closed first" (start_session()): so it is,
\* however the methods of different threads overlap, as long as no transaction is
\* refused and the application is not stopped.  These two are all there is to it.
THEOREM UnfinishedIsClosed == ~Contended /\ ~Restarts => (Spec => []UnfinishedClosed)
<1> SUFFICES ASSUME ~Contended, ~Restarts PROVE Spec => []UnfinishedClosed
  OBVIOUS
<1>1. Init => unclosed = {}
  BY DEF Init
<1>2. unclosed = {} /\ [Next]_vars => (unclosed = {})'
  <2> SUFFICES ASSUME unclosed = {}, [Next]_vars PROVE unclosed' = {}
    OBVIOUS
  <2>1. ASSUME NEW t \in Threads, StartSession(t) \/ FlushCall(t) \/ MarkConnected(t) \/ EndSession(t)
        PROVE  unclosed' = {}
    BY <2>1 DEF StartSession, FlushCall, MarkConnected, EndSession, Call, ghosts
  <2>2. ASSUME NEW t \in Threads, AppendLine(t) PROVE unclosed' = {}
    BY <2>2 DEF AppendLine
  <2>3. ASSUME NEW t \in Threads, Take(t) \/ Read(t) \/ Null(t) \/ Adopt(t) \/ Begin(t)
        PROVE  unclosed' = {}
    BY <2>3 DEF Take, Read, Null, Adopt, Begin, ghosts
  <2>4. ASSUME NEW t \in Threads,
               AppendLines(t) \/ MarkRow(t) \/ CloseRow(t) \/ InsertRow(t) \/ PruneRows(t)
        PROVE  unclosed' = {}
    BY <2>4 DEF AppendLines, MarkRow, CloseRow, InsertRow, PruneRows, Commit, ghosts
  <2>5. ~Restart /\ \A t \in Threads : ~Refused(t)
    BY DEF Restart, Refused
  <2> QED  BY <2>1, <2>2, <2>3, <2>4, <2>5 DEF Next, Step, vars, ghosts
<1>3. OnlyLiveRowOpen /\ unclosed = {} => UnfinishedClosed
  BY DEF OnlyLiveRowOpen, UnfinishedClosed
<1> QED  BY <1>1, <1>2, <1>3, NoRowIsForgotten, PTL DEF Spec
=============================================================================
