------------------------------ MODULE Archive -------------------------------
(***************************************************************************)
(* The history page: the table sessions (store.py) as attempts come and go *)
(* and as retention sweeps it, and a reader who searches it and pages      *)
(* through it (sessions.py, GET /sessions).  Each page is a request of its *)
(* own, and anything may happen between two of them.                       *)
(***************************************************************************)
EXTENDS Integers, Sequences, FiniteSets, FiniteSetsExt, SequencesExt

CONSTANTS
  MaxAttempts,   \* bound: attempts, which are numbered as they start
  MaxDays,       \* bound: days that pass
  Retention,     \* RETENTION_DAYS
  Keep,          \* KEEP_SESSIONS
  MaxLimit,      \* MAX_LIMIT
  Limits,        \* page sizes that are asked for
  Queries,       \* searches: sets of terms
  None

VARIABLES
  sessions,   \* table sessions, by id
  current,    \* History._session_id
  today,      \* the clock
  reader,     \* the page: what was asked, the cursor, and the ids shown so far
  listed      \* ids that every answer of this reading could have shown (history)

archiveVars == <<sessions, current, today, reader, listed>>

Closed == [query |-> {}, limit |-> 1, cursor |-> None, shown |-> <<>>]

-----------------------------------------------------------------------------
(* The table.                                                              *)

\* _in_window(): it ended inside the window or has not ended at all.
InWindow(row) == row.ended = None \/ row.ended >= today - Retention

\* The newest of the ids, at most n of them.
Newest(ids, n) == {i \in ids : Cardinality({j \in ids : j > i}) < n}

\* list_sessions().
ListSessions == Newest({i \in DOMAIN sessions : InWindow(sessions[i])}, Keep)

\* prune_sessions(): both rules, in one transaction.
PruneSessions(table) ==
  LET kept == {i \in DOMAIN table : InWindow(table[i])}
  IN  [i \in Newest(kept, Keep) |-> table[i]]

\* end_session(): the row may have been swept away.
EndSession(table, id, outcome, reason) ==
  [i \in DOMAIN table |-> IF i = id
     THEN [table[i] EXCEPT !.ended = today, !.outcome = outcome, !.reason = reason] ELSE table[i]]

\* Ids grow: the row that has just been inserted is never swept.
NextSession == Max(DOMAIN sessions \union {0}) + 1

Fresh == [connected |-> FALSE, ended |-> None, outcome |-> "", reason |-> ""]

\* start_session(): the last attempt is closed if it was left open, a new row is
\* inserted, and the table is swept.
StartAttempt ==
  /\ NextSession =< MaxAttempts
  /\ LET closed == EndSession(sessions, current, "interrupted", "")
         opened == [i \in DOMAIN sessions \union {NextSession} |->
                      IF i = NextSession THEN Fresh ELSE closed[i]]
     IN  sessions' = PruneSessions(opened)
  /\ current' = NextSession
  /\ UNCHANGED <<today, reader, listed>>

\* mark_session_connected(): only the first time counts.
ComeUp ==
  /\ current \in DOMAIN sessions /\ ~sessions[current].connected
  /\ sessions' = [sessions EXCEPT ![current].connected = TRUE]
  /\ UNCHANGED <<current, today, reader, listed>>

\* The endings that the controller announces: an outcome, and for a tunnel that
\* was up its verdict why.
EndingsWritten ==
  {<<"failed", "">>, <<"failed", "link-lost">>, <<"disconnected", "">>,
   <<"disconnected", "link-lost">>, <<"disconnected", "operator-requested">>}

Finish ==
  /\ current # None
  /\ \E e \in EndingsWritten : sessions' = EndSession(sessions, current, e[1], e[2])
  /\ current' = None
  /\ UNCHANGED <<today, reader, listed>>

\* A restart leaves the row open.
ServiceStops ==
  /\ current # None
  /\ current' = None
  /\ UNCHANGED <<sessions, today, reader, listed>>

NextDay ==
  /\ today < MaxDays
  /\ today' = today + 1
  /\ UNCHANGED <<sessions, current, reader, listed>>

-----------------------------------------------------------------------------
(* Reading it back.                                                        *)

\* _kind().
Kind(row, live) ==
  CASE live                               -> "live"
    [] ~live /\ row.reason = "link-lost"  -> "dropped"
    [] ~live /\ row.reason = "operator-requested" -> "disconnected"
    [] ~live /\ row.reason = "" /\ (row.ended = None \/ row.outcome = "interrupted") -> "interrupted"
    [] OTHER -> IF row.connected THEN "ended" ELSE "failed"

\* from_rows(): what the page shows of a row, by id.
FromRows(ids) ==
  [i \in ids |-> [kind |-> Kind(sessions[i], i = current),
                  outcome |-> sessions[i].outcome, reason |-> sessions[i].reason]]

\* matches(): every term hits something that is shown.
Matches(entry, query) == query \subseteq {entry.kind, entry.outcome, entry.reason}

\* search().
Search(entries, query) == {i \in DOMAIN entries : Matches(entries[i], query)}

\* The ids as the query orders them: the n-th is the one that has n at or above it.
Descending(ids) ==
  [n \in 1 .. Cardinality(ids) |-> CHOOSE i \in ids : Cardinality({j \in ids : j >= i}) = n]

\* Deliberate fault: the cursor's own session is shown again.
PageAgain(ids, before, limit) ==
  LET most      == Max({1, Min({limit, MaxLimit})})
      remaining == {i \in ids : before = None \/ i =< before}
      window    == Newest(remaining, most)
  IN [window |-> Descending(window),
      cursor |-> IF remaining = window THEN None ELSE Min(window)]

\* page(): the newest ones older than the cursor, and the next cursor if any
\* remain.
Page(ids, before, limit) ==
  LET most      == Max({1, Min({limit, MaxLimit})})
      remaining == {i \in ids : before = None \/ i < before}
      window    == Newest(remaining, most)
  IN [window |-> Descending(window),
      cursor |-> IF remaining = window THEN None ELSE Min(window)]

\* GET /sessions.
Answer(query, before, limit) ==
  LET entries == FromRows(ListSessions)
  IN Page(Search(entries, query), before, limit)

Matching(query) == Search(FromRows(ListSessions), query)

\* A reading begins at its first page.
OpenPage ==
  /\ reader = Closed
  /\ \E query \in Queries, limit \in Limits :
       LET page == Answer(query, None, limit)
       IN  /\ reader' = [query |-> query, limit |-> limit, cursor |-> page.cursor, shown |-> page.window]
           /\ listed' = Matching(query)
  /\ UNCHANGED <<sessions, current, today>>

\* The page after it, as long as the last answer named one.
MorePages ==
  /\ reader.cursor # None
  /\ LET page == Answer(reader.query, reader.cursor, reader.limit)
     IN  /\ reader' = [reader EXCEPT !.cursor = page.cursor, !.shown = @ \o page.window]
         /\ listed' = listed \intersect Matching(reader.query)
  /\ UNCHANGED <<sessions, current, today>>

-----------------------------------------------------------------------------

ArchiveInit ==
  /\ sessions = <<>> /\ current = None /\ today = 0
  /\ reader = Closed /\ listed = {}

ArchiveNext ==
  StartAttempt \/ ComeUp \/ Finish \/ ServiceStops \/ NextDay \/ OpenPage \/ MorePages

\* Whoever pages to the end has been shown every session that each answer could
\* have shown -- whatever was started, ended or swept away meanwhile -- and no
\* session twice, in one descending order.
PagesComplete ==
  /\ \A i, j \in DOMAIN reader.shown : i < j => reader.shown[i] > reader.shown[j]
  /\ reader.cursor = None => listed \subseteq ToSet(reader.shown)
=============================================================================
