----------------------------- MODULE PanelProofs ----------------------------
(***************************************************************************)
(* Proofs about Panel, for any number of threads, connections, keys and    *)
(* calls.  The first part, with PanelInv, is about the keys of the stored  *)
(* secrets and the default connection; the second, with FileInv, about the *)
(* profile files, those who write them and the tunnel started from one;    *)
(* the third, with GuessInv, about wrong guesses at the login.             *)
(***************************************************************************)
EXTENDS Panel, NumberLemmas

-----------------------------------------------------------------------------
(* The operations of the table connections.                                *)

IsTable(table) == DOMAIN table \subseteq Names /\ table \in [DOMAIN table -> Row]

LEMMA MarkedTable ==
  ASSUME NEW table, IsTable(table), NEW name
  PROVE  /\ IsTable(Marked(table, name))
         /\ DOMAIN Marked(table, name) = DOMAIN table
         /\ \A n \in DOMAIN table : Marked(table, name)[n].key = table[n].key
         /\ Defaults(Marked(table, name)) = DOMAIN table \intersect {name}
<1>1. \A n \in DOMAIN table : table[n] \in Row
  BY DEF IsTable
<1>2. /\ DOMAIN Marked(table, name) = DOMAIN table
      /\ \A n \in DOMAIN table :
           Marked(table, name)[n] = [table[n] EXCEPT !.is_default = n = name]
  BY DEF Marked
<1>3. \A n \in DOMAIN table :
        /\ Marked(table, name)[n] \in Row
        /\ Marked(table, name)[n].key = table[n].key
        /\ Marked(table, name)[n].is_default <=> n = name
  <2> SUFFICES ASSUME NEW n \in DOMAIN table
               PROVE  /\ Marked(table, name)[n] \in Row
                      /\ Marked(table, name)[n].key = table[n].key
                      /\ Marked(table, name)[n].is_default <=> n = name
    OBVIOUS
  <2>1. PICK flag \in BOOLEAN : flag <=> n = name
    OBVIOUS
  <2>2. Marked(table, name)[n] = [table[n] EXCEPT !.is_default = flag]
    BY <1>2, <2>1
  <2> QED  BY <1>1, <2>1, <2>2 DEF Row
<1>4. Marked(table, name) \in [DOMAIN table -> Row]
  BY <1>3 DEF Marked
<1> QED  BY <1>2, <1>3, <1>4 DEF IsTable, Defaults

LEMMA SavedTable ==
  ASSUME NEW table, IsTable(table),
         NEW name \in Names, NEW profile \in Profiles, NEW ignore \in BOOLEAN,
         NEW key \in Keys, NEW make_default \in BOOLEAN,
         NEW saved, saved = SaveConnection(table, name, profile, ignore, key, make_default)
  PROVE  /\ IsTable(saved)
         /\ DOMAIN saved = DOMAIN table \union {name}
         /\ saved[name].key = key
         /\ \A n \in DOMAIN table : n # name => saved[n].key = table[n].key
         /\ \/ Defaults(saved) = {name}
            \/ Defaults(saved) = Defaults(table) /\ DOMAIN table # {}
<1> DEFINE row(was) == [profile |-> profile, ignore |-> ignore, key |-> key, is_default |-> was]
           written  == [n \in DOMAIN table \union {name} |->
                          IF n # name THEN table[n]
                          ELSE row(name \in DOMAIN table /\ table[name].is_default)]
<1>1. \A n \in DOMAIN table : table[n] \in Row
  BY DEF IsTable
<1>2. /\ row(name \in DOMAIN table /\ table[name].is_default) \in Row
      /\ row(name \in DOMAIN table /\ table[name].is_default).key = key
      /\ row(name \in DOMAIN table /\ table[name].is_default).is_default
           <=> (name \in DOMAIN table /\ table[name].is_default)
  <2>1. (name \in DOMAIN table /\ table[name].is_default) \in BOOLEAN
    OBVIOUS
  <2> QED  BY <2>1 DEF Row
<1> HIDE DEF row
<1>3. DOMAIN written = DOMAIN table \union {name} /\ IsTable(written)
  BY <1>1, <1>2 DEF IsTable
<1>4. /\ written[name].key = key
      /\ \A n \in DOMAIN table : n # name => written[n].key = table[n].key
      /\ Defaults(written) = Defaults(table)
  BY <1>1, <1>2 DEF Defaults
<1>5. saved = IF make_default \/ DOMAIN written = {name} THEN Marked(written, name) ELSE written
  BY DEF SaveConnection, row
<1> HIDE DEF written
<1>6. CASE make_default \/ DOMAIN written = {name}
  <2>1. /\ IsTable(Marked(written, name)) /\ DOMAIN Marked(written, name) = DOMAIN written
        /\ \A n \in DOMAIN written : Marked(written, name)[n].key = written[n].key
        /\ Defaults(Marked(written, name)) = DOMAIN written \intersect {name}
    BY <1>3, MarkedTable
  <2> QED  BY <1>3, <1>4, <1>5, <1>6, <2>1
<1>7. CASE ~(make_default \/ DOMAIN written = {name})
  BY <1>3, <1>4, <1>5, <1>7
<1> QED  BY <1>6, <1>7

LEMMA DeletedTable ==
  ASSUME NEW table, IsTable(table), NEW name
  PROVE  /\ IsTable(DeleteConnection(table, name))
         /\ DOMAIN DeleteConnection(table, name) = DOMAIN table \ {name}
         /\ \A n \in DOMAIN table \ {name} : DeleteConnection(table, name)[n].key = table[n].key
         /\ DOMAIN table \ {name} # {} => Defaults(DeleteConnection(table, name)) # {}
         /\ \A m, n \in Defaults(DeleteConnection(table, name)) :
              m = n \/ (m \in Defaults(table) /\ n \in Defaults(table))
<1> DEFINE left == DeleteConnection(table, name)
           rest == [n \in DOMAIN table \ {name} |-> table[n]]
<1>1. /\ IsTable(rest) /\ DOMAIN rest = DOMAIN table \ {name}
      /\ \A n \in DOMAIN rest : rest[n] = table[n]
      /\ Defaults(rest) \subseteq Defaults(table)
  BY DEF IsTable, Defaults
<1>2. left =
        IF Defaults(rest) = {} /\ DOMAIN rest # {} THEN Marked(rest, Min(DOMAIN rest)) ELSE rest
  BY DEF DeleteConnection
<1> HIDE DEF rest, left
<1>3. CASE Defaults(rest) = {} /\ DOMAIN rest # {}
  <2>1. DOMAIN rest \in SUBSET Nat
    BY <1>1, PanelAssumption DEF IsTable
  <2>2. Min(DOMAIN rest) \in DOMAIN rest
    BY <1>3, <2>1, MinIsLeast
  <2>3. /\ IsTable(Marked(rest, Min(DOMAIN rest)))
        /\ DOMAIN Marked(rest, Min(DOMAIN rest)) = DOMAIN rest
        /\ \A n \in DOMAIN rest : Marked(rest, Min(DOMAIN rest))[n].key = rest[n].key
        /\ Defaults(Marked(rest, Min(DOMAIN rest))) = DOMAIN rest \intersect {Min(DOMAIN rest)}
    BY <1>1, MarkedTable
  <2>4. left = Marked(rest, Min(DOMAIN rest))
    BY <1>2, <1>3
  <2>5. Defaults(left) = {Min(DOMAIN rest)} /\ DOMAIN left = DOMAIN rest
    BY <2>2, <2>3, <2>4
  <2>6. /\ IsTable(left) /\ DOMAIN left = DOMAIN table \ {name}
        /\ \A n \in DOMAIN left : left[n].key = table[n].key
    BY <1>1, <2>3, <2>4
  <2> QED  BY <2>5, <2>6 DEF left
<1>4. CASE ~(Defaults(rest) = {} /\ DOMAIN rest # {})
  BY <1>1, <1>2, <1>4 DEF left
<1> QED  BY <1>3, <1>4

-----------------------------------------------------------------------------
(* The inductive invariant.                                                *)

\* What a worker has with it when it comes to certain steps.
Sound(j) ==
  /\ j.at = "save" => j.name \in Names /\ j.profile \in Profiles /\ j.key \in Keys
  /\ j.at \in {"unlock", "create"} => j.password \in Passwords
  /\ j.at = "hold" => j.key \in Keys
  /\ j.at \in {"save", "hold"} => vault # None

JobInv == job \in [Workers -> Job] /\ \A w \in Workers : Sound(job[w])

\* A key is held, saved with or being replaced only once there is a vault, and
\* the rows that its key does not decrypt are those that were written with a
\* dropped one.
KeyInv ==
  /\ IsTable(rows)
  /\ vault \in [password : Passwords, key : Keys] \union {None}
  /\ held \in Keys \union {None} /\ keys \in 0 .. MaxKeys
  /\ hash \in Passwords /\ envHash \in Passwords
  /\ cli \in [key : Keys, password : Passwords] \union {None}
  /\ held # None => vault # None
  /\ DOMAIN rows # {} => vault # None
  /\ cli # None => vault # None /\ cli.key = vault.key
  /\ lost = {n \in DOMAIN rows : rows[n].key # vault.key}

DefaultInv ==
  /\ \A m, n \in Defaults(rows) : m = n
  /\ DOMAIN rows # {} /\ Defaults(rows) = {} => blank

PanelInv == JobInv /\ KeyInv /\ DefaultInv

-----------------------------------------------------------------------------
(* The steps of the workers.                                               *)

\* One that is marked as overtaken is a worker still.
LEMMA MixedJobs == \A j \in Job : [j EXCEPT !.mixed = TRUE] \in Job
BY ZenonT(60) DEF Job

\* A worker goes on, and may mark others as overtaken.
LEMMA WorkerMoves ==
  ASSUME JobInv, NEW w \in Workers, NEW record \in Job, Sound(record)',
         vault # None => vault' # None,
         job' = [v \in Workers |-> job'[v]], job'[w] = record,
         \A v \in Workers \ {w} : job'[v] \in {job[v], [job[v] EXCEPT !.mixed = TRUE]}
  PROVE  JobInv'
<1>1. \A v \in Workers : job[v] \in Job /\ Sound(job[v])
  BY DEF JobInv
<1>2. \A v \in Workers : [job[v] EXCEPT !.mixed = TRUE] \in Job
  BY <1>1, MixedJobs
<1>3. job' \in [Workers -> Job]
  BY <1>1, <1>2
<1>4. ASSUME NEW v \in Workers PROVE Sound(job[v])'
  <2>1. CASE v = w
    BY <2>1 DEF Sound
  <2>2. CASE v # w
    <3>1. /\ job'[v].at = job[v].at /\ job'[v].name = job[v].name
          /\ job'[v].profile = job[v].profile /\ job'[v].key = job[v].key
          /\ job'[v].password = job[v].password
      <4>1. CASE job'[v] = job[v]
        BY <4>1
      <4>2. CASE job'[v] = [job[v] EXCEPT !.mixed = TRUE]
        BY <1>1, <4>2 DEF Job
      <4> QED  BY <2>2, <4>1, <4>2
    <3> QED  BY <1>1, <3>1 DEF Sound
  <2> QED  BY <2>1, <2>2
<1> QED  BY <1>3, <1>4 DEF JobInv

\* The same, where nobody is overtaken.
LEMMA WorkerGoesOn ==
  ASSUME JobInv, NEW w \in Workers, NEW record \in Job, Sound(record),
         vault # None => vault' # None, job' = [job EXCEPT ![w] = record]
  PROVE  JobInv'
<1>1. /\ job' = [v \in Workers |-> job'[v]] /\ job'[w] = record
      /\ \A v \in Workers \ {w} : job'[v] = job[v]
  BY DEF JobInv
<1>2. Sound(record)'
  BY DEF Sound
<1> QED  BY <1>1, <1>2, WorkerMoves

LEMMA WorkerOvertakes ==
  ASSUME JobInv, NEW w \in Workers, NEW record \in Job, Sound(record),
         vault # None => vault' # None, NEW steps, Overtake(w, record, steps)
  PROVE  JobInv'
<1>1. /\ job' = [v \in Workers |-> job'[v]] /\ job'[w] = record
      /\ \A v \in Workers \ {w} : job'[v] \in {job[v], [job[v] EXCEPT !.mixed = TRUE]}
  BY DEF Overtake
<1>2. Sound(record)'
  BY DEF Sound
<1> QED  BY <1>1, <1>2, WorkerMoves

LEMMA IdleIsSound == Idle \in Job /\ Sound(Idle) /\ Idle.at = "idle"
BY DEF Idle, Job, Sound

LEMMA RequestEnds ==
  ASSUME JobInv, NEW w \in Workers, Return(w), vault # None => vault' # None
  PROVE  JobInv'
BY IdleIsSound, WorkerGoesOn DEF Return

LEMMA RowsUntouched ==
  ASSUME KeyInv, DefaultInv, UNCHANGED <<rows, vault, held, keys, hash, envHash, cli, lost, blank>>
  PROVE  KeyInv' /\ DefaultInv'
BY DEF KeyInv, DefaultInv, IsTable, Defaults

\* A request begins: what it reads from the rows and of the key is sound.
LEMMA RequestBegins ==
  ASSUME PanelInv, NEW w \in Workers, NEW record \in Job, Sound(record), Request(w, record),
         UNCHANGED <<rows, vault, held, keys, hash, envHash, cli, lost, blank>>
  PROVE  PanelInv'
<1>1. JobInv'
  BY WorkerGoesOn DEF PanelInv, Request
<1> QED  BY <1>1, RowsUntouched DEF PanelInv

LEMMA CallsPreserve ==
  ASSUME PanelInv, NEW w \in Workers,
         \/ SaveCall(w) \/ SetDefaultCall(w) \/ ToggleCall(w) \/ DeleteCall(w) \/ ConnectCall(w)
         \/ LoginCall(w)
  PROVE  PanelInv'
<1>1. UNCHANGED <<rows, vault, held, keys, hash, envHash, cli, lost, blank>>
  BY DEF SaveCall, SetDefaultCall, ToggleCall, DeleteCall, ConnectCall, LoginCall, secrets, ghosts
<1>2. \A n \in DOMAIN rows : n \in Names /\ rows[n].ignore \in BOOLEAN
  BY DEF PanelInv, KeyInv, IsTable, Row
<1>3. CASE SaveCall(w)
  <2>1. PICK n \in Names, p \in Profiles, ignore \in BOOLEAN, make_default \in BOOLEAN :
          Request(w, [Idle EXCEPT !.at = "save", !.op = "save", !.name = n, !.profile = p,
                                  !.ignore = ignore, !.flag = make_default, !.key = held])
    BY <1>3 DEF SaveCall, Enter
  <2> DEFINE record == [Idle EXCEPT !.at = "save", !.op = "save", !.name = n, !.profile = p,
                                    !.ignore = ignore, !.flag = make_default, !.key = held]
  <2>2. held \in Keys /\ vault # None
    BY <1>3 DEF SaveCall, PanelInv, KeyInv
  <2>3. record \in Job /\ Sound(record)
    BY <2>2 DEF Idle, Job, Sound, Transacting
  <2> HIDE DEF record
  <2>4. Request(w, record)
    BY <2>1 DEF record
  <2> QED  BY <1>1, <2>3, <2>4, RequestBegins
<1>4. CASE SetDefaultCall(w)
  <2>1. PICK n \in DOMAIN rows :
          Request(w, [Idle EXCEPT !.at = "mark", !.op = "default", !.name = n])
    BY <1>4 DEF SetDefaultCall, Enter
  <2> DEFINE record == [Idle EXCEPT !.at = "mark", !.op = "default", !.name = n]
  <2>2. record \in Job /\ Sound(record)
    BY <1>2 DEF Idle, Job, Sound, Transacting
  <2> HIDE DEF record
  <2>3. Request(w, record)
    BY <2>1 DEF record
  <2> QED  BY <1>1, <2>2, <2>3, RequestBegins
<1>5. CASE ToggleCall(w)
  <2>1. PICK n \in DOMAIN rows :
          Request(w, [Idle EXCEPT !.at = "toggle", !.op = "toggle", !.name = n,
                                  !.ignore = ~rows[n].ignore])
    BY <1>5 DEF ToggleCall, Enter
  <2> DEFINE record == [Idle EXCEPT !.at = "toggle", !.op = "toggle", !.name = n,
                                    !.ignore = ~rows[n].ignore]
  <2>2. PICK flag \in BOOLEAN : flag = ~rows[n].ignore
    BY <1>2
  <2>3. record = [Idle EXCEPT !.at = "toggle", !.op = "toggle", !.name = n, !.ignore = flag]
    BY <2>2
  <2>4. record \in Job /\ Sound(record)
    BY <1>2, <2>3 DEF Idle, Job, Sound, Transacting
  <2> HIDE DEF record
  <2>5. Request(w, record)
    BY <2>1 DEF record
  <2> QED  BY <1>1, <2>4, <2>5, RequestBegins
<1>6. CASE DeleteCall(w)
  <2>1. PICK n \in Names :
          Request(w, [Idle EXCEPT !.at = "remove", !.op = "delete", !.name = n])
    BY <1>6 DEF DeleteCall, Enter
  <2> DEFINE record == [Idle EXCEPT !.at = "remove", !.op = "delete", !.name = n]
  <2>2. record \in Job /\ Sound(record)
    BY DEF Idle, Job, Sound, Transacting
  <2> HIDE DEF record
  <2>3. Request(w, record)
    BY <2>1 DEF record
  <2> QED  BY <1>1, <2>2, <2>3, RequestBegins
<1>7. CASE ConnectCall(w)
  <2>1. PICK n \in DOMAIN rows, code \in BOOLEAN :
          Request(w, [Idle EXCEPT !.at = "secrets", !.op = "connect", !.name = n,
                                  !.ignore = rows[n].ignore, !.flag = code])
    BY <1>7 DEF ConnectCall, Enter
  <2> DEFINE record == [Idle EXCEPT !.at = "secrets", !.op = "connect", !.name = n,
                                    !.ignore = rows[n].ignore, !.flag = code]
  <2>2. record \in Job /\ Sound(record)
    BY <1>2 DEF Idle, Job, Sound
  <2> HIDE DEF record
  <2>3. Request(w, record)
    BY <2>1 DEF record
  <2> QED  BY <1>1, <2>2, <2>3, RequestBegins
<1>8. CASE LoginCall(w)
  <2>1. PICK client \in Gate!Attributed(Caller, Headers, Allowed), password \in Passwords :
          Request(w, [Idle EXCEPT !.op = "login", !.password = password, !.client = client,
                                  !.at = IF password = hash THEN "unlock" ELSE "wrong"])
    BY <1>8 DEF LoginCall
  <2> DEFINE record == [Idle EXCEPT !.op = "login", !.password = password, !.client = client,
                                    !.at = IF password = hash THEN "unlock" ELSE "wrong"]
  <2>2. client \in Clients
    BY DEF Clients
  <2>3. record \in Job /\ Sound(record)
    BY <2>2 DEF Idle, Job, Sound
  <2> HIDE DEF record
  <2>4. Request(w, record)
    BY <2>1 DEF record
  <2> QED  BY <1>1, <2>3, <2>4, RequestBegins
<1> QED  BY <1>3, <1>4, <1>5, <1>6, <1>7, <1>8

\* The steps on a profile file and on what is in memory leave the rows and the
\* keys alone, and lead where nothing is asked of a worker.
LEMMA StepsPreserve ==
  ASSUME PanelInv, NEW w \in Workers,
         \/ Unlink(w) \/ Secrets(w) \/ OpenFile(w) \/ WriteFile(w) \/ WriteFails(w) \/ Publish(w)
         \/ Claim(w) \/ WrongPassword(w) \/ Unlock(w) \/ RefuseTransaction(w)
  PROVE  PanelInv'
<1>1. UNCHANGED <<rows, vault, held, keys, hash, envHash, cli, lost, blank>>
  BY DEF Unlink, Secrets, OpenFile, WriteFile, WriteFails, Publish, Claim, WrongPassword, Unlock,
         RefuseTransaction, secrets, ghosts
<1>2. JobInv /\ job[w] \in Job /\ Sound(job[w]) /\ job \in [Workers -> Job]
  BY DEF PanelInv, JobInv
<1>3. SUFFICES JobInv'
  BY <1>1, RowsUntouched DEF PanelInv
<1>4. ASSUME Overtake(w, Idle, Writing) \/ Overtake(w, Idle, {"remove"}) \/ Return(w)
      PROVE  JobInv'
  BY <1>1, <1>2, <1>4, IdleIsSound, WorkerOvertakes, RequestEnds
<1>5. CASE Unlink(w) \/ WriteFails(w) \/ WrongPassword(w) \/ RefuseTransaction(w)
  BY <1>4, <1>5 DEF Unlink, WriteFails, WrongPassword, RefuseTransaction
<1>6. CASE Secrets(w)
  <2>1. CASE Return(w)
    BY <1>4, <2>1
  <2>2. CASE /\ held # None /\ job[w].name \in DOMAIN rows
             /\ job' = [job EXCEPT ![w].at = "open", ![w].profile = rows[job[w].name].profile,
                                   ![w].key = held]
    <3>1. held \in Keys /\ rows[job[w].name].profile \in Profiles
      BY <2>2 DEF PanelInv, KeyInv, IsTable, Row
    <3> DEFINE record == [job[w] EXCEPT !.at = "open", !.profile = rows[job[w].name].profile, !.key = held]
    <3>2. record \in Job /\ record.at = "open"
      BY <1>2, <3>1 DEF Job
    <3> HIDE DEF record
    <3>3. Sound(record)
      BY <3>2 DEF Sound
    <3>4. job' = [job EXCEPT ![w] = record]
      BY <1>2, <2>2 DEF record
    <3> QED  BY <1>1, <1>2, <3>2, <3>3, <3>4, WorkerGoesOn
  <2> QED  BY <1>6, <2>1, <2>2 DEF Secrets
<1>7. CASE OpenFile(w)
  <2>1. PICK mixed \in BOOLEAN :
          Overtake(w, [job[w] EXCEPT !.at = "write", !.mixed = mixed], Writing)
    BY <1>7 DEF OpenFile
  <2> DEFINE record == [job[w] EXCEPT !.at = "write", !.mixed = mixed]
  <2>2. record \in Job /\ record.at = "write"
    BY <1>2, ZenonT(60) DEF Job, Writing
  <2> HIDE DEF record
  <2>3. Sound(record)
    BY <2>2 DEF Sound
  <2>4. Overtake(w, record, Writing)
    BY <2>1 DEF record
  <2> QED  BY <1>1, <1>2, <2>2, <2>3, <2>4, WorkerOvertakes
<1>8. CASE WriteFile(w)
  <2> DEFINE record == [job[w] EXCEPT !.at = "publish"]
  <2>1. record \in Job /\ record.at = "publish"
    BY <1>2 DEF Job, Writing
  <2> HIDE DEF record
  <2>2. Sound(record)
    BY <2>1 DEF Sound
  <2>3. Overtake(w, record, Writing)
    BY <1>8 DEF record, WriteFile
  <2>4. vault # None => vault' # None
    BY <1>1
  <2> QED  BY ONLY <1>2, <2>1, <2>2, <2>3, <2>4, WorkerOvertakes
<1>9. CASE Publish(w)
  <2> DEFINE record == [job[w] EXCEPT !.at = "claim"]
  <2>1. record \in Job /\ record.at = "claim"
    BY <1>2 DEF Job, Writing
  <2> HIDE DEF record
  <2>2. Overtake(w, record, Writing) \/ Overtake(w, Idle, Writing)
    BY <1>9 DEF record, Publish
  <2>3. Sound(record)
    BY <2>1 DEF Sound
  <2>4. vault # None => vault' # None
    BY <1>1
  <2>5. CASE Overtake(w, record, Writing)
    BY ONLY <1>2, <2>1, <2>3, <2>4, <2>5, WorkerOvertakes
  <2> QED  BY <1>4, <2>2, <2>5
<1>10. CASE Claim(w)
  BY <1>4, <1>10 DEF Claim
<1>11. CASE Unlock(w)
  <2>1. job[w].at = "unlock" /\ job[w].password \in Passwords
    BY <1>2, <1>11 DEF Unlock, At, Sound
  <2>2. CASE Return(w)
    BY <1>4, <2>2
  <2>3. CASE Go(w, "create")
    <3> DEFINE record == [job[w] EXCEPT !.at = "create"]
    <3>1. record \in Job /\ record.at = "create" /\ record.password = job[w].password
      BY <1>2 DEF Job, Transacting
    <3> HIDE DEF record
    <3>2. Sound(record)
      BY <2>1, <3>1 DEF Sound
    <3>3. job' = [job EXCEPT ![w] = record]
      BY <2>3 DEF record, Go
    <3> QED  BY <1>1, <1>2, <3>1, <3>2, <3>3, WorkerGoesOn
  <2>4. CASE vault # None /\ job' = [job EXCEPT ![w].at = "hold", ![w].key = vault.key]
    <3>1. vault.key \in Keys
      BY <2>4 DEF PanelInv, KeyInv
    <3> DEFINE record == [job[w] EXCEPT !.at = "hold", !.key = vault.key]
    <3>2. record \in Job /\ record.at = "hold" /\ record.key = vault.key
      BY <1>2, <3>1 DEF Job
    <3> HIDE DEF record
    <3>3. Sound(record)
      BY <1>1, <2>4, <3>1, <3>2 DEF Sound
    <3>4. job' = [job EXCEPT ![w] = record]
      BY <1>2, <2>4 DEF record
    <3> QED  BY <1>1, <1>2, <3>2, <3>3, <3>4, WorkerGoesOn
  <2> QED  BY <1>11, <2>2, <2>3, <2>4 DEF Unlock
<1> QED  BY <1>5, <1>6, <1>7, <1>8, <1>9, <1>10, <1>11

\* A worker that only goes to another step, at which nothing is asked of it.
LEMMA WorkerGoes ==
  ASSUME JobInv, NEW w \in Workers, NEW step \in {"open", "unlink"}, Go(w, step),
         vault # None => vault' # None
  PROVE  JobInv'
<1> DEFINE record == [job[w] EXCEPT !.at = step]
<1>1. job[w] \in Job
  BY DEF JobInv
<1>2. record \in Job /\ record.at = step
  BY <1>1, ZenonT(60) DEF Job
<1>3. job' = [job EXCEPT ![w] = record]
  BY DEF Go
<1> HIDE DEF record
<1>4. Sound(record)
  BY <1>2 DEF Sound
<1> QED  BY ONLY JobInv, vault # None => vault' # None, <1>2, <1>3, <1>4, WorkerGoesOn

-----------------------------------------------------------------------------
(* The steps that change the rows or the keys.                             *)

\* The rows change and the vault does not: what else the invariant asks.
LEMMA RowsChange ==
  ASSUME KeyInv, IsTable(rows'), UNCHANGED <<vault, held, keys, hash, envHash, cli>>,
         vault # None \/ DOMAIN rows' = {},
         lost' = {n \in DOMAIN rows' : rows'[n].key # vault.key}
  PROVE  KeyInv'
BY DEF KeyInv, IsTable

LEMMA SavePreserves ==
  ASSUME PanelInv, NEW w \in Workers, SaveRow(w)
  PROVE  PanelInv'
<1> DEFINE j == job[w]
<1>1. /\ j.at = "save" /\ UNCHANGED <<vault, held, keys, hash, envHash, cli>>
      /\ rows' = SaveConnection(rows, j.name, j.profile, j.ignore, j.key, j.flag)
      /\ lost' = (IF vault # None /\ j.key # vault.key THEN lost \union {j.name}
                                                      ELSE lost \ {j.name}) \intersect DOMAIN rows'
      /\ blank' = (blank /\ Defaults(rows') = {} /\ DOMAIN rows' # {})
  BY DEF SaveRow, At, Commit, secrets
<1>2. /\ j.name \in Names /\ j.profile \in Profiles /\ j.key \in Keys /\ vault # None
      /\ j.ignore \in BOOLEAN /\ j.flag \in BOOLEAN
  BY <1>1 DEF PanelInv, JobInv, Sound, Job
<1> HIDE DEF j
<1>3. /\ IsTable(rows') /\ DOMAIN rows' = DOMAIN rows \union {j.name}
      /\ rows'[j.name].key = j.key
      /\ \A n \in DOMAIN rows : n # j.name => rows'[n].key = rows[n].key
      /\ \/ Defaults(rows') = {j.name}
         \/ Defaults(rows') = Defaults(rows) /\ DOMAIN rows # {}
  <2>1. IsTable(rows)
    BY DEF PanelInv, KeyInv
  <2> QED  BY <1>1, <1>2, <2>1, SavedTable, SMTT(30)
<1>4. lost' = {n \in DOMAIN rows' : rows'[n].key # vault.key}
  <2>1. lost = {n \in DOMAIN rows : rows[n].key # vault.key}
    BY DEF PanelInv, KeyInv
  <2> QED  BY <1>1, <1>2, <1>3, <2>1
<1>5. KeyInv'
  BY <1>1, <1>2, <1>3, <1>4, RowsChange DEF PanelInv
<1>6. DefaultInv'
  BY <1>1, <1>3 DEF PanelInv, DefaultInv
<1>7. JobInv'
  <2> DEFINE record == [job[w] EXCEPT !.at = "open", !.flag = FALSE]
  <2>1. JobInv /\ job[w] \in Job
    BY DEF PanelInv, JobInv
  <2>2. record \in Job /\ record.at = "open"
    BY <2>1, ZenonT(60) DEF Job
  <2>3. job' = [job EXCEPT ![w] = record]
    BY DEF SaveRow
  <2> HIDE DEF record
  <2>4. Sound(record)
    BY <2>2 DEF Sound
  <2> QED  BY ONLY <1>1, <2>1, <2>2, <2>3, <2>4, WorkerGoesOn
<1> QED  BY <1>5, <1>6, <1>7 DEF PanelInv

LEMMA MarkPreserves ==
  ASSUME PanelInv, NEW w \in Workers, MarkRow(w)
  PROVE  PanelInv'
<1>1. /\ Return(w) /\ UNCHANGED <<vault, held, keys, hash, envHash, cli, lost>>
      /\ rows' = Marked(rows, job[w].name)
      /\ blank' = (job[w].name \notin DOMAIN rows /\ DOMAIN rows # {})
  BY DEF MarkRow, secrets
<1>2. /\ IsTable(rows') /\ DOMAIN rows' = DOMAIN rows
      /\ \A n \in DOMAIN rows : rows'[n].key = rows[n].key
      /\ Defaults(rows') = DOMAIN rows \intersect {job[w].name}
  <2>1. IsTable(rows)
    BY DEF PanelInv, KeyInv
  <2> QED  BY <1>1, <2>1, MarkedTable
<1>3. KeyInv'
  <2>1. lost' = {n \in DOMAIN rows' : rows'[n].key # vault.key}
    BY <1>1, <1>2 DEF PanelInv, KeyInv
  <2>2. vault # None \/ DOMAIN rows' = {}
    BY <1>2 DEF PanelInv, KeyInv
  <2> QED  BY <1>1, <1>2, <2>1, <2>2, RowsChange DEF PanelInv
<1>4. DefaultInv'
  BY <1>1, <1>2 DEF DefaultInv
<1>5. JobInv'
  BY <1>1, RequestEnds DEF PanelInv
<1> QED  BY <1>3, <1>4, <1>5 DEF PanelInv

LEMMA TogglePreserves ==
  ASSUME PanelInv, NEW w \in Workers, ToggleRow(w)
  PROVE  PanelInv'
<1>1. /\ Return(w) /\ UNCHANGED <<vault, held, keys, hash, envHash, cli, lost, blank>>
      /\ rows' = SetIgnore(rows, job[w].name, job[w].ignore)
  BY DEF ToggleRow, secrets, ghosts
<1>2. job[w].ignore \in BOOLEAN /\ \A n \in DOMAIN rows : rows[n] \in Row
  BY DEF PanelInv, JobInv, Job, KeyInv, IsTable
<1>3. /\ DOMAIN rows' = DOMAIN rows
      /\ \A n \in DOMAIN rows :
           /\ rows'[n] \in Row /\ rows'[n].key = rows[n].key
           /\ rows'[n].is_default = rows[n].is_default
  BY <1>1, <1>2 DEF SetIgnore, Row
<1>4. IsTable(rows')
  BY <1>1, <1>3 DEF IsTable, SetIgnore, PanelInv, KeyInv
<1>5. KeyInv'
  <2>1. lost' = {n \in DOMAIN rows' : rows'[n].key # vault.key}
    BY <1>1, <1>3 DEF PanelInv, KeyInv
  <2>2. vault # None \/ DOMAIN rows' = {}
    BY <1>3 DEF PanelInv, KeyInv
  <2> QED  BY <1>1, <1>4, <2>1, <2>2, RowsChange DEF PanelInv
<1>6. DefaultInv'
  <2>1. Defaults(rows') = Defaults(rows)
    BY <1>3 DEF Defaults
  <2> QED  BY <1>1, <1>3, <2>1 DEF PanelInv, DefaultInv
<1>7. JobInv'
  BY <1>1, RequestEnds DEF PanelInv
<1> QED  BY <1>5, <1>6, <1>7 DEF PanelInv

LEMMA RemovePreserves ==
  ASSUME PanelInv, NEW w \in Workers, RemoveRow(w)
  PROVE  PanelInv'
<1>1. CASE job[w].name \notin DOMAIN rows
  <2>1. Return(w) /\ UNCHANGED <<rows, vault, held, keys, hash, envHash, cli, lost, blank>>
    BY <1>1 DEF RemoveRow, secrets, ghosts
  <2> QED  BY <2>1, RequestEnds, RowsUntouched DEF PanelInv
<1>2. CASE job[w].name \in DOMAIN rows
  <2>1. /\ Go(w, "unlink") /\ UNCHANGED <<vault, held, keys, hash, envHash, cli>>
        /\ rows' = DeleteConnection(rows, job[w].name)
        /\ lost' = lost \intersect DOMAIN rows'
        /\ blank' = (blank /\ Defaults(rows') = {} /\ DOMAIN rows' # {})
    BY <1>2 DEF RemoveRow, secrets, Commit
  <2>2. /\ IsTable(rows') /\ DOMAIN rows' = DOMAIN rows \ {job[w].name}
        /\ \A n \in DOMAIN rows \ {job[w].name} : rows'[n].key = rows[n].key
        /\ DOMAIN rows' # {} => Defaults(rows') # {}
        /\ \A m, n \in Defaults(rows') : m = n \/ (m \in Defaults(rows) /\ n \in Defaults(rows))
    <3>1. IsTable(rows)
      BY DEF PanelInv, KeyInv
    <3>2. rows' = DeleteConnection(rows, job[w].name)
      BY <2>1
    <3> QED  BY ONLY <3>1, <3>2, DeletedTable, ZenonT(60)
  <2>3. KeyInv'
    <3>1. lost' = {n \in DOMAIN rows' : rows'[n].key # vault.key}
      BY <2>1, <2>2 DEF PanelInv, KeyInv
    <3>2. vault # None \/ DOMAIN rows' = {}
      BY <2>2 DEF PanelInv, KeyInv
    <3> QED  BY <2>1, <2>2, <3>1, <3>2, RowsChange DEF PanelInv
  <2>4. DefaultInv'
    BY <2>2 DEF PanelInv, DefaultInv
  <2>5. JobInv'
    BY <2>1, WorkerGoes DEF PanelInv
  <2> QED  BY <2>3, <2>4, <2>5 DEF PanelInv
<1> QED  BY <1>1, <1>2

\* A vault comes into being only where there was none, and then there is no row.
LEMMA CreatePreserves ==
  ASSUME PanelInv, NEW w \in Workers, Create(w)
  PROVE  PanelInv'
<1>1. CASE vault # None
  <2>1. Return(w) /\ UNCHANGED <<rows, vault, held, keys, hash, envHash, cli, lost, blank>>
    BY <1>1 DEF Create, ghosts
  <2> QED  BY <2>1, RequestEnds, RowsUntouched DEF PanelInv
<1>2. CASE vault = None
  <2>1. /\ At(w, "create") /\ keys < MaxKeys /\ keys' = keys + 1
        /\ vault' = [password |-> job[w].password, key |-> keys + 1]
        /\ job' = [job EXCEPT ![w].at = "hold", ![w].key = keys + 1]
        /\ UNCHANGED <<rows, held, hash, envHash, cli, lost, blank>>
    BY <1>2 DEF Create, ghosts
  <2>2. keys + 1 \in Keys /\ keys' \in 0 .. MaxKeys
    BY <2>1, PanelAssumption DEF PanelInv, KeyInv, Keys
  <2>3. job \in [Workers -> Job] /\ job[w] \in Job /\ job[w].password \in Passwords
    BY <2>1 DEF PanelInv, JobInv, Sound, At
  <2>4. vault' \in [password : Passwords, key : Keys] /\ vault' # None
    BY <2>1, <2>2, <2>3, PanelAssumption DEF Keys
  <2>5. KeyInv'
    BY <1>2, <2>1, <2>2, <2>4 DEF PanelInv, KeyInv, IsTable
  <2>6. DefaultInv'
    BY <2>1 DEF PanelInv, DefaultInv, Defaults
  <2>7. JobInv'
    <3> DEFINE record == [job[w] EXCEPT !.at = "hold", !.key = keys + 1]
    <3>1. record \in Job /\ record.at = "hold" /\ record.key = keys + 1
      BY <2>2, <2>3 DEF Job
    <3>2. PICK r \in Job : r.at = "hold" /\ r.key = keys + 1 /\ job' = [job EXCEPT ![w] = r]
      <4>1. job' = [job EXCEPT ![w] = record]
        BY <2>1, <2>3
      <4> HIDE DEF record
      <4> QED  BY <3>1, <4>1
    <3>3. job' = [v \in Workers |-> job'[v]] /\ job'[w] = r /\ \A v \in Workers \ {w} : job'[v] = job[v]
      BY <2>3, <3>2
    <3>4. Sound(r)'
      BY <2>2, <2>4, <3>2 DEF Sound
    <3> QED  BY <1>2, <3>3, <3>4, WorkerMoves DEF PanelInv
  <2> QED  BY <2>5, <2>6, <2>7 DEF PanelInv
<1> QED  BY <1>1, <1>2

LEMMA HoldPreserves ==
  ASSUME PanelInv, NEW w \in Workers, Hold(w)
  PROVE  PanelInv'
<1>1. /\ At(w, "hold") /\ Return(w) /\ held' = job[w].key
      /\ UNCHANGED <<rows, vault, keys, hash, envHash, cli, lost, blank>>
  BY DEF Hold, ghosts
<1>2. job[w].key \in Keys /\ vault # None
  BY <1>1 DEF PanelInv, JobInv, Sound, At
<1>3. KeyInv'
  BY <1>1, <1>2 DEF PanelInv, KeyInv, IsTable
<1>4. DefaultInv'
  BY <1>1 DEF PanelInv, DefaultInv, Defaults
<1>5. JobInv'
  BY <1>1, RequestEnds DEF PanelInv
<1> QED  BY <1>3, <1>4, <1>5 DEF PanelInv

\* Where only the command or the tunnel moves, no worker does.
LEMMA JobsStay ==
  ASSUME JobInv, UNCHANGED job, vault # None => vault' # None
  PROVE  JobInv'
BY DEF JobInv, Sound

\* A step of the tunnel touches no row, no file and no secret, and of the workers at
\* most what is noted of those about to delete.
LEMMA TunnelMarks ==
  ASSUME JobInv, TunnelStep
  PROVE  /\ UNCHANGED <<rows, files, secrets, ghosts>>
         /\ job' \in [Workers -> Job]
         /\ \A w \in Workers :
              \/ job'[w] = job[w]
              \/ At(w, "remove") /\ job'[w] = [job[w] EXCEPT !.mixed = TRUE]
<1>1. UNCHANGED <<rows, files, secrets, ghosts>>
  BY DEF TunnelStep, Launch, TunnelUp, Reconnects, Stop, Stopped, TunnelFails, TunnelDown, Occupy
<1>2. job \in [Workers -> Job]
  BY DEF JobInv
<1>3. CASE UNCHANGED job
  BY <1>1, <1>2, <1>3
<1>4. CASE \E state : Occupy(state)
  <2>1. job' = [v \in Workers |-> IF At(v, "remove") /\ job[v].name = tunnel.name
                                  THEN [job[v] EXCEPT !.mixed = TRUE] ELSE job[v]]
    BY <1>4 DEF Occupy
  <2>2. \A w \in Workers : job[w] \in Job /\ [job[w] EXCEPT !.mixed = TRUE] \in Job
    BY <1>2, MixedJobs
  <2> QED  BY <1>1, <2>1, <2>2
<1> QED  BY <1>3, <1>4 DEF TunnelStep, Launch, TunnelUp, Reconnects, Stop, Stopped, TunnelFails,
            TunnelDown

LEMMA TunnelPreserves ==
  ASSUME PanelInv, TunnelStep
  PROVE  PanelInv'
<1>1. JobInv
  BY DEF PanelInv
<1>2. /\ UNCHANGED <<rows, vault, held, keys, hash, envHash, cli, lost, blank>>
      /\ job' \in [Workers -> Job]
      /\ \A w \in Workers : job'[w] = job[w] \/ job'[w] = [job[w] EXCEPT !.mixed = TRUE]
  BY <1>1, TunnelMarks DEF secrets, ghosts
<1>3. JobInv'
  <2> SUFFICES ASSUME NEW w \in Workers PROVE Sound(job[w])'
    BY <1>2 DEF JobInv
  <2>1. /\ job'[w].at = job[w].at /\ job'[w].name = job[w].name
        /\ job'[w].profile = job[w].profile /\ job'[w].key = job[w].key
        /\ job'[w].password = job[w].password
    <3>1. job[w] \in Job
      BY <1>1 DEF JobInv
    <3> QED  BY <1>2, <3>1 DEF Job
  <2> QED  BY <1>1, <1>2, <2>1 DEF JobInv, Sound
<1> QED  BY <1>2, <1>3, RowsUntouched DEF PanelInv

LEMMA SetPasswordPreserves ==
  ASSUME PanelInv, SetPassword
  PROVE  PanelInv'
<1>1. UNCHANGED <<rows, vault, held, hash, keys, job, lost, blank>>
  BY DEF SetPassword, ghosts
<1>2. PICK password \in Passwords :
        IF vault = None THEN envHash' = password /\ UNCHANGED cli
        ELSE cli' = [key |-> vault.key, password |-> password] /\ UNCHANGED envHash
  BY DEF SetPassword
<1>3. KeyInv'
  <2>1. CASE vault = None
    BY <1>1, <1>2, <2>1 DEF PanelInv, KeyInv, IsTable
  <2>2. CASE vault # None
    <3>1. cli' = [key |-> vault.key, password |-> password] /\ UNCHANGED envHash /\ vault.key \in Keys
      BY <1>2, <2>2 DEF PanelInv, KeyInv
    <3>2. cli' \in [key : Keys, password : Passwords] /\ cli'.key = vault.key
      BY <3>1
    <3> QED  BY <1>1, <2>2, <3>1, <3>2 DEF PanelInv, KeyInv, IsTable
  <2> QED  BY <2>1, <2>2
<1>4. DefaultInv'
  BY <1>1 DEF PanelInv, DefaultInv, Defaults
<1>5. JobInv'
  BY <1>1, JobsStay DEF PanelInv
<1> QED  BY <1>3, <1>4, <1>5 DEF PanelInv

\* What the command does where every row decrypts: the rows and the vault take the
\* new key together, and there is no row of a dropped key.
Rekeyed ==
  /\ lost = {} /\ DOMAIN rows' = DOMAIN rows
  /\ vault' = [password |-> cli.password, key |-> keys + 1]
  /\ keys < MaxKeys /\ keys' = keys + 1 /\ envHash' = cli.password
  /\ \A n \in DOMAIN rows : rows'[n] = [rows[n] EXCEPT !.key = keys + 1]
  /\ rows' = [n \in DOMAIN rows |-> rows'[n]]

LEMMA RekeyIsWhole ==
  ASSUME PanelInv, Rekey
  PROVE  UNCHANGED <<rows, vault, keys, envHash>> \/ Rekeyed
<1>1. CASE \A n \in DOMAIN rows : rows[n].key = cli.key
  <2>1. cli.key = vault.key /\ lost = {n \in DOMAIN rows : rows[n].key # vault.key}
    BY DEF Rekey, PanelInv, KeyInv
  <2> QED  BY <1>1, <2>1 DEF Rekey, Rekeyed
<1>2. CASE ~\A n \in DOMAIN rows : rows[n].key = cli.key
  BY <1>2 DEF Rekey
<1> QED  BY <1>1, <1>2

LEMMA RekeyPreserves ==
  ASSUME PanelInv, Rekey
  PROVE  PanelInv'
<1>1. cli # None /\ cli' = None /\ UNCHANGED <<held, hash, job, lost, blank>>
  BY DEF Rekey, ghosts
<1>2. vault # None /\ cli \in [key : Keys, password : Passwords]
  BY <1>1 DEF PanelInv, KeyInv
<1>3. CASE UNCHANGED <<rows, vault, keys, envHash>>
  <2>1. KeyInv'
    BY <1>1, <1>3 DEF PanelInv, KeyInv, IsTable
  <2>2. DefaultInv'
    BY <1>1, <1>3 DEF PanelInv, DefaultInv, Defaults
  <2>3. JobInv'
    BY <1>1, <1>3, JobsStay DEF PanelInv
  <2> QED  BY <2>1, <2>2, <2>3 DEF PanelInv
<1>4. CASE Rekeyed
  <2>1. /\ lost = {} /\ DOMAIN rows' = DOMAIN rows
        /\ vault' = [password |-> cli.password, key |-> keys + 1]
        /\ keys < MaxKeys /\ keys' = keys + 1 /\ envHash' = cli.password
        /\ \A n \in DOMAIN rows : rows'[n] = [rows[n] EXCEPT !.key = keys + 1]
        /\ rows' = [n \in DOMAIN rows |-> rows'[n]]
    BY <1>4 DEF Rekeyed
  <2>2. keys + 1 \in Keys /\ keys' \in 0 .. MaxKeys
    BY <2>1, PanelAssumption DEF PanelInv, KeyInv, Keys
  <2>3. vault' \in [password : Passwords, key : Keys] /\ vault'.key = keys + 1 /\ vault' # None
    BY <1>2, <2>1, <2>2, PanelAssumption DEF Keys
  <2>4. \A n \in DOMAIN rows : rows[n] \in Row
    BY DEF PanelInv, KeyInv, IsTable
  <2>5. \A n \in DOMAIN rows :
          rows'[n] \in Row /\ rows'[n].key = keys + 1 /\ rows'[n].is_default = rows[n].is_default
    BY <2>1, <2>2, <2>4 DEF Row
  <2>6. IsTable(rows')
    BY <2>1, <2>5 DEF PanelInv, KeyInv, IsTable
  <2>7. KeyInv'
    <3>1. lost' = {n \in DOMAIN rows' : rows'[n].key # vault'.key}
      BY <1>1, <2>1, <2>3, <2>5
    <3>2. held' \in Keys \union {None} /\ hash' \in Passwords /\ envHash' \in Passwords
      BY <1>1, <1>2, <2>1 DEF PanelInv, KeyInv
    <3> QED  BY <1>1, <2>2, <2>3, <2>6, <3>1, <3>2 DEF KeyInv
  <2>8. DefaultInv'
    <3>1. Defaults(rows') = Defaults(rows)
      BY <2>1, <2>5 DEF Defaults
    <3> QED  BY <1>1, <2>1, <3>1 DEF PanelInv, DefaultInv
  <2>9. JobInv'
    BY <1>1, <2>3, JobsStay DEF PanelInv
  <2> QED  BY <2>7, <2>8, <2>9 DEF PanelInv
<1> QED  BY <1>3, <1>4, RekeyIsWhole

LEMMA RestartPreserves ==
  ASSUME PanelInv, Restart
  PROVE  PanelInv'
<1>1. /\ job' = [w \in Workers |-> Idle] /\ held' = None /\ hash' = envHash
      /\ UNCHANGED <<rows, vault, envHash, cli, keys, lost, blank>>
  BY DEF Restart
<1>2. KeyInv'
  BY <1>1 DEF PanelInv, KeyInv, IsTable
<1>3. DefaultInv'
  BY <1>1 DEF PanelInv, DefaultInv, Defaults
<1>4. JobInv'
  <2>1. Idle \in Job /\ Idle.at = "idle"
    BY IdleIsSound
  <2> QED  BY <1>1, <2>1 DEF JobInv, Sound
<1> QED  BY <1>2, <1>3, <1>4 DEF PanelInv

LEMMA OthersPreserve ==
  ASSUME PanelInv,
         UNCHANGED <<rows, vault, held, keys, hash, envHash, cli, lost, blank, job>>
  PROVE  PanelInv'
<1>1. JobInv'
  BY JobsStay DEF PanelInv
<1> QED  BY <1>1, RowsUntouched DEF PanelInv

-----------------------------------------------------------------------------
(* The specification.                                                      *)

LEMMA PanelBegins == Init => PanelInv
<1> SUFFICES ASSUME Init PROVE PanelInv
  OBVIOUS
<1>1. job = [w \in Workers |-> Idle] /\ cli = None /\ lost = {} /\ blank = FALSE
      /\ hash \in Passwords /\ envHash = hash
  BY DEF Init
<1>2. JobInv
  <2>1. Idle \in Job /\ Idle.at = "idle"
    BY IdleIsSound
  <2> QED  BY <1>1, <2>1 DEF JobInv, Sound
<1>3. PICK saved \in SUBSET Names, p \in Profiles :
        /\ keys = (IF saved = {} THEN 0 ELSE 1)
        /\ vault = IF saved = {} THEN None ELSE [password |-> hash, key |-> 1]
        /\ held \in IF saved = {} THEN {None} ELSE {None, 1}
        /\ rows = [n \in saved |-> [profile |-> p, ignore |-> FALSE, key |-> 1,
                                    is_default |-> \A m \in saved : n =< m]]
  BY DEF Init
<1>4. 1 \in Keys /\ keys \in 0 .. MaxKeys
  BY <1>3, PanelAssumption DEF Keys
<1>5. /\ DOMAIN rows = saved
      /\ \A n \in saved : /\ rows[n] \in Row /\ rows[n].key = 1
                          /\ rows[n].is_default <=> \A m \in saved : n =< m
  <2> SUFFICES ASSUME NEW n \in saved
               PROVE  /\ rows[n] \in Row /\ rows[n].key = 1
                      /\ rows[n].is_default <=> \A m \in saved : n =< m
    BY <1>3
  <2>1. PICK least \in BOOLEAN : least <=> \A m \in saved : n =< m
    OBVIOUS
  <2>2. rows[n] = [profile |-> p, ignore |-> FALSE, key |-> 1, is_default |-> least]
    BY <1>3, <2>1
  <2> QED  BY <1>4, <2>1, <2>2 DEF Row
<1>6. KeyInv
  <2>1. IsTable(rows)
    BY <1>3, <1>5 DEF IsTable
  <2>2. saved # {} => vault = [password |-> hash, key |-> 1] /\ vault # None
    <3>1. [password |-> hash, key |-> 1] \in [password : Passwords, key : 1 .. MaxKeys]
      BY <1>1, <1>4 DEF Keys
    <3>2. [password |-> hash, key |-> 1] # None
      BY <3>1, PanelAssumption
    <3> QED  BY <1>3, <3>2
  <2>3. vault \in [password : Passwords, key : Keys] \union {None}
    BY <1>1, <1>3, <1>4, <2>2
  <2>4. held \in Keys \union {None} /\ (held # None => saved # {})
    BY <1>3, <1>4
  <2>5. lost = {n \in DOMAIN rows : rows[n].key # vault.key}
    BY <1>1, <1>5, <2>2
  <2> QED  BY <1>1, <1>4, <1>5, <2>1, <2>2, <2>3, <2>4, <2>5 DEF KeyInv
<1>7. DefaultInv
  <2>1. saved \in SUBSET Nat
    BY PanelAssumption
  <2>2. Defaults(rows) = {n \in saved : \A m \in saved : n =< m}
    BY <1>5 DEF Defaults
  <2>3. \A m, n \in Defaults(rows) : m = n
    <3> SUFFICES ASSUME NEW m \in Defaults(rows), NEW n \in Defaults(rows) PROVE m = n
      OBVIOUS
    <3>1. m \in Nat /\ n \in Nat /\ m =< n /\ n =< m
      BY <2>1, <2>2
    <3> QED  BY <3>1
  <2>4. saved # {} => Defaults(rows) # {}
    BY <2>1, <2>2, MinIsLeast
  <2> QED  BY <1>5, <2>3, <2>4 DEF DefaultInv
<1> QED  BY <1>2, <1>6, <1>7 DEF PanelInv

LEMMA PanelPreserved == PanelInv /\ [Next]_vars => PanelInv'
<1> SUFFICES ASSUME PanelInv, [Next]_vars PROVE PanelInv'
  OBVIOUS
<1>1. ASSUME NEW w \in Workers, Serve(w) PROVE PanelInv'
  BY <1>1, CallsPreserve, StepsPreserve, SavePreserves, MarkPreserves, TogglePreserves,
     RemovePreserves, CreatePreserves, HoldPreserves DEF Serve
<1>2. CASE TunnelStep
  BY <1>2, TunnelPreserves
<1>3. CASE SetPassword \/ Rekey \/ Restart
  BY <1>3, SetPasswordPreserves, RekeyPreserves, RestartPreserves
<1>4. CASE UNCHANGED vars
  BY <1>4, OthersPreserve DEF vars, secrets, ghosts
<1> QED  BY <1>1, <1>2, <1>3, <1>4 DEF Next

\* Every stored secret can be decrypted with the vault's key, save what a process
\* wrote that held a key from before a password change.
THEOREM SecretsAreReadable == Spec => []SecretsReadable
<1>1. PanelInv => SecretsReadable
  BY DEF PanelInv, KeyInv, SecretsReadable
<1> QED  BY <1>1, PanelBegins, PanelPreserved, PTL DEF Spec

\* A password change gives every row and the vault the new key, or nothing to any.
THEOREM RekeyingIsWhole == Spec => RekeyWhole
<1> DEFINE Whole == vault # None /\ vault' # vault =>
                      /\ lost = {} /\ DOMAIN rows' = DOMAIN rows
                      /\ \A n \in DOMAIN rows : rows'[n].key = vault'.key
<1>1. PanelInv /\ [Next]_vars => [Whole]_vars
  <2> SUFFICES ASSUME PanelInv, Next, vault # None, vault' # vault
               PROVE  /\ lost = {} /\ DOMAIN rows' = DOMAIN rows
                      /\ \A n \in DOMAIN rows : rows'[n].key = vault'.key
    BY DEF vars
  <2>1. Rekey
    <3>1. ASSUME NEW w \in Workers, Serve(w) PROVE FALSE
      BY <3>1 DEF Serve, SaveCall, SetDefaultCall, ToggleCall, DeleteCall, ConnectCall, LoginCall,
         SaveRow, MarkRow, ToggleRow, RemoveRow, Unlink, Secrets, OpenFile, WriteFile, WriteFails,
         Publish, Claim, WrongPassword, Unlock, Create, Hold, RefuseTransaction, secrets
    <3>2. ~TunnelStep
      BY TunnelMarks DEF PanelInv, secrets
    <3> QED  BY <3>1, <3>2 DEF Next, SetPassword, Restart
  <2>2. Rekeyed
    BY <2>1, RekeyIsWhole
  <2>3. \A n \in DOMAIN rows : rows[n] \in Row
    BY DEF PanelInv, KeyInv, IsTable
  <2>4. \A n \in DOMAIN rows : rows'[n].key = keys + 1
    BY <2>2, <2>3 DEF Rekeyed, Row
  <2> QED  BY <2>2, <2>4 DEF Rekeyed
<1>2. RekeyWhole <=> [][Whole]_vars
  BY DEF RekeyWhole
<1> QED  BY <1>1, <1>2, PanelBegins, PanelPreserved, PTL DEF Spec

\* At most one connection is the default, and while there are any, one is -- save
\* after a set_default() that lost its connection to a deletion.
THEOREM OneDefault == Spec => []DefaultKept
<1>1. PanelInv => DefaultKept
  <2> SUFFICES ASSUME PanelInv PROVE DefaultKept
    OBVIOUS
  <2>1. CASE Defaults(rows) = {}
    BY <2>1, FS_EmptySet DEF PanelInv, DefaultInv, DefaultKept
  <2>2. CASE Defaults(rows) # {}
    <3>1. PICK n \in Defaults(rows) : Defaults(rows) = {n}
      BY <2>2 DEF PanelInv, DefaultInv
    <3>2. Cardinality(Defaults(rows)) = 1
      BY <3>1, FS_Singleton
    <3> QED  BY <2>2, <3>2 DEF DefaultKept
  <2> QED  BY <2>1, <2>2
<1> QED  BY <1>1, PanelBegins, PanelPreserved, PTL DEF Spec

-----------------------------------------------------------------------------
(* The profile files.                                                      *)

File == [temp : OnDisk, final : OnDisk,
         at : [Workers -> {"closed", "temp", "final", "lost"}]]

LEMMA ContentOfProfile ==
  ASSUME NEW profile \in Profiles, NEW ignore \in BOOLEAN
  PROVE  Content(profile, ignore) \in OnDisk /\ Content(profile, ignore) # Absent
<1>1. PICK override \in BOOLEAN : override = (ignore /\ profile \notin Filtering)
  OBVIOUS
<1>2. Content(profile, ignore) = [profile |-> profile, override |-> override]
  BY <1>1 DEF Content
<1> QED  BY <1>2, DiskAssumption DEF OnDisk, Contents

LEMMA OpenedFile ==
  ASSUME NEW f \in File, NEW w \in Workers
  PROVE  /\ Disk!Opened(f, w) \in File
         /\ Disk!Opened(f, w).temp = Empty /\ Disk!Opened(f, w).final = f.final
         /\ Disk!Opened(f, w).at[w] = "temp"
         /\ \A v \in Workers \ {w} : Disk!Opened(f, w).at[v] = f.at[v]
BY DEF File, OnDisk, Disk!Opened

LEMMA WrittenFile ==
  ASSUME NEW f \in File, NEW w \in Workers, NEW content \in OnDisk, content # Absent,
         NEW g \in Disk!Written(f, w, content)
  PROVE  /\ g \in File
         /\ g.at[w] = "closed" /\ \A v \in Workers \ {w} : g.at[v] = f.at[v]
         /\ \/ /\ f.at[w] = "temp" /\ g.final = f.final /\ g.temp # Absent
               /\ f.temp = Empty => g.temp = content
            \/ f.at[w] = "final" /\ g.temp = f.temp /\ g.final # Absent
            \/ f.at[w] \notin {"temp", "final"} /\ g.temp = f.temp /\ g.final = f.final
<1> DEFINE closed == [f EXCEPT !.at[w] = "closed"]
<1>1. /\ closed \in File /\ closed.temp = f.temp /\ closed.final = f.final
      /\ closed.at[w] = "closed" /\ \A v \in Workers \ {w} : closed.at[v] = f.at[v]
  BY DEF File
<1>2. \A there : \A c \in Disk!Outcomes(there, content) :
        c \in OnDisk /\ c # Absent /\ (there = Empty => c = content)
  BY DiskAssumption DEF Disk!Outcomes, OnDisk
<1> HIDE DEF closed
<1>3. CASE f.at[w] = "temp"
  <2>1. PICK c \in Disk!Outcomes(f.temp, content) : g = [closed EXCEPT !.temp = c]
    BY <1>3 DEF Disk!Written, closed
  <2> QED  BY <1>1, <1>2, <1>3, <2>1 DEF File
<1>4. CASE f.at[w] = "final"
  <2>1. PICK c \in Disk!Outcomes(f.final, content) : g = [closed EXCEPT !.final = c]
    BY <1>4 DEF Disk!Written, closed
  <2> QED  BY <1>1, <1>2, <1>4, <2>1 DEF File
<1>5. CASE f.at[w] \notin {"temp", "final"}
  <2>1. g = closed
    BY <1>5 DEF Disk!Written, closed
  <2> QED  BY <1>1, <1>5, <2>1
<1> QED  BY <1>3, <1>4, <1>5

LEMMA AbandonedFile ==
  ASSUME NEW f \in File, NEW w \in Workers
  PROVE  /\ Disk!Abandoned(f, w) \in File
         /\ Disk!Abandoned(f, w).final = f.final
         /\ Disk!Abandoned(f, w).at[w] = "closed"
         /\ \A v \in Workers \ {w} :
              Disk!Abandoned(f, w).at[v] = IF f.at[v] = "temp" THEN "lost" ELSE f.at[v]
<1> DEFINE closed == [f.at EXCEPT ![w] = "closed"]
<1>1. /\ closed \in [Workers -> {"closed", "temp", "final", "lost"}]
      /\ closed[w] = "closed" /\ \A v \in Workers \ {w} : closed[v] = f.at[v]
  BY DEF File
<1>2. Disk!Abandoned(f, w) = [f EXCEPT !.temp = Absent, !.at = Disk!Moved(closed, "temp", "lost")]
  BY DEF Disk!Abandoned
<1> HIDE DEF closed
<1>3. /\ Disk!Moved(closed, "temp", "lost") \in [Workers -> {"closed", "temp", "final", "lost"}]
      /\ \A v \in Workers : Disk!Moved(closed, "temp", "lost")[v] =
           IF closed[v] = "temp" THEN "lost" ELSE closed[v]
  BY <1>1 DEF Disk!Moved
<1> QED  BY <1>1, <1>2, <1>3 DEF File, OnDisk

LEMMA PublishedFile ==
  ASSUME NEW f \in File, NEW w \in Workers
  PROVE  /\ Disk!Published(f, w) \in File
         /\ Disk!Published(f, w).final = f.temp
         /\ \A v \in Workers :
              /\ Disk!Published(f, w).at[v] \in {"closed", "final", "lost"}
              /\ Disk!Published(f, w).at[v] = "closed" <=> f.at[v] = "closed"
              /\ Disk!Published(f, w).at[v] = "final" <=> f.at[v] = "temp"
<1> DEFINE first == Disk!Moved(f.at, "final", "lost")
<1>1. /\ first \in [Workers -> {"closed", "temp", "final", "lost"}]
      /\ \A v \in Workers : first[v] = IF f.at[v] = "final" THEN "lost" ELSE f.at[v]
  BY DEF File, Disk!Moved
<1> HIDE DEF first
<1>2. /\ Disk!Moved(first, "temp", "final") \in [Workers -> {"closed", "temp", "final", "lost"}]
      /\ \A v \in Workers : Disk!Moved(first, "temp", "final")[v] =
           IF first[v] = "temp" THEN "final" ELSE first[v]
  BY <1>1 DEF Disk!Moved
<1>3. Disk!Published(f, w) =
        [temp |-> Absent, final |-> f.temp, at |-> Disk!Moved(first, "temp", "final")]
  BY DEF Disk!Published, first
<1>4. \A v \in Workers : f.at[v] \in {"closed", "temp", "final", "lost"}
  BY DEF File
<1> QED  BY <1>1, <1>2, <1>3, <1>4 DEF File, OnDisk

LEMMA UnlinkedFile ==
  ASSUME NEW f \in File
  PROVE  /\ Disk!Unlinked(f) \in File
         /\ Disk!Unlinked(f).final = Absent /\ Disk!Unlinked(f).temp = f.temp
         /\ \A v \in Workers :
              Disk!Unlinked(f).at[v] = IF f.at[v] = "final" THEN "lost" ELSE f.at[v]
<1>1. /\ Disk!Moved(f.at, "final", "lost") \in [Workers -> {"closed", "temp", "final", "lost"}]
      /\ \A v \in Workers : Disk!Moved(f.at, "final", "lost")[v] =
           IF f.at[v] = "final" THEN "lost" ELSE f.at[v]
  BY DEF File, Disk!Moved
<1> QED  BY <1>1 DEF File, OnDisk, Disk!Unlinked

LEMMA OrphanedFile ==
  ASSUME NEW f \in File
  PROVE  /\ Disk!Orphaned(f) \in File
         /\ Disk!Orphaned(f).final = f.final
         /\ \A v \in Workers : Disk!Orphaned(f).at[v] = "closed"
BY DEF File, Disk!Orphaned

-----------------------------------------------------------------------------
(* The invariant of the profile files, of the workers that write them, and *)
(* of the tunnel that is started from one.                                 *)

Tunnel == [state : {"off", "failed", "starting", "connecting", "up", "stopping"},
           alive : BOOLEAN, name : Names \union {None}, meant : OnDisk, content : OnDisk,
           mixed : BOOLEAN]

\* The steps of a worker that has to do with the profile file of its connection.
Filing == Writing \union {"open", "unlink"}

\* What a worker has with it when it comes to its file.
Named(j) ==
  /\ j.at \in Filing \union {"secrets", "remove"} => j.name \in Names
  /\ j.at \in Writing \union {"open"} => j.profile \in Profiles

\* A descriptor is open only between the opening and the writing of a file, and the
\* file it leads to under a name is there.
PlaceInv ==
  /\ files \in [Names -> File] /\ leftover \subseteq Names /\ tunnel \in Tunnel
  /\ \A w \in Workers : Named(job[w])
  /\ \A n \in Names, w \in Workers :
       /\ files[n].at[w] # "closed" => job[w].at = "write" /\ job[w].name = n
       /\ files[n].at[w] = "temp" => files[n].temp # Absent
       /\ files[n].at[w] = "final" => files[n].final # Absent

\* A worker that has not been overtaken is the only one that writes its file, and
\* finds there what it has put there.
Undisturbed(w) ==
  LET n == job[w].name
  IN  /\ \A v \in Workers \ {w} : job[v].at \in Writing => job[v].name # n
      /\ job[w].at = "write" => files[n].at[w] = "temp" /\ files[n].temp = Empty
      /\ job[w].at = "publish" => files[n].temp = Content(job[w].profile, job[w].ignore)
      /\ job[w].at = "claim" => files[n].final = Content(job[w].profile, job[w].ignore)

WriterInv == \A w \in Workers : job[w].at \in Writing => Undisturbed(w) \/ job[w].mixed

\* So is the file of a connection whose tunnel is about to be launched.
LaunchInv ==
  /\ tunnel.state = "starting" =>
       /\ tunnel.name \in Names /\ ~tunnel.alive
       /\ files[tunnel.name].final = tunnel.meant \/ tunnel.mixed
  /\ LaunchedAsResolved

\* Who deletes the connection of a busy tunnel asked before it became so.
AskedInv == \A w \in Workers : At(w, "remove") /\ InUse(job[w].name) => job[w].mixed

FileInv == PlaceInv /\ WriterInv /\ LaunchInv /\ AskedInv /\ FilesFollowRows

-----------------------------------------------------------------------------
(* How the workers move.                                                   *)

\* Worker w goes on with record; of the others some may be marked as overtaken.
Advances(w, record) ==
  /\ job'[w] = record
  /\ \A v \in Workers \ {w} :
       /\ job'[v].at = job[v].at /\ job'[v].name = job[v].name
       /\ job'[v].profile = job[v].profile /\ job'[v].ignore = job[v].ignore
       /\ job[v].mixed => job'[v].mixed

LEMMA OvertakingAdvances ==
  ASSUME JobInv, NEW w \in Workers, NEW record, NEW steps, Overtake(w, record, steps)
  PROVE  /\ Advances(w, record)
         /\ \A v \in Workers \ {w} :
              job[v].name = job[w].name /\ job[v].at \in steps => job'[v].mixed
<1>1. \A v \in Workers : job[v] \in Job
  BY DEF JobInv
<1>2. job'[w] = record
  BY DEF Overtake
<1>3. ASSUME NEW v \in Workers \ {w}
      PROVE  /\ job'[v].at = job[v].at /\ job'[v].name = job[v].name
             /\ job'[v].profile = job[v].profile /\ job'[v].ignore = job[v].ignore
             /\ job[v].mixed => job'[v].mixed
             /\ job[v].name = job[w].name /\ job[v].at \in steps => job'[v].mixed
  <2>1. job'[v] = IF job[v].name = job[w].name /\ job[v].at \in steps
                    THEN [job[v] EXCEPT !.mixed = TRUE] ELSE job[v]
    BY DEF Overtake
  <2> QED  BY <1>1, <2>1 DEF Job
<1> QED  BY <1>2, <1>3 DEF Advances

LEMMA ExceptAdvances ==
  ASSUME JobInv, NEW w \in Workers, NEW record, job' = [job EXCEPT ![w] = record]
  PROVE  Advances(w, record)
BY DEF JobInv, Advances

LEMMA ReturnAdvances ==
  ASSUME JobInv, NEW w \in Workers, Return(w)
  PROVE  Advances(w, Idle)
BY DEF JobInv, Advances, Return

LEMMA GoAdvances ==
  ASSUME JobInv, NEW w \in Workers, NEW step, Go(w, step)
  PROVE  Advances(w, [job[w] EXCEPT !.at = step])
BY DEF JobInv, Advances, Go

LEMMA IdleIsNamed == Named(Idle) /\ Idle.at = "idle"
BY DEF Named, Idle, Filing, Writing

\* A worker that has to do with no file goes on, and the files and the tunnel stay:
\* what remains to be seen is that it does not ask for what is in use.
LEMMA QuietStep ==
  ASSUME FileInv, NEW w \in Workers, NEW record, Advances(w, record), Named(record),
         UNCHANGED <<files, tunnel>>, DOMAIN rows \subseteq DOMAIN rows',
         leftover' \subseteq Names, leftover \subseteq leftover' \union DOMAIN rows',
         job[w].at \notin Writing \union {"unlink"}, record.at \notin Writing,
         record.at = "remove" => ~InUse(record.name)
  PROVE  FileInv'
<1>1. PlaceInv'
  <2>1. \A v \in Workers : Named(job'[v])
    BY DEF FileInv, PlaceInv, Named, Advances
  <2>2. ASSUME NEW n \in Names, NEW v \in Workers
        PROVE  /\ files'[n].at[v] # "closed" => job'[v].at = "write" /\ job'[v].name = n
               /\ files'[n].at[v] = "temp" => files'[n].temp # Absent
               /\ files'[n].at[v] = "final" => files'[n].final # Absent
    BY DEF FileInv, PlaceInv, Advances, Writing
  <2>3. files' \in [Names -> File] /\ leftover' \subseteq Names /\ tunnel' \in Tunnel
    BY DEF FileInv, PlaceInv
  <2> QED  BY <2>1, <2>2, <2>3 DEF PlaceInv, Named
<1>2. WriterInv'
  <2> SUFFICES ASSUME NEW v \in Workers, job'[v].at \in Writing, ~job'[v].mixed
               PROVE  Undisturbed(v)'
    BY DEF WriterInv
  <2>1. v # w /\ job[v].at \in Writing /\ ~job[v].mixed /\ Undisturbed(v)
    BY DEF Advances, FileInv, WriterInv
  <2>2. \A u \in Workers \ {v} : job'[u].at \in Writing => job'[u].name # job'[v].name
    BY <2>1 DEF Advances, Undisturbed
  <2> QED  BY <2>1, <2>2 DEF Advances, Undisturbed
<1>3. LaunchInv'
  BY DEF FileInv, LaunchInv, LaunchedAsResolved
<1>4. AskedInv'
  BY DEF FileInv, AskedInv, Advances, At, InUse, Busy
<1>5. FilesFollowRows'
  <2> SUFFICES ASSUME NEW n \in Names \ DOMAIN rows', files'[n].final # Absent
               PROVE  n \in leftover' \/ \E v \in Workers : job'[v].at = "unlink" /\ job'[v].name = n
    BY DEF FilesFollowRows, At
  <2>1. n \in leftover \/ \E v \in Workers : job[v].at = "unlink" /\ job[v].name = n
    BY DEF FileInv, FilesFollowRows, At
  <2> QED  BY <2>1 DEF Advances
<1> QED  BY <1>1, <1>2, <1>3, <1>4, <1>5 DEF FileInv

-----------------------------------------------------------------------------
(* The steps that leave the files alone.                                   *)

LEMMA RequestBeginsQuietly ==
  ASSUME JobInv, FileInv, NEW w \in Workers, NEW record, Request(w, record),
         UNCHANGED <<rows, files, tunnel, ghosts>>,
         Named(record), record.at \notin Writing, record.at = "remove" => ~InUse(record.name)
  PROVE  FileInv'
<1>1. job[w].at = "idle" /\ job' = [job EXCEPT ![w] = record]
  BY DEF Request, At
<1>2. Advances(w, record)
  BY <1>1, ExceptAdvances
<1>3. leftover' \subseteq Names /\ leftover \subseteq leftover' \union DOMAIN rows'
  BY DEF FileInv, PlaceInv, ghosts
<1>4. job[w].at \notin Writing \union {"unlink"}
  BY <1>1 DEF Writing
<1>5. UNCHANGED <<files, tunnel>> /\ DOMAIN rows \subseteq DOMAIN rows'
  OBVIOUS
<1> QED  BY ONLY FileInv, w \in Workers, <1>2, <1>3, <1>4, <1>5, QuietStep, Named(record),
            record.at \notin Writing, record.at = "remove" => ~InUse(record.name)

LEMMA CallsAreQuiet ==
  ASSUME PanelInv, FileInv, NEW w \in Workers,
         \/ SaveCall(w) \/ SetDefaultCall(w) \/ ToggleCall(w) \/ DeleteCall(w) \/ ConnectCall(w)
         \/ LoginCall(w)
  PROVE  FileInv'
<1>1. UNCHANGED <<rows, files, tunnel, ghosts>>
  BY DEF SaveCall, SetDefaultCall, ToggleCall, DeleteCall, ConnectCall, LoginCall, ghosts
<1>2. JobInv /\ DOMAIN rows \subseteq Names
  BY DEF PanelInv, KeyInv, IsTable
<1>3. PICK record :
        /\ Request(w, record)
        /\ record.at \in {"save", "mark", "toggle", "remove", "secrets", "unlock", "wrong"}
        /\ record.at \in {"secrets", "remove"} => record.name \in Names
        /\ record.at = "remove" => ~InUse(record.name)
  <2>1. CASE SaveCall(w)
    <3>1. PICK n \in Names, p \in Profiles, ignore \in BOOLEAN, make_default \in BOOLEAN :
            Request(w, [Idle EXCEPT !.at = "save", !.op = "save", !.name = n, !.profile = p,
                                    !.ignore = ignore, !.flag = make_default, !.key = held])
      BY <2>1 DEF SaveCall, Enter
    <3>2. [Idle EXCEPT !.at = "save", !.op = "save", !.name = n, !.profile = p,
                       !.ignore = ignore, !.flag = make_default, !.key = held].at = "save"
      BY DEF Idle
    <3> QED  BY <3>1, <3>2
  <2>2. CASE SetDefaultCall(w)
    <3>1. PICK n \in DOMAIN rows :
            Request(w, [Idle EXCEPT !.at = "mark", !.op = "default", !.name = n])
      BY <2>2 DEF SetDefaultCall, Enter
    <3>2. [Idle EXCEPT !.at = "mark", !.op = "default", !.name = n].at = "mark"
      BY DEF Idle
    <3> QED  BY <3>1, <3>2
  <2>3. CASE ToggleCall(w)
    <3>1. PICK n \in DOMAIN rows :
            Request(w, [Idle EXCEPT !.at = "toggle", !.op = "toggle", !.name = n,
                                    !.ignore = ~rows[n].ignore])
      BY <2>3 DEF ToggleCall, Enter
    <3>2. [Idle EXCEPT !.at = "toggle", !.op = "toggle", !.name = n,
                       !.ignore = ~rows[n].ignore].at = "toggle"
      BY DEF Idle
    <3> QED  BY <3>1, <3>2
  <2>4. CASE DeleteCall(w)
    <3>1. PICK n \in Names :
            ~InUse(n) /\ Request(w, [Idle EXCEPT !.at = "remove", !.op = "delete", !.name = n])
      BY <2>4 DEF DeleteCall, Enter
    <3>2. /\ [Idle EXCEPT !.at = "remove", !.op = "delete", !.name = n].at = "remove"
          /\ [Idle EXCEPT !.at = "remove", !.op = "delete", !.name = n].name = n
      BY DEF Idle
    <3> QED  BY <3>1, <3>2
  <2>5. CASE ConnectCall(w)
    <3>1. PICK n \in DOMAIN rows, code \in BOOLEAN :
            Request(w, [Idle EXCEPT !.at = "secrets", !.op = "connect", !.name = n,
                                    !.ignore = rows[n].ignore, !.flag = code])
      BY <2>5 DEF ConnectCall, Enter
    <3>2. /\ [Idle EXCEPT !.at = "secrets", !.op = "connect", !.name = n,
                          !.ignore = rows[n].ignore, !.flag = code].at = "secrets"
          /\ [Idle EXCEPT !.at = "secrets", !.op = "connect", !.name = n,
                          !.ignore = rows[n].ignore, !.flag = code].name = n
      BY DEF Idle
    <3> QED  BY <1>2, <3>1, <3>2
  <2>6. CASE LoginCall(w)
    <3>1. PICK client, password :
            Request(w, [Idle EXCEPT !.op = "login", !.password = password, !.client = client,
                                    !.at = IF password = hash THEN "unlock" ELSE "wrong"])
      BY <2>6 DEF LoginCall
    <3>2. [Idle EXCEPT !.op = "login", !.password = password, !.client = client,
                       !.at = IF password = hash THEN "unlock" ELSE "wrong"].at
             \in {"unlock", "wrong"}
      BY DEF Idle
    <3> QED  BY <3>1, <3>2
  <2> QED  BY <2>1, <2>2, <2>3, <2>4, <2>5, <2>6
<1>4. Named(record) /\ record.at \notin Writing
  BY <1>3 DEF Named, Filing, Writing
<1> QED  BY <1>1, <1>2, <1>3, <1>4, RequestBeginsQuietly

LEMMA EndsQuietly ==
  ASSUME JobInv, FileInv, NEW w \in Workers, NEW record, Advances(w, record),
         Named(record), record.at \notin Writing \union {"remove"},
         job[w].at \notin Writing \union {"unlink"},
         UNCHANGED <<files, tunnel, leftover>>, DOMAIN rows' = DOMAIN rows
  PROVE  FileInv'
<1>1. leftover' \subseteq Names
  BY DEF FileInv, PlaceInv
<1> QED  BY <1>1, QuietStep

LEMMA LoginsAreQuiet ==
  ASSUME PanelInv, FileInv, NEW w \in Workers,
         \/ WrongPassword(w) \/ Unlock(w) \/ Create(w) \/ Hold(w) \/ RefuseTransaction(w)
  PROVE  FileInv'
<1>1. UNCHANGED <<rows, files, tunnel, leftover>>
  BY DEF WrongPassword, Unlock, Create, Hold, RefuseTransaction, ghosts
<1>2. JobInv /\ job \in [Workers -> Job] /\ job[w] \in Job
  BY DEF PanelInv, JobInv
<1>3. job[w].at \notin Writing \union {"unlink"}
  BY DEF WrongPassword, Unlock, Create, Hold, RefuseTransaction, At, Writing, Transacting
<1>4. PICK record : Advances(w, record) /\ Named(record) /\ record.at \in {"idle", "create", "hold"}
  <2>1. CASE Return(w)
    BY <1>2, <2>1, ReturnAdvances, IdleIsNamed
  <2>2. CASE Go(w, "create")
    <3>1. Advances(w, [job[w] EXCEPT !.at = "create"])
      BY <1>2, <2>2, GoAdvances
    <3>2. [job[w] EXCEPT !.at = "create"].at = "create"
      BY <1>2 DEF Job
    <3> QED  BY <3>1, <3>2 DEF Named, Filing, Writing
  <2>3. ASSUME NEW key, job' = [job EXCEPT ![w].at = "hold", ![w].key = key]
        PROVE  Advances(w, job'[w]) /\ job'[w].at = "hold"
    BY <1>2, <2>3 DEF Advances, Job
  <2>4. CASE \E key : job' = [job EXCEPT ![w].at = "hold", ![w].key = key]
    BY <2>3, <2>4 DEF Named, Filing, Writing
  <2>5. \/ Return(w) \/ Go(w, "create")
        \/ \E key : job' = [job EXCEPT ![w].at = "hold", ![w].key = key]
    BY DEF WrongPassword, Unlock, Create, Hold, RefuseTransaction
  <2> QED  BY <2>1, <2>2, <2>4, <2>5
<1>5. record.at \notin Writing \union {"remove"}
  BY <1>4 DEF Writing
<1> QED  BY <1>1, <1>2, <1>3, <1>4, <1>5, EndsQuietly

LEMMA RowsAreQuiet ==
  ASSUME PanelInv, FileInv, NEW w \in Workers, MarkRow(w) \/ ToggleRow(w)
  PROVE  FileInv'
<1>1. /\ Return(w) /\ UNCHANGED <<files, tunnel, leftover>> /\ DOMAIN rows' = DOMAIN rows
      /\ job[w].at \in {"mark", "toggle"}
  BY DEF MarkRow, ToggleRow, ghosts, Marked, SetIgnore, At
<1>2. JobInv
  BY DEF PanelInv
<1>3. Idle.at \notin Writing \union {"remove"} /\ job[w].at \notin Writing \union {"unlink"}
  BY <1>1, IdleIsNamed DEF Writing
<1> QED  BY <1>1, <1>2, <1>3, ReturnAdvances, IdleIsNamed, EndsQuietly

LEMMA SecretsAreQuiet ==
  ASSUME PanelInv, FileInv, NEW w \in Workers, Secrets(w)
  PROVE  FileInv'
<1>1. UNCHANGED <<rows, files, tunnel, leftover>> /\ job[w].at = "secrets"
  BY DEF Secrets, ghosts, At
<1>2. JobInv /\ job \in [Workers -> Job] /\ job[w] \in Job /\ job[w].name \in Names
  BY <1>1 DEF PanelInv, JobInv, FileInv, PlaceInv, Named
<1>3. PICK record : Advances(w, record) /\ Named(record) /\ record.at \in {"idle", "open"}
  <2>1. CASE Return(w)
    BY <1>2, <2>1, ReturnAdvances, IdleIsNamed
  <2>2. CASE /\ held # None /\ job[w].name \in DOMAIN rows
             /\ job' = [job EXCEPT ![w].at = "open", ![w].profile = rows[job[w].name].profile,
                                   ![w].key = held]
    <3>1. rows[job[w].name].profile \in Profiles
      BY <2>2 DEF PanelInv, KeyInv, IsTable, Row
    <3>2. /\ job'[w].at = "open" /\ job'[w].name \in Names /\ job'[w].profile \in Profiles
          /\ Advances(w, job'[w])
      BY <1>2, <2>2, <3>1 DEF Advances, Job
    <3> QED  BY <3>2 DEF Named
  <2> QED  BY <2>1, <2>2 DEF Secrets
<1>4. record.at \notin Writing \union {"remove"} /\ job[w].at \notin Writing \union {"unlink"}
  BY <1>1, <1>3 DEF Writing
<1> QED  BY <1>1, <1>2, <1>3, <1>4, EndsQuietly

\* A saved row takes its name from the files that were left over.
LEMMA SaveIsQuiet ==
  ASSUME PanelInv, FileInv, NEW w \in Workers, SaveRow(w)
  PROVE  FileInv'
<1>1. /\ job[w].at = "save" /\ UNCHANGED <<files, tunnel>>
      /\ job' = [job EXCEPT ![w] = [@ EXCEPT !.at = "open", !.flag = FALSE]]
      /\ leftover' = leftover \ DOMAIN rows'
      /\ rows' = SaveConnection(rows, job[w].name, job[w].profile, job[w].ignore, job[w].key,
                                job[w].flag)
  BY DEF SaveRow, At, Commit
<1>2. JobInv /\ job[w] \in Job /\ Sound(job[w])
  BY DEF PanelInv, JobInv
<1>3. /\ job[w].name \in Names /\ job[w].profile \in Profiles /\ job[w].key \in Keys
      /\ job[w].ignore \in BOOLEAN /\ job[w].flag \in BOOLEAN
  BY <1>1, <1>2 DEF Sound, Job
<1>4. DOMAIN rows \subseteq DOMAIN rows'
  BY <1>1 DEF SaveConnection, Marked
<1>5. PICK record : Advances(w, record) /\ Named(record) /\ record.at = "open"
  <2> DEFINE record == [job[w] EXCEPT !.at = "open", !.flag = FALSE]
  <2>1. record.at = "open" /\ record.name = job[w].name /\ record.profile = job[w].profile
    BY <1>2 DEF Job
  <2>2. Advances(w, record)
    BY <1>1, <1>2, ExceptAdvances
  <2> HIDE DEF record
  <2>3. Named(record)
    BY <1>3, <2>1 DEF Named
  <2> QED  BY <2>1, <2>2, <2>3
<1>6. /\ leftover' \subseteq Names /\ leftover \subseteq leftover' \union DOMAIN rows'
      /\ job[w].at \notin Writing \union {"unlink"} /\ record.at \notin Writing
  BY <1>1, <1>5 DEF FileInv, PlaceInv, Writing
<1> QED  BY <1>1, <1>4, <1>5, <1>6, QuietStep

\* A row that goes leaves its worker before the removal of the file.
LEMMA RemoveKeepsFiles ==
  ASSUME PanelInv, FileInv, NEW w \in Workers, RemoveRow(w)
  PROVE  FileInv'
<1>1. job[w].at = "remove" /\ UNCHANGED <<files, tunnel>>
  BY DEF RemoveRow, At
<1>2. JobInv /\ job[w] \in Job /\ job[w].name \in Names
  BY <1>1 DEF PanelInv, JobInv, FileInv, PlaceInv, Named
<1>3. job[w].at \notin Writing \union {"unlink"} /\ Idle.at \notin Writing \union {"remove"}
  BY <1>1, IdleIsNamed DEF Writing
<1>4. CASE job[w].name \notin DOMAIN rows
  <2>1. Return(w) /\ UNCHANGED <<rows, leftover>>
    BY <1>4 DEF RemoveRow, ghosts
  <2> QED  BY <1>1, <1>2, <1>3, <2>1, ReturnAdvances, IdleIsNamed, EndsQuietly
<1>5. CASE job[w].name \in DOMAIN rows
  <2> DEFINE n == job[w].name
             record == [job[w] EXCEPT !.at = "unlink"]
  <2>1. /\ Go(w, "unlink") /\ leftover' = leftover \ DOMAIN rows'
        /\ rows' = DeleteConnection(rows, n)
    BY <1>5 DEF RemoveRow, Commit
  <2>2. DOMAIN rows' = DOMAIN rows \ {n}
    <3>1. IsTable(rows)
      BY DEF PanelInv, KeyInv
    <3> QED  BY <2>1, <3>1, DeletedTable
  <2>3. record.at = "unlink" /\ record.name = n /\ Advances(w, record)
    BY <1>2, <2>1, GoAdvances DEF Job
  <2> HIDE DEF record
  <2>4. PlaceInv'
    <3>1. \A v \in Workers : Named(job'[v])
      BY <1>2, <2>3 DEF FileInv, PlaceInv, Named, Advances, Writing
    <3>2. ASSUME NEW m \in Names, NEW v \in Workers
          PROVE  /\ files'[m].at[v] # "closed" => job'[v].at = "write" /\ job'[v].name = m
                 /\ files'[m].at[v] = "temp" => files'[m].temp # Absent
                 /\ files'[m].at[v] = "final" => files'[m].final # Absent
      BY <1>1, <2>3 DEF FileInv, PlaceInv, Advances
    <3>3. files' \in [Names -> File] /\ leftover' \subseteq Names /\ tunnel' \in Tunnel
      BY <1>1, <2>1 DEF FileInv, PlaceInv
    <3> QED  BY <3>1, <3>2, <3>3 DEF PlaceInv, Named
  <2>5. WriterInv'
    <3> SUFFICES ASSUME NEW v \in Workers, job'[v].at \in Writing, ~job'[v].mixed
                 PROVE  Undisturbed(v)'
      BY DEF WriterInv
    <3>1. v # w /\ job[v].at \in Writing /\ ~job[v].mixed /\ Undisturbed(v)
      BY <2>3 DEF Advances, FileInv, WriterInv, Writing
    <3>2. \A u \in Workers \ {v} : job'[u].at \in Writing => job'[u].name # job'[v].name
      BY <2>3, <3>1 DEF Advances, Undisturbed, Writing
    <3> QED  BY <1>1, <3>1, <3>2, <2>3 DEF Advances, Undisturbed
  <2>6. LaunchInv' /\ AskedInv'
    BY <1>1, <2>3 DEF FileInv, LaunchInv, LaunchedAsResolved, AskedInv, Advances, At, InUse, Busy
  <2>7. FilesFollowRows'
    <3> SUFFICES ASSUME NEW m \in Names \ DOMAIN rows', files'[m].final # Absent
                 PROVE  m \in leftover' \/ \E v \in Workers : job'[v].at = "unlink" /\ job'[v].name = m
      BY DEF FilesFollowRows, At
    <3>1. CASE m = n
      BY <2>3, <3>1 DEF Advances
    <3>2. CASE m # n
      <4>1. m \in leftover \/ \E v \in Workers : job[v].at = "unlink" /\ job[v].name = m
        BY <1>1, <2>2, <3>2 DEF FileInv, FilesFollowRows, At
      <4> QED  BY <1>1, <2>1, <2>3, <4>1 DEF Advances
    <3> QED  BY <3>1, <3>2
  <2> QED  BY <2>4, <2>5, <2>6, <2>7 DEF FileInv
<1> QED  BY <1>4, <1>5

-----------------------------------------------------------------------------
(* The steps that change a file.                                           *)

\* One file changes, by the hand of a worker that is at it; nobody's row does.
\* What is left to be seen is the file itself and the workers on it.
FileChange(w, n, f, record) ==
  /\ n = job[w].name /\ job[w].at \in Filing /\ files' = [files EXCEPT ![n] = f]
  /\ Advances(w, record) /\ Named(record) /\ record.at \notin {"unlink", "remove"}
  /\ record.at \in Writing => record.name = n
  /\ \A v \in Workers \ {w} : job[v].at \in Writing /\ job[v].name = n => job'[v].mixed
  /\ record.at \in Writing => Undisturbed(w)' \/ record.mixed
  /\ \A v \in Workers :
       /\ f.at[v] # "closed" => IF v = w THEN record.at = "write" ELSE files[n].at[v] # "closed"
       /\ f.at[v] = "temp" => f.temp # Absent
       /\ f.at[v] = "final" => f.final # Absent
  /\ tunnel' = tunnel \/ Disturb(n)
  /\ f.final = files[n].final \/ Disturb(n)
  /\ rows' = rows /\ leftover' \subseteq Names
  /\ \A m \in Names \ {n} : m \in leftover => m \in leftover'
  /\ \/ n \in DOMAIN rows \union leftover' \/ f.final = Absent
     \/ job[w].at # "unlink" /\ files[n].final # Absent /\ leftover' = leftover

LEMMA FileStep ==
  ASSUME PanelInv, FileInv, NEW w \in Workers, NEW n \in Names, NEW f \in File, NEW record,
         FileChange(w, n, f, record)
  PROVE  FileInv'
<1> USE DEF FileChange
<1>1. /\ files \in [Names -> File] /\ files'[n] = f
      /\ \A m \in Names \ {n} : files'[m] = files[m]
  BY DEF FileInv, PlaceInv
<1>2. tunnel \in Tunnel
  BY DEF FileInv, PlaceInv
<1>3. /\ tunnel' \in Tunnel
      /\ tunnel'.state = tunnel.state /\ tunnel'.name = tunnel.name
      /\ tunnel'.alive = tunnel.alive
      /\ tunnel'.meant = tunnel.meant /\ tunnel'.content = tunnel.content
      /\ tunnel.mixed => tunnel'.mixed
      /\ Disturb(n) /\ tunnel.state = "starting" /\ tunnel.name = n => tunnel'.mixed
  BY <1>2 DEF Disturb, Tunnel
<1>4. PlaceInv'
  <2>1. \A v \in Workers : Named(job'[v])
    BY DEF FileInv, PlaceInv, Named, Advances
  <2>2. ASSUME NEW m \in Names, NEW v \in Workers
        PROVE  /\ files'[m].at[v] # "closed" => job'[v].at = "write" /\ job'[v].name = m
               /\ files'[m].at[v] = "temp" => files'[m].temp # Absent
               /\ files'[m].at[v] = "final" => files'[m].final # Absent
    <3>1. /\ files[m].at[v] # "closed" => job[v].at = "write" /\ job[v].name = m
          /\ files[m].at[v] = "temp" => files[m].temp # Absent
          /\ files[m].at[v] = "final" => files[m].final # Absent
      BY DEF FileInv, PlaceInv
    <3>2. v # w => job'[v].at = job[v].at /\ job'[v].name = job[v].name
      BY DEF Advances
    <3>3. job'[w] = record /\ (record.at = "write" => record.name = n)
      BY DEF Advances, Writing
    <3> QED  BY <1>1, <3>1, <3>2, <3>3
  <2>3. files' \in [Names -> File]
    BY <1>1
  <2> QED  BY <1>3, <2>1, <2>2, <2>3 DEF PlaceInv, Named
<1>5. WriterInv'
  <2> SUFFICES ASSUME NEW v \in Workers, job'[v].at \in Writing, ~job'[v].mixed
               PROVE  Undisturbed(v)'
    BY DEF WriterInv
  <2>1. CASE v = w
    BY <2>1 DEF Advances
  <2>2. CASE v # w
    <3>1. job[v].at \in Writing /\ ~job[v].mixed /\ Undisturbed(v) /\ job[v].name # n
      BY <2>2 DEF Advances, FileInv, WriterInv
    <3>2. job[v].name \in Names
      BY <3>1 DEF FileInv, PlaceInv, Named, Filing
    <3>3. \A u \in Workers \ {v} : job'[u].at \in Writing => job'[u].name # job'[v].name
      BY <2>2, <3>1 DEF Advances, Undisturbed
    <3>4. files'[job[v].name] = files[job[v].name]
      BY <1>1, <3>1, <3>2
    <3>5. /\ job'[v].at = job[v].at /\ job'[v].name = job[v].name
          /\ job'[v].profile = job[v].profile /\ job'[v].ignore = job[v].ignore
      BY <2>2 DEF Advances
    <3> QED  BY <3>1, <3>3, <3>4, <3>5 DEF Undisturbed
  <2> QED  BY <2>1, <2>2
<1>6. LaunchInv'
  <2>1. /\ tunnel.state = "starting" =>
             /\ tunnel.name \in Names /\ ~tunnel.alive
             /\ files[tunnel.name].final = tunnel.meant \/ tunnel.mixed
        /\ LaunchedAsResolved
    BY DEF FileInv, LaunchInv
  <2>2. tunnel.state = "starting" =>
          files'[tunnel.name].final = files[tunnel.name].final \/ tunnel'.mixed
    BY <1>1, <1>3, <2>1
  <2> QED  BY <1>3, <2>1, <2>2 DEF LaunchInv, LaunchedAsResolved
<1>7. AskedInv'
  BY <1>3 DEF FileInv, AskedInv, Advances, At, InUse, Busy
<1>8. FilesFollowRows'
  <2> SUFFICES ASSUME NEW m \in Names \ DOMAIN rows, files'[m].final # Absent
               PROVE  m \in leftover' \/ \E v \in Workers : job'[v].at = "unlink" /\ job'[v].name = m
    BY DEF FilesFollowRows, At
  <2>1. CASE m \in leftover'
    BY <2>1
  <2>2. CASE m \notin leftover'
    <3>1. files[m].final # Absent /\ m \notin leftover /\ (m = n => job[w].at # "unlink")
      BY <1>1, <2>2
    <3>2. PICK v \in Workers : job[v].at = "unlink" /\ job[v].name = m
      BY <3>1 DEF FileInv, FilesFollowRows, At
    <3> QED  BY <3>1, <3>2 DEF Advances
  <2> QED  BY <2>1, <2>2
<1> QED  BY <1>4, <1>5, <1>6, <1>7, <1>8 DEF FileInv

LEMMA OpenKeepsFiles ==
  ASSUME PanelInv, FileInv, NEW w \in Workers, OpenFile(w)
  PROVE  FileInv'
<1>1. JobInv /\ job[w] \in Job /\ job[w].at = "open" /\ UNCHANGED <<rows, tunnel, leftover>>
  BY DEF PanelInv, JobInv, OpenFile, At, ghosts
<1>2. job[w].name \in Names /\ job[w].profile \in Profiles /\ leftover \subseteq Names
  BY <1>1 DEF FileInv, PlaceInv, Named, Filing
<1>3. PICK n \in Names : n = job[w].name
  BY <1>2
<1>4. files \in [Names -> File] /\ files[n] \in File
  BY DEF FileInv, PlaceInv
<1>5. PICK f \in File :
        /\ files' = [files EXCEPT ![n] = f] /\ f.temp = Empty /\ f.final = files[n].final
        /\ f.at[w] = "temp" /\ \A v \in Workers \ {w} : f.at[v] = files[n].at[v]
  <2>1. files' = [files EXCEPT ![n] = Disk!Opened(files[n], w)]
    BY <1>3, <1>4 DEF OpenFile
  <2> QED  BY <1>4, <2>1, OpenedFile, ZenonT(60)
<1>6. PICK mixed \in BOOLEAN :
        /\ mixed <=> \E v \in Workers \ {w} : job[v].name = n /\ job[v].at \in Writing
        /\ Overtake(w, [job[w] EXCEPT !.at = "write", !.mixed = mixed], Writing)
  BY <1>3 DEF OpenFile
<1>7. PICK record :
        /\ record.at = "write" /\ record.name = n /\ record.profile \in Profiles
        /\ record.mixed = mixed /\ Overtake(w, record, Writing)
  <2>1. /\ [job[w] EXCEPT !.at = "write", !.mixed = mixed].at = "write"
        /\ [job[w] EXCEPT !.at = "write", !.mixed = mixed].name = job[w].name
        /\ [job[w] EXCEPT !.at = "write", !.mixed = mixed].profile = job[w].profile
        /\ [job[w] EXCEPT !.at = "write", !.mixed = mixed].mixed = mixed
    BY <1>1 DEF Job
  <2> QED  BY <1>2, <1>3, <1>6, <2>1
<1>8. /\ Advances(w, record) /\ job'[w] = record
      /\ \A v \in Workers \ {w} : job[v].at \in Writing /\ job[v].name = n => job'[v].mixed
  BY <1>1, <1>3, <1>7, OvertakingAdvances DEF Advances
<1>9. /\ Named(record) /\ record.at \notin {"unlink", "remove"} /\ job[w].at \in Filing
  BY <1>1, <1>3, <1>7 DEF Named, Filing, Writing
<1>10. Undisturbed(w)' \/ record.mixed
  <2> SUFFICES ASSUME ~mixed PROVE Undisturbed(w)'
    BY <1>7
  <2>1. \A v \in Workers \ {w} : job'[v].at \in Writing => job'[v].name # n
    BY <1>6, <1>8 DEF Advances
  <2>2. files'[n] = f
    BY <1>4, <1>5
  <2> QED  BY <1>5, <1>7, <1>8, <2>1, <2>2 DEF Undisturbed
<1>11. \A v \in Workers :
         /\ f.at[v] # "closed" => IF v = w THEN record.at = "write" ELSE files[n].at[v] # "closed"
         /\ f.at[v] = "temp" => f.temp # Absent
         /\ f.at[v] = "final" => f.final # Absent
  BY <1>5, <1>7, DiskAssumption DEF FileInv, PlaceInv
<1>12. n \in DOMAIN rows \/ n \in leftover' \/ f.final = Absent
         \/ (job[w].at # "unlink" /\ files[n].final # Absent /\ leftover' = leftover)
  BY <1>1, <1>5
<1>13. FileChange(w, n, f, record)
  BY <1>1, <1>2, <1>3, <1>5, <1>7, <1>8, <1>9, <1>10, <1>11, <1>12 DEF FileChange
<1> QED  BY <1>13, FileStep

LEMMA WriteKeepsFiles ==
  ASSUME PanelInv, FileInv, NEW w \in Workers, WriteFile(w)
  PROVE  FileInv'
<1>1. JobInv /\ job[w] \in Job /\ job[w].at = "write" /\ UNCHANGED <<rows, leftover>>
  BY DEF PanelInv, JobInv, WriteFile, At, ghosts
<1>2. /\ job[w].name \in Names /\ job[w].profile \in Profiles /\ job[w].ignore \in BOOLEAN
      /\ leftover \subseteq Names
  BY <1>1 DEF FileInv, PlaceInv, Named, Filing, Writing, Job
<1>3. PICK n \in Names : n = job[w].name
  BY <1>2
<1>4. files \in [Names -> File] /\ files[n] \in File
  BY DEF FileInv, PlaceInv
<1>5. PICK content \in OnDisk :
        content = Content(job[w].profile, job[w].ignore) /\ content # Absent
  BY <1>2, ContentOfProfile
<1>6. PICK f \in File :
        /\ files' = [files EXCEPT ![n] = f]
        /\ f.at[w] = "closed" /\ \A v \in Workers \ {w} : f.at[v] = files[n].at[v]
        /\ \/ /\ files[n].at[w] = "temp" /\ f.final = files[n].final /\ f.temp # Absent
              /\ files[n].temp = Empty => f.temp = content
           \/ files[n].at[w] = "final" /\ f.temp = files[n].temp /\ f.final # Absent
           \/ files[n].at[w] \notin {"temp", "final"} /\ f.temp = files[n].temp /\ f.final = files[n].final
  <2>1. PICK f \in Disk!Written(files[n], w, content) : files' = [files EXCEPT ![n] = f]
    BY <1>3, <1>5 DEF WriteFile
  <2>2. /\ f \in File
        /\ f.at[w] = "closed" /\ \A v \in Workers \ {w} : f.at[v] = files[n].at[v]
        /\ \/ /\ files[n].at[w] = "temp" /\ f.final = files[n].final /\ f.temp # Absent
              /\ files[n].temp = Empty => f.temp = content
           \/ files[n].at[w] = "final" /\ f.temp = files[n].temp /\ f.final # Absent
           \/ files[n].at[w] \notin {"temp", "final"} /\ f.temp = files[n].temp /\ f.final = files[n].final
    <3>1. PICK was \in File : was = files[n]
      BY <1>4
    <3> QED  BY <1>5, <2>1, <3>1, WrittenFile
  <2> QED  BY <2>1, <2>2
<1>7. PICK record :
        /\ record.at = "publish" /\ record.name = n /\ record.profile = job[w].profile
        /\ record.ignore = job[w].ignore /\ record.mixed = job[w].mixed
        /\ Overtake(w, record, Writing)
  <2>1. /\ [job[w] EXCEPT !.at = "publish"].at = "publish"
        /\ [job[w] EXCEPT !.at = "publish"].name = job[w].name
        /\ [job[w] EXCEPT !.at = "publish"].profile = job[w].profile
        /\ [job[w] EXCEPT !.at = "publish"].ignore = job[w].ignore
        /\ [job[w] EXCEPT !.at = "publish"].mixed = job[w].mixed
    BY <1>1 DEF Job
  <2> QED  BY <1>3, <2>1 DEF WriteFile
<1>8. /\ Advances(w, record) /\ job'[w] = record
      /\ \A v \in Workers \ {w} : job[v].at \in Writing /\ job[v].name = n => job'[v].mixed
  BY <1>1, <1>3, <1>7, OvertakingAdvances DEF Advances
<1>9. /\ Named(record) /\ record.at \notin {"unlink", "remove"} /\ job[w].at \in Filing
  BY <1>1, <1>2, <1>7 DEF Named, Filing, Writing
<1>10. Undisturbed(w)' \/ record.mixed
  <2> SUFFICES ASSUME ~job[w].mixed PROVE Undisturbed(w)'
    BY <1>7
  <2>1. Undisturbed(w)
    BY <1>1 DEF FileInv, WriterInv, Writing
  <2>2. \A v \in Workers \ {w} : job'[v].at \in Writing => job'[v].name # n
    BY <1>3, <1>8, <2>1 DEF Advances, Undisturbed
  <2>3. files'[n].temp = content
    BY <1>1, <1>3, <1>4, <1>6, <2>1 DEF Undisturbed
  <2> QED  BY <1>5, <1>7, <1>8, <2>2, <2>3 DEF Undisturbed
<1>11. \A v \in Workers :
         /\ f.at[v] # "closed" => IF v = w THEN record.at = "write" ELSE files[n].at[v] # "closed"
         /\ f.at[v] = "temp" => f.temp # Absent
         /\ f.at[v] = "final" => f.final # Absent
  BY <1>6, <1>7 DEF FileInv, PlaceInv
<1>12. n \in DOMAIN rows \/ n \in leftover' \/ f.final = Absent
         \/ (job[w].at # "unlink" /\ files[n].final # Absent /\ leftover' = leftover)
  <2>1. files[n].at[w] = "final" => files[n].final # Absent
    BY DEF FileInv, PlaceInv
  <2> QED  BY <1>1, <1>6, <2>1
<1>13. Disturb(n)
  BY <1>3 DEF WriteFile
<1>14. FileChange(w, n, f, record)
  BY <1>1, <1>2, <1>3, <1>6, <1>7, <1>8, <1>9, <1>10, <1>11, <1>12, <1>13
     DEF FileChange
<1> QED  BY <1>14, FileStep

LEMMA FailureKeepsFiles ==
  ASSUME PanelInv, FileInv, NEW w \in Workers, WriteFails(w)
  PROVE  FileInv'
<1>1. /\ JobInv /\ job[w] \in Job /\ job[w].at \in {"write", "publish"}
      /\ UNCHANGED <<rows, tunnel, leftover>>
  BY DEF PanelInv, JobInv, WriteFails, At, ghosts
<1>2. job[w].name \in Names /\ leftover \subseteq Names
  BY <1>1 DEF FileInv, PlaceInv, Named, Filing, Writing
<1>3. PICK n \in Names : n = job[w].name
  BY <1>2
<1>4. files \in [Names -> File] /\ files[n] \in File
  BY DEF FileInv, PlaceInv
<1>5. PICK f \in File :
        /\ files' = [files EXCEPT ![n] = f] /\ f.final = files[n].final
        /\ f.at[w] = "closed"
        /\ \A v \in Workers \ {w} :
             f.at[v] = IF files[n].at[v] = "temp" THEN "lost" ELSE files[n].at[v]
  <2>1. files' = [files EXCEPT ![n] = Disk!Abandoned(files[n], w)]
    BY <1>3, <1>4 DEF WriteFails
  <2> QED  BY <1>4, <2>1, AbandonedFile, ZenonT(60)
<1>6. Overtake(w, Idle, Writing)
  BY DEF WriteFails
<1>7. PICK record : record = Idle
  OBVIOUS
<1>8. /\ Advances(w, record)
      /\ \A v \in Workers \ {w} : job[v].at \in Writing /\ job[v].name = n => job'[v].mixed
  BY <1>1, <1>3, <1>6, <1>7, OvertakingAdvances
<1>9. /\ Named(record) /\ record.at \notin {"unlink", "remove"} \union Writing /\ job[w].at \in Filing
  BY <1>1, <1>7, IdleIsNamed DEF Filing, Writing
<1>10. \A v \in Workers :
         /\ f.at[v] # "closed" => IF v = w THEN record.at = "write" ELSE files[n].at[v] # "closed"
         /\ f.at[v] = "temp" => f.temp # Absent
         /\ f.at[v] = "final" => f.final # Absent
  BY <1>5 DEF FileInv, PlaceInv
<1>11. n \in DOMAIN rows \/ n \in leftover' \/ f.final = Absent
         \/ (job[w].at # "unlink" /\ files[n].final # Absent /\ leftover' = leftover)
  BY <1>1, <1>5
<1>12. FileChange(w, n, f, record)
  BY <1>1, <1>2, <1>3, <1>5, <1>8, <1>9, <1>10, <1>11 DEF FileChange
<1> QED  BY <1>12, FileStep

LEMMA PublishKeepsFiles ==
  ASSUME PanelInv, FileInv, NEW w \in Workers, Publish(w)
  PROVE  FileInv'
<1>1. JobInv /\ job[w] \in Job /\ job[w].at = "publish" /\ UNCHANGED rows
  BY DEF PanelInv, JobInv, Publish, At
<1>2. job[w].name \in Names /\ job[w].profile \in Profiles /\ leftover \subseteq Names
  BY <1>1 DEF FileInv, PlaceInv, Named, Filing, Writing
<1>3. PICK n \in Names : n = job[w].name
  BY <1>2
<1>4. /\ files \in [Names -> File] /\ files[n] \in File /\ files[n].temp # Absent
      /\ leftover' = IF n \in DOMAIN rows THEN leftover ELSE leftover \union {n}
      /\ Disturb(n)
  BY <1>3 DEF FileInv, PlaceInv, Publish, Disk!CanPublish
<1>5. PICK f \in File :
        /\ files' = [files EXCEPT ![n] = f] /\ f.final = files[n].temp
        /\ \A v \in Workers :
             /\ f.at[v] \in {"closed", "final", "lost"}
             /\ f.at[v] = "closed" <=> files[n].at[v] = "closed"
             /\ f.at[v] = "final" <=> files[n].at[v] = "temp"
  <2>1. files' = [files EXCEPT ![n] = Disk!Published(files[n], w)]
    BY <1>3, <1>4 DEF Publish
  <2> QED  BY <1>4, <2>1, PublishedFile
<1>6. PICK record :
        /\ \/ /\ record.at = "claim" /\ record.name = n /\ record.profile = job[w].profile
              /\ record.ignore = job[w].ignore /\ record.mixed = job[w].mixed
           \/ record = Idle
        /\ Overtake(w, record, Writing)
  <2>1. /\ [job[w] EXCEPT !.at = "claim"].at = "claim"
        /\ [job[w] EXCEPT !.at = "claim"].name = job[w].name
        /\ [job[w] EXCEPT !.at = "claim"].profile = job[w].profile
        /\ [job[w] EXCEPT !.at = "claim"].ignore = job[w].ignore
        /\ [job[w] EXCEPT !.at = "claim"].mixed = job[w].mixed
    BY <1>1 DEF Job
  <2>2. Overtake(w, [job[w] EXCEPT !.at = "claim"], Writing) \/ Overtake(w, Idle, Writing)
    BY DEF Publish
  <2> QED  BY <1>3, <2>1, <2>2
<1>7. /\ Advances(w, record) /\ job'[w] = record
      /\ \A v \in Workers \ {w} : job[v].at \in Writing /\ job[v].name = n => job'[v].mixed
  BY <1>1, <1>3, <1>6, OvertakingAdvances DEF Advances
<1>8. /\ Named(record) /\ record.at \notin {"unlink", "remove"} /\ job[w].at \in Filing
      /\ record.at \in Writing => record.name = n /\ record.at = "claim"
  BY <1>1, <1>2, <1>6, IdleIsNamed DEF Named, Filing, Writing
<1>9. record.at \in Writing => Undisturbed(w)' \/ record.mixed
  <2> SUFFICES ASSUME record.at \in Writing, ~record.mixed PROVE Undisturbed(w)'
    OBVIOUS
  <2>1. /\ record.at = "claim" /\ record.name = n /\ record.profile = job[w].profile
        /\ record.ignore = job[w].ignore /\ ~job[w].mixed
    BY <1>6, <1>8, IdleIsNamed DEF Writing
  <2>2. Undisturbed(w)
    BY <1>1, <2>1 DEF FileInv, WriterInv, Writing
  <2>3. \A v \in Workers \ {w} : job'[v].at \in Writing => job'[v].name # n
    BY <1>3, <1>7, <2>2 DEF Advances, Undisturbed
  <2>4. files'[n].final = Content(job[w].profile, job[w].ignore)
    BY <1>1, <1>3, <1>4, <1>5, <2>2 DEF Undisturbed
  <2> QED  BY <1>7, <2>1, <2>3, <2>4 DEF Undisturbed
<1>10. \A v \in Workers :
         /\ f.at[v] # "closed" => IF v = w THEN record.at = "write" ELSE files[n].at[v] # "closed"
         /\ f.at[v] = "temp" => f.temp # Absent
         /\ f.at[v] = "final" => f.final # Absent
  <2>1. files[n].at[w] = "closed"
    BY <1>1 DEF FileInv, PlaceInv
  <2> QED  BY <1>4, <1>5, <2>1
<1>11. /\ n \in DOMAIN rows \union leftover' /\ leftover' \subseteq Names
       /\ \A m \in Names \ {n} : m \in leftover => m \in leftover'
  BY <1>2, <1>4
<1>12. FileChange(w, n, f, record)
  BY <1>1, <1>3, <1>4, <1>5, <1>7, <1>8, <1>9, <1>10, <1>11 DEF FileChange
<1> QED  BY <1>12, FileStep

LEMMA UnlinkKeepsFiles ==
  ASSUME PanelInv, FileInv, NEW w \in Workers, Unlink(w)
  PROVE  FileInv'
<1>1. JobInv /\ job[w] \in Job /\ job[w].at = "unlink" /\ UNCHANGED rows
  BY DEF PanelInv, JobInv, Unlink, At
<1>2. job[w].name \in Names /\ leftover \subseteq Names
  BY <1>1 DEF FileInv, PlaceInv, Named, Filing
<1>3. PICK n \in Names : n = job[w].name
  BY <1>2
<1>4. /\ files \in [Names -> File] /\ files[n] \in File
      /\ leftover' = leftover \ {n} /\ Disturb(n)
  BY <1>3 DEF FileInv, PlaceInv, Unlink
<1>5. PICK f \in File :
        /\ files' = [files EXCEPT ![n] = f] /\ f.final = Absent /\ f.temp = files[n].temp
        /\ \A v \in Workers :
             f.at[v] = IF files[n].at[v] = "final" THEN "lost" ELSE files[n].at[v]
  <2>1. files' = [files EXCEPT ![n] = Disk!Unlinked(files[n])]
    BY <1>3, <1>4 DEF Unlink
  <2> QED  BY <1>4, <2>1, UnlinkedFile
<1>6. Overtake(w, Idle, Writing)
  BY DEF Unlink
<1>7. PICK record : record = Idle
  OBVIOUS
<1>8. /\ Advances(w, record)
      /\ \A v \in Workers \ {w} : job[v].at \in Writing /\ job[v].name = n => job'[v].mixed
  BY <1>1, <1>3, <1>6, <1>7, OvertakingAdvances
<1>9. /\ Named(record) /\ record.at \notin {"unlink", "remove"} \union Writing /\ job[w].at \in Filing
  BY <1>1, <1>7, IdleIsNamed DEF Filing, Writing
<1>10. \A v \in Workers :
         /\ f.at[v] # "closed" => IF v = w THEN record.at = "write" ELSE files[n].at[v] # "closed"
         /\ f.at[v] = "temp" => f.temp # Absent
         /\ f.at[v] = "final" => f.final # Absent
  <2>1. files[n].at[w] = "closed"
    BY <1>1 DEF FileInv, PlaceInv
  <2> QED  BY <1>5, <2>1 DEF FileInv, PlaceInv
<1>11. /\ leftover' \subseteq Names
       /\ \A m \in Names \ {n} : m \in leftover => m \in leftover'
  BY <1>2, <1>4
<1>12. FileChange(w, n, f, record)
  BY <1>1, <1>3, <1>4, <1>5, <1>8, <1>9, <1>10, <1>11 DEF FileChange
<1> QED  BY <1>12, FileStep

-----------------------------------------------------------------------------
(* The tunnel, the command and the restart.                                *)

\* Who claims the tunnel without having been overtaken finds its profile in place,
\* and overtakes whoever is about to delete the connection.
LEMMA ClaimKeepsFiles ==
  ASSUME PanelInv, FileInv, NEW w \in Workers, Claim(w)
  PROVE  FileInv'
<1>1. /\ JobInv /\ job[w] \in Job /\ job[w].at = "claim" /\ UNCHANGED <<files, rows, leftover>>
  BY DEF PanelInv, JobInv, Claim, At, ghosts
<1>2. /\ job[w].name \in Names /\ job[w].profile \in Profiles /\ job[w].ignore \in BOOLEAN
      /\ job[w].mixed \in BOOLEAN
  BY <1>1 DEF FileInv, PlaceInv, Named, Filing, Writing, Job
<1>3. \/ UNCHANGED tunnel /\ Return(w)
      \/ /\ tunnel' = [NoTunnel EXCEPT !.state = "starting", !.name = job[w].name,
                       !.meant = Content(job[w].profile, job[w].ignore), !.mixed = job[w].mixed]
         /\ Overtake(w, Idle, {"remove"})
  BY DEF Claim
<1>4. Advances(w, Idle)
  BY <1>1, <1>3, ReturnAdvances, OvertakingAdvances
<1>5. PlaceInv'
  <2>1. tunnel' \in Tunnel
    <3>1. Content(job[w].profile, job[w].ignore) \in OnDisk /\ Absent \in OnDisk
      BY <1>2, ContentOfProfile DEF OnDisk
    <3>2. tunnel \in Tunnel /\ NoTunnel \in Tunnel
      BY <3>1 DEF FileInv, PlaceInv, Tunnel, NoTunnel
    <3> QED  BY <1>2, <1>3, <3>1, <3>2 DEF Tunnel
  <2>2. \A v \in Workers : Named(job'[v])
    BY <1>4, IdleIsNamed DEF FileInv, PlaceInv, Named, Advances
  <2>3. ASSUME NEW m \in Names, NEW v \in Workers
        PROVE  /\ files'[m].at[v] # "closed" => job'[v].at = "write" /\ job'[v].name = m
               /\ files'[m].at[v] = "temp" => files'[m].temp # Absent
               /\ files'[m].at[v] = "final" => files'[m].final # Absent
    BY <1>1, <1>4 DEF FileInv, PlaceInv, Advances
  <2> QED  BY <1>1, <2>1, <2>2, <2>3 DEF FileInv, PlaceInv, Named
<1>6. WriterInv'
  <2> SUFFICES ASSUME NEW v \in Workers, job'[v].at \in Writing, ~job'[v].mixed
               PROVE  Undisturbed(v)'
    BY DEF WriterInv
  <2>1. v # w /\ job[v].at \in Writing /\ ~job[v].mixed /\ Undisturbed(v)
    BY <1>4, IdleIsNamed DEF Advances, FileInv, WriterInv, Writing
  <2>2. \A u \in Workers \ {v} : job'[u].at \in Writing => job'[u].name # job'[v].name
    BY <1>4, IdleIsNamed, <2>1 DEF Advances, Undisturbed, Writing
  <2> QED  BY <1>1, <1>4, <2>1, <2>2 DEF Advances, Undisturbed
<1>7. LaunchInv'
  <2>1. CASE UNCHANGED tunnel
    BY <1>1, <2>1 DEF FileInv, LaunchInv, LaunchedAsResolved
  <2>2. CASE tunnel' = [NoTunnel EXCEPT !.state = "starting", !.name = job[w].name,
                        !.meant = Content(job[w].profile, job[w].ignore), !.mixed = job[w].mixed]
    <3>1. files[job[w].name].final = Content(job[w].profile, job[w].ignore) \/ job[w].mixed
      BY <1>1 DEF FileInv, WriterInv, Undisturbed, Writing
    <3> QED  BY <1>1, <1>2, <2>2, <3>1 DEF LaunchInv, LaunchedAsResolved, NoTunnel
  <2> QED  BY <1>3, <2>1, <2>2
<1>8. AskedInv'
  <2> SUFFICES ASSUME NEW v \in Workers, job'[v].at = "remove", InUse(job[v].name)'
               PROVE  job'[v].mixed
    BY DEF AskedInv, At
  <2>1. v # w /\ job[v].at = "remove" /\ job'[v].name = job[v].name
    BY <1>4, IdleIsNamed DEF Advances
  <2>2. CASE UNCHANGED tunnel
    BY <1>4, <2>1, <2>2 DEF FileInv, AskedInv, At, InUse, Busy, Advances
  <2>3. CASE /\ tunnel'.name = job[w].name /\ Overtake(w, Idle, {"remove"})
    BY <1>1, <2>1, <2>3, OvertakingAdvances DEF InUse
  <2> QED  BY <1>3, <2>2, <2>3 DEF NoTunnel
<1>9. FilesFollowRows'
  BY <1>1, <1>4 DEF FileInv, FilesFollowRows, Advances, At
<1> QED  BY <1>5, <1>6, <1>7, <1>8, <1>9 DEF FileInv

\* What is launched is the file as it is then.
LEMMA TunnelMoves ==
  ASSUME FileInv, TunnelStep
  PROVE  /\ tunnel' \in Tunnel /\ tunnel'.state # "starting" /\ LaunchedAsResolved'
         /\ Busy' => tunnel'.name = tunnel.name /\ (Busy \/ \E state : Occupy(state))
<1>1. tunnel \in Tunnel /\ files \in [Names -> File] /\ LaunchInv
  BY DEF FileInv, PlaceInv
<1>2. NoTunnel \in Tunnel
  BY DEF NoTunnel, Tunnel, OnDisk
<1>3. CASE Launch
  <2>1. /\ tunnel.name \in Names /\ ~tunnel.alive
        /\ files[tunnel.name].final = tunnel.meant \/ tunnel.mixed
        /\ tunnel.state = "starting"
    BY <1>1, <1>3 DEF Launch, LaunchInv
  <2>2. files[tunnel.name].final \in OnDisk
    BY <1>1, <2>1 DEF File
  <2>3. CASE tunnel' = [tunnel EXCEPT !.state = "failed"]
    BY <1>1, <2>1, <2>3 DEF Tunnel, LaunchedAsResolved, Busy
  <2>4. CASE tunnel' = [tunnel EXCEPT !.state = "connecting", !.alive = TRUE,
                                      !.content = files[tunnel.name].final]
    BY <1>1, <2>1, <2>2, <2>4 DEF Tunnel, LaunchedAsResolved, Busy
  <2> QED  BY <1>3, <2>3, <2>4 DEF Launch
<1>4. CASE TunnelUp \/ TunnelFails
  <2>1. \/ tunnel' = [tunnel EXCEPT !.state = "up"]
        \/ tunnel' = [tunnel EXCEPT !.state = "failed"]
    BY <1>4 DEF TunnelUp, TunnelFails
  <2> QED  BY <1>1, <2>1 DEF Tunnel, LaunchInv, LaunchedAsResolved, Busy
<1>5. CASE Reconnects \/ Stop
  <2>1. PICK state \in {"connecting", "stopping"} : Occupy(state)
    BY <1>5 DEF Reconnects, Stop
  <2>2. tunnel' = [tunnel EXCEPT !.state = state]
    BY <2>1 DEF Occupy
  <2> QED  BY <1>1, <2>1, <2>2 DEF Tunnel, LaunchInv, LaunchedAsResolved, Busy
<1>6. CASE Stopped \/ TunnelDown
  <2>1. \/ tunnel' = NoTunnel
        \/ tunnel' = [NoTunnel EXCEPT !.state = "failed", !.name = tunnel.name]
    BY <1>6 DEF Stopped, TunnelDown
  <2> QED  BY <1>1, <1>2, <2>1 DEF Tunnel, NoTunnel, LaunchedAsResolved, Busy
<1> QED  BY <1>3, <1>4, <1>5, <1>6 DEF TunnelStep

LEMMA TunnelKeepsFiles ==
  ASSUME PanelInv, FileInv, TunnelStep
  PROVE  FileInv'
<1>1. JobInv
  BY DEF PanelInv
<1>2. UNCHANGED <<rows, files, leftover>>
  BY <1>1, TunnelMarks DEF ghosts
<1>3. ASSUME NEW w \in Workers
      PROVE  /\ job'[w].at = job[w].at /\ job'[w].name = job[w].name
             /\ job'[w].profile = job[w].profile /\ job'[w].ignore = job[w].ignore
             /\ job[w].mixed => job'[w].mixed
             /\ job[w].at \in Writing => job'[w].mixed = job[w].mixed
  <2>1. job[w] \in Job
    BY <1>1 DEF JobInv
  <2> QED  BY <1>1, <2>1, TunnelMarks DEF Job, Writing, At
<1>4. tunnel' \in Tunnel /\ tunnel'.state # "starting" /\ LaunchedAsResolved'
  BY TunnelMoves
<1>5. PlaceInv'
  BY <1>2, <1>3, <1>4 DEF FileInv, PlaceInv, Named
<1>6. WriterInv'
  <2> SUFFICES ASSUME NEW w \in Workers, job'[w].at \in Writing, ~job'[w].mixed
               PROVE  Undisturbed(w)'
    BY DEF WriterInv
  <2>1. Undisturbed(w)
    BY <1>3 DEF FileInv, WriterInv
  <2> QED  BY <1>2, <1>3, <2>1 DEF Undisturbed
<1>7. FilesFollowRows'
  BY <1>2, <1>3 DEF FileInv, FilesFollowRows, At
<1>8. AskedInv'
  <2> SUFFICES ASSUME NEW w \in Workers, job'[w].at = "remove", InUse(job[w].name)'
               PROVE  job'[w].mixed
    BY DEF AskedInv, At
  <2>1. /\ job[w].at = "remove" /\ tunnel'.name = job[w].name /\ job[w] \in Job
        /\ tunnel'.name = tunnel.name /\ (Busy \/ \E state : Occupy(state))
    BY <1>1, <1>3, TunnelMoves DEF InUse, JobInv
  <2>2. CASE Busy
    BY <1>3, <2>1, <2>2 DEF FileInv, AskedInv, At, InUse
  <2>3. CASE \E state : Occupy(state)
    <3>1. job'[w] = [job[w] EXCEPT !.mixed = TRUE]
      BY <2>1, <2>3 DEF Occupy, At
    <3> QED  BY <2>1, <3>1 DEF Job
  <2> QED  BY <2>1, <2>2, <2>3
<1>9. LaunchInv'
  BY <1>4 DEF LaunchInv
<1> QED  BY <1>5, <1>6, <1>7, <1>8, <1>9 DEF FileInv

LEMMA CommandKeepsFiles ==
  ASSUME PanelInv, FileInv, SetPassword \/ Rekey \/ UNCHANGED vars
  PROVE  FileInv'
<1>1. UNCHANGED <<files, job, tunnel, leftover>> /\ DOMAIN rows' = DOMAIN rows
  <2>1. CASE Rekey
    BY <2>1, RekeyIsWhole DEF Rekey, Rekeyed, ghosts
  <2> QED  BY <2>1 DEF SetPassword, vars, ghosts
<1> QED  BY <1>1 DEF FileInv, PlaceInv, WriterInv, Undisturbed, LaunchInv, LaunchedAsResolved,
             AskedInv, FilesFollowRows, At, InUse, Busy

\* Nobody is at work after a restart, and what was on its way out is left over.
LEMMA RestartKeepsFiles ==
  ASSUME PanelInv, FileInv, Restart
  PROVE  FileInv'
<1>1. /\ rows' = rows /\ job' = [w \in Workers |-> Idle]
      /\ files' = [n \in Names |-> Disk!Orphaned(files[n])]
      /\ leftover' = leftover \union {job[w].name : w \in {v \in Workers : At(v, "unlink")}}
      /\ \E state \in {"off", "connecting", "up"}, alive \in {tunnel.alive} :
           tunnel' = [NoTunnel EXCEPT !.state = state, !.alive = alive]
  BY DEF Restart
<1>2. \A w \in Workers : job'[w] = Idle
  BY <1>1
<1>3. /\ files' \in [Names -> File]
      /\ \A n \in Names : files'[n].final = files[n].final
                          /\ \A w \in Workers : files'[n].at[w] = "closed"
  BY <1>1, OrphanedFile DEF FileInv, PlaceInv
<1>4. tunnel' \in Tunnel /\ tunnel'.name = None /\ tunnel'.state # "starting"
  <2>1. tunnel.alive \in BOOLEAN
    BY DEF FileInv, PlaceInv, Tunnel
  <2>2. PICK state \in {"off", "connecting", "up"}, alive \in {tunnel.alive} :
          tunnel' = [NoTunnel EXCEPT !.state = state, !.alive = alive]
    BY <1>1
  <2>3. tunnel' = [state |-> state, alive |-> tunnel.alive, name |-> None, meant |-> Absent,
                   content |-> Absent, mixed |-> FALSE]
    BY <2>2 DEF NoTunnel
  <2> QED  BY <2>1, <2>3 DEF Tunnel, OnDisk
<1>5. leftover' \subseteq Names
  BY <1>1 DEF FileInv, PlaceInv, Named, Filing, At
<1>6. PlaceInv'
  BY <1>2, <1>3, <1>4, <1>5, IdleIsNamed DEF PlaceInv
<1>7. WriterInv' /\ AskedInv'
  BY <1>2, IdleIsNamed DEF WriterInv, AskedInv, At, Writing
<1>8. LaunchInv'
  BY <1>4 DEF LaunchInv, LaunchedAsResolved
<1>9. FilesFollowRows'
  BY <1>1, <1>3 DEF FileInv, FilesFollowRows, At
<1> QED  BY <1>6, <1>7, <1>8, <1>9 DEF FileInv

LEMMA FilesBegin == Init => FileInv
<1> SUFFICES ASSUME Init PROVE FileInv
  OBVIOUS
<1>1. job = [w \in Workers |-> Idle] /\ tunnel = NoTunnel /\ leftover = {}
  BY DEF Init
<1>2. \A w \in Workers : job[w] = Idle
  BY <1>1
<1>3. PICK saved \in SUBSET Names, p \in Profiles :
        /\ DOMAIN rows = saved
        /\ files = [n \in Names |->
                      Disk!Fresh(Workers, IF n \in saved THEN Content(p, FALSE) ELSE Absent)]
  BY DEF Init
<1>4. \A n \in Names :
        /\ files[n] \in File /\ (n \notin saved => files[n].final = Absent)
        /\ \A w \in Workers : files[n].at[w] = "closed"
  BY <1>3, ContentOfProfile DEF Disk!Fresh, File, OnDisk
<1>5. PlaceInv
  <2>1. tunnel \in Tunnel
    BY <1>1 DEF NoTunnel, Tunnel, OnDisk
  <2>2. files \in [Names -> File]
    BY <1>3, <1>4
  <2> QED  BY <1>1, <1>2, <1>4, <2>1, <2>2, IdleIsNamed DEF PlaceInv
<1>6. WriterInv /\ AskedInv
  BY <1>2, IdleIsNamed DEF WriterInv, AskedInv, At, Writing
<1>7. LaunchInv
  BY <1>1 DEF LaunchInv, LaunchedAsResolved, NoTunnel
<1>8. FilesFollowRows
  BY <1>3, <1>4 DEF FilesFollowRows
<1> QED  BY <1>5, <1>6, <1>7, <1>8 DEF FileInv

LEMMA FilesPreserved == PanelInv /\ FileInv /\ [Next]_vars => FileInv'
<1> SUFFICES ASSUME PanelInv, FileInv, [Next]_vars PROVE FileInv'
  OBVIOUS
<1>1. ASSUME NEW w \in Workers, Serve(w) PROVE FileInv'
  BY <1>1, CallsAreQuiet, LoginsAreQuiet, RowsAreQuiet, SecretsAreQuiet, SaveIsQuiet,
     RemoveKeepsFiles, UnlinkKeepsFiles, OpenKeepsFiles, WriteKeepsFiles, FailureKeepsFiles,
     PublishKeepsFiles, ClaimKeepsFiles DEF Serve
<1>2. CASE TunnelStep
  BY <1>2, TunnelKeepsFiles
<1>3. CASE SetPassword \/ Rekey \/ UNCHANGED vars
  BY <1>3, CommandKeepsFiles
<1>4. CASE Restart
  BY <1>4, RestartKeepsFiles
<1> QED  BY <1>1, <1>2, <1>3, <1>4 DEF Next

\* The invariant of the profile files: where an open descriptor leads, that a writer
\* nobody has overtaken is alone on its file and finds there what it put there, that a
\* tunnel about to be launched finds its profile, who may still delete it, and that
\* every file without a row is accounted for.
THEOREM FileInvariant == Spec => []FileInv
BY PanelBegins, PanelPreserved, FilesBegin, FilesPreserved, PTL DEF Spec

\* A profile file without a row is on its way out, or a request for the deleted
\* connection wrote it afterwards, or a restart cut its removal off.
THEOREM NoFileIsForgotten == Spec => []FilesFollowRows
<1>1. FileInv => FilesFollowRows
  BY DEF FileInv
<1> QED  BY <1>1, FileInvariant, PTL

\* OpenVPN is started from the very profile and override that the attempt resolved,
\* unless another request wrote or removed the file of that connection meanwhile.
THEOREM LaunchesWhatWasResolved == Spec => []LaunchedAsResolved
<1>1. FileInv => LaunchedAsResolved
  BY DEF FileInv, LaunchInv
<1> QED  BY <1>1, FileInvariant, PTL

\* The row of a connection whose tunnel is being started, stopped or brought up again
\* is deleted only by a request that asked before the tunnel became busy.
THEOREM DeletionAskedFirst == Spec => InUseKept
<1> DEFINE Kept == \A n \in DOMAIN rows \ DOMAIN rows' :
                     InUse(n) => \E w \in Workers :
                                   At(w, "remove") /\ job[w].name = n /\ job[w].mixed
<1>1. PanelInv /\ FileInv /\ [Next]_vars => [Kept]_vars
  <2> SUFFICES ASSUME PanelInv, FileInv, Next, NEW n \in DOMAIN rows \ DOMAIN rows', InUse(n)
               PROVE  \E w \in Workers : At(w, "remove") /\ job[w].name = n /\ job[w].mixed
    BY DEF vars
  <2>1. \A w \in Workers : ~SaveRow(w)
    <3>1. \A name, profile, ignore, key, make_default :
            DOMAIN rows \subseteq DOMAIN SaveConnection(rows, name, profile, ignore, key, make_default)
      BY DEF SaveConnection, Marked
    <3> QED  BY ONLY <3>1, n \in DOMAIN rows \ DOMAIN rows' DEF SaveRow, Commit
  <2>2. ~Rekey
    BY RekeyIsWhole DEF Rekeyed
  <2>3. PICK w \in Workers : RemoveRow(w)
    <3>1. ASSUME NEW w \in Workers, Serve(w) PROVE RemoveRow(w)
      <4>1. \A v \in Workers : ~MarkRow(v) /\ ~ToggleRow(v)
        BY DEF MarkRow, ToggleRow, Marked, SetIgnore
      <4>2. rows' # rows
        OBVIOUS
      <4> QED  BY <2>1, <3>1, <4>1, <4>2 DEF Serve, SaveCall, SetDefaultCall, ToggleCall,
                  DeleteCall, ConnectCall, LoginCall, Unlink, Secrets, OpenFile, WriteFile,
                  WriteFails, Publish, Claim, WrongPassword, Unlock, Create, Hold,
                  RefuseTransaction
    <3>2. ~TunnelStep
      BY TunnelMarks DEF PanelInv
    <3> QED  BY <2>2, <3>1, <3>2 DEF Next, SetPassword, Restart
  <2>4. job[w].at = "remove" /\ job[w].name = n
    <3>1. IsTable(rows)
      BY DEF PanelInv, KeyInv
    <3>2. job[w].at = "remove" /\ job[w].name \in DOMAIN rows
          /\ rows' = DeleteConnection(rows, job[w].name)
      BY <2>3 DEF RemoveRow, At, Commit
    <3>3. DOMAIN rows' = DOMAIN rows \ {job[w].name}
      BY <3>1, <3>2, DeletedTable
    <3> QED  BY <3>2, <3>3
  <2> QED  BY <2>4 DEF FileInv, AskedInv, At
<1>2. InUseKept <=> [][Kept]_vars
  BY DEF InUseKept
<1> QED  BY <1>1, <1>2, PanelBegins, PanelPreserved, FilesBegin, FilesPreserved, PTL DEF Spec

-----------------------------------------------------------------------------
(* The third part: the wrong guesses.                                      *)

\* What Access calls the least of a set of hops.
LEMMA FirstHop ==
  ASSUME NEW near \in SUBSET Nat, NEW i \in near, \A k \in near : i =< k
  PROVE  Gate!Min(near) = i
<1>1. \A x \in near : (\A k \in near : x =< k) => x = i
  <2> SUFFICES ASSUME NEW x \in near, \A k \in near : x =< k
               PROVE  x = i
    OBVIOUS
  <2>1. x \in Nat /\ i \in Nat /\ x =< i /\ i =< x
    OBVIOUS
  <2> QED  BY <2>1
<1> QED  BY <1>1 DEF Gate!Min

LEMMA HopsInReach ==
  ASSUME NEW n \in Nat \ {0}
  PROVE  /\ Gate!Min({MaxHops, n}) \in {MaxHops, n}
         /\ Gate!Min({MaxHops, n}) \in Nat
         /\ 1 \in 1 .. Gate!Min({MaxHops, n})
         /\ n >= 2 => 2 \in 1 .. Gate!Min({MaxHops, n})
<1>1. MaxHops \in Nat /\ MaxHops >= 2
  BY GateAssumption
<1>2. CASE MaxHops =< n
  <2>1. {MaxHops, n} \in SUBSET Nat /\ \A k \in {MaxHops, n} : MaxHops =< k
    BY <1>1, <1>2
  <2>2. Gate!Min({MaxHops, n}) = MaxHops
    BY ONLY <2>1, FirstHop
  <2> QED  BY <1>1, <2>2
<1>3. CASE ~(MaxHops =< n)
  <2>1. {MaxHops, n} \in SUBSET Nat /\ \A k \in {MaxHops, n} : n =< k
    BY <1>1, <1>3
  <2>2. Gate!Min({MaxHops, n}) = n
    BY ONLY <2>1, FirstHop
  <2> QED  BY <1>1, <1>3, <2>2
<1> QED  BY <1>2, <1>3

\* A request over one proxy or two is attributed to whom the first of them
\* received it from.
LEMMA NearestHopIsCaller ==
  ASSUME NEW q \in Proxies, NEW hops, NEW n \in Nat \ {0}, Len(hops) = n,
         NEW i \in {1, 2}, i =< n, hops[n + 1 - i] = Caller,
         i = 2 => hops[n] \in Proxies
  PROVE  Gate!ClientAddress(q, hops) = Caller
<1> DEFINE hop(k) == hops[Len(hops) + 1 - k]
           near   == {k \in 1 .. Gate!Min({MaxHops, Len(hops)}) :
                        hop(k) # Blank /\ ~Gate!IsAllowed(hop(k), Proxies)}
<1>1. /\ Caller # Blank /\ Caller # Garbage /\ Caller \notin Proxies
      /\ \A p \in Proxies : p # Blank /\ p # Garbage
  BY GateAssumption
<1>2. /\ i \in 1 .. Gate!Min({MaxHops, Len(hops)})
      /\ 1 .. Gate!Min({MaxHops, Len(hops)}) \subseteq Nat \ {0}
  BY HopsInReach
<1>3. hop(i) = Caller
  OBVIOUS
<1>4. i \in near
  BY <1>1, <1>2, <1>3 DEF Gate!IsAllowed
<1>5. ASSUME NEW k \in near PROVE i =< k
  <2>1. k \in Nat \ {0}
    BY <1>2
  <2>2. CASE i = 1
    BY <2>1, <2>2
  <2>3. CASE i = 2
    <3>1. k # 1
      <4>1. hop(1) \in Proxies
        BY <2>3
      <4>2. ~Gate!IsAllowed(hop(k), Proxies)
        OBVIOUS
      <4> QED  BY <1>1, <4>1, <4>2 DEF Gate!IsAllowed
    <3> QED  BY <2>1, <2>3, <3>1
  <2> QED  BY <2>2, <2>3
<1>6. near \in SUBSET Nat
  BY <1>2
<1>7. Gate!ClientAddress(q, hops) =
        IF ~Gate!IsAllowed(q, Proxies) \/ near = {} \/ hop(Gate!Min(near)) = Garbage
          THEN q ELSE hop(Gate!Min(near))
  BY DEF Gate!ClientAddress
<1> HIDE DEF near
<1>8. Gate!Min(near) = i
  BY ONLY <1>4, <1>5, <1>6, FirstHop
<1>9. Gate!IsAllowed(q, Proxies) /\ near # {}
  BY <1>1, <1>4 DEF Gate!IsAllowed
<1> QED  BY <1>1, <1>3, <1>7, <1>8, <1>9

\* However a request of the caller arrives, and whatever its header says.
LEMMA CallerIsNamed == Gate!Attributed(Caller, Headers, Allowed) \subseteq {Caller}
<1> SUFFICES ASSUME NEW r \in Gate!Arrivals(Caller, Headers)
             PROVE  Gate!ClientAddress(r.peer, r.hops) = Caller
  BY DEF Gate!Attributed
<1>1. PICK sent \in Headers :
        \/ r = [peer |-> Caller, hops |-> sent]
        \/ \E p \in Proxies : r = [peer |-> p, hops |-> Append(sent, Caller)]
        \/ \E p, q \in Proxies : r = [peer |-> q, hops |-> sent \o <<Caller, p>>]
  <2>1. PICK sent \in Headers : r \in Gate!Ways(Caller, sent)
    BY DEF Gate!Arrivals
  <2> DEFINE Direct == {[peer |-> Caller, hops |-> sent]}
             One    == {[peer |-> p, hops |-> Append(sent, Caller)] : p \in Proxies}
             two(p, q) == [peer |-> q, hops |-> sent \o <<Caller, p>>]
             Two    == {two(p, q) : p \in Proxies, q \in Proxies}
  <2>2. Gate!Ways(Caller, sent) = Direct \union One \union Two
    BY DEF Gate!Ways
  <2>3. r \in Two => \E p, q \in Proxies : r = two(p, q)
    <3> HIDE DEF two
    <3> QED  OBVIOUS
  <2>4. r \in One => \E p \in Proxies : r = [peer |-> p, hops |-> Append(sent, Caller)]
    OBVIOUS
  <2>5. r \in Direct => r = [peer |-> Caller, hops |-> sent]
    OBVIOUS
  <2> HIDE DEF Direct, One, Two, two
  <2>6. r \in Direct \/ r \in One \/ r \in Two
    BY <2>1, <2>2
  <2> QED  BY <2>3, <2>4, <2>5, <2>6 DEF two
<1> DEFINE Hops == {sent[i] : i \in DOMAIN sent}
<1>2. sent \in Seq(Hops) /\ Len(sent) \in Nat
  BY GateAssumption
<1>3. CASE r = [peer |-> Caller, hops |-> sent]
  BY <1>3, GateAssumption DEF Gate!ClientAddress, Gate!IsAllowed
<1> HIDE DEF Hops
<1>4. ASSUME NEW p \in Proxies, r = [peer |-> p, hops |-> Append(sent, Caller)]
      PROVE  Gate!ClientAddress(r.peer, r.hops) = Caller
  <2> DEFINE hops == Append(sent, Caller)
             n    == Len(sent) + 1
  <2>1. sent \in Seq(Hops \union {Caller})
    BY <1>2
  <2>2. n \in Nat \ {0} /\ Len(hops) = n /\ hops[n + 1 - 1] = Caller /\ 1 =< n
    BY <1>2, <2>1
  <2> HIDE DEF hops, n
  <2>3. Gate!ClientAddress(p, hops) = Caller
    BY <2>2, NearestHopIsCaller
  <2> QED  BY <1>4, <2>3 DEF hops
<1>5. ASSUME NEW p \in Proxies, NEW q \in Proxies, r = [peer |-> q, hops |-> sent \o <<Caller, p>>]
      PROVE  Gate!ClientAddress(r.peer, r.hops) = Caller
  <2> DEFINE hops == sent \o <<Caller, p>>
             n    == Len(sent) + 2
             All  == Hops \union {Caller, p}
  <2>1. sent \in Seq(All) /\ <<Caller, p>> \in Seq(All)
    BY <1>2
  <2> HIDE DEF All
  <2>2. /\ n \in Nat \ {0} /\ Len(hops) = n /\ 2 =< n
        /\ hops[n + 1 - 2] = Caller /\ hops[n] = p
    BY <1>2, <2>1
  <2> HIDE DEF hops, n
  <2>3. Gate!ClientAddress(q, hops) = Caller
    BY <2>2, NearestHopIsCaller
  <2> QED  BY <1>5, <2>3 DEF hops
<1> QED  BY <1>1, <1>3, <1>4, <1>5

\* The requests that have found their password wrong and not yet said so.
Guessing == {w \in Workers : At(w, "wrong")}

\* The inductive invariant: those that are still to be recorded are counted in.
GuessInv ==
  /\ failures \in [Clients -> Nat]
  /\ failures[Caller] + Cardinality(Guessing) < MaxAttempts + Cardinality(Workers)

LEMMA GuessingIsFinite ==
  /\ IsFiniteSet(Guessing) /\ Cardinality(Guessing) \in Nat
  /\ Cardinality(Workers) \in Nat /\ Cardinality(Guessing) =< Cardinality(Workers)
<1>1. Guessing \subseteq Workers /\ IsFiniteSet(Workers)
  BY GateAssumption DEF Guessing
<1>2. IsFiniteSet(Guessing) /\ Cardinality(Guessing) =< Cardinality(Workers)
  BY <1>1, FS_Subset
<1> QED  BY <1>1, <1>2, FS_CardinalityType

\* Nobody finds a password wrong, and what is counted stays or is forgotten.
LEMMA NothingGuessed ==
  ASSUME GuessInv, Guessing' \subseteq Guessing,
         failures' \in [Clients -> Nat], failures'[Caller] =< failures[Caller]
  PROVE  GuessInv'
<1>1. IsFiniteSet(Guessing) /\ Cardinality(Guessing) \in Nat /\ Cardinality(Workers) \in Nat
  BY GuessingIsFinite
<1> DEFINE new == Guessing'
<1>2. new \subseteq Guessing
  OBVIOUS
<1> HIDE DEF new
<1>3. Cardinality(new) =< Cardinality(Guessing) /\ IsFiniteSet(new)
  BY ONLY <1>1, <1>2, FS_Subset
<1>4. Cardinality(new) \in Nat
  BY ONLY <1>3, FS_CardinalityType
<1>5. failures[Caller] \in Nat /\ failures'[Caller] \in Nat /\ MaxAttempts \in Nat
  BY PanelAssumption DEF GuessInv, Clients
<1>6. failures'[Caller] + Cardinality(new) < MaxAttempts + Cardinality(Workers)
  BY <1>1, <1>3, <1>4, <1>5 DEF GuessInv
<1> QED  BY <1>6 DEF GuessInv, new

LEMMA LoginCounts ==
  ASSUME JobInv, GuessInv, NEW w \in Workers, LoginCall(w)
  PROVE  GuessInv'
<1>1. /\ Cardinality(Guessing) \in Nat /\ Cardinality(Workers) \in Nat
      /\ MaxAttempts \in Nat \ {0} /\ failures[Caller] \in Nat
  BY GuessingIsFinite, PanelAssumption DEF GuessInv, Clients
<1>2. PICK client \in Gate!Attributed(Caller, Headers, Allowed), password \in Passwords :
        /\ Request(w, [Idle EXCEPT !.op = "login", !.password = password, !.client = client,
                                   !.at = IF password = hash THEN "unlock" ELSE "wrong"])
        /\ IF failures[client] < MaxAttempts THEN UNCHANGED failures
             ELSE failures' = [failures EXCEPT ![client] = 0]
  BY DEF LoginCall
<1>3. client = Caller
  BY CallerIsNamed
<1>4. /\ failures' \in [Clients -> Nat]
      /\ failures'[Caller] \in Nat /\ failures'[Caller] < MaxAttempts
      /\ failures'[Caller] =< failures[Caller]
  BY <1>1, <1>2, <1>3 DEF GuessInv, Clients
<1>5. Guessing' \subseteq Guessing \union {w} /\ Guessing' \subseteq Workers
  BY <1>2 DEF Guessing, At, Request, JobInv
<1> DEFINE new == Guessing'
<1>6. new \subseteq Workers /\ IsFiniteSet(Workers)
  BY <1>5, GateAssumption
<1> HIDE DEF new
<1>7. Cardinality(new) =< Cardinality(Workers) /\ IsFiniteSet(new)
  BY ONLY <1>6, FS_Subset
<1>8. Cardinality(new) \in Nat
  BY ONLY <1>7, FS_CardinalityType
<1>9. failures'[Caller] + Cardinality(new) < MaxAttempts + Cardinality(Workers)
  BY <1>1, <1>4, <1>7, <1>8
<1> QED  BY <1>4, <1>9 DEF GuessInv, new

LEMMA WrongCounts ==
  ASSUME JobInv, GuessInv, NEW w \in Workers, WrongPassword(w)
  PROVE  GuessInv'
<1>1. /\ IsFiniteSet(Guessing) /\ Cardinality(Guessing) \in Nat /\ Cardinality(Workers) \in Nat
      /\ MaxAttempts \in Nat /\ failures[Caller] \in Nat
  BY GuessingIsFinite, PanelAssumption DEF GuessInv, Clients
<1>2. /\ failures' \in [Clients -> Nat]
      /\ failures'[Caller] \in Nat /\ failures'[Caller] =< failures[Caller] + 1
  <2>1. failures \in [Clients -> Nat] /\ Caller \in Clients
    BY DEF GuessInv, Clients
  <2>2. failures' = [c \in Clients |-> IF c = job[w].client THEN failures[c] + 1 ELSE failures[c]]
    BY <2>1 DEF WrongPassword
  <2> QED  BY <2>1, <2>2
<1>3. w \in Guessing /\ Guessing' \subseteq Guessing \ {w}
  BY IdleIsSound DEF WrongPassword, Return, Guessing, At, JobInv
<1> DEFINE new == Guessing'
<1>4. new \subseteq Guessing \ {w}
  BY <1>3
<1> HIDE DEF new
<1>5. IsFiniteSet(Guessing \ {w}) /\ Cardinality(Guessing \ {w}) = Cardinality(Guessing) - 1
  BY <1>1, <1>3, FS_RemoveElement
<1>6. Cardinality(new) =< Cardinality(Guessing \ {w}) /\ IsFiniteSet(new)
  BY ONLY <1>4, <1>5, FS_Subset
<1>7. Cardinality(new) \in Nat
  BY ONLY <1>6, FS_CardinalityType
<1>8. failures'[Caller] + Cardinality(new) < MaxAttempts + Cardinality(Workers)
  BY <1>1, <1>2, <1>5, <1>6, <1>7 DEF GuessInv
<1> QED  BY <1>2, <1>8 DEF GuessInv, new

LEMMA GuessInit == Init => GuessInv
<1> SUFFICES ASSUME Init PROVE GuessInv
  OBVIOUS
<1>1. failures \in [Clients -> Nat] /\ failures[Caller] = 0
  BY DEF Init, Clients
<1>2. Guessing = {}
  BY IdleIsSound DEF Init, Guessing, At, Idle
<1>3. Cardinality(Guessing) = 0
  BY <1>2, FS_EmptySet
<1> QED  BY <1>1, <1>3, GuessingIsFinite, PanelAssumption DEF GuessInv

\* Every other request goes on to a step at which no password is wrong.
LEMMA GuessStep ==
  ASSUME PanelInv, GuessInv, [Next]_vars
  PROVE  GuessInv'
<1>1. job \in [Workers -> Job] /\ failures \in [Clients -> Nat] /\ failures[Caller] \in Nat
  BY DEF PanelInv, JobInv, GuessInv, Clients
<1>2. ASSUME UNCHANGED failures, Guessing' \subseteq Guessing PROVE GuessInv'
  BY <1>1, <1>2, NothingGuessed
<1>3. ASSUME NEW w \in Workers, NEW record, record.at # "wrong",
             \/ job' = [job EXCEPT ![w] = record]
             \/ \E steps : Overtake(w, record, steps)
      PROVE  Guessing' \subseteq Guessing
  <2>1. CASE job' = [job EXCEPT ![w] = record]
    BY <1>1, <1>3, <2>1 DEF Guessing, At
  <2>2. ASSUME NEW steps, Overtake(w, record, steps) PROVE Guessing' \subseteq Guessing
    <3>1. /\ job'[w] = record
          /\ \A v \in Workers \ {w} : job'[v] \in {job[v], [job[v] EXCEPT !.mixed = TRUE]}
      BY <1>3, <2>2 DEF Overtake
    <3>2. ASSUME NEW v \in Workers \ {w} PROVE job'[v].at = job[v].at
      <4>1. job[v] \in Job /\ job'[v] \in {job[v], [job[v] EXCEPT !.mixed = TRUE]}
        BY <1>1, <3>1
      <4>2. job[v] \in Job => [job[v] EXCEPT !.mixed = TRUE].at = job[v].at
        BY DEF Job
      <4> QED  BY ONLY <4>1, <4>2
    <3> QED  BY <1>3, <3>1, <3>2 DEF Guessing, At
  <2> QED  BY <1>3, <2>1, <2>2
<1>4. ASSUME NEW w \in Workers, Serve(w) PROVE GuessInv'
  <2>1. CASE LoginCall(w)
    BY <2>1, LoginCounts DEF PanelInv
  <2>2. CASE WrongPassword(w)
    BY <2>2, WrongCounts DEF PanelInv
  <2>3. ASSUME Return(w) \/ Overtake(w, Idle, Writing) \/ Overtake(w, Idle, {"remove"})
        PROVE  Guessing' \subseteq Guessing
    BY <1>3, <2>3, IdleIsSound DEF Return
  <2>4. ASSUME NEW step \in {"create", "unlink", "open"}, Go(w, step)
        PROVE  Guessing' \subseteq Guessing
    BY <1>1, <2>4 DEF Go, Guessing, At
  <2>5. CASE \/ SaveCall(w) \/ SetDefaultCall(w) \/ ToggleCall(w) \/ DeleteCall(w)
             \/ ConnectCall(w)
    <3>1. UNCHANGED failures
      BY <2>5 DEF SaveCall, SetDefaultCall, ToggleCall, DeleteCall, ConnectCall, secrets
    <3>2. job'[w].at # "wrong" /\ \A v \in Workers \ {w} : job'[v] = job[v]
      <4>1. CASE SaveCall(w)
        BY <1>1, <4>1 DEF SaveCall, Enter, Request, Idle
      <4>2. CASE SetDefaultCall(w)
        BY <1>1, <4>2 DEF SetDefaultCall, Enter, Request, Idle
      <4>3. CASE ToggleCall(w)
        BY <1>1, <4>3 DEF ToggleCall, Enter, Request, Idle
      <4>4. CASE DeleteCall(w)
        BY <1>1, <4>4 DEF DeleteCall, Enter, Request, Idle
      <4>5. CASE ConnectCall(w)
        BY <1>1, <4>5 DEF ConnectCall, Enter, Request, Idle
      <4> QED  BY <2>5, <4>1, <4>2, <4>3, <4>4, <4>5
    <3> QED  BY <1>2, <3>1, <3>2 DEF Guessing, At
  <2>6. CASE \/ SaveRow(w) \/ MarkRow(w) \/ ToggleRow(w) \/ RemoveRow(w) \/ Unlink(w)
             \/ RefuseTransaction(w) \/ WriteFails(w) \/ Claim(w)
    <3>1. UNCHANGED failures
      BY <2>6 DEF SaveRow, MarkRow, ToggleRow, RemoveRow, Unlink, RefuseTransaction, WriteFails,
                  Claim, secrets
    <3>2. CASE SaveRow(w)
      <4>1. [job[w] EXCEPT !.at = "open", !.flag = FALSE].at # "wrong"
        BY <1>1 DEF Job
      <4>2. job' = [job EXCEPT ![w] = [job[w] EXCEPT !.at = "open", !.flag = FALSE]]
        BY <3>2 DEF SaveRow
      <4> QED  BY <1>2, <1>3, <3>1, <4>1, <4>2
    <3>3. CASE ~SaveRow(w)
      <4>1. Guessing' \subseteq Guessing
        BY <2>3, <2>4, <2>6, <3>3 DEF MarkRow, ToggleRow, RemoveRow, Unlink, RefuseTransaction,
                                      WriteFails, Claim
      <4> QED  BY <1>2, <3>1, <4>1
    <3> QED  BY <3>2, <3>3
  <2>7. CASE Secrets(w) \/ Unlock(w)
    <3>1. UNCHANGED failures
      BY <2>7 DEF Secrets, Unlock, secrets
    <3>2. \/ Return(w) \/ Go(w, "create")
          \/ job'[w].at \in {"open", "hold"} /\ \A v \in Workers \ {w} : job'[v] = job[v]
      <4>1. job[w] \in Job
        BY <1>1
      <4>2. CASE Secrets(w)
        <5>1. CASE job' = [job EXCEPT ![w].at = "open", ![w].profile = rows[job[w].name].profile,
                                      ![w].key = held]
          BY <1>1, <4>1, <5>1 DEF Job
        <5> QED  BY <4>2, <5>1 DEF Secrets
      <4>3. CASE Unlock(w)
        <5>1. CASE job' = [job EXCEPT ![w].at = "hold", ![w].key = vault.key]
          BY <1>1, <4>1, <5>1 DEF Job
        <5> QED  BY <4>3, <5>1 DEF Unlock
      <4> QED  BY <2>7, <4>2, <4>3
    <3> QED  BY <1>2, <2>3, <2>4, <3>1, <3>2 DEF Guessing, At
  <2>8. CASE OpenFile(w) \/ WriteFile(w) \/ Publish(w)
    <3>1. UNCHANGED failures
      BY <2>8 DEF OpenFile, WriteFile, Publish, secrets
    <3>2. PICK record : record.at # "wrong" /\ Overtake(w, record, Writing)
      BY <1>1, <2>8, IdleIsSound DEF OpenFile, WriteFile, Publish, Job
    <3> QED  BY <1>2, <1>3, <3>1, <3>2
  <2>9. CASE Create(w)
    <3>1. UNCHANGED failures
      BY <2>9 DEF Create
    <3>2. Return(w) \/ (job'[w].at = "hold" /\ \A v \in Workers \ {w} : job'[v] = job[v])
      <4>1. job[w] \in Job
        BY <1>1
      <4>2. CASE job' = [job EXCEPT ![w].at = "hold", ![w].key = keys + 1]
        BY <1>1, <4>1, <4>2 DEF Job
      <4> QED  BY <2>9, <4>2 DEF Create
    <3> QED  BY <1>2, <2>3, <3>1, <3>2 DEF Guessing, At
  <2>10. CASE Hold(w)
    <3>1. Guessing' \subseteq Guessing
      BY <2>3, <2>10 DEF Hold
    <3>2. failures' \in [Clients -> Nat] /\ failures'[Caller] =< failures[Caller]
      <4>1. failures' = [c \in Clients |-> IF c = job[w].client THEN 0 ELSE failures[c]]
        BY <1>1, <2>10 DEF Hold
      <4> QED  BY <1>1, <4>1 DEF Clients
    <3> QED  BY <3>1, <3>2, NothingGuessed
  <2> QED  BY <1>4, <2>1, <2>2, <2>5, <2>6, <2>7, <2>8, <2>9, <2>10 DEF Serve
<1>5. CASE SetPassword \/ Rekey \/ UNCHANGED vars
  <2>1. UNCHANGED <<failures, job>>
    BY <1>5 DEF SetPassword, Rekey, vars, secrets
  <2> QED  BY <1>2, <2>1 DEF Guessing, At
<1>7. CASE TunnelStep
  <2>1. UNCHANGED failures /\ Guessing' \subseteq Guessing
    <3>1. ASSUME NEW w \in Workers PROVE job'[w].at = job[w].at
      BY <1>7, TunnelMarks DEF PanelInv, JobInv, Job
    <3> QED  BY <1>7, <3>1, TunnelMarks DEF PanelInv, secrets, Guessing, At
  <2> QED  BY <1>1, <2>1, NothingGuessed DEF GuessInv
<1>6. CASE Restart
  <2>1. Guessing' \subseteq Guessing
    BY <1>6, IdleIsSound DEF Restart, Guessing, At, Idle
  <2>2. failures' \in [Clients -> Nat] /\ failures'[Caller] = 0
    BY <1>6 DEF Restart, Clients
  <2> QED  BY <1>1, <2>1, <2>2, NothingGuessed
<1> QED  BY <1>4, <1>5, <1>6, <1>7 DEF Next

\* Whoever logs in, with whatever headers and over whatever proxies, gets at most
\* MaxAttempts wrong guesses before the lockout and one more for each other
\* request under way, and none of them is held against another address.
THEOREM GuessesAreBounded == Spec => []GuessesBounded
<1>1. PanelInv /\ GuessInv => GuessesBounded
  <2> SUFFICES ASSUME GuessInv PROVE GuessesBounded
    OBVIOUS
  <2>1. failures[Caller] \in Nat /\ MaxAttempts \in Nat
    BY PanelAssumption DEF GuessInv, Clients
  <2>2. Clients = {Caller}
    BY CallerIsNamed DEF Clients
  <2> QED  BY <2>1, <2>2, GuessingIsFinite DEF GuessInv, GuessesBounded
<1>2. GuessInv /\ PanelInv /\ [Next]_vars => GuessInv'
  BY GuessStep
<1> QED  BY <1>1, <1>2, GuessInit, PanelBegins, PanelPreserved, PTL DEF Spec
=============================================================================
