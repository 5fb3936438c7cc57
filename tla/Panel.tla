------------------------------- MODULE Panel --------------------------------
(***************************************************************************)
(* The panel's stored secrets and what is derived from them: the rows of   *)
(* the table connections (store.py), the profile files written from them   *)
(* (connections.py), the vault whose key encrypts them (vault.py), the     *)
(* login that unlocks it (auth.py, routes/ui.py), the command that changes *)
(* the password (create_app's set-password, a process of its own), and the *)
(* tunnel that is started from a profile file (openvpn.py, the helper).    *)
(*                                                                         *)
(* Requests are served by threads (Workers).  A step is one statement or   *)
(* transaction of the shared database, one operation on a file, or one     *)
(* access to state in memory; anything may happen between two steps.       *)
(***************************************************************************)
EXTENDS Tables

CONSTANTS
  Workers,         \* threads that serve requests
  Names,           \* names of connections: numbers
  Profiles,        \* uploaded profiles, and the credentials that go with each
  Challenging,     \* those with a static-challenge line
  Filtering,       \* those that already filter pushed DNS servers
  Passwords,       \* web passwords
  Caller,          \* the address of the one who logs in
  Headers,         \* the headers a request may come with, as hops
  Allowed,         \* VPN_CONNECT_ALLOW_FROM
  Proxies, Blank, Garbage, MaxHops,   \* see Access
  MaxAttempts,     \* LOGIN_MAX_ATTEMPTS
  MaxKeys,         \* bound: keys ever derived from a fresh salt
  MaxCalls,        \* bound: requests, password changes and restarts
  Absent, Empty, Torn   \* see Files

ASSUME PanelAssumption ==
  /\ Names \subseteq Nat
  /\ Challenging \subseteq Profiles /\ Filtering \subseteq Profiles
  /\ MaxAttempts \in Nat \ {0} /\ MaxKeys \in Nat \ {0} /\ MaxCalls \in Nat
  /\ None \notin Names \union Profiles \union Passwords \union 1 .. MaxKeys
  /\ None \notin [password : Passwords, key : 1 .. MaxKeys]

\* What a file holds is told from its absence and from what is no profile.
ASSUME DiskAssumption ==
  /\ Absent \notin {Empty, Torn} /\ Empty # Torn
  /\ \A kind \in {Absent, Empty, Torn} : kind \notin [profile : Profiles, override : BOOLEAN]

\* Proxies are configured as networks, of which neither an empty nor an unreadable
\* hop is a member.  A caller is no proxy: what a trusted proxy says of itself is
\* believed.  Two proxies in a row are within MAX_FORWARDED_HOPS (20).
ASSUME GateAssumption ==
  /\ Proxies \intersect {Blank, Garbage} = {}
  /\ Caller \notin Proxies \union {Blank, Garbage}
  /\ MaxHops \in Nat /\ MaxHops >= 2
  /\ \A sent \in Headers : sent \in Seq({sent[i] : i \in DOMAIN sent})
  /\ IsFiniteSet(Workers)

Disk == INSTANCE Files
Gate == INSTANCE Access

VARIABLES
  rows,      \* table connections
  vault,     \* table vault: [password, key], or None
  files,     \* files[n]: the profile of n in VPN_DIR, see Files
  held,      \* VaultState._key
  hash,      \* PASSWORD_HASH of the running process: the password it accepts
  envHash,   \* the same setting in the environment file
  failures,  \* LoginThrottle._failures, by the address that a login is attributed to
  job,       \* what each worker is doing, with its local variables
  cli,       \* the set-password command between its unlock and its transaction
  tunnel,    \* the status of the attempt, and what openvpn was started with
  keys,      \* salts drawn so far: names the next key
  calls,     \* requests, password changes and restarts so far
  lost,      \* rows encrypted with a key the vault had dropped (history)
  blank,     \* a set_default() lost its connection and left none (history)
  leftover   \* profile files whose row went first (history)

secrets == <<vault, held, hash, envHash, failures, cli, keys>>
ghosts  == <<lost, blank, leftover>>
vars    == <<rows, files, secrets, job, tunnel, calls, ghosts>>

-----------------------------------------------------------------------------
(* What is derived from a row.                                             *)

WantsMfa(profile) == profile \in Challenging

\* with_dns_override(): the line is added unless the profile has its own.
Content(profile, ignore) ==
  [profile |-> profile, override |-> ignore /\ profile \notin Filtering]

Contents == [profile : Profiles, override : BOOLEAN]

Idle == [at |-> "idle", op |-> "", name |-> None, profile |-> None, ignore |-> FALSE,
         flag |-> FALSE, key |-> None, password |-> None, mixed |-> FALSE,
         client |-> None]

\* The steps at which a worker stands between its first write of a profile
\* file and the start of the tunnel, or the end of the request.
Writing == {"write", "publish", "claim"}

\* The steps at which it begins a transaction.
Transacting == {"save", "mark", "toggle", "remove", "create"}

NoTunnel == [state |-> "off", alive |-> FALSE, name |-> None, meant |-> Absent,
             content |-> Absent, mixed |-> FALSE]

\* VpnStatus.busy: a tunnel that is up is not busy, one that is being stopped is, and
\* so is one that OpenVPN is reconnecting.  "connecting" is AUTHENTICATING too.
Busy == tunnel.state \in {"starting", "connecting", "stopping"}

InUse(name) == tunnel.name = name /\ Busy

At(w, step)   == job[w].at = step
Go(w, step)   == job' = [job EXCEPT ![w].at = step]
Return(w)     == job' = [job EXCEPT ![w] = Idle]

Counted == calls < MaxCalls /\ calls' = calls + 1

Request(w, record) ==
  /\ At(w, "idle")
  /\ Counted
  /\ job' = [job EXCEPT ![w] = record]

\* login_required: a session over a locked vault is signed out.
VaultLocked == held = None /\ vault # None

Enter(w, record) == ~VaultLocked /\ Request(w, record)

\* A transaction is refused inside that of another thread (db.py): the request
\* fails without effect.
RefuseTransaction(w) ==
  /\ job[w].at \in Transacting
  /\ \E v \in Workers \ {w} : job[v].at \in Transacting
  /\ Return(w)
  /\ UNCHANGED <<rows, files, secrets, tunnel, calls, ghosts>>

\* What a committed table means for the history variables.
Commit(table, unreadable) ==
  /\ rows' = table
  /\ lost' = unreadable \intersect DOMAIN table
  /\ blank' = (blank /\ Defaults(table) = {} /\ DOMAIN table # {})
  /\ leftover' = leftover \ DOMAIN table

-----------------------------------------------------------------------------
(* Connections: the rows.                                                  *)

\* save(): _vault.require() comes first, the transaction later.
SaveCall(w) ==
  /\ held # None
  /\ \E n \in Names, p \in Profiles, ignore, make_default \in BOOLEAN :
       Enter(w, [Idle EXCEPT !.at = "save", !.op = "save", !.name = n, !.profile = p,
                               !.ignore = ignore, !.flag = make_default, !.key = held])
  /\ UNCHANGED <<rows, files, secrets, tunnel, ghosts>>

SaveRow(w) ==
  /\ At(w, "save")
  /\ LET j == job[w]
     IN  Commit(SaveConnection(rows, j.name, j.profile, j.ignore, j.key, j.flag),
                IF vault # None /\ j.key # vault.key THEN lost \union {j.name}
                                                     ELSE lost \ {j.name})
  /\ job' = [job EXCEPT ![w].at = "open", ![w].flag = FALSE]
  /\ UNCHANGED <<files, secrets, tunnel, calls>>

\* set_default(): the name is looked up before the transaction begins.
SetDefaultCall(w) ==
  /\ \E n \in DOMAIN rows :
       Enter(w, [Idle EXCEPT !.at = "mark", !.op = "default", !.name = n])
  /\ UNCHANGED <<rows, files, secrets, tunnel, ghosts>>

MarkRow(w) ==
  /\ At(w, "mark")
  /\ rows' = Marked(rows, job[w].name)
  /\ blank' = (job[w].name \notin DOMAIN rows /\ DOMAIN rows # {})
  /\ Return(w)
  /\ UNCHANGED <<files, secrets, tunnel, calls, lost, leftover>>

\* toggle_ignore_pushed_dns(): the flag is read before the transaction.
ToggleCall(w) ==
  /\ \E n \in DOMAIN rows :
       Enter(w, [Idle EXCEPT !.at = "toggle", !.op = "toggle", !.name = n,
                               !.ignore = ~rows[n].ignore])
  /\ UNCHANGED <<rows, files, secrets, tunnel, ghosts>>

ToggleRow(w) ==
  /\ At(w, "toggle")
  /\ rows' = SetIgnore(rows, job[w].name, job[w].ignore)
  /\ Return(w)
  /\ UNCHANGED <<files, secrets, tunnel, calls, ghosts>>

\* Deliberate fault: nobody asks whether the connection is in use.
DeleteUnchecked(w) ==
  /\ \E n \in Names :
       Enter(w, [Idle EXCEPT !.at = "remove", !.op = "delete", !.name = n])
  /\ UNCHANGED <<rows, files, secrets, tunnel, ghosts>>

\* delete_connection() of the API: refused while an attempt for it is busy.
DeleteCall(w) ==
  /\ \E n \in Names :
       /\ ~InUse(n)
       /\ Enter(w, [Idle EXCEPT !.at = "remove", !.op = "delete", !.name = n])
  /\ UNCHANGED <<rows, files, secrets, tunnel, ghosts>>

RemoveRow(w) ==
  /\ At(w, "remove")
  /\ IF job[w].name \in DOMAIN rows
       THEN Commit(DeleteConnection(rows, job[w].name), lost) /\ Go(w, "unlink")
       ELSE Return(w) /\ UNCHANGED <<rows, ghosts>>
  /\ UNCHANGED <<files, secrets, tunnel, calls>>

-----------------------------------------------------------------------------
(* Connections: the profile files, and resolve().                          *)

\* Worker w goes on with record; every other one that is at one of these steps
\* with the same name has been overtaken on it (history).
Overtake(w, record, steps) ==
  job' = [v \in Workers |->
            IF v = w THEN record
            ELSE IF job[v].name = job[w].name /\ job[v].at \in steps
              THEN [job[v] EXCEPT !.mixed = TRUE] ELSE job[v]]

\* So has a tunnel that has been claimed and not launched.
Disturb(name) ==
  tunnel' = IF tunnel.state = "starting" /\ tunnel.name = name
              THEN [tunnel EXCEPT !.mixed = TRUE] ELSE tunnel

\* Deliberate fault: the row goes and the file stays.
KeepFile(w) ==
  /\ At(w, "unlink")
  /\ Overtake(w, Idle, Writing)
  /\ UNCHANGED <<rows, files, secrets, tunnel, calls, ghosts>>

\* delete(): the file goes after the row.
Unlink(w) ==
  /\ At(w, "unlink")
  /\ files' = [files EXCEPT ![job[w].name] = Disk!Unlinked(@)]
  /\ leftover' = leftover \ {job[w].name}
  /\ Overtake(w, Idle, Writing)
  /\ Disturb(job[w].name)
  /\ UNCHANGED <<rows, secrets, calls, lost, blank>>

\* resolve(): the row and its flag, then the key and the secrets.
ConnectCall(w) ==
  /\ \E n \in DOMAIN rows, code \in BOOLEAN :
       Enter(w, [Idle EXCEPT !.at = "secrets", !.op = "connect", !.name = n,
                               !.ignore = rows[n].ignore, !.flag = code])
  /\ UNCHANGED <<rows, files, secrets, tunnel, ghosts>>

Secrets(w) ==
  /\ At(w, "secrets")
  /\ LET n == job[w].name
     IN  IF held # None /\ n \in DOMAIN rows /\ rows[n].key = held
           THEN job' = [job EXCEPT ![w].at = "open", ![w].profile = rows[n].profile, ![w].key = held]
           ELSE Return(w)
  /\ UNCHANGED <<rows, files, secrets, tunnel, calls, ghosts>>

OpenFile(w) ==
  /\ At(w, "open")
  /\ files' = [files EXCEPT ![job[w].name] = Disk!Opened(@, w)]
  /\ LET n == job[w].name
     IN  Overtake(w, [job[w] EXCEPT !.at = "write",
                        !.mixed = \E v \in Workers \ {w} : job[v].name = n /\ job[v].at \in Writing],
                  Writing)
  /\ UNCHANGED <<rows, secrets, tunnel, calls, ghosts>>

WriteFile(w) ==
  /\ At(w, "write")
  /\ \E f \in Disk!Written(files[job[w].name], w, Content(job[w].profile, job[w].ignore)) :
       files' = [files EXCEPT ![job[w].name] = f]
  /\ Overtake(w, [job[w] EXCEPT !.at = "publish"], Writing)
  /\ Disturb(job[w].name)
  /\ UNCHANGED <<rows, secrets, calls, ghosts>>

\* OSError, from the disk or because the temporary file has been renamed:
\* the file is removed and the request fails.
WriteFails(w) ==
  /\ \/ At(w, "write")
     \/ At(w, "publish") /\ ~Disk!CanPublish(files[job[w].name])
  /\ files' = [files EXCEPT ![job[w].name] = Disk!Abandoned(@, w)]
  /\ Overtake(w, Idle, Writing)
  /\ UNCHANGED <<rows, secrets, tunnel, calls, ghosts>>

Publish(w) ==
  /\ At(w, "publish")
  /\ Disk!CanPublish(files[job[w].name])
  /\ files' = [files EXCEPT ![job[w].name] = Disk!Published(@, w)]
  /\ leftover' = IF job[w].name \in DOMAIN rows THEN leftover ELSE leftover \union {job[w].name}
  /\ Overtake(w, IF job[w].op = "connect" THEN [job[w] EXCEPT !.at = "claim"] ELSE Idle, Writing)
  /\ Disturb(job[w].name)
  /\ UNCHANGED <<rows, secrets, calls, lost, blank>>

-----------------------------------------------------------------------------
(* The tunnel, as far as it touches what is stored here.                   *)

\* connect(), in the region of the controller's lock, after the code has been
\* held against what the resolved profile asks for.
Claim(w) ==
  /\ At(w, "claim")
  /\ LET j == job[w]
     IN  IF tunnel.state \in {"off", "failed"} /\ ~tunnel.alive /\ j.flag = WantsMfa(j.profile)
           THEN /\ tunnel' = [NoTunnel EXCEPT !.state = "starting", !.name = j.name,
                                !.meant = Content(j.profile, j.ignore), !.mixed = j.mixed]
                /\ Overtake(w, Idle, {"remove"})
           ELSE UNCHANGED tunnel /\ Return(w)
  /\ UNCHANGED <<rows, files, secrets, calls, ghosts>>

\* The helper's start takes the name, and root reads the file.
Launch ==
  /\ tunnel.state = "starting"
  /\ tunnel' = IF files[tunnel.name].final = Absent THEN [tunnel EXCEPT !.state = "failed"]
                ELSE [tunnel EXCEPT !.state = "connecting", !.alive = TRUE,
                                    !.content = files[tunnel.name].final]
  /\ UNCHANGED <<rows, files, secrets, job, calls, ghosts>>

\* A tunnel that was not busy becomes so: whoever is about to delete its connection has
\* asked before (history).
Occupy(state) ==
  /\ tunnel' = [tunnel EXCEPT !.state = state]
  /\ job' = [v \in Workers |-> IF At(v, "remove") /\ job[v].name = tunnel.name
                                 THEN [job[v] EXCEPT !.mixed = TRUE] ELSE job[v]]
  /\ UNCHANGED <<rows, files, secrets, ghosts>>

\* _on_state(CONNECTED), whatever the status says meanwhile.
TunnelUp ==
  /\ tunnel.alive
  /\ tunnel' = [tunnel EXCEPT !.state = "up"]
  /\ UNCHANGED <<rows, files, secrets, job, calls, ghosts>>

\* _on_state(), any other name: OpenVPN reconnects, or is heard after the attempt failed.
Reconnects == tunnel.alive /\ ~Busy /\ Occupy("connecting") /\ UNCHANGED calls

\* disconnect(), its first region.  (Before the daemon is launched: see Controller.)
Stop ==
  /\ tunnel.state # "starting"
  /\ tunnel.state # "off" \/ tunnel.alive
  /\ Counted
  /\ Occupy("stopping")

\* disconnect() through the helper: the status is a new one, without a name.
Stopped ==
  /\ tunnel.state = "stopping"
  /\ tunnel' = NoTunnel
  /\ UNCHANGED <<rows, files, secrets, job, calls, ghosts>>

\* _fail(): the worker's helper or waits, a fatal error, a rejected credential.
TunnelFails ==
  /\ tunnel.state = "starting" \/ tunnel.alive
  /\ tunnel' = [tunnel EXCEPT !.state = "failed"]
  /\ UNCHANGED <<rows, files, secrets, job, calls, ghosts>>

\* The daemon is gone and its last notification handled.  A status that says
\* disconnected keeps its name too, but nothing asks for it any more.
TunnelDown ==
  /\ tunnel.alive
  /\ tunnel' \in {NoTunnel, [NoTunnel EXCEPT !.state = "failed", !.name = tunnel.name]}
  /\ UNCHANGED <<rows, files, secrets, job, calls, ghosts>>

-----------------------------------------------------------------------------
(* The login.                                                              *)

Clients == Gate!Attributed(Caller, Headers, Allowed) \union {Caller}

\* The throttle is asked first.  seconds_remaining() forgets the failures once
\* the lockout has passed.
LoginCall(w) ==
  \E client \in Gate!Attributed(Caller, Headers, Allowed), password \in Passwords :
    /\ Request(w, [Idle EXCEPT !.op = "login", !.password = password, !.client = client,
                               !.at = IF password = hash THEN "unlock" ELSE "wrong"])
    /\ IF failures[client] < MaxAttempts THEN UNCHANGED failures
         ELSE failures' = [failures EXCEPT ![client] = 0]
    /\ UNCHANGED <<rows, files, vault, held, hash, envHash, cli, keys, tunnel, ghosts>>

\* record_failure(), once the password has been found wrong.
WrongPassword(w) ==
  /\ At(w, "wrong")
  /\ failures' = [failures EXCEPT ![job[w].client] = @ + 1]
  /\ Return(w)
  /\ UNCHANGED <<rows, files, vault, held, hash, envHash, cli, keys, tunnel, calls, ghosts>>

\* unlock_vault(): whether there is a vault, and unlock()'s reading of it.  A
\* password that fits the login and not the vault ends the request.
Unlock(w) ==
  /\ At(w, "unlock")
  /\ IF vault = None THEN Go(w, "create")
     ELSE IF vault.password = job[w].password
       THEN job' = [job EXCEPT ![w].at = "hold", ![w].key = vault.key]
       ELSE Return(w)
  /\ UNCHANGED <<rows, files, secrets, tunnel, calls, ghosts>>

\* Deliberate fault: INSERT OR REPLACE.
CreateAgain(w) ==
  /\ At(w, "create")
  /\ keys < MaxKeys
  /\ keys' = keys + 1
  /\ vault' = [password |-> job[w].password, key |-> keys + 1]
  /\ job' = [job EXCEPT ![w].at = "hold", ![w].key = keys + 1]
  /\ UNCHANGED <<rows, files, held, hash, envHash, failures, cli, tunnel, calls, ghosts>>

\* initialise(): refused, by exists() or by the table, when there is a vault.
Create(w) ==
  /\ At(w, "create")
  /\ IF vault # None THEN Return(w) /\ UNCHANGED <<vault, keys>>
     ELSE /\ keys < MaxKeys
          /\ keys' = keys + 1
          /\ vault' = [password |-> job[w].password, key |-> keys + 1]
          /\ job' = [job EXCEPT ![w].at = "hold", ![w].key = keys + 1]
  /\ UNCHANGED <<rows, files, held, hash, envHash, failures, cli, tunnel, calls, ghosts>>

\* VaultState.store(), and reset() of the throttle.
Hold(w) ==
  /\ At(w, "hold")
  /\ held' = job[w].key
  /\ failures' = [failures EXCEPT ![job[w].client] = 0]
  /\ Return(w)
  /\ UNCHANGED <<rows, files, vault, hash, envHash, cli, keys, tunnel, calls, ghosts>>

-----------------------------------------------------------------------------
(* The set-password command, and the restart that its new setting needs.   *)

\* rekey() unlocks with the old password first.  Without a vault the command
\* only prints the new setting.
SetPassword ==
  /\ cli = None /\ Counted
  /\ \E password \in Passwords :
       IF vault = None THEN envHash' = password /\ UNCHANGED cli
       ELSE cli' = [key |-> vault.key, password |-> password] /\ UNCHANGED envHash
  /\ UNCHANGED <<rows, files, vault, held, hash, failures, keys, job, tunnel, ghosts>>

\* Deliberate fault: a row that does not decrypt is left as it is.
RekeySkips ==
  /\ cli # None /\ keys < MaxKeys
  /\ rows' = [n \in DOMAIN rows |-> IF rows[n].key = cli.key
                THEN [rows[n] EXCEPT !.key = keys + 1] ELSE rows[n]]
  /\ vault' = [password |-> cli.password, key |-> keys + 1]
  /\ keys' = keys + 1
  /\ envHash' = cli.password
  /\ cli' = None
  /\ UNCHANGED <<files, held, hash, failures, job, tunnel, calls, ghosts>>

\* Its transaction: every row and the vault, or nothing when a row does not
\* decrypt.  The command then prints the setting.
Rekey ==
  /\ cli # None
  /\ IF \A n \in DOMAIN rows : rows[n].key = cli.key
       THEN /\ keys < MaxKeys
            /\ keys' = keys + 1
            /\ rows' = [n \in DOMAIN rows |-> [rows[n] EXCEPT !.key = keys + 1]]
            /\ vault' = [password |-> cli.password, key |-> keys + 1]
            /\ envHash' = cli.password
       ELSE UNCHANGED <<rows, vault, keys, envHash>>
  /\ cli' = None
  /\ UNCHANGED <<files, held, hash, failures, job, tunnel, calls, ghosts>>

\* The service is restarted: requests end where they are, the key is gone, and a
\* running tunnel is adopted without its connection's name (attach()), or is not.
Restart ==
  /\ Counted
  /\ job' = [w \in Workers |-> Idle]
  /\ files' = [n \in Names |-> Disk!Orphaned(files[n])]
  /\ leftover' = leftover \union {job[w].name : w \in {v \in Workers : At(v, "unlink")}}
  /\ held' = None
  /\ failures' = [c \in Clients |-> 0]
  /\ hash' = envHash
  /\ \E state \in IF tunnel.alive THEN {"off", "connecting", "up"} ELSE {"off"} :
       tunnel' = [NoTunnel EXCEPT !.state = state, !.alive = tunnel.alive]
  /\ UNCHANGED <<rows, vault, envHash, cli, keys, lost, blank>>

-----------------------------------------------------------------------------

\* A fresh installation, or one with saved connections: as the service starts, or
\* some time after a login.
Init ==
  /\ job = [w \in Workers |-> Idle]
  /\ failures = [c \in Clients |-> 0] /\ cli = None /\ calls = 0
  /\ tunnel = NoTunnel
  /\ lost = {} /\ blank = FALSE /\ leftover = {}
  /\ hash \in Passwords /\ envHash = hash
  /\ \E saved \in SUBSET Names, p \in Profiles :
       /\ keys = IF saved = {} THEN 0 ELSE 1
       /\ vault = IF saved = {} THEN None ELSE [password |-> hash, key |-> 1]
       /\ held \in IF saved = {} THEN {None} ELSE {None, 1}
       /\ rows = [n \in saved |-> [profile |-> p, ignore |-> FALSE, key |-> 1,
                                   is_default |-> \A m \in saved : n =< m]]
       /\ files = [n \in Names |->
                     Disk!Fresh(Workers, IF n \in saved THEN Content(p, FALSE) ELSE Absent)]

Serve(w) ==
  \/ SaveCall(w) \/ SetDefaultCall(w) \/ ToggleCall(w) \/ DeleteCall(w) \/ ConnectCall(w)
  \/ LoginCall(w) \/ SaveRow(w) \/ MarkRow(w) \/ ToggleRow(w) \/ RemoveRow(w) \/ Unlink(w)
  \/ Secrets(w) \/ OpenFile(w) \/ WriteFile(w) \/ WriteFails(w) \/ Publish(w) \/ Claim(w)
  \/ WrongPassword(w) \/ Unlock(w) \/ Create(w) \/ Hold(w) \/ RefuseTransaction(w)

TunnelStep ==
  \/ Launch \/ TunnelUp \/ Reconnects \/ Stop \/ Stopped \/ TunnelFails \/ TunnelDown

Next ==
  \/ \E w \in Workers : Serve(w)
  \/ TunnelStep
  \/ SetPassword \/ Rekey \/ Restart

Spec == Init /\ [][Next]_vars

-----------------------------------------------------------------------------
(* Properties.                                                             *)

Keys == 1 .. MaxKeys

Job == [at : {"idle", "unlink", "secrets", "open", "wrong", "unlock", "hold"} \union Writing
               \union Transacting,
        op : {"", "save", "default", "toggle", "delete", "connect", "login"},
        name : Names \union {None}, profile : Profiles \union {None}, ignore : BOOLEAN,
        flag : BOOLEAN, key : Keys \union {None}, password : Passwords \union {None},
        mixed : BOOLEAN, client : Clients \union {None}]

OnDisk == Contents \union {Absent, Empty, Torn}

Row == [profile : Profiles, ignore : BOOLEAN, key : Keys, is_default : BOOLEAN]

\* Every variable holds values of its kind.
TypeOK ==
  /\ DOMAIN rows \subseteq Names /\ rows \in [DOMAIN rows -> Row]
  /\ vault \in [password : Passwords, key : Keys] \union {None}
  /\ files \in [Names -> [temp : OnDisk, final : OnDisk,
                          at : [Workers -> {"closed", "temp", "final", "lost"}]]]
  /\ held \in Keys \union {None}
  /\ hash \in Passwords /\ envHash \in Passwords
  /\ failures \in [Clients -> Nat]
  /\ job \in [Workers -> Job]
  /\ cli \in [key : Keys, password : Passwords] \union {None}
  /\ tunnel \in [state : {"off", "failed", "starting", "connecting", "up", "stopping"},
                 alive : BOOLEAN, name : Names \union {None}, meant : OnDisk,
                 content : OnDisk, mixed : BOOLEAN]
  /\ keys \in 0 .. MaxKeys /\ calls \in 0 .. MaxCalls
  /\ lost \subseteq Names /\ blank \in BOOLEAN /\ leftover \subseteq Names

\* At most one connection is the default, and while there are connections one
\* is -- save after a set_default() whose connection was deleted between its
\* look-up and its transaction, which clears the flag and sets it nowhere.
DefaultKept ==
  /\ Cardinality(Defaults(rows)) =< 1
  /\ DOMAIN rows # {} /\ Defaults(rows) = {} => blank

\* Every stored secret can be decrypted with the vault's key, whatever was saved,
\* deleted or re-encrypted meanwhile -- save what was written by a process that
\* still held the key from before a set-password.
SecretsReadable == \A n \in DOMAIN rows : rows[n].key = vault.key \/ n \in lost

\* A password change is all or nothing: the vault takes a new key only together
\* with every row, and not at all while one row cannot be decrypted.
RekeyWhole ==
  [][vault # None /\ vault' # vault =>
       /\ lost = {} /\ DOMAIN rows' = DOMAIN rows
       /\ \A n \in DOMAIN rows : rows'[n].key = vault'.key]_vars

\* A profile file without a row is on its way out, or is one that a request for
\* the deleted connection wrote afterwards, or whose removal a restart cut off.
FilesFollowRows ==
  \A n \in Names \ DOMAIN rows :
    files[n].final # Absent =>
      n \in leftover \/ \E w \in Workers : At(w, "unlink") /\ job[w].name = n

\* OpenVPN is started from the very profile, with the very DNS override, that
\* the attempt resolved and took its credentials from -- never from half a file,
\* another version or another flag -- unless another request wrote or removed
\* the file of that connection meanwhile.
LaunchedAsResolved ==
  tunnel.alive /\ tunnel.name # None => tunnel.content = tunnel.meant \/ tunnel.mixed

\* The row of a connection whose tunnel is being started, stopped or brought up again
\* is deleted only by a request that asked before the tunnel became busy: before the
\* attempt was claimed, or while the tunnel stood.
InUseKept ==
  [][\A n \in DOMAIN rows \ DOMAIN rows' :
       InUse(n) => \E w \in Workers : At(w, "remove") /\ job[w].name = n /\ job[w].mixed]_vars

\* Whoever logs in gets at most MaxAttempts wrong guesses before the lockout,
\* and one more for each other request that was let in before the last of them
\* was recorded; and no guess counts for another address than the caller's own --
\* however the requests arrive and whatever headers they bring.
GuessesBounded ==
  /\ failures[Caller] < MaxAttempts + Cardinality(Workers)
  /\ \A c \in Clients \ {Caller} : failures[c] = 0
=============================================================================
