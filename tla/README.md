# Verification of openvpn-connect-web

TLA+ models of the web panel that drives OpenVPN, the TLC runs that check them on small instances,
and TLAPS proofs of their main properties for every instance. Paths are relative to the repository
root; `openvpn.py:409` means `src/app/services/openvpn.py`, line 409.

Contents: [the system](#the-system), [plan](#plan), [Controller](#controller),
[AttemptLog](#attemptlog), [History](#history), [Panel](#panel), [Rooted](#rooted),
[Management](#management), [Pages](#pages), [runs](#runs), [proofs](#proofs),
[where code and comments part](#where-code-and-comments-part),
[what is not covered](#what-is-not-covered).

## The system

A Flask application served by one gunicorn process with eight threads. It starts and stops one
OpenVPN daemon through a small root helper, talks to it over its management socket, and keeps
connections, DNS rules, settings and history in one SQLite database.

| Component | State | Operations | Hard behaviour | What makes it correct |
| --- | --- | --- | --- | --- |
| **OpenVPN controller** `openvpn.py` | lifecycle status, attempt number, management client, pending credential, `_auth_prompt`/`_settled` events, `_notified_up`, `_shutdown_requested` | `connect`, `disconnect`, `attach`, a worker thread per attempt, handlers of notifications, `_announce` | request threads, workers, dispatchers and the start-up thread share the state; the lock is released between a transition and its announcement; timeouts race answers | each attempt uses its own credential and forgets it; up and down are announced in pairs and with the right reason; no busy status or open row lasts; a replaced worker disturbs nobody |
| **Session history** `history.py`, `store.py` | current session id, line buffer; tables `sessions`, `log_lines` | `start_session`, `append`, `flush`, `mark_connected`, `end_session`, pruning | called by all of the above; lock regions and transactions alternate; one connection for all threads; storage failures are swallowed | lines stay with their attempt, once; an attempt is closed once; no row is forgotten |
| **Session classification** `sessions.py` | none | `_kind`, search, paging, summary | ‑ | a row says how the attempt ended |
| **Management client** `management.py` | socket, notification queue, pending reply | `connect`, `command`, `close`, reader and dispatcher threads | replies and notifications interleave; a reply may come after its command timed out | notifications in order, each reply to its command |
| **Root helper** `vpn-connect-helper.in`, `rooted.py` | pid file, dnsmasq and nftables files | `start`, `stop`, `dns-apply`, `fw-on/off/status` | killed or failing between two steps; concurrent calls | one daemon; a rejected DNS change leaves dnsmasq running; the filter's state is what it reports |
| **Kill switch** `firewall.py` | the stored intent; the loaded ruleset | `set_intent`, `reconcile`, `guard_connect` | intent and ruleset change in separate steps; a gap between the guard and the start | a tunnel asked to be protected never starts unprotected |
| **Connections** `connections.py`, `store.py` | rows, derived profile files, the default flag | `save`, `set_default`, `delete`, `resolve` | row and file change separately | at most one default; a file only for an existing row |
| **DNS rules** `dns_rules.py`, `dns.py` | ordered rules; staged and installed files | `add`, `delete`, `move`, `import_legacy` | store, render, stage, apply are separate steps | what is installed is what is stored |
| **Vault and login** `vault.py`, `auth.py`, `access.py` | salt, verifier, key in memory; failed attempts | `unlock`, `rekey`, throttle | a second process can re-encrypt under a running one; the throttle's check and record are separate | no row unreadable with the current key; a lockout is a lockout |
| **Database** `db.py` | `user_version` | `transaction`, `migrate` | stopped between two migrations | the schema is always that of a version |
| **Traffic** `traffic.py` | the samples | rates, downsampling, series | counter resets, a clock that goes back, boundaries | the graph shows what was moved |
| **Routing, scope, push** `scope.py`, `routing.py`, `pushed.py` | the last push reply | `read_routes`, `scope`, `pushed` | the tables change between two readings; prefixes that cover each other | what is said is what becomes of a packet; a route is called missing only when it is |
| **Resolver** `resolver.py` | none | the report on a link and the rules | domains that contain each other | what is said of a rule is what becomes of its names |
| **Deployment checks** `deploy.py`, `create_app` | time of the start, the clients found then | the checks of `report` | checkout and machine change under a running service; a check fails | what a working check does not mention is current |
| **Lookups, notifier, routes, web client** | caches at most | ‑ | I/O | ‑ |

Interactions. Request threads call the controller; the controller calls the kill switch's guard,
resolves the connection (which writes the profile file), and then starts a worker. The worker runs
the helper, opens the management connection and waits on two events, which the connection's
dispatcher sets as notifications arrive. Every transition of the status goes through `_tracked`,
which announces it after releasing the lock: the announcement writes the history and pushes a
notification. The history writes through the connection to the database that every other service
uses as well.

The hazards this leads to are listed in `PROJECT.json`, each at its line, with the properties that
cover them.

## Plan

Modules in the order of their importance; all exist.

1. `Controller`: the lifecycle and its threads, with the daemon and the helper as environment.
   `AttemptLog` is its abstract specification, `ControllerProofs` and `AnnouncementProofs` its
   proofs.
2. `History`: the session history over the shared connection; `HistoryProofs`.
3. `Panel`: connections, profile files, vault, login and the start of a tunnel from them, over
   `Tables`, `Files` and `Access`; `PanelProofs`.
4. `Rooted`: the kill switch (`Firewall`) and the DNS rules (`DnsRules`, `DnsText`), which share the
   threads and the root helper; `RootedProofs`.
5. `Management`: commands, replies, timeouts, late replies; `ManagementProofs`.
6. `Pages`: what the panel tells its operator, over `Archive`, `Traffic`, `Scope`, `TunnelPage`,
   `Resolver` and `Deployment`; `PagesProofs`.

Every invariant of the passing runs is now proved as well as checked. Worth doing next: theorems for
what the violation runs refute, under the conditions the table of [Controller](#controller) says they
hold in (`SupersededStaysQuiet` when attempts do not overlap, `StoppedStaysStopped` with faults,
lateness or timeouts, one at a time, no reconnection and nothing adopted);
the composition of `Controller` with `Firewall`, whose guard precedes the claim of an attempt, and with
`Management`, whose late replies the controller's `attach` may meet.

## Controller

Everything that happens to `OpenVpnController` between two points where another thread can look is
one action. The correspondence:

| Code | Model |
| --- | --- |
| `_status` (state, error present), `_attempt`, `_client`, `_pending_secret`, `_username_for_auth` | `status`, `attempt`, `client`, `secret`, `username` |
| `_auth_prompt`, `_settled`, `_notified_up`, `_shutdown_requested` | `authPrompt`, `settled`, `notifiedUp`, `shutdownRequested` |
| the program counter of every thread; the transition it has yet to announce; its locals | `pc`, `post`, `held` |
| management connections: open, served by OpenVPN, to which daemon, notifications queued | `link` |
| the OpenVPN process | `daemon` |
| `History` as the controller uses it | `session`, `rows`; the last event recorded is `told` |
| what was sent to OpenVPN, and how often `disconnect` was called (for properties only) | `sent`, `asked` |

A thread is numbered by the attempt it belongs to; connection, daemon and row of that attempt carry
the same number. Number 0 is the tunnel found at start-up.

| Code | Actions |
| --- | --- |
| `connect` (its lock region) | `Connect` |
| `disconnect`: lock region; flag and signal; helper; second lock region | `Disconnect`, `DisconnectSignal`, `DisconnectStop`, `DisconnectDone` |
| `_connect_worker` with `_open_client`, `_prime`, `_advance`, the two waits, `_superseded`, `_fail`, `_abort_daemon` and the `finally` | `Launch`, `OpenSocket`, `AdoptClient`, `Authenticate`, `Prime`, `WaitTimeout`, `Answered`, `Settle`, `Superseded`, `Report`, `AbortDaemon`, `Finish` |
| `_on_state`, `_on_password`, `_fail`, `_on_socket_closed` | `OnConnected`, `OnExiting`, `OnProgress`, `OnNeed`, `AnswerNeed`, `OnFatal`, `OnSocketClosed` |
| `attach`, `_refresh_state` | `OpenSocket(0)`, `AdoptClient(0)`, `AttachSession`, `AttachStatus`, `AttachRefresh`, `AttachEnd` |
| `_announce` | `Announce` |
| OpenVPN | `OvpnAsks`, `OvpnConnects`, `OvpnConnected`, `OvpnReconnects`, `OvpnExits` |

Modelling decisions.

- A credential is the number of the attempt it was typed for, so "the right credential" is an
  equation between numbers. Validation of the code and resolution of the connection precede the lock
  and refuse without a trace: no step.
- `error` is kept as present or not, because only its presence is tested. Details, addresses, byte
  counts and log lines are dropped; `UNMANAGED` is computed by `snapshot` and never stored.
- OpenVPN serves one management client; a second connection is accepted and not answered, and its
  commands time out. The exit of OpenVPN puts its last words and the end of the stream into the queue
  of the served connection, at once and in this order.
- The helper's check for a running daemon and its start or stop are one step. Its failures are the
  hazard `faults`.
- An announcement decides, writes the row and sets the events in one step. In the code it takes no
  lock, so two announcements may overlap; the model lets any thread run before an announcement
  (hazard `lateness`), not within one.
- `AttachRefresh` merges the reply to `state` with the statements after it, and `AbortDaemon` the
  helper's stop with what follows it: between the two nothing but the daemon has changed, which the
  steps before and after already let happen.
- History writes cannot fail here; `History` is about that.

`Hazards` names what a run admits, so that a property can be checked under exactly the conditions
it needs. None of the hazards is excluded by the code:
`overlap` (connecting while a thread of an earlier attempt still runs), `haste` (disconnecting while
the worker runs), `lateness`, `timeouts`, `faults`.

How far each property goes (two attempts, no reconnects, nothing adopted, one hazard at a time;
explored beyond the listed runs):

| | none | faults | haste | overlap | lateness | timeouts |
| --- | --- | --- | --- | --- | --- | --- |
| `TypeOK`, `NeverDownUntold`, `RowClosed` | holds | holds | holds | holds | holds | holds |
| `OwnCredential`, `SecretGone` | holds | holds | holds | **fails** | holds | holds |
| `SupersededStaysQuiet` | holds | holds | holds | **fails** | holds | holds |
| `DropAnnounced` | holds | holds | **fails** | holds | **fails** | holds |
| `ImplementsAttemptLog` | holds | holds | **fails** | holds | **fails** | holds |
| `OnlyOperatorStops` | holds | holds | holds | **fails** | **fails** | **fails** |
| `StoppedStaysStopped` | holds | holds | **fails** | **fails** | holds | holds |

`StoppedStaysStopped` says that no daemon is launched while the status says stopped: the one the helper
was asked to stop may still be there, a new one may not. It fails when `disconnect` comes before the
worker's launch.

`SupersededStaysQuiet` under `overlap`, `StoppedStaysStopped` under `haste` and `DropAnnounced` with a
reconnection have runs of their own: they contradict a sentence of the repository, and are listed as
findings. The other failures are windows nothing in the repository rules out in words:

- `OnlyOperatorStops` under `timeouts` and `lateness`: `_abort_daemon` sets `_shutdown_requested` as
  well, so a tunnel that comes up just as the attempt times out is taken down and reported as
  stopped by the operator.
- `OwnCredential` under `overlap`: the new attempt's worker overwrites `_username_for_auth` while the
  old attempt's daemon still asks, or the replaced worker its successor's secret.
- `DropAnnounced` and `ImplementsAttemptLog` under `lateness` and `haste`: a down transition is
  overtaken by another one, and the event it should have recorded is lost.

With a tunnel adopted at start-up, `RowClosed` fails: the adopted daemon may exit between
`start_session` and the moment `attach` sets CONNECTING, which leaves the status connecting and the row
open. With an OpenVPN that reconnects by itself, `DropAnnounced` fails (a finding). With `faults`,
`BusyResolves` fails: when the helper's stop fails the status stays disconnecting, and nothing but the
end of the connection moves it on.

### Properties

Safety: `OwnCredential`, `SecretGone`, `DropAnnounced`, `RowClosed`; action properties
`NeverDownUntold`, `OnlyOperatorStops`, `StoppedStaysStopped`, `SupersededStaysQuiet`; refinement
`ImplementsAttemptLog`; liveness `WorkersFinish`, `StatusTellsTruth`, `BusyResolves`. Each is stated in
words next to its definition.

### Fairness

`FairSpec` assumes weak fairness of each thread's steps: workers, dispatchers, announcements, the
start-up thread and a `disconnect` under way. They are operating system threads that hold no lock for
ever, all waits have time limits, and every helper call has a timeout. The operator is under no
obligation. Of OpenVPN it assumes only that it exits once it has been told to terminate. It need not
answer, connect or exit otherwise; the workers' time limits (`timeouts`) are what liveness rests on.

## AttemptLog

What the history promises of each attempt: it is opened, may come up, and ends in exactly one way,
`failed` before it came up, `dropped` or `disconnected` after. Only a following attempt may close an
open one as interrupted. `Controller!Log` instantiates it with `ending[a] = Kind(a)`, the translation of
`sessions.py:_kind`, which classifies the rows a reader is shown. `ImplementsAttemptLog` then says that
no interleaving makes an attempt change its ending, skip coming up, or end in a way the log does not
know (`ended`, the value `_kind` falls back to).

## History

`History` has one lock, a buffer and the current session's id; its methods alternate regions of the
lock with transactions. A step is one such region, or the beginning or the end of one transaction.

| Code | Model |
| --- | --- |
| `_session_id`, `_pending` | `session`, `pending` |
| the method a thread is in, where, and its locals `session_id`, `pending` | `op`, `pc`, `mine`, `batch` |
| the transaction of the shared connection | `txn` |
| tables `sessions`, `log_lines` | `rows`, `stored` |
| (for properties only) lines taken, rows whose closing was never written | `accepted`, `unclosed` |

| Code | Actions |
| --- | --- |
| the calls | `StartSession`, `FlushCall`, `MarkConnected`, `EndSession`, `AppendLine` |
| the lock regions of `flush`, `mark_connected`, `end_session`, `start_session` | `Take`, `Read`, `Null`, `Adopt` |
| `transaction.__enter__`; its refusal | `Begin`, `Refused` |
| the body and `COMMIT` of `append_lines`, `mark_session_connected`, `end_session`, `start_session`, `prune_sessions` | `AppendLines`, `MarkRow`, `CloseRow`, `InsertRow`, `PruneRows` |
| the process ends | `Restart` |

Lines are numbered within their session, so that their owner and a second copy can be told apart.
`start_session` is `end_session("interrupted")` followed by the insertion; as in the code, only one
thread is inside it at a time (`connect` holds the controller's lock, `attach` runs before requests
are served). All threads may call any other method at any time, which is more than the controller does.
The transaction a thread is inside belongs to the connection, which all threads share: the `BEGIN
IMMEDIATE` of another thread fails at once (`busy_timeout` is about other connections), and each method
logs that and goes on (`Refused`). Statements other threads issue between a `BEGIN` and its `COMMIT`
without a transaction of their own are reads. A swept row keeps its id out of use.

Properties: `OwnLines`, `NoLineTwice`, `ClosedOnce`, `OnlyLiveRowOpen`; and `UnfinishedClosed`, the
docstring's claim, which a refused transaction breaks (a finding).

## Panel

The stored connections and everything that depends on the key they are encrypted with. A step is one
statement or transaction of the shared database, one operation on a file, or one access to state in
memory.

| Code | Model |
| --- | --- |
| table `connections`; `vault` | `rows`; `vault` (the password it opens with, and its key) |
| `VaultState._key`; `PASSWORD_HASH` of the process and of the environment file; `LoginThrottle._failures` | `held`; `hash`, `envHash`; `failures` |
| the profile files and their temporary names, with every open descriptor | `files`, a record of `Files` each |
| a request and its local variables; `set-password` between its unlock and its transaction | `job`; `cli` |
| the controller's status, whether its daemon runs, and what OpenVPN was started with | `tunnel` |

| Code | Actions |
| --- | --- |
| `save_connection`: `_vault.require()`, the transaction, the file | `SaveCall`, `SaveRow`, `OpenFile`, `WriteFile`, `Publish`, `WriteFails` |
| `make_default`; `toggle_pushed_dns`; `delete_connection` | `SetDefaultCall`, `MarkRow`; `ToggleCall`, `ToggleRow`; `DeleteCall`, `RemoveRow`, `Unlink` |
| `connect`: `resolve`, `write_profile`, the claim; the helper; the tunnel's life | `ConnectCall`, `Secrets`, the file steps, `Claim`; `Launch`; `TunnelUp`, `Reconnects`, `TunnelFails`, `Stop`, `Stopped`, `TunnelDown` |
| `login`, `unlock_vault` | `LoginCall`, `WrongPassword`, `Unlock`, `Create`, `Hold` |
| `set-password` | `SetPassword`, `Rekey` |
| a refused `BEGIN IMMEDIATE`; the process ends | `RefuseTransaction`; `Restart` |

`Tables` has the transactions of `store.py` as operators on a table, `Files` what becomes of a file that
several descriptors write under one temporary name, and `Access` which address a request is attributed
to behind proxies. A key is a number and a row names the key that decrypts it, so decryption is an
equation. The history variables say when a property's premise is gone: `lost` (rows written with a
key that the vault had dropped: a request that took the key before a `set-password` of another
process), `blank` (`set_default` of a connection that a concurrent delete removed clears the flag and
sets it nowhere), `leftover` (a request that had resolved a connection writes its file after its
deletion, or a restart comes between row and file), `mixed` in `job` and `tunnel` (another request was
at the same file, or, of a deletion, the tunnel became busy after it had asked).

Busy is what `VpnStatus.busy` counts: a tunnel that is being claimed, brought up, brought up again by
OpenVPN itself or stopped; one that stands is not. The deletion's question and its transaction are two
steps, and a tunnel that stands may be stopped or reconnect between them. So `InUseKept` says who may
still remove the row of a busy tunnel: one who asked before it became so (`Occupy` marks them).

## Rooted

`Rooted` composes the two services that act through the root helper, `Firewall` and `DnsRules`, over
the same threads.

| Code | Actions |
| --- | --- |
| `guard_connect`, `reconcile`, `set_intent`, `state` | `Guard`, `Recheck`, `Reconcile`, `Probe`, `Store`, `Act`, `Report`, `Start`; begun by `Switch` (POST), `Look` (GET), `Guard` (connect) |
| `cmd_fw_status`, `cmd_fw_on`, `cmd_fw_off` | `Answers`, `After` |
| `add`, `delete`, `move`, `import_legacy` | `Add`, `Delete`, `MoveRule`, `Import` with `ImportNext` |
| `_apply`: list, render, stage, run, answer | `List`, `OpenStaging`, `WriteStaging`, `PublishStaging`, `RunHelper`, `GiveUp`, `Answer`, `StagingFails`, `DnsFails` |
| `cmd_dns_apply`, line by line | `Install`, `Keep`, `Swap`, `Aside`, `Restart`, `Undo`, `Revive` |
| a hand on nftables or dnsmasq, a restart, a reboot | `Interference`, `ServiceRestart`, `Reboot` |

The kernel's table is the number of copies of the ruleset it holds, because `fw-on` adds to the table
there is. A configuration is a sequence of line records (`DnsText`: `Render`, `Parse`, `Acceptable`);
`Torn` is half a file, `Empty` one without a byte. Whatever makes nft fail to list its table reads as
"disarmed" (`Answers`). A helper goes on after its request has given up
(`GiveUp`) and may meet the next one. dnsmasq refuses a file that names one of `Disliked`, an address
that passes every check of the panel; the helper refuses one that names a `Foreign` address (IPv6 with a
zone, which the panel takes and the helper's pattern does not) or has more than `MaxLines` lines (2000
in the code). Premises: `undone` (a repair that had read the setting before the switch was set to off
stores "on" after it; `overtaken` marks such repairs), `disturbed` (the filter went, or the setting came on, after the guard had looked:
nothing holds them together up to the start), `mixed` and `crowded` (two requests or helpers at once).

## Management

| Code | Model |
| --- | --- |
| `_send_lock`; `_responses`; `_events`; `_closed`; `_sock` | `lock`; `responses`; `events`; `closed`; `open` |
| where each thread is in `command`, and whose lines it has collected | `call` |
| the reader thread; the dispatcher's current notification | `reader`; `handling` |
| OpenVPN and both directions of the socket | `alive`, `toVpn`, `toApp` |
| `command`: `is_open`, the lock and `_drain`, `_write`, the loop, the timeout | `Begin`, `Lock`, `Write`, `Take`, `TimeOut`, `Return` |
| `_read_loop` with `_dispatch`; `_dispatch_loop`; `close` | `Read`, `ReaderEnds`; `Dispatch`, `Handled`; `Close`, `ShutDown` |
| OpenVPN (external) | `VpnReplies`, `VpnNotifies`, `VpnExits` |

A line of a reply carries the number of its command, which the code cannot see: so "whose line" is a
question the model can ask. `SUCCESS`, `ERROR` and `END` are one terminator, which is all that the loop
tells apart. A notification that the handler answers with a command of its own (`password`) is the
reason there is a dispatcher: `EveryCommandAnswered` fails if the reader runs the handler.

A reply that is late is taken by the command that follows (`behind`): `RepliesMatch` says how far that
goes. `EveryCommandAnswered` excepts `close()`: the reader that finds the client closed puts the
end-of-stream marker, and a command that drains the queue after it and before the socket is shut down
waits for its timeout.

Fairness: the threads' own steps (`Continue(t)`: a step of `command`; `Work`: the reader; `Dispatch`,
`Handled`), since a thread that can run does and `_send_lock` is not held for ever; and `VpnReplies`, an
OpenVPN that is alive answers a command. Nothing is assumed of `TimeOut`, `Close`, notifications or the
exit of OpenVPN, so the liveness properties do not rest on a timeout.

## Pages

What the panel tells its operator, each page over the part of the system it describes while that part
changes. The parts share nothing; `page` says which one a behaviour is about.

| Module | Code | Question |
| --- | --- | --- |
| `Archive` | the sessions table under retention and the cap; `sessions.py` `_kind`, `search`, `page` | does a reader who pages to the end see every session once, while sessions start, end and are swept |
| `Traffic` | `record_sample`; `traffic.py` `rates`, `downsample`, `series` | is what the graph shows what was moved, when the counter starts again, readings come late and the clock goes back |
| `Scope`, `TunnelPage` | `routing.py`, `scope.py`, `pushed.py`; `_append_log`, `pushed`, `scope` of the controller | does the scope say what becomes of a packet; is a route into the tunnel called missing when it is not there, and only then |
| `Resolver` | `resolver.py` | is what is said of each DNS rule what becomes of the names it is for |
| `Deployment` | `db.py` `discover`, `migrate`; `create_app`'s order; `deploy.py` | are migrations applied in order whoever starts beside whom; is what the report does not mention current, and what it mentions not |

The algorithms are operators over small data, checked in every state the run reaches against a
definition that knows more than they do: the bytes really moved (`moved`), the kernel's choice among
routes (`Via`, the longest prefix), the domain by which systemd-resolved chooses a link
(`GoesToTunnel`, routing and search domains alike), the last value of a key in the environment file
(`Effective`), the code a process really imported. An address is `Bits` bits and a prefix the first of them, so that every
relation between prefixes is computed, never tabulated. A rate is a fraction (bytes over seconds), and so is the mean a bucket is drawn at; the
sums and the rates of a series are recursive functions, with one value for every reading as in the
code's loop. A pushed route is a prefix and the gateway it names: one through `net_gateway` is installed
through the machine's own default route. The controller's copy of the push is kept as in
`_append_log`: the line is in the log before it is kept aside (`AppendLog`, `KeepAside`), and a page that
finds no copy looks in the log (`Known`). `coverage()` divides two integers
into a float and `downsample()` cuts at `int(index * size)` with a float `size`; the model counts and
cuts exactly. The difference is one of rounding: of IPv6, a gap of a /54 or less vanishes in the
53 bits of a float, and the code then says `full`. Premises: `unsure` (the route table changed
between two readings of one answer), `settled` (OpenVPN has acted on its push), `Hurried` (a module was
edited after it was imported and before the start was noted).

Of the deployment, everything a check reads may change while the service runs: modules, other Python
files below the root, the template (which may be missing), migrations, clients and the environment file.
Clients are looked up once, at the start (`Serve`), so `ClientDrift` and `Current("client")` are about
that moment; the environment file is judged as it stands, not as systemd read it. `report()` passes over
a check that fails: `DriftTold` holds for every set `silent` of failing checks, and says nothing of
those. `RemoveMigration` does not happen while
an app is between looking for its migrations and applying them; both processes of that case would have
to disagree on what a number means.

## Runs

| Run | Module, instance | Shows |
| --- | --- | --- |
| `controller_contract` | `MCController`; 2 attempts, queue 2, 2 stops; `faults` | one request at a time: `OwnCredential`, `DropAnnounced`, `OnlyOperatorStops`, `ImplementsAttemptLog` hold, whatever fails |
| `controller_adopted` | a running tunnel and 1 attempt, 1 reconnect; `haste`, `timeouts`, `faults` | `TypeOK`, `SecretGone`, `NeverDownUntold` hold |
| `controller_live` | 1 attempt, queue 2; `haste`, `timeouts`, `lateness`; `FairSpec` | `RowClosed`, `WorkersFinish`, `StatusTellsTruth`, `BusyResolves` hold |
| `controller_overlap` | 2 attempts; `overlap` | `SupersededStaysQuiet` is violated |
| `controller_reconnect` | 1 attempt, 1 reconnect; no hazard | `DropAnnounced` is violated |
| `controller_haste` | 1 attempt; `haste` | `StoppedStaysStopped` is violated |
| `history` | `MCHistory`; 2 threads, 2 sessions, 3 lines each, buffer 2, 2 lines and 1 row kept; every hazard | `TypeOK`, `OwnLines`, `NoLineTwice`, `ClosedOnce`, `OnlyLiveRowOpen` hold |
| `history_contended` | the same with 1 line each, no restarts | `UnfinishedClosed` is violated |
| `panel` | `MCPanel`; 2 threads, 2 connections, 2 profiles, 2 passwords, 3 keys, 3 calls | `DefaultKept`, `SecretsReadable`, `RekeyWhole`, `FilesFollowRows`, `LaunchedAsResolved`, `InUseKept`, `GuessesBounded` hold |
| `rooted` | `MCRooted`; 2 threads, 1 domain, 2 addresses, 3 rules, 3 lines, 2 requests, 1 event | `AnswerKept`, `NeverExposed`, `AppliedWhole`, `FileWhole`, `ResolverSurvives`, `RulesDistinct` hold |
| `management` | `MCManagement`; 1 caller and the dispatcher, 3 commands, 1 notification; fair | `TypeOK`, `RepliesMatch`, `EveryCommandAnswered`, `LossAnnounced` hold |
| `pages` | `MCPages`; 4 attempts, 5 readings, 3-bit addresses, 2 migrations on 2 branches, 3 edits of checkout or machine | `PagesComplete`, `SeriesFaithful`, `ScopeExact`, `AccusedRightly`, `RulesExplained`, `MigrationsApplied`, `DriftTold` hold |

Bounds. Two attempts are enough for every effect of one attempt on the next: credential, flag,
connection, row and worker of the earlier one are all in play, and a third meets nothing new. A queue
of one or two notifications lets a dispatcher lag behind the process; the end of the stream is never
bounded. One reconnect passes through the state the code does not treat as up; a second one repeats it.
Two `disconnect` calls in one attempt meet each other's flag. In `History`, two threads are the two
that race (a disconnect and a dispatcher), a buffer of two fills, three lines exceed both the buffer
and the rows' cap, and two sessions with one row kept make the sweep remove a row that is still in use.
Deadlock is not checked: the operator may stop asking, and the bounds end every behaviour.

The later modules:

- `panel`: two names make the default move and two requests meet on one file; two profiles, of which
  one asks for a code and one filters pushed DNS itself, meet both branches of what is derived from
  a row; three keys are two changes of the password; three calls are two requests and a restart or a
  password change, or three requests.
- `rooted`: two threads are two helpers at once; one domain and two addresses, one of which dnsmasq
  refuses, make a duplicate, an accepted and a refused file; with three lines the text of three rules
  is one the helper refuses, as it would an address whose form it does not know (`Foreign`, empty
  here); three rules include two fallbacks that change places; two requests and one event from outside (a hand on either service, a restart, a
  reboot).
- `management`: one thread beside the dispatcher contends for the lock; of three commands one can be
  given up, a second take its late reply, and a third begin after both; one notification lets the
  handler issue a command.
- `pages`: four attempts with three kept make the sweep remove rows between two pages; five readings
  fill a series of four and drop one; addresses of three bits have every relation between prefixes
  (nested, adjacent, halves of everything, a quarter that is private); two migrations on two branches
  give duplicates, gaps and conflicts, and three edits let checkout and machine change before, during
  and after a start; readings one or three seconds apart make buckets that are even and buckets that
  are not. The parts share nothing, so a behaviour moves one of them only; they are one run
  because each by itself is small.

Symmetry: the threads of `History`, `Panel` and `Rooted` are interchangeable, and so are `Panel`'s
passwords; no property of these runs is temporal beyond one step. `Management`, which has liveness,
uses none.

## Proofs

`tlapm` checks the proof modules. Every invariant a passing run checks has a theorem, and so have the
action properties and the refinement of those runs. The theorems hold for any number of attempts,
threads, sessions, connections, rules, readings and commands, any bounds, and, but for the conditions
named below, any hazards. `PROJECT.json` lists them; this section says what they rest on.

### Assumptions

Each module names what it assumes of its constants: `ControllerAssumption`, `HistoryAssumption`,
`PanelAssumption`, `DiskAssumption`, `GateAssumption`, `DnsAssumption`, `RootedAssumption`,
`ManagementAssumption`, `DeploymentAssumption`, `PagesAssumption`; TLC evaluates them on every run. Most
say that bounds are naturals and that `None`, `Absent`, `Empty`, `Torn` are not values of the kind they
stand beside. Those with more to them:

- `GateAssumption`: the one who guesses is not a trusted proxy, because what a trusted proxy says of a
  forwarded address is believed (`access.py`); the trusted networks contain neither an empty nor an
  unreadable hop, which is no address; the threads are finitely many (gunicorn has eight); two
  proxies are within `MAX_FORWARDED_HOPS`, which is 20.
- `PagesAssumption`: the address OpenVPN connects to is an address, the machine's other routes name a
  device that is not the tunnel's, a reserved prefix is longer than a half of the space (link-local and multicast
  addresses are a /4 at most), and a push is made of the options the parser tells apart.
- `DeploymentAssumption`: lines of the environment file are numbered, a comment is told from junk, and
  `None` is no time.

### Conditions

Some theorems need a condition on what a run admits. In each case the properties are false without it,
and TLC shows how:

| Theorem | Condition | Outside it |
| --- | --- | --- |
| `EveryRowIsClosed` (`RowClosed`) | nothing adopted | the adopted daemon exits between `start_session` and CONNECTING |
| `CredentialsAreOwn`, `SecretIsForgotten` (`OwnCredential`, `SecretGone`) | no overlap | a replaced worker shares `_username_for_auth` and the secret with its successor |
| `OnlyOperatorStopsHolds` (`OnlyOperatorStops`) | `faults` and `haste` at most | `_abort_daemon` sets the operator's flag when a wait runs out |
| `EveryDropIsAnnounced`, `ControllerImplementsAttemptLog` (`DropAnnounced`, `ImplementsAttemptLog`) | `Plain`: `faults` and `timeouts` at most, no reconnection, nothing adopted | `haste` and `lateness` overtake an announcement, as do overlapping requests whose waits run out; a reconnection is the finding |
| `UnfinishedIsClosed` (`UnfinishedClosed`) | neither `contention` nor `restart` | a refused transaction (the finding), or a restart, leaves the row open |

`ControllerTypes` and `NeverDownUntoldHolds` need none, nor does any other theorem.

### Controller

- `ControllerTypes`: type correctness.
- `EveryRowIsClosed` (`RowInv`). The property speaks of a system at rest; the invariant says why nothing
  is forgotten on the way there: while the row is open, an end is about to be announced (`Owed`), or the
  status is still one that something will move (`Unfinished`): the connection is open, its end is queued,
  or the worker has not opened it.
- `CredentialsAreOwn`, `SecretIsForgotten` (`CredentialInv`). That what was sent is right is inductive
  only with where it comes from: the process is the current attempt's (`OwnProcess`), the secret and the
  user name are the current attempt's, and so is what a dispatcher holds on its way to OpenVPN
  (`OwnSecret`), because only the current attempt has a worker (`OneWorker`).
- `NeverDownUntoldHolds`, under every hazard and with a tunnel found at start-up.
  A down event needs `_notified_up`, so it is enough that a raised flag is matched by what was last
  told (`Told`). `_announce` keeps that by itself; `attach` does not, because it ends by setting the
  flag to whether the status is connected, whatever was announced meanwhile. `AttachInv` is about that
  window: only the start-up thread and the dispatcher of its connection move (`AttachOnly`); a tunnel
  announced as down by then is one whose connection has closed with no CONNECTED left in its queue
  (`Ended`), so that neither a notification nor the reply to `state` can make the status connected
  again; and this rests on the order of the queue (`Conversation`): last words come last, and OpenVPN
  asks for a credential only after a progress notification took the status away from connected.
- `EveryDropIsAnnounced`, `ControllerImplementsAttemptLog` (`LogInv`). One thread announces at a time,
  and announces the status as it is (`OneAnnounces`); what looks up is up as long as the process runs
  (`UpForGood`); the end of what looks up is announced, queued, or still to come (`EndToCome`); a
  tunnel told to be up is in the status or about to be told down (`Standing`); the open row is the
  attempt's and has come up exactly if the operator was told (`OneRow`). The refinement maps every step
  of the controller to one of `AttemptLog` or to none through `Kind`, action by action.
- `OnlyOperatorStopsHolds` (`StopInv`). Without a call of `disconnect`, an attempt that is given up cannot
  come up any more (`Hopeless`): OpenVPN waits for a credential nobody will send or has said its last
  words, so that the flag `_abort_daemon` raises meets no tunnel.

### History

- `HistoryTypes`: type correctness, with `CallsKnown`, which says which labels each method passes.
- `StoredLinesAreOwn` (`OwnLines`). The invariant says nothing of what is in a buffer, so it is not
  inductive; `OwnBuffers` adds that pending lines belong to the current session, and a batch in a
  thread's hands to that thread's `mine`. It survives because a flush takes buffer and session in one
  region, and because `start_session` empties the buffer as it installs a new id: what was appended
  between the flush and the end of the last session is dropped, never given to the next one.
- `EachLineOnce` (`NoLineTwice`; `SingleInv`). No line is twice in one place and none in two, the places
  being the buffer, each thread's batch and the table; and the next line logged is none of them.
- `RowsAreClosedOnce` (`ClosedOnce`). `OneCloser`: a row some thread is about to close is open, is no
  longer the current one, and no other thread is about to close it. `OneStarter`: at most one thread
  is inside `start_session`.
- `NoRowIsForgotten` (`OnlyLiveRowOpen`). `OpenRowsKnown`: an open row is the current one, in the
  hands of a thread that will close or adopt it, or among those whose closing was never written. Where
  no closing goes unwritten, `UnfinishedIsClosed` follows: a refused transaction and a restart are the
  only ways to what `history_contended` exhibits.

### Panel

- `SecretsAreReadable`, `RekeyingIsWhole`, `OneDefault` (`PanelInv`). That every secret decrypts is not
  inductive without knowing which key is where: `KeyInv` says that a key is held, or in the hands of
  `set-password`, only once there is a vault, that the command's key is the vault's as long as it is
  under way, and that the rows the key does not open are exactly those in `lost`; `JobInv` what a
  request has with it at each step, in particular that a save in progress has a key. `DefaultInv` is
  the property itself; it rests on lemmas about the transactions of `Tables` (`MarkedTable`,
  `SavedTable`, `DeletedTable`).
- `NoFileIsForgotten`, `LaunchesWhatWasResolved`, `DeletionAskedFirst` (`FileInv`). A descriptor follows
  its file from one name to the other, so the invariant follows descriptors (`PlaceInv`); a writer that
  was not overtaken is alone at its file and finds there what it put there (`Undisturbed`, `WriterInv`);
  what is about to be launched is what was claimed (`LaunchInv`); and whoever is
  about to delete the connection of a busy tunnel asked before it became busy (`AskedInv`), by a claim, a
  stop or a reconnection.
- `GuessesAreBounded` (`GuessInv`). The bound on recorded failures is not inductive, since the check
  comes before the record: the invariant counts those that have found the password wrong and not said
  so, at most one for each thread. `CallerIsNamed` shows that behind trusted proxies the nearest hop that
  is none is the caller, whatever the caller put before it.

### Rooted

- `SwitchIsKept`, `NoTunnelExposed` (`FilterInv`). What each thread is doing is well founded (`Founded`):
  whoever stores a setting that is not the switch's stores "on" and has read it, and if the operator has
  said "off" since, it is marked as overtaken; a connect about to start passed the guard with the filter
  there or the setting off, or has been disturbed since. So a setting that differs from the operator's
  answer comes from an overtaken repair, and one who reads after the switch never repairs.
- `AppliedIsWhole`, `ResolverSurvivesRequests`, `InstalledFileIsWhole` (`DnsInv`). `Carried` follows a
  request's text from the table through the staged file to the installed one; `Served` what becomes of
  a running dnsmasq on the way: it runs on the rules from before until it is restarted, and until then
  what was there is kept for the undoing. Of a refused request the theorem says that dnsmasq runs, on
  the files there are, which are those from before only where no legacy file was moved aside. Both hold of a request nobody interfered with (`AloneInv`), and
  `StepPreserves` reduces every step to the worker that takes it.
- `NoRuleTwice` (`Good`: a finite table of well-formed rows, no two alike). A new row's id and position
  are one more than the greatest of a finite set, so of no other row; moving a fallback exchanges two
  positions and leaves the set of them alone; the move's neighbour differs from the row because it lies
  strictly to one side.

### Management

- `TypeCorrect`, `RepliesAreMatched` (`ManagementInv`). The property speaks of lines collected; the
  invariant (`Accounted`) of lines still to come: whatever is outstanding on either half of the socket
  or in the queue when a command writes was so when it drained the queue, and later only its own
  command is added, because nobody writes without the lock.

### Pages

- `MigrationsAreApplied` (`MigrationInv`). `PendingIsRest`: what a process has still to apply is all
  that the database lacks of what it found, and a number that is already there is the same migration.
  `PendingAgrees`: two processes mean the same migration by a number. Both are what makes it harmless
  that `migrate()` settles what is pending before any transaction is open.
- `DriftIsTold` (`CodeInv`: the clock is never behind the code, nor the code behind what was imported of
  it, and the start is noted after the import). `SilenceIsRight`: a check that works and says nothing
  leaves nothing unsaid but an edit during the import; `ComplaintIsRight`: one that speaks is right but
  for a Python file that is not the app's. Migrations are counted, so their part rests on
  `MigrationInv`: what is applied is 1 up to the version.
- `NotesAreTrue` (`ReportInv`: a report kept is the one of the link and the rules as they are, because
  whatever changes either drops it). The rest is about the report against the link's domains of both
  kinds: a name under a rule's domain is under whatever that domain is under (`PrefixThrough`).
- `ScopeIsExact`, `AccusationsAreRight` (`MachineInv`: the tables are the machine's own routes, or such
  routes with another destination (the server's pin, `net_gateway`), but for the tunnel's, and have what
  OpenVPN took of the push into the tunnel; `ViewInv`: what a page holds is of the machine
  as it is, or known to be unsure). The rest is arithmetic of prefixes, for any width: of two that
  overlap one contains the other, so the blocks that `collapse` leaves are disjoint and cover all exactly
  if every address is in one.
- `HistoryIsComplete` (`ArchiveInv`: what was shown lies above the cursor, in descending order, and what
  every answer could have shown is among it or still below). A session that is started while someone
  reads is above every cursor, one that is swept only shrinks what is left.
- `SeriesAreFaithful` (`GraphInv`: what was counted between two readings was moved between them, and the
  last reading is the counter's). Rates telescope: a rate spans its pair of readings, a pair that is
  skipped only loses, and consecutive pieces of a sequence rejoin to it (`PiecesRejoin`), so buckets keep
  the points (`BucketsRejoin`). A mean of fractions is never above the greatest of them
  (`MeanStaysBelow`), and over equal intervals it is the bucket's bytes over the bucket's time
  (`EvenAreaIsBytes`).

`NumberLemmas` has the facts on least and greatest elements and on quotients these proofs share, and two
that stand in for induction: `Climb` (a set of naturals that has 0 and the successor of each of its
members up to a bound has all up to there, by its least counterexample) and `RecursionExists` (a function
defined step by step along an interval exists, and satisfies its equation). With them what the two
recursive functions of `Traffic` compute is proved for series of every length.

### What the proofs changed

- `ScopeTold` counted the tunnel's link-local and multicast routes among those that make it full, which
  the code does not (`scope.py:260`); in TLC's instance they are never needed to cover everything, in
  general they may be. It now counts what `evaluate` counts.
- `GuessesBounded` summed failures over all addresses; the proof showed more, that no other address is
  ever charged, and the property says it.
- `ResolverSurvives` is about a dnsmasq that runs on the installed files: the premise (`ran`) records
  that, and that the file is a whole one.
- `DriftTold` was an equivalence between an empty report and a current installation; what is provable
  is two statements, one for each check that is silent and one for each that speaks.
- Definitions by `CHOOSE` over sequences or by folds were restated by what they select (`InOrder`,
  `Picked`, `Settings`, `Descending`), and `Kind` as the nested conditions it is in the code.

### Model-checked only

Liveness (`WorkersFinish`, `StatusTellsTruth`, `BusyResolves`, `EveryCommandAnswered`, `LossAnnounced`),
which is out of this prover's reach together with `ENABLED`; and the properties the violation runs
refute, where they hold under fewer hazards.

## Where code and comments part

Four differences have runs that exhibit them (findings in `PROJECT.json`, see
[Controller](#controller) and [History](#history)). Others were met while modelling. The models follow
the code, so each of them is a behaviour of the models; the properties are stated so that they hold of
the code, and name the exception where one is needed:

- `cmd_fw_on` speaks of replacing the table and adds a copy to the one there is (`After`).
- `cmd_dns_apply` speaks of putting back what was there; it puts back the file and not the legacy file
  it has moved aside, whose rules are lost to dnsmasq (`Undo`; the premise on `ran.legacy` in
  `ResolverSurvives`).
- `import_legacy` is described as one transaction and runs one for each rule: an import that is refused
  half way leaves the rules before it in the table and applies nothing (`ImportNext`, `DnsFails`).
- `downsample` draws a bucket at the mean of its rates, each counted once; the area under it is the bytes
  moved, as its comment says, only where the readings were equally spaced (`Even` in `SeriesFaithful`).
- A route through `net_gateway` is in effect off the tunnel's device, and `report()` of `pushed.py` calls
  it missing (`Bypasses` in `AccusedRightly`).
- `resolver.py` ignores search domains as soon as there are routed ones, though systemd-resolved does
  not: the rule for one is then said to be in use (the exception in `RulesExplained`).
- `code_drift` takes the newest Python file of the whole checkout for the app's source, so that an edited
  test makes the app "older than its source"; and it compares with a time noted after the app was
  imported, so that an edit in between goes unnoticed (both exceptions of `DriftTold`).
- `_apply` "never raises", but a failing write of the staging file does raise `OSError`
  (`StagingFails`): the rule is stored and the request fails.
- The in-use check of `delete_connection` asks whether the attempt is busy, which an established tunnel
  is not, and asks before the transaction (`InUse`, `DeleteCall`).
- `pushed()` speaks of one moment for both halves of its answer; the reply is read after the routes
  (`ReadRoutes`, `CompareRoutes`). `_push_reply` outlives the tunnel it came with when a daemon that
  `connect` did not start runs next.
- `report()` of `pushed.py` guards against an empty table, but the bypass route to the server, which is
  not the tunnel's, keeps that guard from applying when the tunnel's device is gone.
- The headline of `resolver.py` says "pushed DNS" when nothing was pushed.
- `report()` of `deploy.py` passes over a check that raises, one without a template has nothing to
  compare with, and clients are those found at the start: a report without drift may be one that could
  not look (`Report`).
- `REDIRECT_PAIRS[6]` is not the pair of routes OpenVPN installs for IPv6; metrics of routes are not
  looked at.
- The total of a series is the last reading; the list of sessions shows the largest.
- `migration_drift` compares the highest number with the version: of a malformed set it says that a
  restart is all that is needed, and a duplicate below the version goes unreported.

## What is not covered

- Parsing and formatting, cryptography, HTTP, cookies and CSRF tokens, the browser's code.
- Delivery of notifications: a fire-and-forget request whose outcome nothing reads. Whether one is sent
  is part of `Announce`.
- `whois.py`'s lookups and their cache, beyond which prefixes are public; `summarise`; `record_event`:
  output only, no state anything here depends on.
- `install.sh` but for the stamp it gives the helper; `tools/`: scripts of the release.
- The kernel, nftables, dnsmasq, systemd-resolved, SQLite and OpenVPN appear only as the code uses them
  and are marked external.
- The services are composed where they share state: the threads and the helper (`Rooted`), the rows,
  files, key and tunnel (`Panel`). The controller's run and the filter's are separate: `Firewall` has a
  connect's guard and its start, not the lifecycle between.
