----------------------------- MODULE Deployment -----------------------------
(***************************************************************************)
(* The installation against its checkout: the migrations that run as the   *)
(* app starts (app/db.py) in the service and in any command that builds    *)
(* the app beside it, and the page that says what has drifted (GET         *)
(* /deploy, services/deploy.py).  Whoever works on the checkout, or on the *)
(* machine, may change it at any time; a moment is the number of changes   *)
(* before it.                                                              *)
(***************************************************************************)
EXTENDS Integers, Sequences, FiniteSets, FiniteSetsExt, SequencesExt

CONSTANTS
  Processes,   \* the service, and commands that build the app beside it
  Service,     \* the one that answers /deploy
  MaxNumber,   \* bound: the highest number of a migration
  Branches,    \* where migrations come from: two branches may use one number
  MaxEdits,    \* bound: changes of the checkout and the machine
  Machines,    \* what the machine may be: [clients, env], env a sequence of lines
  Comment, Junk, Unstamped, None

ASSUME DeploymentAssumption ==
  /\ Service \in Processes /\ MaxNumber \in Nat \ {0} /\ MaxEdits \in Nat
  /\ \A m \in Machines : DOMAIN m.env \subseteq Nat
  /\ Comment # Junk /\ None \notin Nat

VARIABLES
  files,      \* app/migrations: [n, branch]
  template,   \* when the helper's template was last edited, None if it is not there
  source,     \* the newest mtime of a module of the app
  others,     \* ... and of any other Python file: tests, tools, a virtual environment
  edits,      \* the clock
  applied,    \* migrations that are in effect in the database, in order
  version,    \* PRAGMA user_version
  helper,     \* the installed helper's stamp: a template, Unstamped or None
  machine,    \* the OpenVPN clients on it, and its environment file
  process,    \* what each process is at, and what it is to apply
  app         \* the service: the code that it imported, STARTED_AT, and its CLIENTS

checkout == <<files, template, source, others, edits>>
database == <<applied, version>>
deploymentVars == <<checkout, database, helper, machine, process, app>>

Down == [at |-> "down", pending |-> {}, needs |-> 0]

Numbers(migrations) == {f.n : f \in migrations}
Highest(migrations) == Max(Numbers(migrations) \union {0})

-----------------------------------------------------------------------------
(* Starting: create_app() and migrate().                                   *)

Become(p, at) == process' = [process EXCEPT ![p].at = at]

\* What a process knew ends with it.
NoCode == [imported |-> 0, started |-> 0, found |-> {}]
End(p) ==
  /\ process' = [process EXCEPT ![p] = Down]
  /\ app' = IF p = Service THEN NoCode ELSE app

\* The modules are imported before create_app() notes the time; of a command, no
\* one asks what it imported.
Import ==
  /\ process[Service].at = "down"
  /\ Become(Service, "imported")
  /\ app' = [NoCode EXCEPT !.imported = source]
  /\ UNCHANGED <<checkout, database, helper, machine>>

NoteStart(p) ==
  /\ process[p].at = IF p = Service THEN "imported" ELSE "down"
  /\ Become(p, "noted")
  /\ app' = IF p = Service THEN [app EXCEPT !.started = edits] ELSE app
  /\ UNCHANGED <<checkout, database, helper, machine>>

\* Deliberate fault: a gap in the numbers is let through.
Unambiguous(migrations) == Cardinality(Numbers(migrations)) = Cardinality(migrations)

\* discover(): numbers are unique and contiguous from 1.
WellFormed(migrations) ==
  /\ Cardinality(Numbers(migrations)) = Cardinality(migrations)
  /\ Numbers(migrations) = 1 .. Highest(migrations)

\* What is pending is settled here, before any transaction is open.  A malformed
\* set is a refusal to start.
Discover(p) ==
  /\ process[p].at = "noted"
  /\ IF WellFormed(files)
     THEN /\ process' = [process EXCEPT ![p].at = "migrating", ![p].needs = Highest(files),
                                        ![p].pending = {f \in files : f.n > version}]
          /\ UNCHANGED app
     ELSE End(p)
  /\ UNCHANGED <<checkout, database, helper, machine>>

\* A migration and its number are one transaction.  None of those that are there
\* runs on a database that has it: it creates what exists or renames what is gone.
Apply(p) ==
  \E next \in process[p].pending :
    /\ process[p].at = "migrating"
    /\ \A f \in process[p].pending : next.n =< f.n
    /\ \A i \in DOMAIN applied : applied[i] # next
    /\ applied' = Append(applied, next) /\ version' = next.n
    /\ process' = [process EXCEPT ![p].pending = @ \ {next}]
    /\ UNCHANGED <<checkout, helper, machine, app>>

\* It failed, for that reason or another: rolled back, and no app.
ApplyFails(p) ==
  /\ process[p].at = "migrating" /\ process[p].pending # {}
  /\ End(p)
  /\ UNCHANGED <<checkout, database, helper, machine>>

\* The rest of create_app(), which looks for the clients once.
Serve(p) ==
  /\ process[p].at = "migrating" /\ process[p].pending = {}
  /\ Become(p, "serving")
  /\ app' = IF p = Service THEN [app EXCEPT !.found = machine.clients] ELSE app
  /\ UNCHANGED <<checkout, database, helper, machine>>

\* It ends, or is killed at any point of its start: a transaction that is open is
\* rolled back.
Stop(p) ==
  /\ process[p].at # "down"
  /\ End(p)
  /\ UNCHANGED <<checkout, database, helper, machine>>

-----------------------------------------------------------------------------
(* What else changes.                                                      *)

Edit == edits < MaxEdits /\ edits' = edits + 1

AddMigration ==
  /\ Edit
  /\ \E n \in 1 .. MaxNumber, b \in Branches : files' = files \union {[n |-> n, branch |-> b]}
  /\ UNCHANGED <<template, source, others, database, helper, machine, process, app>>

\* Another branch is checked out, or a number is given up -- not while an app is
\* between looking for its migrations and applying them.
RemoveMigration ==
  /\ Edit
  /\ \A p \in Processes : process[p].pending = {} \/ process[p].at # "migrating"
  /\ \E f \in files : files' = files \ {f}
  /\ UNCHANGED <<template, source, others, database, helper, machine, process, app>>

EditTemplate ==
  /\ Edit
  /\ template' \in {edits', None}
  /\ UNCHANGED <<files, source, others, database, helper, machine, process, app>>

EditSource ==
  /\ Edit
  /\ \/ source' = edits' /\ UNCHANGED others
     \/ others' = edits' /\ UNCHANGED source
  /\ UNCHANGED <<files, template, database, helper, machine, process, app>>

\* deploy/install.sh renders the template, and stamps the helper with its digest.
InstallHelper ==
  /\ template # None
  /\ helper' = template
  /\ UNCHANGED <<checkout, database, machine, process, app>>

\* A client is installed or removed, or the environment file edited.
ChangeMachine ==
  /\ Edit
  /\ machine' \in Machines
  /\ UNCHANGED <<files, template, source, others, database, helper, process, app>>

-----------------------------------------------------------------------------
(* The report.  What each check has to say, if it can read what it is about. *)

\* client_drift(), of what clients.discover() found as the app started.
ClientDrift(found) == "openvpn" \notin found

\* Deliberate fault: a helper without a stamp is taken for a current one.
HelperDriftStamped == template # None /\ helper \notin {template, Unstamped}

\* helper_drift(): missing, older than stamping, or of another template -- if there
\* is a template to compare it with.
HelperDrift == template # None /\ helper # template

\* migration_drift().
MigrationDrift == Highest(files) > version

\* code_drift(): of every Python file below the checkout's root.
CodeDrift(started) == \E newest \in {source, others} : newest > started

\* env_file_damage(): a key that is set twice, or a line that sets nothing.
Settings(lines) == {i \in DOMAIN lines : lines[i] \notin {Comment, Junk}}

EnvDamage(lines) ==
  \/ \E i \in DOMAIN lines : lines[i] = Junk
  \/ \E i, j \in Settings(lines) : i # j /\ lines[i].key = lines[j].key

Checks == {"client", "helper", "migrations", "code", "env"}

Drifts(check) ==
  \/ check = "client" /\ ClientDrift(app.found)
  \/ check = "helper" /\ HelperDrift
  \/ check = "migrations" /\ MigrationDrift
  \/ check = "code" /\ CodeDrift(app.started)
  \/ check = "env" /\ EnvDamage(machine.env)

\* report(): a check that raises, or that cannot read its files, adds nothing.
Report(silent) == {check \in Checks \ silent : Drifts(check)}

-----------------------------------------------------------------------------

DeploymentInit ==
  /\ files = {[n |-> 1, branch |-> b] : b \in {CHOOSE b \in Branches : TRUE}}
  /\ template = 0 /\ source = 0 /\ others = 0 /\ edits = 0
  /\ applied = <<>> /\ version = 0
  /\ helper \in {None, Unstamped, 0}
  /\ machine \in Machines
  /\ process = [p \in Processes |-> Down] /\ app = NoCode

DeploymentNext ==
  \/ Import
  \/ \E p \in Processes :
       NoteStart(p) \/ Discover(p) \/ Apply(p) \/ ApplyFails(p) \/ Serve(p) \/ Stop(p)
  \/ AddMigration \/ RemoveMigration \/ EditTemplate \/ EditSource
  \/ InstallHelper \/ ChangeMachine

-----------------------------------------------------------------------------

\* Migrations take effect in the order of their numbers, each once and none left
\* out, and the database's version says how many -- whoever starts beside whom,
\* whatever fails or is killed, and whatever comes into the checkout meanwhile;
\* and no app serves with a schema older than the migrations it found.
MigrationsApplied ==
  /\ Len(applied) = version
  /\ \A i \in DOMAIN applied : applied[i].n = i
  /\ \A p \in Processes : process[p].at = "serving" => process[p].needs =< version

\* What systemd makes of the file: the last value of a key, and nothing of the rest.
Effective(lines) ==
  {i \in Settings(lines) : \A j \in Settings(lines) : j > i => lines[j].key # lines[i].key}

\* The code was edited while the service was being started, before it noted when.
Hurried == app.imported < source /\ source =< app.started

\* What each check is there to tell: that the service runs the app's code as it is
\* in the checkout, the root helper is that of its template, the schema has every
\* migration, every line of the environment file that is not a comment would take
\* effect, and there was a client to drive when it started.
Current(check) ==
  \/ check = "client" /\ "openvpn" \in app.found
  \/ check = "helper" /\ template \in {helper, None}
  \/ check = "migrations" /\ \A f \in files : f.n =< Len(applied)
  \/ check = "code" /\ app.imported = source
  \/ check = "env" /\ Effective(machine.env) = {i \in DOMAIN machine.env : machine.env[i] # Comment}

\* What the report does not mention is current, if the check for it did not fail --
\* but for code that was edited as the service was being started.  What it mentions
\* is not current, but for a Python file that is not the app's.
DriftTold ==
  process[Service].at = "serving" => \A silent \in SUBSET Checks :
    LET report == Report(silent)
    IN /\ \A check \in Checks \ (silent \union report) :
            Current(check) \/ (check = "code" /\ Hurried)
       /\ \A check \in report : ~Current(check) \/ (check = "code" /\ others > app.started)
=============================================================================
