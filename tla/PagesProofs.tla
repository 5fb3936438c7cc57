----------------------------- MODULE PagesProofs -----------------------------
(***************************************************************************)
(* Proofs about Pages: the migrations, for any number of processes,        *)
(* branches and migrations, and what the pages say: that on the            *)
(* installation, on name resolution, on the tunnel's routes and scope, the *)
(* history and the traffic graph.                                          *)
(***************************************************************************)
EXTENDS Pages, NumberLemmas, SequenceTheorems

-----------------------------------------------------------------------------
(* The migrations: the inductive invariant.                                *)

Migration == [n : 1 .. MaxNumber, branch : Branches \union {CHOOSE b \in Branches : TRUE}]

MigrationTypes ==
  /\ files \subseteq Migration /\ IsFiniteSet(files)
  /\ version \in Nat /\ applied \in Seq(Migration)
  /\ process \in [Processes -> [at : {"down", "imported", "noted", "migrating", "serving"},
                                pending : SUBSET Migration, needs : Nat]]

Migrating(p) == process[p].at = "migrating"
Pending(p)   == process[p].pending

\* What a process has still to apply is in the checkout as it was found, is in the
\* database only if it is that very migration, and is all that the database lacks
\* of what the process found.
PendingIsRest ==
  \A p \in Processes : Migrating(p) =>
    /\ Pending(p) \subseteq files
    /\ \A f \in Pending(p), i \in DOMAIN applied : applied[i].n = f.n => applied[i] = f
    /\ \A f \in Pending(p) : f.n =< process[p].needs
    /\ \A k \in 1 .. process[p].needs : k =< version \/ \E f \in Pending(p) : f.n = k

\* Two processes mean the same migration by a number.
PendingAgrees ==
  \A p, q \in Processes : Migrating(p) /\ Migrating(q) =>
    \A f \in Pending(p), g \in Pending(q) : f.n = g.n => f = g

MigrationInv == MigrationTypes /\ PendingIsRest /\ PendingAgrees /\ MigrationsApplied

-----------------------------------------------------------------------------

\* A process that ends takes with it what it had still to apply.
LEMMA EndPreserves ==
  ASSUME MigrationInv, NEW p \in Processes, End(p), UNCHANGED <<files, applied, version>>
  PROVE  MigrationInv'
<1>1. process' = [process EXCEPT ![p] = Down] /\ UNCHANGED <<files, applied, version>>
  BY DEF End
<1>2. MigrationTypes'
  BY <1>1 DEF MigrationInv, MigrationTypes, Down
<1>3. \A q \in Processes : process'[q].at \in {"migrating", "serving"} =>
         q # p /\ process'[q] = process[q]
  BY <1>1 DEF MigrationInv, MigrationTypes, Down
<1>4. PendingIsRest'
  BY <1>1, <1>3 DEF MigrationInv, PendingIsRest, Migrating, Pending
<1>5. PendingAgrees'
  BY <1>1, <1>3 DEF MigrationInv, PendingAgrees, Migrating, Pending
<1>6. MigrationsApplied'
  BY <1>1, <1>3 DEF MigrationInv, MigrationsApplied
<1> QED  BY <1>2, <1>4, <1>5, <1>6 DEF MigrationInv

\* A process that goes to a step at which nothing is pending or served disturbs
\* nothing, whatever else happens to the code that it runs.
LEMMA MovingOn ==
  ASSUME MigrationInv, NEW p \in Processes, NEW step \in {"imported", "noted"},
         process' = [process EXCEPT ![p].at = step],
         UNCHANGED <<files, applied, version>>
  PROVE  MigrationInv'
<1>1. MigrationTypes'
  BY DEF MigrationInv, MigrationTypes
<1>2. \A q \in Processes : process'[q].at \in {"migrating", "serving"} =>
         q # p /\ process'[q] = process[q]
  BY DEF MigrationInv, MigrationTypes
<1>3. PendingIsRest'
  BY <1>2 DEF MigrationInv, PendingIsRest, Migrating, Pending
<1>4. PendingAgrees'
  BY <1>2 DEF MigrationInv, PendingAgrees, Migrating, Pending
<1>5. MigrationsApplied'
  BY <1>2 DEF MigrationInv, MigrationsApplied
<1> QED  BY <1>1, <1>3, <1>4, <1>5 DEF MigrationInv

\* The numbers of a checkout have a highest one.
LEMMA HighestFile ==
  ASSUME MigrationTypes
  PROVE  /\ Highest(files) \in Nat
         /\ \A f \in files : f.n =< Highest(files)
         /\ Highest(files) = 0 \/ \E f \in files : f.n = Highest(files)
<1> DEFINE f0 == [f \in files |-> f.n]
<1>1. f0 \in Surjection(files, Numbers(files))
  BY DEF Surjection, Numbers
<1>2. IsFiniteSet(Numbers(files))
  BY ONLY <1>1, MigrationTypes, FS_Surjection DEF MigrationTypes
<1>3. IsFiniteSet(Numbers(files) \union {0})
  BY <1>2, FS_AddElement
<1>4. Numbers(files) \union {0} \in SUBSET Int
  BY DEF MigrationTypes, Migration, Numbers
<1>5. /\ Highest(files) \in Numbers(files) \union {0}
      /\ \A x \in Numbers(files) \union {0} : Highest(files) >= x
  BY <1>3, <1>4, MaxIsGreatest DEF Highest
<1> QED  BY <1>4, <1>5 DEF Numbers

\* Looking for the migrations: their numbers are unique, so that whoever else is
\* applying some, which are in the checkout still, means the same ones.
LEMMA DiscoverPreserves ==
  ASSUME MigrationInv, NEW p \in Processes, Discover(p)
  PROVE  MigrationInv'
<1>1. UNCHANGED <<files, applied, version>>
  BY DEF Discover, checkout, database
<1>2. CASE ~WellFormed(files)
  <2>1. End(p)
    BY <1>2 DEF Discover
  <2> QED  BY <1>1, <2>1, EndPreserves
<1>3. CASE WellFormed(files)
  <2> DEFINE rest == {f \in files : f.n > version}
  <2>1. process' = [process EXCEPT ![p].at = "migrating", ![p].needs = Highest(files),
                                   ![p].pending = rest]
    BY <1>3 DEF Discover
  <2>2. Highest(files) \in Nat /\ \A f \in files : f.n =< Highest(files)
    BY HighestFile DEF MigrationInv
  <2>3. /\ process'[p] = [at |-> "migrating", needs |-> Highest(files), pending |-> rest]
        /\ \A q \in Processes : q # p => process'[q] = process[q]
    BY <2>1 DEF MigrationInv, MigrationTypes
  <2>4. MigrationTypes'
    BY <1>1, <2>1, <2>2 DEF MigrationInv, MigrationTypes
  <2>5. \A f, g \in files : f.n = g.n => f = g
    <3>1. IsFiniteSet(files) /\ Cardinality({x.n : x \in files}) = Cardinality(files)
      BY <1>3 DEF WellFormed, Numbers, MigrationInv, MigrationTypes
    <3> QED  BY ONLY <3>1, NumbersAreDistinct
  <2>6. PendingIsRest'
    <3>1. \A f \in rest, i \in DOMAIN applied : applied[i].n # f.n
      <4>1. DOMAIN applied = 1 .. version /\ \A i \in DOMAIN applied : applied[i].n = i
        BY DEF MigrationInv, MigrationsApplied, MigrationTypes
      <4> QED  BY <4>1 DEF MigrationInv, MigrationTypes, Migration
    <3>2. \A k \in 1 .. Highest(files) : k =< version \/ \E f \in rest : f.n = k
      <4>1. \A k \in 1 .. Highest(files) : \E f \in files : f.n = k
        BY <1>3 DEF WellFormed, Numbers
      <4> QED  BY <4>1, <2>2 DEF MigrationInv, MigrationTypes
    <3>3. SUFFICES
            ASSUME NEW q \in Processes, Migrating(q)'
            PROVE  /\ Pending(q)' \subseteq files'
                   /\ \A f \in Pending(q)', i \in DOMAIN applied' : applied'[i].n = f.n => applied'[i] = f
                   /\ \A f \in Pending(q)' : f.n =< process'[q].needs
                   /\ \A k \in 1 .. process'[q].needs : k =< version' \/ \E f \in Pending(q)' : f.n = k
      BY DEF PendingIsRest
    <3>5. CASE q = p
      BY <1>1, <2>2, <2>3, <3>1, <3>2, <3>5 DEF Pending
    <3>6. CASE q # p
      BY <1>1, <2>3, <3>3, <3>6 DEF MigrationInv, PendingIsRest, Migrating, Pending
    <3> QED  BY <3>5, <3>6
  <2>7. PendingAgrees'
    <3>1. \A q \in Processes : Migrating(q)' => Pending(q)' \subseteq files
      BY <1>1, <2>6 DEF PendingIsRest
    <3> QED  BY <2>5, <3>1 DEF PendingAgrees
  <2>8. MigrationsApplied'
    <3>1. \A q \in Processes : process'[q].at = "serving" => process'[q] = process[q]
      BY <2>3
    <3> QED  BY <1>1, <3>1 DEF MigrationInv, MigrationsApplied
  <2> QED  BY <2>4, <2>6, <2>7, <2>8 DEF MigrationInv
<1> QED  BY <1>2, <1>3

\* Applying: the least of what is pending that the database does not have yet is
\* its next one.
LEMMA NextInLine ==
  ASSUME MigrationInv, NEW p \in Processes, Migrating(p), NEW next \in Pending(p),
         \A f \in Pending(p) : next.n =< f.n,
         \A i \in DOMAIN applied : applied[i] # next
  PROVE  next.n = version + 1
<1>1. next.n \in Nat \ {0} /\ version \in Nat /\ process[p].needs \in Nat
  BY DEF MigrationInv, MigrationTypes, Migration, Pending
<1>2. DOMAIN applied = 1 .. version /\ \A i \in DOMAIN applied : applied[i].n = i
  BY DEF MigrationInv, MigrationsApplied, MigrationTypes
<1>3. next.n > version
  <2>1. SUFFICES ASSUME next.n =< version PROVE FALSE
    BY <1>1
  <2>2. next.n \in DOMAIN applied /\ applied[next.n].n = next.n
    BY <1>1, <1>2, <2>1
  <2>3. applied[next.n] = next
    BY <2>2 DEF MigrationInv, PendingIsRest
  <2> QED  BY <2>2, <2>3
<1>4. next.n =< process[p].needs
  BY DEF MigrationInv, PendingIsRest
<1>5. ~(version + 1 =< version)
  BY <1>1
<1>6. version + 1 \in 1 .. process[p].needs
  BY <1>1, <1>3, <1>4
<1>7. \E f \in Pending(p) : f.n = version + 1
  BY <1>5, <1>6 DEF MigrationInv, PendingIsRest
<1> QED  BY <1>1, <1>3, <1>7

LEMMA ApplyPreserves ==
  ASSUME MigrationInv, NEW p \in Processes, Apply(p)
  PROVE  MigrationInv'
<1>1. PICK next \in Pending(p) :
        /\ Migrating(p)
        /\ \A f \in Pending(p) : next.n =< f.n
        /\ \A i \in DOMAIN applied : applied[i] # next
        /\ applied' = Append(applied, next) /\ version' = next.n
        /\ process' = [process EXCEPT ![p].pending = @ \ {next}]
        /\ UNCHANGED files
  BY DEF Apply, Pending, Migrating, checkout
<1>2. next.n = version + 1
  BY <1>1, NextInLine
<1>3. next \in Migration /\ version \in Nat /\ version' = version + 1 /\ Len(applied) = version
  BY <1>1, <1>2 DEF MigrationInv, MigrationTypes, MigrationsApplied, Pending
<1>4. /\ process'[p] = [process[p] EXCEPT !.pending = Pending(p) \ {next}]
      /\ \A q \in Processes : q # p => process'[q] = process[q]
      /\ \A q \in Processes : process'[q].at = process[q].at /\ process'[q].needs = process[q].needs
      /\ \A q \in Processes : Pending(q)' \subseteq Pending(q)
      /\ \A q \in Processes : Pending(q) \ {next} \subseteq Pending(q)'
  BY <1>1 DEF MigrationInv, MigrationTypes, Pending
<1>5. /\ Len(applied') = version + 1
      /\ \A i \in DOMAIN applied : applied'[i] = applied[i]
      /\ applied'[version + 1] = next
      /\ DOMAIN applied' = DOMAIN applied \union {version + 1}
  BY <1>1, <1>3 DEF MigrationInv, MigrationTypes
<1>6. MigrationTypes'
  <2>1. applied' \in Seq(Migration)
    BY <1>1, <1>3 DEF MigrationInv, MigrationTypes
  <2>2. process' \in [Processes -> [at : {"down", "imported", "noted", "migrating", "serving"},
                                    pending : SUBSET Migration, needs : Nat]]
    BY <1>1 DEF MigrationInv, MigrationTypes
  <2> QED  BY <1>1, <1>3, <2>1, <2>2 DEF MigrationInv, MigrationTypes
<1>7. PendingAgrees'
  <2>1. \A q \in Processes : Migrating(q)' => Migrating(q)
    BY <1>4 DEF Migrating
  <2> QED  BY <1>4, <2>1 DEF MigrationInv, PendingAgrees
<1>8. \A q \in Processes : Migrating(q) => \A f \in Pending(q) : f.n = next.n => f = next
  BY <1>1 DEF MigrationInv, PendingAgrees
<1>9. PendingIsRest'
  <2>1. SUFFICES
          ASSUME NEW q \in Processes, Migrating(q)'
          PROVE  /\ Pending(q)' \subseteq files'
                 /\ \A f \in Pending(q)', i \in DOMAIN applied' : applied'[i].n = f.n => applied'[i] = f
                 /\ \A f \in Pending(q)' : f.n =< process'[q].needs
                 /\ \A k \in 1 .. process'[q].needs : k =< version' \/ \E f \in Pending(q)' : f.n = k
    BY DEF PendingIsRest
  <2>3. Migrating(q)
    BY <1>4, <2>1 DEF Migrating
  <2>4. Pending(q)' \subseteq files'
    BY <1>1, <1>4, <2>3 DEF MigrationInv, PendingIsRest
  <2>5. \A f \in Pending(q)', i \in DOMAIN applied' : applied'[i].n = f.n => applied'[i] = f
    <3>1. TAKE f \in Pending(q)', i \in DOMAIN applied'
    <3>2. f \in Pending(q)
      BY <1>4
    <3>3. CASE i \in DOMAIN applied
      BY <1>5, <2>3, <3>2, <3>3 DEF MigrationInv, PendingIsRest
    <3>4. CASE i = version + 1
      BY <1>5, <1>8, <2>3, <3>2, <3>4
    <3> QED  BY <1>5, <3>3, <3>4
  <2>6. \A f \in Pending(q)' : f.n =< process'[q].needs
    BY <1>4, <2>3 DEF MigrationInv, PendingIsRest
  <2>7. \A k \in 1 .. process'[q].needs : k =< version' \/ \E f \in Pending(q)' : f.n = k
    <3>1. TAKE k \in 1 .. process'[q].needs
    <3>2. k =< version \/ \E f \in Pending(q) : f.n = k
      BY <1>4, <2>3 DEF MigrationInv, PendingIsRest
    <3>3. CASE k =< version
      BY <1>3, <3>3
    <3>4. CASE \E f \in Pending(q) : f.n = k
      <4>1. PICK f \in Pending(q) : f.n = k
        BY <3>4
      <4>2. CASE f = next
        <5>1. k = version + 1
          BY <1>2, <4>1, <4>2
        <5>2. k =< version'
          BY <1>3, <5>1
        <5> QED  BY <5>2
      <4>3. CASE f # next
        <5>1. f \in Pending(q)'
          BY <1>4, <4>1, <4>3
        <5> QED  BY <4>1, <5>1
      <4> QED  BY <4>2, <4>3
    <3> QED  BY <3>2, <3>3, <3>4
  <2> QED  BY <2>4, <2>5, <2>6, <2>7
<1>10. MigrationsApplied'
  <2>1. \A i \in DOMAIN applied' : applied'[i].n = i
    BY <1>2, <1>5 DEF MigrationInv, MigrationsApplied
  <2>2. \A q \in Processes : process'[q].at = "serving" => process'[q].needs =< version'
    BY <1>3, <1>4 DEF MigrationInv, MigrationsApplied, MigrationTypes
  <2> QED  BY <1>3, <1>5, <2>1, <2>2 DEF MigrationsApplied
<1> QED  BY <1>6, <1>7, <1>9, <1>10 DEF MigrationInv

\* A process that has applied all it found goes on to serve.
LEMMA ServePreserves ==
  ASSUME MigrationInv, NEW p \in Processes, Serve(p)
  PROVE  MigrationInv'
<1>1. /\ Migrating(p) /\ Pending(p) = {}
      /\ process' = [process EXCEPT ![p].at = "serving"]
      /\ UNCHANGED <<files, applied, version>>
  BY DEF Serve, Become, Migrating, Pending, checkout, database
<1>2. MigrationTypes'
  BY <1>1 DEF MigrationInv, MigrationTypes
<1>3. \A q \in Processes : Migrating(q)' => q # p /\ process'[q] = process[q]
  BY <1>1 DEF MigrationInv, MigrationTypes, Migrating
<1>4. PendingIsRest'
  BY <1>1, <1>3 DEF MigrationInv, PendingIsRest, Migrating, Pending
<1>5. PendingAgrees'
  BY <1>1, <1>3 DEF MigrationInv, PendingAgrees, Migrating, Pending
<1>6. process[p].needs =< version
  <2>1. process[p].needs \in Nat /\ version \in Nat
    BY DEF MigrationInv, MigrationTypes
  <2>2. \A k \in 1 .. process[p].needs : k =< version
    BY <1>1 DEF MigrationInv, PendingIsRest
  <2> QED  BY <2>1, <2>2
<1>7. MigrationsApplied'
  <2>1. \A q \in Processes : process'[q].at = "serving" =>
           process'[q].needs = process[q].needs /\ (q = p \/ process[q].at = "serving")
    BY <1>1 DEF MigrationInv, MigrationTypes
  <2> QED  BY <1>1, <1>6, <2>1 DEF MigrationInv, MigrationsApplied
<1> QED  BY <1>2, <1>4, <1>5, <1>7 DEF MigrationInv

\* The checkout: what comes in is pending for nobody, and nothing goes that is.
LEMMA CheckoutPreserves ==
  ASSUME MigrationInv, AddMigration \/ RemoveMigration
  PROVE  MigrationInv'
<1>1. UNCHANGED <<applied, version, process>>
  BY DEF AddMigration, RemoveMigration, database
<1>2. files' \subseteq Migration /\ IsFiniteSet(files')
  <2>1. CASE AddMigration
    <3>1. PICK n \in 1 .. MaxNumber, b \in Branches : files' = files \union {[n |-> n, branch |-> b]}
      BY <2>1 DEF AddMigration
    <3>2. [n |-> n, branch |-> b] \in Migration
      BY <3>1 DEF Migration
    <3> QED  BY <3>1, <3>2, FS_AddElement DEF MigrationInv, MigrationTypes
  <2>2. CASE RemoveMigration
    <3>1. PICK f \in files : files' = files \ {f}
      BY <2>2 DEF RemoveMigration
    <3> QED  BY <3>1, FS_RemoveElement DEF MigrationInv, MigrationTypes
  <2> QED  BY <2>1, <2>2
<1>3. \A p \in Processes : Migrating(p) => Pending(p) \subseteq files'
  <2>1. CASE AddMigration
    BY <2>1 DEF AddMigration, MigrationInv, PendingIsRest
  <2>2. CASE RemoveMigration
    BY <2>2 DEF RemoveMigration, Migrating, Pending
  <2> QED  BY <2>1, <2>2
<1>4. MigrationTypes'
  BY <1>1, <1>2 DEF MigrationInv, MigrationTypes
<1>5. PendingIsRest'
  BY <1>1, <1>3 DEF MigrationInv, PendingIsRest, Migrating, Pending
<1>6. PendingAgrees' /\ MigrationsApplied'
  BY <1>1 DEF MigrationInv, PendingAgrees, MigrationsApplied, Migrating, Pending
<1> QED  BY <1>4, <1>5, <1>6 DEF MigrationInv

\* Nothing else touches what the invariant is about.
LEMMA OthersPreserve ==
  ASSUME MigrationInv, UNCHANGED <<files, applied, version, process>>
  PROVE  MigrationInv'
BY DEF MigrationInv, MigrationTypes, PendingIsRest, PendingAgrees, MigrationsApplied, Migrating, Pending

LEMMA DeploymentPreserves ==
  ASSUME MigrationInv, DeploymentNext
  PROVE  MigrationInv'
<1>1. Service \in Processes
  BY DeploymentAssumption
<1>2. CASE Import
  <2>1. process' = [process EXCEPT ![Service].at = "imported"] /\ UNCHANGED <<files, applied, version>>
    BY <1>2 DEF Import, Become, checkout, database
  <2> QED  BY <1>1, <2>1, MovingOn
<1>3. ASSUME NEW p \in Processes, NoteStart(p) PROVE MigrationInv'
  <2>1. process' = [process EXCEPT ![p].at = "noted"] /\ UNCHANGED <<files, applied, version>>
    BY <1>3 DEF NoteStart, Become, checkout, database
  <2> QED  BY <2>1, MovingOn
<1>4. ASSUME NEW p \in Processes, ApplyFails(p) \/ Stop(p) PROVE MigrationInv'
  <2>1. End(p) /\ UNCHANGED <<files, applied, version>>
    BY <1>4 DEF ApplyFails, Stop, checkout, database
  <2> QED  BY <2>1, EndPreserves
<1>5. ASSUME NEW p \in Processes, Discover(p) \/ Apply(p) \/ Serve(p) PROVE MigrationInv'
  BY <1>5, DiscoverPreserves, ApplyPreserves, ServePreserves
<1>6. CASE AddMigration \/ RemoveMigration
  BY <1>6, CheckoutPreserves
<1>7. CASE EditTemplate \/ EditSource \/ InstallHelper \/ ChangeMachine
  <2>1. UNCHANGED <<files, applied, version, process>>
    BY <1>7 DEF EditTemplate, EditSource, InstallHelper, ChangeMachine, checkout, database
  <2> QED  BY <2>1, OthersPreserve
<1> QED  BY <1>2, <1>3, <1>4, <1>5, <1>6, <1>7 DEF DeploymentNext

LEMMA DeploymentBegins == DeploymentInit => MigrationInv
<1> SUFFICES ASSUME DeploymentInit PROVE MigrationInv
  OBVIOUS
<1> DEFINE first == [n |-> 1, branch |-> CHOOSE b \in Branches : TRUE]
<1>1. files = {first} /\ first \in Migration
  BY DeploymentAssumption DEF DeploymentInit, Migration
<1>2. IsFiniteSet(files)
  BY <1>1, FS_Singleton
<1>3. applied = <<>> /\ version = 0 /\ process = [p \in Processes |-> Down]
  BY DEF DeploymentInit
<1>4. \A p \in Processes : process[p].at = "down"
  BY <1>3 DEF Down
<1>5. MigrationTypes
  BY <1>1, <1>2, <1>3 DEF MigrationTypes, Down
<1>6. PendingIsRest /\ PendingAgrees
  BY <1>4 DEF PendingIsRest, PendingAgrees, Migrating
<1>7. MigrationsApplied
  BY <1>3, <1>4 DEF MigrationsApplied
<1> QED  BY <1>5, <1>6, <1>7 DEF MigrationInv

\* Migrations take effect in the order of their numbers, each once and none left
\* out, and the version says how many; no app serves with a schema older than the
\* migrations it found -- for any number of processes, branches and migrations.
THEOREM MigrationsAreApplied == Spec => []MigrationsApplied
<1>1. Init => MigrationInv
  BY DeploymentBegins DEF Init
<1>2. MigrationInv /\ [Next]_vars => MigrationInv'
  <2> SUFFICES ASSUME MigrationInv, [Next]_vars PROVE MigrationInv'
    OBVIOUS
  <2>1. CASE DeploymentNext
    BY <2>1, DeploymentPreserves
  <2>2. CASE UNCHANGED deploymentVars
    BY <2>2, OthersPreserve DEF deploymentVars, checkout, database
  <2> QED  BY <2>1, <2>2 DEF Next, vars
<1>3. MigrationInv => MigrationsApplied
  BY DEF MigrationInv
<1> QED  BY <1>1, <1>2, <1>3, PTL DEF Spec

-----------------------------------------------------------------------------
(* What is said of the installation.                                       *)

\* The clock is never behind the code, nor the code behind what was imported of
\* it; and the start is noted after the import.
CodeInv ==
  /\ source \in Nat /\ others \in Nat /\ edits \in Nat /\ source =< edits
  /\ app.imported \in Nat /\ app.started \in Nat
  /\ app.imported =< source /\ machine \in Machines
  /\ process[Service].at \in {"noted", "migrating", "serving"} => app.imported =< app.started

LEMMA CodeBegins == DeploymentInit => CodeInv
<1> SUFFICES ASSUME DeploymentInit PROVE CodeInv
  OBVIOUS
<1>1. source = 0 /\ others = 0 /\ edits = 0 /\ app = NoCode /\ machine \in Machines
  BY DEF DeploymentInit
<1> QED  BY <1>1 DEF CodeInv, NoCode

\* An end takes the code with it, or leaves the service as it was.
LEMMA EndKeepsCode ==
  ASSUME MigrationInv, CodeInv, NEW p \in Processes, End(p), UNCHANGED <<source, others, edits, machine>>
  PROVE  CodeInv'
<1>1. Service \in Processes
  BY DeploymentAssumption
<1>2. CASE p = Service
  BY <1>1, <1>2 DEF End, NoCode, CodeInv
<1>3. CASE p # Service
  <2>1. process'[Service] = process[Service] /\ app' = app
    BY <1>1, <1>3 DEF End, MigrationInv, MigrationTypes
  <2> QED  BY <2>1 DEF CodeInv
<1> QED  BY <1>2, <1>3

LEMMA DeploymentKeepsCode ==
  ASSUME MigrationInv, CodeInv, DeploymentNext
  PROVE  CodeInv'
<1>1. /\ Service \in Processes
      /\ process \in [Processes -> [at : {"down", "imported", "noted", "migrating", "serving"},
                                    pending : SUBSET Migration, needs : Nat]]
  BY DeploymentAssumption DEF MigrationInv, MigrationTypes
<1>2. CASE Import
  <2>1. process'[Service].at = "imported"
    BY <1>1, <1>2 DEF Import, Become
  <2>2. app'.imported = source /\ app'.started = 0 /\ UNCHANGED <<source, others, edits, machine>>
    BY <1>2 DEF Import, NoCode, checkout
  <2> QED  BY <2>1, <2>2 DEF CodeInv
<1>3. ASSUME NEW p \in Processes, NoteStart(p) PROVE CodeInv'
  <2>1. UNCHANGED <<source, others, edits, machine>>
    BY <1>3 DEF NoteStart, checkout
  <2>2. CASE p = Service
    <3>1. app'.imported = app.imported /\ app'.started = edits
      BY <1>3, <2>2 DEF NoteStart
    <3> QED  BY <2>1, <3>1 DEF CodeInv
  <2>3. CASE p # Service
    <3>1. process'[Service] = process[Service] /\ app' = app
      BY <1>1, <1>3, <2>3 DEF NoteStart, Become
    <3> QED  BY <2>1, <3>1 DEF CodeInv
  <2> QED  BY <2>2, <2>3
<1>4. ASSUME NEW p \in Processes, ApplyFails(p) \/ Stop(p) \/ (Discover(p) /\ ~WellFormed(files))
      PROVE  CodeInv'
  <2>1. End(p) /\ UNCHANGED <<source, others, edits, machine>>
    BY <1>4 DEF ApplyFails, Stop, Discover, checkout
  <2> QED  BY <2>1, EndKeepsCode
<1>5. ASSUME NEW p \in Processes, Serve(p) \/ Apply(p) \/ (Discover(p) /\ WellFormed(files))
      PROVE  CodeInv'
  <2>1. UNCHANGED <<source, others, edits, machine>>
    BY <1>5 DEF Serve, Apply, Discover, checkout
  <2>3. app'.imported = app.imported /\ app'.started = app.started
    <3>1. app' = app \/ app' = [app EXCEPT !.found = machine.clients]
      BY <1>5 DEF Serve, Apply, Discover
    <3>2. CASE app' = app
      BY ONLY <3>2
    <3>3. CASE app' = [app EXCEPT !.found = machine.clients]
      BY ONLY <3>3
    <3> QED  BY <3>1, <3>2, <3>3
  <2>2. process'[Service].at \in {"noted", "migrating", "serving"} =>
          process[Service].at \in {"noted", "migrating", "serving"}
    <3>1. CASE Serve(p)
      BY <1>1, <3>1 DEF Serve, Become
    <3>2. CASE Apply(p)
      BY <1>1, <3>2 DEF Apply
    <3>3. CASE Discover(p) /\ WellFormed(files)
      BY <1>1, <3>3 DEF Discover
    <3> QED  BY <1>5, <3>1, <3>2, <3>3
  <2> QED  BY <2>1, <2>2, <2>3 DEF CodeInv
<1>6. CASE AddMigration \/ RemoveMigration \/ EditTemplate \/ ChangeMachine
  BY <1>6 DEF AddMigration, RemoveMigration, EditTemplate, ChangeMachine, Edit, CodeInv
<1>7. CASE EditSource
  BY <1>7 DEF EditSource, Edit, CodeInv
<1>8. CASE InstallHelper
  BY <1>8 DEF InstallHelper, checkout, CodeInv
<1> QED  BY <1>2, <1>3, <1>4, <1>5, <1>6, <1>7, <1>8 DEF DeploymentNext

\* A check that says nothing, of what it is about.
LEMMA SilenceIsRight ==
  ASSUME MigrationInv, CodeInv, process[Service].at = "serving",
         NEW check \in Checks, ~Drifts(check)
  PROVE  Current(check) \/ (check = "code" /\ Hurried)
<1>1. CASE check = "client"
  BY <1>1 DEF Drifts, ClientDrift, Current
<1>2. CASE check = "helper"
  BY <1>2 DEF Drifts, HelperDrift, Current
<1>3. CASE check = "migrations"
  <2>1. ~(Highest(files) > version)
    BY <1>3 DEF Drifts, MigrationDrift
  <2>2. /\ Highest(files) \in Nat /\ \A f \in files : f.n =< Highest(files)
        /\ version \in Nat /\ Len(applied) = version
    BY HighestFile DEF MigrationInv, MigrationTypes, MigrationsApplied
  <2>3. \A f \in files : f.n \in Nat
    BY DEF MigrationInv, MigrationTypes, Migration
  <2>4. \A f \in files : f.n =< Len(applied)
    BY <2>1, <2>2, <2>3
  <2> QED  BY <1>3, <2>4 DEF Current
<1>4. CASE check = "code"
  <2>1. /\ source \in Nat /\ app.imported \in Nat /\ app.started \in Nat
        /\ app.imported =< source /\ ~(source > app.started)
    BY <1>4 DEF CodeInv, Drifts, CodeDrift
  <2>2. app.imported = source \/ Hurried
    BY <2>1 DEF Hurried
  <2> QED  BY <1>4, <2>2 DEF Current
<1>5. CASE check = "env"
  <2> DEFINE lines == machine.env
  <2>1. /\ ~\E i \in DOMAIN lines : lines[i] = Junk
        /\ ~\E i, j \in Settings(lines) : i # j /\ lines[i].key = lines[j].key
    BY <1>5 DEF Drifts, EnvDamage
  <2>2. Settings(lines) = {i \in DOMAIN lines : lines[i] # Comment}
    BY <2>1 DEF Settings
  <2>3. \A i, j \in Settings(lines) : i # j => lines[j].key # lines[i].key
    BY <2>1
  <2>4. Settings(lines) \subseteq Nat
    BY DeploymentAssumption DEF CodeInv, Settings
  <2>5. \A i, j \in Settings(lines) : j > i => lines[j].key # lines[i].key
    BY <2>3, <2>4
  <2>6. Effective(lines) = {i \in DOMAIN lines : lines[i] # Comment}
    BY <2>2, <2>5 DEF Effective
  <2> QED  BY <1>5, <2>6 DEF Current
<1> QED  BY <1>1, <1>2, <1>3, <1>4, <1>5 DEF Checks

\* A check that has something to say, of the same.
LEMMA ComplaintIsRight ==
  ASSUME MigrationInv, CodeInv, process[Service].at = "serving",
         NEW check \in Checks, Drifts(check)
  PROVE  ~Current(check) \/ (check = "code" /\ others > app.started)
<1>1. CASE check = "client"
  BY <1>1 DEF Drifts, ClientDrift, Current
<1>2. CASE check = "helper"
  BY <1>2 DEF Drifts, HelperDrift, Current
<1>3. CASE check = "migrations"
  <2>1. Highest(files) > version
    BY <1>3 DEF Drifts, MigrationDrift
  <2>2. /\ version \in Nat /\ Len(applied) = version /\ files \subseteq Migration
        /\ Highest(files) = 0 \/ \E f \in files : f.n = Highest(files)
    BY HighestFile DEF MigrationInv, MigrationTypes, MigrationsApplied
  <2>3. \E f \in files : f.n > Len(applied)
    BY <2>1, <2>2
  <2>4. \A f \in files : f.n \in Nat
    BY <2>2 DEF Migration
  <2>5. ~\A f \in files : f.n =< Len(applied)
    BY <2>2, <2>3, <2>4
  <2> QED  BY <1>3, <2>5 DEF Current
<1>4. CASE check = "code"
  <2>1. /\ source \in Nat /\ app.imported \in Nat /\ app.started \in Nat
        /\ app.imported =< app.started
        /\ source > app.started \/ others > app.started
    BY <1>4 DEF CodeInv, Drifts, CodeDrift
  <2>2. app.imported # source \/ others > app.started
    BY <2>1
  <2> QED  BY <1>4, <2>2 DEF Current
<1>5. CASE check = "env"
  <2> DEFINE lines == machine.env
             lost(i) == i \in DOMAIN lines /\ lines[i] # Comment /\ i \notin Effective(lines)
  <2>1. \E i : lost(i)
    <3>1. CASE \E i \in DOMAIN lines : lines[i] = Junk
      <4>1. PICK i \in DOMAIN lines : lines[i] = Junk
        BY <3>1
      <4>2. lines[i] # Comment /\ i \notin Settings(lines)
        BY <4>1, DeploymentAssumption DEF Settings
      <4>3. lost(i)
        BY <4>2 DEF Effective
      <4> QED  BY <4>3
    <3>2. CASE \E i, j \in Settings(lines) : i # j /\ lines[i].key = lines[j].key
      <4>1. PICK i, j \in Settings(lines) : i # j /\ lines[i].key = lines[j].key
        BY <3>2
      <4>2. Settings(lines) \subseteq Nat
        BY DeploymentAssumption DEF CodeInv, Settings
      <4>3. i \in Nat /\ j \in Nat
        BY <4>2
      <4>4. i < j => lost(i)
        BY <4>1, <4>3 DEF Effective, Settings
      <4>5. j < i => lost(j)
        BY <4>1, <4>3 DEF Effective, Settings
      <4>6. i < j \/ j < i
        BY <4>1, <4>3
      <4> QED  BY <4>4, <4>5, <4>6
    <3> QED  BY <1>5, <3>1, <3>2 DEF Drifts, EnvDamage
  <2>2. Effective(lines) # {i \in DOMAIN lines : lines[i] # Comment}
    BY <2>1
  <2> QED  BY <1>5, <2>2 DEF Current
<1> QED  BY <1>1, <1>2, <1>3, <1>4, <1>5 DEF Checks

LEMMA ReportIsRight == MigrationInv /\ CodeInv => DriftTold
<1> SUFFICES ASSUME MigrationInv, CodeInv, process[Service].at = "serving",
                    NEW silent \in SUBSET Checks
             PROVE  /\ \A check \in Checks \ (silent \union Report(silent)) :
                         Current(check) \/ (check = "code" /\ Hurried)
                    /\ \A check \in Report(silent) :
                         ~Current(check) \/ (check = "code" /\ others > app.started)
  BY DEF DriftTold
<1>1. ASSUME NEW check \in Checks \ (silent \union Report(silent))
      PROVE  Current(check) \/ (check = "code" /\ Hurried)
  BY <1>1, SilenceIsRight DEF Report
<1>2. ASSUME NEW check \in Report(silent)
      PROVE  ~Current(check) \/ (check = "code" /\ others > app.started)
  BY <1>2, ComplaintIsRight DEF Report
<1> QED  BY <1>1, <1>2

\* What the report on the installation does not mention is current, and what it
\* mentions is not, each check with the one exception that DriftTold names -- whichever
\* checks fail, and whatever is edited, installed, started and stopped in between.
THEOREM DriftIsTold == Spec => []DriftTold
<1>1. Init => MigrationInv /\ CodeInv
  BY DeploymentBegins, CodeBegins DEF Init
<1>2. MigrationInv /\ CodeInv /\ [Next]_vars => (MigrationInv /\ CodeInv)'
  <2> SUFFICES ASSUME MigrationInv, CodeInv, [Next]_vars PROVE MigrationInv' /\ CodeInv'
    OBVIOUS
  <2>1. CASE DeploymentNext
    BY <2>1, DeploymentPreserves, DeploymentKeepsCode
  <2>2. CASE UNCHANGED deploymentVars
    <3>1. CodeInv'
      BY <2>2 DEF deploymentVars, checkout, CodeInv
    <3> QED  BY <2>2, <3>1, OthersPreserve DEF deploymentVars, checkout, database
  <2> QED  BY <2>1, <2>2 DEF Next, vars
<1> QED  BY <1>1, <1>2, ReportIsRight, PTL DEF Spec

-----------------------------------------------------------------------------
(* What is said of the DNS rules.                                          *)

\* A prefix is a sequence that agrees with the other as far as it goes.
LEMMA PrefixAgrees ==
  ASSUME NEW S, NEW s \in Seq(S), NEW t \in Seq(S)
  PROVE  Dns!IsPrefix(s, t) <=> Len(s) =< Len(t) /\ \A i \in 1 .. Len(s) : s[i] = t[i]
<1>1. Len(s) \in Nat /\ Len(t) \in Nat
  OBVIOUS
<1> SUFFICES ASSUME Len(s) =< Len(t)
             PROVE  SubSeq(s, 1, Len(s)) = SubSeq(t, 1, Len(s)) <=> \A i \in 1 .. Len(s) : s[i] = t[i]
  BY DEF Dns!IsPrefix
<1>2. /\ SubSeq(s, 1, Len(s)) \in Seq(S) /\ Len(SubSeq(s, 1, Len(s))) = Len(s)
      /\ \A i \in 1 .. Len(s) : SubSeq(s, 1, Len(s))[i] = s[i]
  BY <1>1
<1>3. /\ SubSeq(t, 1, Len(s)) \in Seq(S) /\ Len(SubSeq(t, 1, Len(s))) = Len(s)
      /\ \A i \in 1 .. Len(s) : SubSeq(t, 1, Len(s))[i] = t[i]
  BY <1>1
<1>4. ASSUME SubSeq(s, 1, Len(s)) = SubSeq(t, 1, Len(s)) PROVE \A i \in 1 .. Len(s) : s[i] = t[i]
  BY <1>2, <1>3, <1>4
<1>5. ASSUME \A i \in 1 .. Len(s) : s[i] = t[i] PROVE SubSeq(s, 1, Len(s)) = SubSeq(t, 1, Len(s))
  BY <1>2, <1>3, <1>5, SeqEqual
<1> QED  BY <1>4, <1>5

LEMMA PrefixThrough ==
  ASSUME NEW S, NEW s \in Seq(S), NEW t \in Seq(S), NEW u \in Seq(S),
         Dns!IsPrefix(s, t), Dns!IsPrefix(t, u)
  PROVE  Dns!IsPrefix(s, u)
<1>1. Len(s) \in Nat /\ Len(t) \in Nat /\ Len(u) \in Nat
  OBVIOUS
<1>2. Len(s) =< Len(t) /\ \A i \in 1 .. Len(s) : s[i] = t[i]
  BY PrefixAgrees
<1>3. Len(t) =< Len(u) /\ \A i \in 1 .. Len(t) : t[i] = u[i]
  BY PrefixAgrees
<1>4. Len(s) =< Len(u) /\ \A i \in 1 .. Len(s) : s[i] = u[i]
  BY <1>1, <1>2, <1>3
<1> QED  BY <1>4, PrefixAgrees

LEMMA RootIsPrefix ==
  ASSUME NEW S, NEW t \in Seq(S)
  PROVE  Dns!IsPrefix(<<>>, t)
<1>1. <<>> \in Seq(S) /\ Len(<<>>) = 0 /\ Len(t) \in Nat
  OBVIOUS
<1>2. Len(<<>>) =< Len(t) /\ \A i \in 1 .. Len(<<>>) : <<>>[i] = t[i]
  BY <1>1
<1> QED  BY <1>1, <1>2, PrefixAgrees

\* A report that is shown is that on the link and the rules as they are.
ReportInv ==
  /\ domains \subseteq RuleDomains /\ link \in Links \union {None}
  /\ dnsReport # None => dnsReport = Dns!DnsReport(link, domains)

\* What the report says of them is so.
LEMMA ReportTellsTruth == ReportInv => RulesExplained
<1> SUFFICES ASSUME ReportInv, dnsReport # None PROVE RulesExplained
  BY DEF RulesExplained, Dns!RulesExplained
<1> DEFINE claimed == Dns!Claimed(link)
           all     == link.routed \union link.search
<1>1. /\ dnsReport.notes = [d \in domains |-> Dns!Note(link, d)]
      /\ dnsReport.action_needed
           = (Dns!DnsMode(link) = "all" \/ (Dns!DnsMode(link) = "none" /\ domains = {}))
  BY DEF ReportInv, Dns!DnsReport
<1>2. RuleDomains \subseteq Seq(STRING) /\ domains \subseteq Seq(STRING)
  BY PagesAssumption DEF ReportInv
<1>3. ASSUME link # None PROVE all \subseteq Seq(STRING)
  BY <1>3, PagesAssumption DEF ReportInv
<1>4. /\ claimed \subseteq all
      /\ ~(link.routed # {} /\ link.search # {}) => claimed = all
  BY DEF Dns!Claimed
<1>5. ASSUME Dns!DnsMode(link) = "all" PROVE \A d \in RuleDomains : Dns!GoesToTunnel(d)
  <2>1. link # None /\ link.servers # {} /\ <<>> \in all
    BY <1>5 DEF Dns!DnsMode, Dns!CatchAll
  <2>2. \A d \in RuleDomains : Dns!IsPrefix(<<>>, d)
    BY <1>2, RootIsPrefix
  <2> QED  BY <2>1, <2>2 DEF Dns!GoesToTunnel
<1>6. ASSUME Dns!DnsMode(link) \in {"down", "none"}
      PROVE  \A d \in RuleDomains : ~Dns!GoesToTunnel(d)
  BY <1>6 DEF Dns!DnsMode, Dns!GoesToTunnel
<1>7. ASSUME NEW d \in domains
      PROVE  /\ dnsReport.notes[d] # "resolves" =>
                  \A name \in Dns!NamesOf(d) : Dns!GoesToTunnel(name)
             /\ dnsReport.notes[d] = "resolves" /\ Dns!GoesToTunnel(d) =>
                  link.routed # {} /\ link.search # {}
  <2>1. d \in RuleDomains /\ dnsReport.notes[d] = Dns!Note(link, d)
    BY <1>1 DEF ReportInv
  <2>2. Dns!NamesOf(d) \subseteq RuleDomains
    BY DEF Dns!NamesOf
  <2>3. CASE Dns!DnsMode(link) \in {"down", "none"}
    <3>1. Dns!Note(link, d) = "resolves"
      BY <2>3 DEF Dns!Note
    <3> QED  BY <1>6, <2>1, <2>3, <3>1
  <2>4. CASE Dns!DnsMode(link) = "all"
    <3>1. Dns!Note(link, d) = "bypassed"
      BY <2>4 DEF Dns!Note
    <3> QED  BY <1>5, <2>1, <2>2, <2>4, <3>1
  <2>5. CASE Dns!DnsMode(link) = "split"
    <3>1. link # None /\ link.servers # {}
      BY <2>5 DEF Dns!DnsMode
    <3>2. Dns!Note(link, d) = IF Dns!Covered(d, claimed) THEN "redundant" ELSE "resolves"
      BY <2>5 DEF Dns!Note
    <3>3. CASE Dns!Covered(d, claimed)
      <4>1. PICK entry \in claimed : Dns!IsPrefix(entry, d)
        BY <3>3 DEF Dns!Covered
      <4>2. entry \in all /\ entry \in Seq(STRING) /\ d \in Seq(STRING)
        BY <1>2, <1>3, <1>4, <3>1, <4>1
      <4>3. ASSUME NEW e \in Dns!NamesOf(d) PROVE Dns!GoesToTunnel(e)
        <5>1. e \in Seq(STRING) /\ Dns!IsPrefix(d, e)
          BY <1>2 DEF Dns!NamesOf
        <5>2. Dns!IsPrefix(entry, e)
          BY <4>1, <4>2, <5>1, PrefixThrough
        <5> QED  BY <3>1, <4>2, <5>2 DEF Dns!GoesToTunnel
      <4> QED  BY <2>1, <3>2, <3>3, <4>3
    <3>4. CASE ~Dns!Covered(d, claimed)
      <4>1. claimed = all => ~Dns!GoesToTunnel(d)
        BY <3>4 DEF Dns!Covered, Dns!GoesToTunnel
      <4> QED  BY <1>4, <2>1, <3>2, <3>4, <4>1
    <3> QED  BY <3>3, <3>4
  <2>6. Dns!DnsMode(link) \in {"down", "none", "all", "split"}
    BY DEF Dns!DnsMode
  <2> QED  BY <2>3, <2>4, <2>5, <2>6
<1>8. ASSUME dnsReport.action_needed
      PROVE  \/ \A d \in RuleDomains : Dns!GoesToTunnel(d)
             \/ link # None /\ domains = {} /\ ~\E d \in RuleDomains : Dns!GoesToTunnel(d)
  <2>1. Dns!DnsMode(link) = "none" => link # None
    BY DEF Dns!DnsMode
  <2> QED  BY <1>1, <1>5, <1>6, <1>8, <2>1
<1> QED  BY <1>7, <1>8 DEF RulesExplained, Dns!RulesExplained

\* A note on a DNS rule says what systemd-resolved makes of the names the rule is for,
\* but for a link that has routing and search domains both, and the operator is told
\* to act only where that is so of all of them -- whatever domains there are, on the
\* link and among the rules.
THEOREM NotesAreTrue == Spec => []RulesExplained
<1>1. Init => ReportInv
  BY DEF Init, Dns!ResolverInit, ReportInv
<1>2. ReportInv /\ [Next]_vars => ReportInv'
  <2> SUFFICES ASSUME ReportInv, [Next]_vars PROVE ReportInv'
    OBVIOUS
  <2>1. CASE Dns!LinkChanges
    BY <2>1 DEF Dns!LinkChanges, ReportInv
  <2>2. CASE Dns!RulesChange
    BY <2>2 DEF Dns!RulesChange, ReportInv
  <2>3. CASE Dns!AskResolver
    <3>1. dnsReport' = Dns!DnsReport(link, domains) /\ UNCHANGED <<link, domains>>
      BY <2>3 DEF Dns!AskResolver
    <3> QED  BY <3>1 DEF ReportInv
  <2>4. CASE UNCHANGED dnsVars
    BY <2>4 DEF dnsVars, ReportInv
  <2> QED  BY <2>1, <2>2, <2>3, <2>4 DEF Next, Dns!ResolverNext, vars
<1> QED  BY <1>1, <1>2, ReportTellsTruth, PTL DEF Spec
-----------------------------------------------------------------------------
(* Addresses and prefixes.                                                 *)

LEMMA PrefixBits ==
  ASSUME NEW p \in Routes!Prefixes
  PROVE  /\ Len(p) \in 0 .. Bits /\ DOMAIN p = 1 .. Len(p)
         /\ \A i \in 1 .. Len(p) : p[i] \in {0, 1}
<1>1. PICK l \in 0 .. Bits : p \in [1 .. l -> {0, 1}]
  BY DEF Routes!Prefixes
<1>2. p \in Seq({0, 1}) /\ Len(p) = l
  BY <1>1, PagesAssumption
<1> QED
  BY <1>1, <1>2

LEMMA PrefixesAreEqual ==
  ASSUME NEW p \in Routes!Prefixes, NEW q \in Routes!Prefixes, Len(p) = Len(q),
         \A i \in 1 .. Len(p) : p[i] = q[i]
  PROVE  p = q
<1>1. PICK l \in 0 .. Bits : p \in [1 .. l -> {0, 1}]
  BY DEF Routes!Prefixes
<1>2. q \in [1 .. Len(q) -> {0, 1}]
  BY PrefixBits DEF Routes!Prefixes
<1>3. p \in [1 .. Len(p) -> {0, 1}]
  BY PrefixBits DEF Routes!Prefixes
<1> QED
  BY <1>2, <1>3

\* A prefix that has all the addresses of another is the shorter one.
LEMMA WiderIsShorter ==
  ASSUME NEW p \in Routes!Prefixes, NEW q \in Routes!Prefixes,
         Routes!Addresses(p) \subseteq Routes!Addresses(q)
  PROVE  Len(q) =< Len(p)
<1> SUFFICES ASSUME Len(q) > Len(p) PROVE FALSE
  BY PrefixBits
<1>1. /\ Len(p) \in Nat /\ Len(q) \in 0 .. Bits /\ DOMAIN p = 1 .. Len(p) /\ DOMAIN q = 1 .. Len(q)
      /\ \A i \in 1 .. Len(p) : p[i] \in {0, 1}
  BY PrefixBits
<1> DEFINE n == Len(p) + 1
           a == [i \in 1 .. Bits |-> IF i =< Len(p) THEN p[i] ELSE IF q[n] = 0 THEN 1 ELSE 0]
<1>2. a \in Routes!Space
  BY <1>1 DEF Routes!Space
<1>3. a \in Routes!Addresses(p)
  <2>1. \A i \in DOMAIN p : i \in 1 .. Bits /\ i =< Len(p)
    BY <1>1, PagesAssumption
  <2> QED
    BY <1>2, <2>1 DEF Routes!Addresses
<1>4. n \in DOMAIN q /\ n \in 1 .. Bits /\ ~(n =< Len(p))
  BY <1>1, PagesAssumption
<1>5. a[n] # q[n]
  BY <1>4
<1> QED
  BY <1>3, <1>4, <1>5 DEF Routes!Addresses

\* Two prefixes of an address that are as long as each other are one.
LEMMA OneOfEachLength ==
  ASSUME NEW p \in Routes!Prefixes, NEW q \in Routes!Prefixes, Len(p) = Len(q),
         NEW a, a \in Routes!Addresses(p), a \in Routes!Addresses(q)
  PROVE  p = q
<1>1. \A i \in 1 .. Len(p) : p[i] = q[i]
  BY PrefixBits DEF Routes!Addresses
<1> QED
  BY <1>1, PrefixesAreEqual

LEMMA EverythingHasAll == Routes!Everything \in Routes!Prefixes /\ Routes!Addresses(Routes!Everything) = Routes!Space
<1>1. Routes!Everything \in [1 .. 0 -> {0, 1}]
  BY DEF Routes!Everything
<1> QED
  BY <1>1, PagesAssumption DEF Routes!Prefixes, Routes!Addresses, Routes!Everything

LEMMA HalvesHaveAll ==
  ASSUME NEW a \in Routes!Space
  PROVE  \E p \in Routes!Halves : a \in Routes!Addresses(p)
<1> DEFINE p == [i \in 1 .. 1 |-> a[1]]
<1>1. a[1] \in {0, 1}
  BY PagesAssumption DEF Routes!Space
<1>2. p \in [1 .. 1 -> {0, 1}] /\ p \in Seq({0, 1}) /\ Len(p) = 1
  BY <1>1
<1>3. p \in Routes!Halves
  BY <1>2, PagesAssumption DEF Routes!Halves, Routes!Prefixes
<1>4. a \in Routes!Addresses(p)
  BY <1>2 DEF Routes!Addresses
<1> QED
  BY <1>3, <1>4

LEMMA SpaceIsFinite == IsFiniteSet(Routes!Space) /\ Routes!Space # {}
<1> DEFINE ones == SUBSET (1 .. Bits)
           f    == [S \in ones |-> [i \in 1 .. Bits |-> IF i \in S THEN 1 ELSE 0]]
<1>1. IsFiniteSet(ones)
  <2>1. 1 \in Int /\ Bits \in Int
    BY PagesAssumption
  <2>2. IsFiniteSet(1 .. Bits)
    BY ONLY <2>1, FS_Interval
  <2> QED
    BY ONLY <2>2, FS_SUBSET
<1>2. f \in [ones -> Routes!Space]
  BY DEF Routes!Space
<1>3. ASSUME NEW a \in Routes!Space PROVE \E S \in ones : f[S] = a
  <2> DEFINE S == {i \in 1 .. Bits : a[i] = 1}
  <2>1. S \in ones /\ f[S] \in Routes!Space
    BY <1>2
  <2>2. f[S] = [i \in 1 .. Bits |-> IF i \in S THEN 1 ELSE 0]
    BY <2>1
  <2>3. a \in [1 .. Bits -> {0, 1}]
    BY DEF Routes!Space
  <2>4. a = [i \in 1 .. Bits |-> IF i \in S THEN 1 ELSE 0]
    BY <2>3
  <2> QED
    BY <2>1, <2>2, <2>4
<1>4. f \in Surjection(ones, Routes!Space)
  BY <1>2, <1>3 DEF Surjection
<1>5. [i \in 1 .. Bits |-> 0] \in Routes!Space
  BY DEF Routes!Space
<1> QED
  BY ONLY <1>1, <1>4, <1>5, FS_Surjection

\* The blocks that prefixes collapse to have the addresses that the prefixes have:
\* the shortest prefix of an address that is covered is a block.
LEMMA CollapseCovers ==
  ASSUME NEW networks \in SUBSET Routes!Prefixes
  PROVE  UNION {Routes!Addresses(p) : p \in Routes!Collapse(networks)}
           = UNION {Routes!Addresses(p) : p \in networks}
<1> DEFINE covered == UNION {Routes!Addresses(p) : p \in networks}
           inside  == {p \in Routes!Prefixes : Routes!Addresses(p) \subseteq covered}
<1>1. Routes!Collapse(networks)
        = {p \in inside : \A q \in inside : Routes!Addresses(p) \subseteq Routes!Addresses(q) => q = p}
  BY DEF Routes!Collapse
<1>2. ASSUME NEW a \in covered PROVE \E p \in Routes!Collapse(networks) : a \in Routes!Addresses(p)
  <2> DEFINE lengths == {Len(p) : p \in {q \in inside : a \in Routes!Addresses(q)}}
  <2>1. PICK p0 \in networks : a \in Routes!Addresses(p0)
    OBVIOUS
  <2>2. p0 \in inside
    OBVIOUS
  <2>3. lengths \in SUBSET Nat /\ lengths # {}
    BY <2>1, <2>2, PrefixBits
  <2>4. Min(lengths) \in lengths /\ \A x \in lengths : Min(lengths) =< x
    BY ONLY <2>3, MinIsLeast
  <2>5. PICK p \in inside : a \in Routes!Addresses(p) /\ Len(p) = Min(lengths)
    BY <2>4
  <2>6. ASSUME NEW q \in inside, Routes!Addresses(p) \subseteq Routes!Addresses(q) PROVE q = p
    <3>1. a \in Routes!Addresses(q)
      BY <2>5, <2>6
    <3>2. Len(q) \in lengths
      BY <3>1
    <3>3. Len(p) =< Len(q) /\ Len(q) =< Len(p) /\ Len(p) \in Nat /\ Len(q) \in Nat
      <4>1. p \in Routes!Prefixes /\ q \in Routes!Prefixes
        OBVIOUS
      <4>2. Len(p) \in Nat /\ Len(q) \in Nat /\ Len(q) =< Len(p)
        BY <2>6, <4>1, WiderIsShorter, PrefixBits
      <4>3. Len(p) =< Len(q)
        BY <2>4, <2>5, <3>2
      <4> QED
        BY <4>2, <4>3
    <3> QED
      BY <2>5, <3>1, <3>3, OneOfEachLength
  <2> QED
    BY <1>1, <2>5, <2>6
<1>3. \A p \in Routes!Collapse(networks) : Routes!Addresses(p) \subseteq covered
  BY <1>1
<1> QED
  BY <1>2, <1>3

\* A tunnel is full if every address is in one of its routes.
LEMMA ModeIsExact ==
  ASSUME NEW networks \in SUBSET Routes!Prefixes
  PROVE  /\ Routes!Mode(networks) \in {"none", "full", "split"}
         /\ Routes!Mode(networks) = "none" <=> networks = {}
         /\ Routes!Mode(networks) = "full"
              <=> Routes!Space \subseteq UNION {Routes!Addresses(p) : p \in networks}
<1> DEFINE covered == UNION {Routes!Addresses(p) : p \in networks}
<1>1. covered \subseteq Routes!Space
  BY DEF Routes!Addresses
<1>2. Routes!Coverage(networks) = Cardinality(covered)
  <2>1. UNION {Routes!Addresses(p) : p \in Routes!Collapse(networks)} = covered
    BY CollapseCovers
  <2>2. Routes!Coverage(networks) = Cardinality(UNION {Routes!Addresses(p) : p \in Routes!Collapse(networks)})
    BY DEF Routes!Coverage, Routes!Cardinality, Cardinality
  <2> HIDE DEF covered
  <2> QED
    BY ONLY <2>1, <2>2
<1> HIDE DEF covered
<1>3. Cardinality(covered) >= Cardinality(Routes!Space) <=> Routes!Space \subseteq covered
  <2>1. /\ Cardinality(covered) \in Nat /\ Cardinality(Routes!Space) \in Nat
        /\ Cardinality(covered) =< Cardinality(Routes!Space)
        /\ Cardinality(Routes!Space) = Cardinality(covered) => Routes!Space = covered
    <3>1. IsFiniteSet(covered) /\ Cardinality(covered) =< Cardinality(Routes!Space)
          /\ (Cardinality(Routes!Space) = Cardinality(covered) => Routes!Space = covered)
      BY ONLY <1>1, SpaceIsFinite, FS_Subset
    <3> QED
      BY <3>1, SpaceIsFinite, FS_CardinalityType
  <2> QED
    BY <1>1, <2>1
<1>4. networks = {} => ~(Routes!Space \subseteq covered)
  BY SpaceIsFinite DEF covered
<1>5. Routes!Mode(networks) = IF networks = {} THEN "none"
        ELSE IF Cardinality(covered) >= Cardinality(Routes!Space) THEN "full" ELSE "split"
  <2>1. Routes!Mode(networks) = IF networks = {} THEN "none"
          ELSE IF Routes!Coverage(networks) >= Cardinality(Routes!Space) THEN "full" ELSE "split"
    BY DEF Routes!Mode, Routes!Cardinality, Cardinality
  <2> HIDE DEF covered
  <2> QED
    BY ONLY <1>2, <2>1
<1> QED
  BY <1>3, <1>4, <1>5 DEF covered
-----------------------------------------------------------------------------
(* The scope of a table.                                                   *)

\* The routes into the tunnel that count, and what routes reach.
Carries(table)  == {r \in table : r.dev = Tunnel /\ ~Routes!Inside(r.dst, Reserved)}
Reached(routes) == UNION {Routes!Addresses(r.dst) : r \in routes}

IsTable(table) == \A r \in table : r.dst \in Routes!Prefixes /\ (r.dev # Tunnel => r.dev # None)

LEMMA EvaluateIsExact ==
  ASSUME NEW table, IsTable(table)
  PROVE  LET e == Routes!Evaluate(table)
         IN  /\ e.mode \in {"none", "full", "split"}
             /\ e.mode = "full" <=> Routes!Space \subseteq Reached(Carries(table))
             /\ e.mode = "none" <=> Carries(table) = {}
             /\ e.egress # None <=> \E r \in table : r.dst = Routes!Everything /\ r.dev # Tunnel
             /\ e.public > 0 => \E r \in Carries(table) : Routes!IsPublic(r.dst)
<1> DEFINE e        == Routes!Evaluate(table)
           networks == {r.dst : r \in {x \in table : x.dev = Tunnel}}
           counted  == {p \in networks : ~Routes!Inside(p, Reserved)}
           public   == {p \in counted : Routes!IsPublic(p)}
           leaving  == {r.dev : r \in {x \in table : x.dst = Routes!Everything /\ x.dev # Tunnel}}
<1>1. /\ e.mode = Routes!Mode(counted)
      /\ e.public = Cardinality(public)
      /\ e.egress = IF leaving = {} THEN None ELSE CHOOSE d \in leaving : TRUE
  BY DEF Routes!Evaluate, Routes!Cardinality, Cardinality
<1>2. counted \in SUBSET Routes!Prefixes
  BY DEF IsTable
<1>3. /\ \A p \in counted : \E r \in Carries(table) : r.dst = p
      /\ \A r \in Carries(table) : r.dst \in counted
  BY DEF Carries
<1>4. UNION {Routes!Addresses(p) : p \in counted} = Reached(Carries(table))
  BY <1>3 DEF Reached
<1>5. \A d \in leaving : d # None
  BY DEF IsTable
<1>6. e.egress # None <=> leaving # {}
  BY <1>1, <1>5
<1>7. leaving # {} <=> \E r \in table : r.dst = Routes!Everything /\ r.dev # Tunnel
  OBVIOUS
<1>8. e.public > 0 => public # {}
  BY <1>1, FS_EmptySet
<1>9. public # {} => \E r \in Carries(table) : Routes!IsPublic(r.dst)
  BY <1>3
<1>10. counted = {} <=> Carries(table) = {}
  BY <1>3
<1> HIDE DEF counted, leaving, public, e
<1>11. /\ e.mode \in {"none", "full", "split"}
       /\ e.mode = "none" <=> counted = {}
       /\ e.mode = "full" <=> Routes!Space \subseteq UNION {Routes!Addresses(p) : p \in counted}
  BY <1>1, <1>2, ModeIsExact
<1> QED
  BY <1>4, <1>6, <1>7, <1>8, <1>9, <1>10, <1>11 DEF e

\* Where every address is in a route into the tunnel, none leaves by a default
\* route of another device: that is no longer, and the tunnel's goes before it.
LEMMA NothingEscapes ==
  ASSUME NEW table, IsTable(table), Routes!Space \subseteq Reached(Carries(table)),
         NEW a \in Routes!Space
  PROVE  ~Routes!Escapes(table, a)
<1> SUFFICES ASSUME Routes!Escapes(table, a) PROVE FALSE
  OBVIOUS
<1> DEFINE on   == {r \in table : a \in Routes!Addresses(r.dst)}
           best == {r \in on : \A q \in on : Len(q.dst) =< Len(r.dst)}
           tun  == {r \in best : r.dev = Tunnel}
<1>1. Routes!Via(table, a) = IF tun # {} THEN tun ELSE best
  BY DEF Routes!Via
<1>2. PICK r \in Routes!Via(table, a) : r.dev # Tunnel /\ r.dst = Routes!Everything
  BY DEF Routes!Escapes
<1>3. tun = {} /\ r \in best
  BY <1>1, <1>2
<1>4. PICK t \in Carries(table) : a \in Routes!Addresses(t.dst)
  BY DEF Reached
<1>5. t \in on /\ t.dev = Tunnel
  BY <1>4 DEF Carries
<1>6. Len(r.dst) = 0
  BY <1>2 DEF Routes!Everything
<1>7. \A q \in on : Len(q.dst) \in Nat
  BY PrefixBits DEF IsTable
<1>8. \A q \in on : Len(q.dst) =< 0
  BY <1>3, <1>6
<1>9. Len(t.dst) = 0 /\ \A q \in on : Len(q.dst) = 0
  BY <1>5, <1>7, <1>8
<1>10. t \in tun
  BY <1>5, <1>9
<1> QED
  BY <1>3, <1>10

\* Where no route into the tunnel counts, only reserved addresses take it.
LEMMA OnlyReservedInside ==
  ASSUME NEW table, Carries(table) = {}, NEW a, Routes!Tunnelled(table, a)
  PROVE  \E z \in Reserved : a \in Routes!Addresses(z)
<1>1. PICK r \in table : r.dev = Tunnel /\ a \in Routes!Addresses(r.dst)
  BY DEF Routes!Tunnelled, Routes!Via
<1>2. Routes!Inside(r.dst, Reserved)
  BY <1>1 DEF Carries
<1> QED
  BY <1>1, <1>2 DEF Routes!Inside
-----------------------------------------------------------------------------
(* The tunnel's pages: the inductive invariant.                            *)

\* The routes of other devices that a table may have.
Moved(r, p) == [r EXCEPT !.dst = p]
OwnRoutes(lan) == lan \union {Moved(r, p) : r \in lan, p \in Routes!Prefixes}

IntoTunnel(r) == r.dev = Tunnel /\ r.dst \in Routes!Prefixes

\* The tables are those of this machine, but for the tunnel's routes; and once
\* OpenVPN has acted on a push, the table has what it took of it.
MachineInv ==
  /\ running \in BOOLEAN /\ settled \in BOOLEAN
  /\ offer \in Offers \union {None}
  /\ settled => running /\ offer # None /\ taken \subseteq offer \ {Routes!Unreadable}
  /\ ~settled => taken = {}
  /\ \A r \in table4 : IntoTunnel(r) \/ r \in OwnRoutes(Lan4)
  /\ \A r \in table6 : IntoTunnel(r) \/ r \in Lan6
  /\ settled => /\ Routes!Subnet \in table4
                /\ \A o \in taken : o # Routes!RedirectGateway /\ ~Routes!Bypasses(o) =>
                     Routes!Route(o.dst, Tunnel) \in table4
                /\ Routes!RedirectGateway \in taken =>
                     \/ Routes!Route(Routes!Everything, Tunnel) \in table4
                     \/ \A p \in Routes!Halves : Routes!Route(p, Tunnel) \in table4

\* The reply that a page goes by.
Held == IF reply # None THEN reply ELSE IF logged THEN noting ELSE None

\* What a page holds is of the machine as it is, unless it is known to be unsure.
ViewInv ==
  /\ view = [at |-> view.at, read |-> view.read, unsure |-> view.unsure, says |-> view.says]
  /\ view.unsure \in BOOLEAN
  /\ ~view.unsure =>
       /\ view.at = "reply" =>
            \E remote \in {Remote, None} : view.read = Routes!ParseRoutes(table4, remote)
       /\ view.at = "routes" =>
            \E remote \in {Remote, None} :
              view.says = Routes!PushReport(IF running THEN Held ELSE None,
                                            Routes!ParseRoutes(table4, remote))
       /\ view.at = "ipv6" => view.read = {Routes!Evaluate(table4)}
       /\ view.at = "scope" =>
            view.says = [ipv4 |-> Routes!Evaluate(table4), ipv6 |-> Routes!Evaluate(table6)]

LEMMA OwnRouteFacts ==
  /\ \A r \in OwnRoutes(Lan4) : r.dst \in Routes!Prefixes /\ r.dev \notin {Tunnel, None}
  /\ \A r \in Lan6 : r.dst \in Routes!Prefixes /\ r.dev \notin {Tunnel, None}
<1>1. \A r \in Lan4 \union Lan6 :
        r \in [dst : Routes!Prefixes, dev : STRING \ {Tunnel, None}, gateway : BOOLEAN]
  BY PagesAssumption
<1>2. \A r \in Lan4, p \in Routes!Prefixes : Moved(r, p).dst = p /\ Moved(r, p).dev = r.dev
  BY <1>1 DEF Moved
<1> QED
  BY <1>1, <1>2 DEF OwnRoutes

\* A page that is disturbed while it is read is unsure, and one that was is shut.
LEMMA DisturbedPage == ViewInv /\ Routes!Disturb => ViewInv'
<1> SUFFICES ASSUME ViewInv, Routes!Disturb PROVE ViewInv'
  OBVIOUS
<1>1. CASE view' = [view EXCEPT !.unsure = TRUE]
  BY <1>1 DEF ViewInv
<1>2. CASE view' = Routes!Shut
  BY <1>2 DEF ViewInv, Routes!Shut
<1> QED
  BY <1>1, <1>2 DEF Routes!Disturb

LEMMA MachineKeeps ==
  ASSUME MachineInv,
         \/ Routes!Starts \/ Routes!Push \/ Routes!AppendLog \/ Routes!KeepAside
         \/ Routes!Install \/ Routes!Vanish
         \/ Routes!Ipv6Changes
  PROVE  MachineInv'
<1>1. CASE Routes!Starts
  BY <1>1 DEF Routes!Starts, MachineInv
<1>2. CASE Routes!Push
  <2>1. /\ settled' = FALSE /\ taken' = {} /\ offer' \in Offers /\ running' = running
        /\ table4' = Lan4 \union {Routes!Subnet} /\ table6' = Routes!Elsewhere(table6)
    BY <1>2 DEF Routes!Push
  <2>2. \A r \in table4' : IntoTunnel(r) \/ r \in OwnRoutes(Lan4)
    BY <2>1, PagesAssumption DEF IntoTunnel, Routes!Subnet, OwnRoutes
  <2>3. \A r \in table6' : IntoTunnel(r) \/ r \in Lan6
    BY <2>1 DEF Routes!Elsewhere, MachineInv
  <2> QED
    BY <2>1, <2>2, <2>3 DEF MachineInv
<1>3. CASE Routes!AppendLog \/ Routes!KeepAside
  BY <1>3 DEF Routes!AppendLog, Routes!KeepAside, MachineInv
<1>4. CASE Routes!Install
  <2> DEFINE routes == taken' \ {Routes!RedirectGateway}
             pushed == {Routes!Route(o.dst, Tunnel) : o \in {x \in routes : ~Routes!Bypasses(x)}}
             around == UNION {Routes!Bypass(o.dst) : o \in {x \in routes : Routes!Bypasses(x)}}
  <2>1. /\ running /\ offer # None /\ settled' = TRUE /\ UNCHANGED <<running, offer>>
        /\ taken' \subseteq offer \ {Routes!Unreadable}
    BY <1>4 DEF Routes!Install
  <2>2. PICK lan \in IF Routes!RedirectGateway \in taken' THEN Routes!Redirected ELSE {Lan4} :
             table4' = lan \union around \union pushed \union {Routes!Subnet}
    BY <1>4 DEF Routes!Install
  <2>3. PICK carried \in Carried6 :
             table6' = Routes!Elsewhere(table6) \union {Routes!Route(p, Tunnel) : p \in carried}
    BY <1>4 DEF Routes!Install
  <2>4. \A o \in taken' : o # Routes!RedirectGateway => o.dst \in Routes!Prefixes
    <3> TAKE o \in taken'
    <3>1. o # Routes!Unreadable /\ offer \in Offers /\ o \in offer
      BY <2>1 DEF MachineInv
    <3>2. \/ o = Routes!RedirectGateway
          \/ \E p \in Routes!Prefixes, via \in Routes!Gateways : o = Routes!RouteOption(p, via)
      BY <3>1, PagesAssumption
    <3> QED
      BY <3>2 DEF Routes!RouteOption
  <2>5. \A p : Routes!Route(p, Tunnel).dev = Tunnel /\ Routes!Route(p, Tunnel).dst = p
    BY DEF Routes!Route
  <2>6. \A r \in pushed \union {Routes!Subnet} : IntoTunnel(r)
    <3>1. IntoTunnel(Routes!Subnet)
      BY PagesAssumption DEF IntoTunnel, Routes!Subnet
    <3> QED
      BY <2>4, <2>5, <3>1 DEF IntoTunnel
  <2>10. around \subseteq OwnRoutes(Lan4)
    <3> SUFFICES ASSUME NEW o \in routes, NEW r \in Routes!Bypass(o.dst) PROVE r \in OwnRoutes(Lan4)
      OBVIOUS
    <3>1. PICK x \in Lan4 : r = Moved(x, o.dst)
      BY DEF Routes!Bypass, Moved
    <3>2. o.dst \in Routes!Prefixes
      BY <2>4
    <3> QED
      BY <3>1, <3>2 DEF OwnRoutes
  <2>7. /\ \A r \in lan : IntoTunnel(r) \/ r \in OwnRoutes(Lan4)
        /\ Routes!RedirectGateway \in taken' =>
             \/ Routes!Route(Routes!Everything, Tunnel) \in lan
             \/ \A p \in Routes!Halves : Routes!Route(p, Tunnel) \in lan
    <3>1. CASE Routes!RedirectGateway \notin taken'
      BY <2>2, <3>1 DEF OwnRoutes
    <3>2. CASE Routes!RedirectGateway \in taken'
      <4> DEFINE default == {r \in Lan4 : r.dst = Routes!Everything}
                 pinned  == {Moved(r, Remote) : r \in default}
      <4>1. \/ lan = (Lan4 \ default) \union pinned \union {Routes!Route(Routes!Everything, Tunnel)}
            \/ lan = Lan4 \union pinned \union {Routes!Route(p, Tunnel) : p \in Routes!Halves}
        BY <2>2, <3>2 DEF Routes!Redirected, Moved
      <4>2. pinned \subseteq OwnRoutes(Lan4) /\ Lan4 \subseteq OwnRoutes(Lan4)
        BY PagesAssumption DEF OwnRoutes
      <4>3. IntoTunnel(Routes!Route(Routes!Everything, Tunnel))
        BY <2>5, EverythingHasAll DEF IntoTunnel
      <4>4. \A p \in Routes!Halves : IntoTunnel(Routes!Route(p, Tunnel))
        BY <2>5 DEF IntoTunnel, Routes!Halves
      <4> HIDE DEF default, pinned
      <4> QED
        BY <4>1, <4>2, <4>3, <4>4
    <3> QED
      BY <3>1, <3>2
  <2>8. \A r \in table4' : IntoTunnel(r) \/ r \in OwnRoutes(Lan4)
    BY <2>2, <2>6, <2>7, <2>10
  <2>9. \A r \in table6' : IntoTunnel(r) \/ r \in Lan6
    <3>1. \A p \in carried : IntoTunnel(Routes!Route(p, Tunnel))
      BY <2>5, PagesAssumption DEF IntoTunnel
    <3> QED
      BY <2>3, <3>1 DEF Routes!Elsewhere, MachineInv
  <2> QED
    BY <2>1, <2>2, <2>7, <2>8, <2>9 DEF MachineInv
<1>5. CASE Routes!Vanish
  <2>1. /\ settled' = FALSE /\ taken' = {} /\ offer' = None /\ running' \in BOOLEAN
        /\ table4' = Lan4 /\ table6' = Routes!Elsewhere(table6)
    BY <1>5 DEF Routes!Vanish
  <2>2. \A r \in table4' : r \in OwnRoutes(Lan4)
    BY <2>1 DEF OwnRoutes
  <2>3. \A r \in table6' : IntoTunnel(r) \/ r \in Lan6
    BY <2>1 DEF Routes!Elsewhere, MachineInv
  <2> QED
    BY <2>1, <2>2, <2>3 DEF MachineInv
<1>6. CASE Routes!Ipv6Changes
  BY <1>6 DEF Routes!Ipv6Changes, MachineInv
<1> QED
  BY <1>1, <1>2, <1>3, <1>4, <1>5, <1>6

LEMMA PagesKeep ==
  ASSUME ViewInv,
         \/ Routes!ReadRoutes \/ Routes!CompareRoutes \/ Routes!ReadIpv4 \/ Routes!ReadIpv6
         \/ Routes!ShutPage
  PROVE  ViewInv'
<1>1. UNCHANGED <<running, table4, table6>> /\ Held' = Held
  <2>1. UNCHANGED Routes!machine
    BY DEF Routes!ReadRoutes, Routes!CompareRoutes, Routes!ReadIpv4, Routes!ReadIpv6,
           Routes!ShutPage
  <2>2. UNCHANGED <<running, table4, table6>> /\ UNCHANGED <<noting, logged, reply>>
    BY <2>1 DEF Routes!machine
  <2>3. Held' = Held
    BY <2>2 DEF Held
  <2> QED
    BY <2>2, <2>3
<1>2. CASE Routes!ReadRoutes
  <2>1. PICK table \in Routes!ReadTable(table4), remote \in {Remote, None} :
             view' = [Routes!Shut EXCEPT !.at = "reply", !.read = Routes!ParseRoutes(table, remote),
                                         !.unsure = table # table4]
    BY <1>2 DEF Routes!ReadRoutes
  <2>2. view' = [at |-> "reply", read |-> Routes!ParseRoutes(table, remote),
                 unsure |-> table # table4, says |-> {}]
    BY <2>1 DEF Routes!Shut
  <2> QED
    BY <1>1, <2>2 DEF ViewInv
<1>3. CASE Routes!CompareRoutes
  <2> DEFINE says == Routes!PushReport(IF running THEN Held ELSE None, view.read)
  <2>1. view.at = "reply" /\ view' = [view EXCEPT !.at = "routes", !.read = {}, !.says = says]
    BY <1>3 DEF Routes!CompareRoutes, Routes!Known, Held
  <2>2. view' = [at |-> "routes", read |-> {}, unsure |-> view.unsure, says |-> says]
    BY <2>1 DEF ViewInv
  <2> QED
    BY <1>1, <2>1, <2>2 DEF ViewInv
<1>4. CASE Routes!ReadIpv4
  <2>1. PICK table \in Routes!ReadTable(table4) :
             view' = [Routes!Shut EXCEPT !.at = "ipv6", !.read = {Routes!Evaluate(table)},
                                         !.unsure = table # table4]
    BY <1>4 DEF Routes!ReadIpv4
  <2>2. view' = [at |-> "ipv6", read |-> {Routes!Evaluate(table)},
                 unsure |-> table # table4, says |-> {}]
    BY <2>1 DEF Routes!Shut
  <2> QED
    BY <1>1, <2>2 DEF ViewInv
<1>5. CASE Routes!ReadIpv6
  <2>1. PICK ipv4 \in view.read, table \in Routes!ReadTable(table6) :
             view' = [view EXCEPT !.at = "scope", !.read = {}, !.unsure = @ \/ table # table6,
                                  !.says = [ipv4 |-> ipv4, ipv6 |-> Routes!Evaluate(table)]]
    BY <1>5 DEF Routes!ReadIpv6
  <2>2. view' = [at |-> "scope", read |-> {}, unsure |-> view.unsure \/ table # table6,
                 says |-> [ipv4 |-> ipv4, ipv6 |-> Routes!Evaluate(table)]]
    BY <2>1 DEF ViewInv
  <2>3. view.at = "ipv6"
    BY <1>5 DEF Routes!ReadIpv6
  <2>4. ~view.unsure => ipv4 = Routes!Evaluate(table4)
    BY <2>3 DEF ViewInv
  <2> QED
    BY <1>1, <2>2, <2>4 DEF ViewInv
<1>6. CASE Routes!ShutPage
  <2>1. view' = [at |-> "closed", read |-> {}, unsure |-> FALSE, says |-> {}]
    BY <1>6 DEF Routes!ShutPage, Routes!Shut
  <2> QED
    BY <2>1 DEF ViewInv
<1> QED
  BY <1>2, <1>3, <1>4, <1>5, <1>6

RoutesInv == MachineInv /\ ViewInv

LEMMA RoutesBegin == Routes!PageInit => RoutesInv
<1> SUFFICES ASSUME Routes!PageInit PROVE RoutesInv
  OBVIOUS
<1>1. MachineInv
  <2>1. /\ running = FALSE /\ offer = None /\ settled = FALSE /\ taken = {}
        /\ table4 = Lan4 /\ table6 \in {Lan6, {}}
    BY DEF Routes!PageInit
  <2>2. /\ \A r \in table4 : r \in OwnRoutes(Lan4)
        /\ \A r \in table6 : r \in Lan6
    BY <2>1 DEF OwnRoutes
  <2> QED
    BY <2>1, <2>2 DEF MachineInv
<1>2. ViewInv
  <2>1. view = [at |-> "closed", read |-> {}, unsure |-> FALSE, says |-> {}]
    BY DEF Routes!PageInit, Routes!Shut
  <2> QED
    BY <2>1 DEF ViewInv
<1> QED
  BY <1>1, <1>2 DEF RoutesInv

LEMMA RoutesStay == RoutesInv /\ UNCHANGED routesVars => RoutesInv'
<1> SUFFICES ASSUME RoutesInv, UNCHANGED routesVars PROVE RoutesInv'
  OBVIOUS
<1>1. MachineInv'
  BY DEF RoutesInv, MachineInv, routesVars
<1>2. Held' = Held
  BY DEF Held, routesVars
<1>3. ViewInv'
  BY <1>2 DEF RoutesInv, ViewInv, routesVars
<1> QED
  BY <1>1, <1>3 DEF RoutesInv

LEMMA RoutesStep == RoutesInv /\ Routes!PageNext => RoutesInv'
<1> SUFFICES ASSUME RoutesInv, Routes!PageNext PROVE RoutesInv'
  OBVIOUS
<1>1. CASE \/ Routes!Starts \/ Routes!Push \/ Routes!AppendLog \/ Routes!KeepAside
         \/ Routes!Install \/ Routes!Vanish
           \/ Routes!Ipv6Changes
  <2>1. Routes!Disturb
    BY <1>1 DEF Routes!Starts, Routes!Push, Routes!AppendLog, Routes!KeepAside, Routes!Install,
                Routes!Vanish, Routes!Ipv6Changes
  <2> QED
    BY <1>1, <2>1, MachineKeeps, DisturbedPage DEF RoutesInv
<1>2. CASE \/ Routes!ReadRoutes \/ Routes!CompareRoutes \/ Routes!ReadIpv4 \/ Routes!ReadIpv6
           \/ Routes!ShutPage
  <2>1. UNCHANGED Routes!machine
    BY <1>2 DEF Routes!ReadRoutes, Routes!CompareRoutes, Routes!ReadIpv4, Routes!ReadIpv6,
                Routes!ShutPage
  <2>2. MachineInv'
    BY <2>1 DEF RoutesInv, MachineInv, Routes!machine
  <2> QED
    BY <1>2, <2>2, PagesKeep DEF RoutesInv
<1> QED
  BY <1>1, <1>2 DEF Routes!PageNext

LEMMA RoutesAlways == Spec => []RoutesInv
<1>1. Init => RoutesInv
  BY RoutesBegin DEF Init
<1>2. RoutesInv /\ [Next]_vars => RoutesInv'
  BY RoutesStay, RoutesStep DEF Next, vars
<1> QED
  BY <1>1, <1>2, PTL DEF Spec
-----------------------------------------------------------------------------
(* What the tunnel's pages say.                                            *)

LEMMA TablesAreTables == MachineInv => IsTable(table4) /\ IsTable(table6)
BY OwnRouteFacts DEF MachineInv, IsTable, IntoTunnel

\* A family that is said to leak has an address that goes past the tunnel.
LEMMA LeakIsReal ==
  ASSUME MachineInv, Carries(table6) = {},
         \E r \in table6 : r.dst = Routes!Everything /\ r.dev # Tunnel
  PROVE  \E a \in Routes!Space : Routes!Escapes(table6, a)
<1>1. PICK a \in Routes!Space :
             /\ ~\E z \in Reserved : a \in Routes!Addresses(z)
             /\ \A r \in Lan6 : a \in Routes!Addresses(r.dst) => r.dst = Routes!Everything
  BY PagesAssumption
<1>2. PICK r0 \in table6 : r0.dst = Routes!Everything /\ r0.dev # Tunnel
  OBVIOUS
<1> DEFINE on   == {r \in table6 : a \in Routes!Addresses(r.dst)}
           best == {r \in on : \A q \in on : Len(q.dst) =< Len(r.dst)}
           tun  == {r \in best : r.dev = Tunnel}
<1>3. \A r \in on : r.dev # Tunnel
  <2> SUFFICES ASSUME NEW r \in on, r.dev = Tunnel PROVE FALSE
    OBVIOUS
  <2>1. Routes!Inside(r.dst, Reserved)
    BY DEF Carries
  <2> QED
    BY <1>1, <2>1 DEF Routes!Inside
<1>4. \A r \in on : r.dst = Routes!Everything
  BY <1>1, <1>3 DEF MachineInv, IntoTunnel
<1>5. r0 \in on
  BY <1>2, EverythingHasAll
<1>6. tun = {} /\ r0 \in best
  <2>1. \A q \in on : Len(q.dst) = 0
    BY <1>4 DEF Routes!Everything
  <2> QED
    BY <1>3, <1>5, <2>1
<1>7. r0 \in Routes!Via(table6, a)
  BY <1>6 DEF Routes!Via
<1> QED
  BY <1>2, <1>7 DEF Routes!Escapes

LEMMA ScopeIsTold ==
  ASSUME MachineInv
  PROVE  Routes!ScopeTold(Routes!Evaluate(table4), Routes!Evaluate(table6))
<1> DEFINE ipv4 == Routes!Evaluate(table4)
           ipv6 == Routes!Evaluate(table6)
           into(table)     == {r \in table : r.dev = Tunnel}
           carries(table)  == {r \in into(table) : ~Routes!Inside(r.dst, Reserved)}
           covered(routes) == UNION {Routes!Addresses(r.dst) : r \in routes}
           escaping(table) == {a \in Routes!Space : Routes!Escapes(table, a)}
           reserved        == UNION {Routes!Addresses(p) : p \in Reserved}
           inside(table)   == {a \in Routes!Space : Routes!Tunnelled(table, a)}
<1>1. IsTable(table4) /\ IsTable(table6)
  BY TablesAreTables
<1>2. /\ carries(table4) = Carries(table4) /\ carries(table6) = Carries(table6)
      /\ covered(carries(table4)) = Reached(Carries(table4))
      /\ covered(carries(table6)) = Reached(Carries(table6))
  BY DEF Carries, Reached
<1>3. /\ ipv4.mode \in {"none", "full", "split"}
      /\ ipv4.mode = "full" <=> Routes!Space \subseteq Reached(Carries(table4))
      /\ ipv4.mode = "none" <=> Carries(table4) = {}
      /\ ipv4.public > 0 => \E r \in Carries(table4) : Routes!IsPublic(r.dst)
  BY <1>1, EvaluateIsExact
<1>4. /\ ipv6.mode \in {"none", "full", "split"}
      /\ ipv6.mode = "full" <=> Routes!Space \subseteq Reached(Carries(table6))
      /\ ipv6.mode = "none" <=> Carries(table6) = {}
      /\ ipv6.egress # None <=> \E r \in table6 : r.dst = Routes!Everything /\ r.dev # Tunnel
  BY <1>1, EvaluateIsExact
<1>5. /\ ipv4.mode = "full" => escaping(table4) = {}
      /\ ipv6.mode = "full" => escaping(table6) = {}
  BY <1>1, <1>3, <1>4, NothingEscapes
<1>6. /\ ipv4.mode = "none" => inside(table4) \subseteq reserved
      /\ ipv6.mode = "none" => inside(table6) \subseteq reserved
  BY <1>3, <1>4, OnlyReservedInside
<1>7. escaping(table6) # {} => ipv6.egress # None
  BY <1>4 DEF Routes!Escapes, Routes!Via
<1>8. ipv6.mode = "none" /\ ipv6.egress # None => escaping(table6) # {}
  BY <1>4, LeakIsReal
<1>9. ipv4.public > 0 =>
        \E p \in Routes!Prefixes : Routes!IsPublic(p) /\ Routes!Addresses(p) \subseteq covered(into(table4))
  <2> SUFFICES ASSUME ipv4.public > 0
               PROVE  \E p \in Routes!Prefixes : Routes!IsPublic(p)
                          /\ Routes!Addresses(p) \subseteq covered(into(table4))
    OBVIOUS
  <2>1. PICK r \in Carries(table4) : Routes!IsPublic(r.dst)
    BY <1>3
  <2>2. r \in into(table4) /\ r.dst \in Routes!Prefixes
    BY <1>1 DEF Carries, IsTable
  <2> QED
    BY <2>1, <2>2
<1>10. Routes!Warnings(ipv4, ipv6) # {}
         <=> ipv4.mode = "full" /\ ipv6.mode # "full" /\ ipv6.egress # None
  BY DEF Routes!Warnings
<1>11. Routes!Leaking(ipv6, ipv4, ipv6) => ipv6.egress # None /\ ipv6.mode = "none"
  BY DEF Routes!Leaking
<1>12. Routes!PublicNotice(ipv4) => ipv4.public > 0
  BY DEF Routes!PublicNotice
<1> HIDE DEF ipv4, ipv6
<1>13. /\ ipv4.mode = "full" <=> Routes!Space \subseteq covered(carries(table4))
       /\ Routes!Warnings(ipv4, ipv6) # {} =>
            escaping(table4) = {} /\ ~(Routes!Space \subseteq covered(carries(table6)))
       /\ ipv4.mode = "full" /\ escaping(table6) # {} => Routes!Warnings(ipv4, ipv6) # {}
       /\ Routes!Leaking(ipv6, ipv4, ipv6) => escaping(table6) # {} /\ inside(table6) \subseteq reserved
  <2> HIDE DEF into, carries, covered, escaping, reserved, inside
  <2> QED
    BY <1>2, <1>3, <1>4, <1>5, <1>6, <1>7, <1>8, <1>10, <1>11
<1>14. Routes!ScopeTold(ipv4, ipv6)
  BY <1>5, <1>6, <1>9, <1>12, <1>13 DEF Routes!ScopeTold
<1> QED
  BY <1>14 DEF ipv4, ipv6

\* The page on the scope says what becomes of packets, and warns of a leak where
\* there is one and only there -- whatever the server pushes, OpenVPN takes of it
\* and the network does, and whatever the prefixes and the width of an address.
THEOREM ScopeIsExact == Spec => []ScopeExact
<1>1. RoutesInv => ScopeExact
  BY ScopeIsTold DEF RoutesInv, ViewInv, ScopeExact, Routes!ScopeExact
<1> QED
  BY <1>1, RoutesAlways, PTL

\* A half of the space, or the whole, is not reserved.
LEMMA HalvesCount ==
  ASSUME NEW p \in Routes!Prefixes, Len(p) =< 1
  PROVE  ~Routes!Inside(p, Reserved)
<1> SUFFICES ASSUME NEW z \in Reserved, Routes!Addresses(p) \subseteq Routes!Addresses(z) PROVE FALSE
  BY DEF Routes!Inside
<1>1. z \in Routes!Prefixes /\ Len(z) > 1
  BY PagesAssumption
<1>2. Len(z) =< Len(p) /\ Len(z) \in Nat /\ Len(p) \in Nat
  BY <1>1, WiderIsShorter, PrefixBits
<1> QED
  BY <1>1, <1>2

\* What is shown of a table: the tunnel's routes and the server's own.
LEMMA ParsedRoutes ==
  ASSUME MachineInv, NEW remote \in {Remote, None}
  PROVE  LET present == {r.dst : r \in Routes!ParseRoutes(table4, remote)}
         IN  /\ \A r \in table4 : r.dev = Tunnel => r.dst \in present
             /\ \A p \in present : \E r \in table4 : r.dst = p /\ (r.dev = Tunnel \/ p = Remote)
<1> DEFINE shown   == {x \in table4 : x.dev = Tunnel \/ x.dst = remote}
           kind(r) == IF r.dev # Tunnel THEN "bypass" ELSE IF r.gateway THEN "tunnel" ELSE "on-link"
           parsed  == Routes!ParseRoutes(table4, remote)
<1>1. parsed = {[dst |-> r.dst, kind |-> kind(r)] : r \in shown}
  BY DEF Routes!ParseRoutes
<1>2. \A r \in shown : [dst |-> r.dst, kind |-> kind(r)] \in parsed
  BY <1>1
<1>3. \A q \in parsed : \E r \in shown : q.dst = r.dst
  BY <1>1
<1>4. \A r \in table4 : r.dst # None
  BY TablesAreTables, PagesAssumption DEF IsTable
<1> HIDE DEF parsed
<1>5. \A r \in table4 : r.dev = Tunnel => \E q \in parsed : q.dst = r.dst
  <2> SUFFICES ASSUME NEW r \in table4, r.dev = Tunnel PROVE \E q \in parsed : q.dst = r.dst
    OBVIOUS
  <2> DEFINE q == [dst |-> r.dst, kind |-> kind(r)]
  <2>1. q \in parsed
    BY <1>2
  <2>2. q.dst = r.dst
    OBVIOUS
  <2> QED
    BY <2>1, <2>2
<1>6. \A q \in parsed : \E r \in table4 : r.dst = q.dst /\ (r.dev = Tunnel \/ r.dst = Remote)
  BY <1>3, <1>4
<1> QED
  BY <1>5, <1>6 DEF parsed

\* If there is a default route into the tunnel, or two halves, it is full.
LEMMA RedirectedIsFull ==
  ASSUME MachineInv,
         \/ \E r \in table4 : r.dev = Tunnel /\ r.dst = Routes!Everything
         \/ \A p \in Routes!Halves : \E r \in table4 : r.dev = Tunnel /\ r.dst = p
  PROVE  Routes!Evaluate(table4).mode = "full"
<1>1. Routes!Space \subseteq Reached(Carries(table4))
  <2>1. CASE \E r \in table4 : r.dev = Tunnel /\ r.dst = Routes!Everything
    <3>1. PICK r \in table4 : r.dev = Tunnel /\ r.dst = Routes!Everything
      BY <2>1
    <3>2. r \in Carries(table4)
      BY <3>1, HalvesCount, EverythingHasAll DEF Carries, Routes!Everything
    <3> QED
      BY <3>1, <3>2, EverythingHasAll DEF Reached
  <2>2. CASE \A p \in Routes!Halves : \E r \in table4 : r.dev = Tunnel /\ r.dst = p
    <3> SUFFICES ASSUME NEW a \in Routes!Space PROVE a \in Reached(Carries(table4))
      OBVIOUS
    <3>1. PICK p \in Routes!Halves : a \in Routes!Addresses(p)
      BY HalvesHaveAll
    <3>2. PICK r \in table4 : r.dev = Tunnel /\ r.dst = p
      BY <2>2
    <3>3. p \in Routes!Prefixes /\ Len(p) =< 1
      <4>1. p \in Routes!Prefixes /\ Len(p) = 1
        BY DEF Routes!Halves
      <4> QED
        BY <4>1
    <3>4. r \in Carries(table4)
      BY <3>2, <3>3, HalvesCount DEF Carries
    <3> QED
      BY <3>1, <3>2, <3>4 DEF Reached
  <2> QED
    BY <2>1, <2>2
<1> QED
  BY <1>1, TablesAreTables, EvaluateIsExact

LEMMA AccusationHolds == RoutesInv => Routes!AccusedRightly
<1> SUFFICES ASSUME RoutesInv, view.at = "routes", ~view.unsure, settled, Held = offer
             PROVE  Routes!AccusedRightly
  BY Zenon DEF Routes!AccusedRightly, Routes!Known, Held
<1>1. MachineInv /\ ViewInv
  BY DEF RoutesInv
<1>2. /\ running /\ offer # None /\ offer \in Offers /\ taken \subseteq offer \ {Routes!Unreadable}
      /\ Routes!Subnet \in table4
  BY <1>1 DEF MachineInv
<1>3. PICK remote \in {Remote, None} :
             view.says = Routes!PushReport(offer, Routes!ParseRoutes(table4, remote))
  BY <1>1, <1>2 DEF ViewInv
<1> DEFINE installed == Routes!ParseRoutes(table4, remote)
           present   == {r.dst : r \in installed}
           pushed    == Routes!ParsePush(offer)
           rejected  == {o \in pushed : ~Routes!Installed(o, present)}
<1>4. /\ \A r \in table4 : r.dev = Tunnel => r.dst \in present
      /\ \A p \in present : \E r \in table4 : r.dst = p /\ (r.dev = Tunnel \/ p = Remote)
  BY <1>1, ParsedRoutes
<1>5. installed # {}
  <2>1. OnLink \in present
    BY <1>2, <1>4 DEF Routes!Subnet
  <2> QED
    BY <2>1
<1>6. view.says.pushed = pushed /\ view.says.rejected = rejected
  BY <1>2, <1>3, <1>5 DEF Routes!PushReport
<1> HIDE DEF installed, present
<1>7. \A o \in offer :
        \/ o \in {Routes!RedirectGateway, Routes!Unreadable}
        \/ \E p \in Routes!Prefixes, via \in Routes!Gateways : o = Routes!RouteOption(p, via)
  BY <1>2, PagesAssumption
<1>8. /\ Routes!RedirectGateway.verb = "redirect-gateway"
      /\ \A p, via : Routes!RouteOption(p, via).verb = "route"
      /\ Routes!Unreadable.verb = "route"
  BY DEF Routes!RedirectGateway, Routes!RouteOption, Routes!Unreadable
<1>9. pushed = offer
  BY <1>7, <1>8 DEF Routes!ParsePush
<1>10. \A p : Routes!Route(p, Tunnel).dev = Tunnel /\ Routes!Route(p, Tunnel).dst = p
  BY DEF Routes!Route
<1>11. ASSUME NEW o \in taken, ~Routes!Bypasses(o) PROVE Routes!Installed(o, present)
  <2>1. CASE o = Routes!RedirectGateway
    <3>1. \/ Routes!Route(Routes!Everything, Tunnel) \in table4
          \/ \A p \in Routes!Halves : Routes!Route(p, Tunnel) \in table4
      BY <1>1, <2>1 DEF MachineInv
    <3>2. Routes!Everything \in present \/ Routes!Halves \subseteq present
      BY <1>4, <1>10, <3>1
    <3> QED
      BY <1>8, <2>1, <3>2 DEF Routes!Installed
  <2>2. CASE o # Routes!RedirectGateway
    <3>1. Routes!Route(o.dst, Tunnel) \in table4
      BY <1>1, <1>11, <2>2 DEF MachineInv
    <3>2. o.dst \in present
      BY <1>4, <1>10, <3>1
    <3>3. o.verb = "route"
      BY <1>2, <1>7, <1>8, <2>2
    <3> QED
      BY <3>2, <3>3 DEF Routes!Installed
  <2> QED
    BY <2>1, <2>2
<1> DEFINE into == {o \in taken : ~Routes!Bypasses(o)}
<1>12. rejected \intersect into = {}
  BY <1>11
<1>13. ASSUME NEW o \in pushed, o \notin rejected
       PROVE  IF o = Routes!RedirectGateway THEN Routes!Evaluate(table4).mode = "full"
              ELSE \E r \in table4 : r.dst = o.dst /\ (r.dev = Tunnel \/ o.dst = Remote)
  <2>1. Routes!Installed(o, present)
    BY <1>13
  <2>2. CASE o = Routes!RedirectGateway
    <3>1. Routes!Everything \in present \/ Routes!Halves \subseteq present
      BY <1>8, <2>1, <2>2 DEF Routes!Installed
    <3>2. Routes!Everything # Remote /\ Remote \notin Routes!Halves
      BY PagesAssumption DEF Routes!Everything, Routes!Halves
    <3>3. \/ \E r \in table4 : r.dev = Tunnel /\ r.dst = Routes!Everything
          \/ \A p \in Routes!Halves : \E r \in table4 : r.dev = Tunnel /\ r.dst = p
      BY <1>4, <3>1, <3>2
    <3> QED
      BY <1>1, <2>2, <3>3, RedirectedIsFull
  <2>3. CASE o # Routes!RedirectGateway
    <3>1. o.verb = "route"
      BY <1>7, <1>8, <1>9, <2>3
    <3>2. o.dst \in present
      BY <2>1, <3>1 DEF Routes!Installed
    <3> QED
      BY <1>4, <2>3, <3>2
  <2> QED
    BY <2>2, <2>3
<1>14. pushed = rejected => into = {}
  BY <1>2, <1>9, <1>12
<1> HIDE DEF rejected
<1>15. Routes!Wholesale(view.says) => into = {}
  BY <1>6, <1>14 DEF Routes!Wholesale
<1> QED
  BY <1>6, <1>12, <1>13, <1>15 DEF Routes!AccusedRightly

\* Once OpenVPN has acted on a push that the controller has, the page on the routes
\* accuses none of those that came into effect in the tunnel, and each of the others,
\* those that go around it included, unless the tunnel has its effect or it is to the
\* server -- whatever was pushed, and taken of it.
THEOREM AccusationsAreRight == Spec => []AccusedRightly
<1>1. RoutesInv => AccusedRightly
  BY AccusationHolds DEF AccusedRightly
<1> QED
  BY <1>1, RoutesAlways, PTL
-----------------------------------------------------------------------------
(* The history page.                                                       *)

Above(ids, i) == {j \in ids : j > i}

\* The greater of two ids has fewer above it.
LEMMA FewerAbove ==
  ASSUME NEW ids \in SUBSET Nat, IsFiniteSet(ids), NEW i \in ids, NEW j \in ids, j > i
  PROVE  /\ Cardinality(Above(ids, i)) \in Nat /\ Cardinality(Above(ids, j)) \in Nat
         /\ Cardinality(Above(ids, j)) < Cardinality(Above(ids, i))
<1>1. /\ Above(ids, j) \in SUBSET Above(ids, i) /\ Above(ids, i) \in SUBSET ids
      /\ j \in Above(ids, i) /\ j \notin Above(ids, j)
  <2>1. i \in Nat /\ j \in Nat /\ \A x \in ids : x \in Nat
    OBVIOUS
  <2>2. \A x \in ids : x > j => x > i
    BY <2>1
  <2>3. ~(j > j)
    BY <2>1
  <2> QED
    BY <2>2, <2>3 DEF Above
<1>2. IsFiniteSet(Above(ids, i))
  BY <1>1, FS_Subset
<1>3. /\ IsFiniteSet(Above(ids, j)) /\ Cardinality(Above(ids, j)) =< Cardinality(Above(ids, i))
      /\ Cardinality(Above(ids, j)) # Cardinality(Above(ids, i))
  BY <1>1, <1>2, FS_Subset
<1>4. Cardinality(Above(ids, i)) \in Nat /\ Cardinality(Above(ids, j)) \in Nat
  BY <1>2, <1>3, FS_CardinalityType
<1> QED
  BY <1>3, <1>4

LEMMA SessionsCardinality == \A S : Sessions!Cardinality(S) = Cardinality(S)
BY DEF Sessions!Cardinality, Cardinality

\* The newest ids are newer than the others, and there are some where there are any.
LEMMA NewestAreNewer ==
  ASSUME NEW ids \in SUBSET Nat, IsFiniteSet(ids), NEW n \in Nat \ {0}
  PROVE  LET newest == Sessions!Newest(ids, n)
         IN  /\ newest \subseteq ids /\ IsFiniteSet(newest)
             /\ ids # {} => newest # {}
             /\ \A i \in newest, j \in ids \ newest : j < i
<1> DEFINE newest == Sessions!Newest(ids, n)
<1>1. newest = {i \in ids : Cardinality(Above(ids, i)) < n}
  BY SessionsCardinality DEF Sessions!Newest, Above
<1> HIDE DEF newest
<1>2. newest \subseteq ids /\ IsFiniteSet(newest)
  <2>1. newest \in SUBSET ids
    BY <1>1
  <2> QED
    BY <2>1, FS_Subset
<1>3. ASSUME ids # {} PROVE newest # {}
  <2>1. Max(ids) \in ids /\ \A x \in ids : Max(ids) >= x
    BY <1>3, MaxIsGreatest
  <2>2. Above(ids, Max(ids)) = {}
    <3> DEFINE m == Max(ids)
    <3>2. m \in Nat /\ \A x \in ids : x \in Nat /\ m >= x
      BY <2>1
    <3> HIDE DEF m
    <3>3. \A x \in ids : ~(x > m)
      BY <3>2
    <3>1. \A x \in ids : ~(x > Max(ids))
      BY <3>3 DEF m
    <3> QED
      BY <3>1 DEF Above
  <2>3. Cardinality(Above(ids, Max(ids))) = 0
    BY <2>2, FS_EmptySet
  <2> QED
    BY <1>1, <2>1, <2>3
<1>4. ASSUME NEW i \in newest, NEW j \in ids \ newest PROVE j < i
  <2>1. i \in ids /\ i # j /\ Cardinality(Above(ids, i)) < n /\ ~(Cardinality(Above(ids, j)) < n)
    BY <1>1
  <2> SUFFICES ASSUME j > i PROVE FALSE
    BY <2>1
  <2>2. /\ Cardinality(Above(ids, i)) \in Nat /\ Cardinality(Above(ids, j)) \in Nat
        /\ Cardinality(Above(ids, j)) < Cardinality(Above(ids, i))
    BY <2>1, FewerAbove
  <2> QED
    BY <2>1, <2>2
<1> QED
  BY <1>2, <1>3, <1>4 DEF newest

\* Ids in descending order: the n-th has n at or above it.
LEMMA DescendingIsSequence ==
  ASSUME NEW ids \in SUBSET Nat, IsFiniteSet(ids)
  PROVE  LET s == Sessions!Descending(ids)
         IN  /\ s \in Seq(ids)
             /\ \A i \in ids : \E n \in 1 .. Len(s) : s[n] = i
             /\ \A m, n \in 1 .. Len(s) : m < n => s[m] > s[n]
<1> DEFINE n     == Cardinality(ids)
           up(i) == {j \in ids : j >= i}
           rank  == [i \in ids |-> Cardinality(up(i))]
           s     == Sessions!Descending(ids)
<1>1. n \in Nat /\ \A i \in ids : i \in Nat
  BY FS_CardinalityType
<1>2. s = [m \in 1 .. n |-> CHOOSE i \in ids : Cardinality(up(i)) = m]
  BY DEF Sessions!Descending, Sessions!Cardinality, Cardinality
<1>3. \A i \in ids : /\ IsFiniteSet(up(i)) /\ Cardinality(up(i)) \in Nat
                     /\ Cardinality(up(i)) = Cardinality(Above(ids, i)) + 1
  <2> TAKE i \in ids
  <2>1. up(i) = Above(ids, i) \union {i} /\ i \notin Above(ids, i) /\ Above(ids, i) \in SUBSET ids
    <3>1. \A x \in ids : (x >= i <=> x > i \/ x = i) /\ ~(i > i)
      OBVIOUS
    <3> QED
      BY <3>1 DEF Above
  <2>2. IsFiniteSet(Above(ids, i))
    BY <2>1, FS_Subset
  <2>3. IsFiniteSet(up(i)) /\ Cardinality(up(i)) = Cardinality(Above(ids, i)) + 1
    BY <2>1, <2>2, FS_AddElement
  <2> QED
    BY <2>2, <2>3, FS_CardinalityType
<1>4. \A i \in ids : rank[i] \in 1 .. n
  <2> TAKE i \in ids
  <2>1. up(i) \in SUBSET ids
    OBVIOUS
  <2>2. Cardinality(up(i)) =< n
    BY <2>1, FS_Subset
  <2>3. Above(ids, i) \in SUBSET ids
    BY DEF Above
  <2>4. Cardinality(Above(ids, i)) \in Nat
    BY <2>3, FS_Subset, FS_CardinalityType
  <2> HIDE DEF up, n
  <2> QED
    BY <1>1, <1>3, <2>2, <2>4
<1>5. \A i, j \in ids : j > i => rank[j] < rank[i]
  <2> TAKE i, j \in ids
  <2> HAVE j > i
  <2>1. /\ Cardinality(Above(ids, i)) \in Nat /\ Cardinality(Above(ids, j)) \in Nat
        /\ Cardinality(Above(ids, j)) < Cardinality(Above(ids, i))
    BY FewerAbove
  <2>2. /\ rank[i] = Cardinality(Above(ids, i)) + 1
        /\ rank[j] = Cardinality(Above(ids, j)) + 1
    BY <1>3
  <2> QED
    BY <2>1, <2>2
<1> HIDE DEF up, n
<1>6. rank \in Injection(ids, 1 .. n)
  <2>1. rank \in [ids -> 1 .. n]
    BY <1>4
  <2>2. \A i, j \in ids : i # j => rank[i] # rank[j]
    <3> TAKE i, j \in ids
    <3> HAVE i # j
    <3>1. rank[i] \in Int /\ rank[j] \in Int
      BY <1>4
    <3>2. i > j \/ j > i
      OBVIOUS
    <3> HIDE DEF rank
    <3> QED
      BY <1>5, <3>1, <3>2
  <2> HIDE DEF rank
  <2> QED
    BY <2>1, <2>2 DEF Injection, IsInjective
<1>7. IsFiniteSet(1 .. n) /\ Cardinality(1 .. n) = n
  <2>1. 1 \in Int /\ n \in Int
    BY <1>1
  <2>2. IsFiniteSet(1 .. n) /\ Cardinality(1 .. n) = IF 1 > n THEN 0 ELSE n - 1 + 1
    BY ONLY <2>1, FS_Interval
  <2> QED
    BY <1>1, <2>2
<1>8. rank \in Surjection(ids, 1 .. n)
  <2> HIDE DEF rank
  <2>1. Cardinality(ids) = Cardinality(1 .. n)
    BY <1>7 DEF n
  <2> QED
    BY ONLY <1>6, <1>7, <2>1, FS_Injection
<1>9. \A m \in 1 .. n : s[m] \in ids /\ rank[s[m]] = m
  <2> TAKE m \in 1 .. n
  <2>1. PICK i \in ids : rank[i] = m
    <3> HIDE DEF rank
    <3> QED
      BY <1>8 DEF Surjection
  <2>2. s[m] \in ids /\ Cardinality(up(s[m])) = m
    <3>1. s[m] = CHOOSE j \in ids : Cardinality(up(j)) = m
      BY <1>2
    <3>2. Cardinality(up(i)) = m
      BY <2>1
    <3> HIDE DEF s
    <3> QED
      BY <2>1, <3>1, <3>2
  <2> QED
    BY <2>2
<1>10. s \in Seq(ids) /\ Len(s) = n
  <2>1. s \in [1 .. n -> ids]
    BY <1>2, <1>9
  <2> HIDE DEF s
  <2> QED
    BY <1>1, <2>1
<1> HIDE DEF s, rank
<1>11. \A i \in ids : rank[i] \in 1 .. n /\ s[rank[i]] = i
  <2> TAKE i \in ids
  <2>1. rank[i] \in 1 .. n /\ s[rank[i]] \in ids /\ rank[s[rank[i]]] = rank[i]
    BY <1>4, <1>9
  <2> DEFINE t == s[rank[i]]
  <2>2. t \in Nat /\ i \in Nat /\ rank[i] \in Nat /\ t \in ids /\ rank[t] = rank[i]
    <3>1. t \in ids /\ rank[t] = rank[i] /\ rank[i] \in 1 .. n
      BY ONLY <2>1
    <3> HIDE DEF t
    <3> QED
      BY ONLY <1>1, <3>1, i \in ids
  <2> HIDE DEF t
  <2>3. ~(t > i) /\ ~(i > t)
    <3>1. t > i => rank[t] < rank[i]
      BY ONLY <1>5, <2>2
    <3>2. i > t => rank[i] < rank[t]
      BY ONLY <1>5, <2>2
    <3> QED
      BY <2>2, <3>1, <3>2
  <2>4. t = i
    BY <2>2, <2>3
  <2> QED
    BY <2>1, <2>4 DEF t
<1>12. ASSUME NEW k \in 1 .. n, NEW m \in 1 .. n, k < m PROVE s[k] > s[m]
  <2>1. s[k] \in ids /\ s[m] \in ids /\ rank[s[k]] = k /\ rank[s[m]] = m
    BY <1>9
  <2> DEFINE a == s[k]
             b == s[m]
  <2>2. a \in ids /\ b \in ids /\ a \in Nat /\ b \in Nat /\ rank[a] < rank[b] /\ rank[a] \in Nat /\ rank[b] \in Nat
    <3>1. a \in ids /\ b \in ids /\ rank[a] = k /\ rank[b] = m
      BY ONLY <2>1
    <3>2. k \in Nat /\ m \in Nat /\ k < m
      BY <1>1, <1>12
    <3> HIDE DEF a, b
    <3> QED
      BY ONLY <1>1, <3>1, <3>2
  <2> HIDE DEF a, b
  <2>3. b > a => rank[b] < rank[a]
    BY ONLY <1>5, <2>2
  <2>4. a > b
    BY <2>2, <2>3
  <2> QED
    BY <2>4 DEF a, b
<1> QED
  BY <1>10, <1>11, <1>12 DEF s

\* The page size is a positive number, whatever was asked for.
LEMMA PageSize ==
  ASSUME NEW limit \in Int
  PROVE  Sessions!Max({1, Sessions!Min({limit, MaxLimit})}) \in Nat \ {0}
<1>1. Sessions!Min({limit, MaxLimit}) \in Int
  <2>1. MaxLimit \in Int
    BY PagesAssumption
  <2>2. \E m \in {limit, MaxLimit} : \A y \in {limit, MaxLimit} : m =< y
    BY <2>1
  <2>3. Sessions!Min({limit, MaxLimit}) \in {limit, MaxLimit}
    BY <2>2 DEF Sessions!Min
  <2> QED
    BY <2>1, <2>3
<1> DEFINE m == Sessions!Min({limit, MaxLimit})
<1> HIDE DEF m
<1>2. m \in Int
  BY <1>1 DEF m
<1>3. \E x \in {1, m} : \A y \in {1, m} : x >= y
  BY <1>2
<1>4. /\ Sessions!Max({1, m}) \in {1, m}
      /\ \A y \in {1, m} : Sessions!Max({1, m}) >= y
  BY <1>3 DEF Sessions!Max
<1>5. Sessions!Max({1, m}) \in Nat \ {0}
  BY <1>2, <1>4
<1> QED
  BY <1>5 DEF m
Among(s) == {s[n] : n \in DOMAIN s}

IsDescending(s) == \A m, n \in 1 .. Len(s) : m < n => s[m] > s[n]

\* What an answer shows, and what its cursor leaves for the next.
LEMMA PageIsExact ==
  ASSUME NEW ids \in SUBSET Nat, IsFiniteSet(ids), NEW before \in Nat \union {None}, NEW limit \in Int
  PROVE  LET page1   == Sessions!Page(ids, before, limit)
             left(i) == i \in ids /\ (before = None \/ i < before)
         IN  /\ page1.window \in Seq(Nat) /\ IsDescending(page1.window)
             /\ \A i \in Among(page1.window) : left(i)
             /\ page1.cursor \in Nat \union {None}
             /\ page1.cursor = None => \A i : left(i) => i \in Among(page1.window)
             /\ page1.cursor # None =>
                  /\ page1.cursor \in Among(page1.window)
                  /\ \A i \in Among(page1.window) : i >= page1.cursor
                  /\ \A i : left(i) => i \in Among(page1.window) \/ i < page1.cursor
<1> DEFINE most      == Sessions!Max({1, Sessions!Min({limit, MaxLimit})})
           remaining == {i \in ids : before = None \/ i < before}
           window    == Sessions!Newest(remaining, most)
           shown     == Sessions!Descending(window)
           page1     == Sessions!Page(ids, before, limit)
<1>1. most \in Nat \ {0}
  BY PageSize
<1>2. page1 = [window |-> shown, cursor |-> IF remaining = window THEN None ELSE Sessions!Min(window)]
  BY DEF Sessions!Page
<1>3. remaining \in SUBSET Nat /\ IsFiniteSet(remaining)
  <2>1. remaining \in SUBSET ids
    OBVIOUS
  <2>2. IsFiniteSet(remaining)
    BY ONLY <2>1, IsFiniteSet(ids), FS_Subset
  <2> QED
    BY <2>1, <2>2
<1> HIDE DEF most, page1
<1>4. /\ window \subseteq remaining /\ IsFiniteSet(window)
      /\ remaining # {} => window # {}
      /\ \A i \in window, j \in remaining \ window : j < i
  <2> HIDE DEF remaining
  <2> QED
    BY ONLY <1>1, <1>3, NewestAreNewer
<1>5. window \in SUBSET Nat
  BY <1>3, <1>4
<1> HIDE DEF window
<1>6. /\ shown \in Seq(window)
      /\ \A i \in window : \E n \in 1 .. Len(shown) : shown[n] = i
      /\ \A m, n \in 1 .. Len(shown) : m < n => shown[m] > shown[n]
  BY ONLY <1>4, <1>5, DescendingIsSequence
<1> HIDE DEF shown
<1>7. Among(shown) = window
  <2>1. \A n \in DOMAIN shown : shown[n] \in window
    BY <1>6
  <2> QED
    BY <1>6, <2>1 DEF Among
<1>8. shown \in Seq(Nat) /\ IsDescending(shown)
  <2>1. shown \in Seq(Nat)
    <3>1. Len(shown) \in Nat /\ shown \in [1 .. Len(shown) -> window]
      BY ONLY <1>6
    <3>2. shown \in [1 .. Len(shown) -> Nat]
      BY ONLY <1>5, <3>1
    <3> QED
      BY ONLY <3>1, <3>2
  <2> QED
    BY <1>6, <2>1 DEF IsDescending
<1>9. page1.window = shown
  BY <1>2
<1>10. CASE remaining = window
  <2>1. page1.cursor = None
    BY <1>2, <1>10
  <2> QED
    BY <1>7, <1>8, <1>9, <1>10, <2>1 DEF page1
<1>11. CASE remaining # window
  <2>1. window # {}
    BY <1>4, <1>11
  <2>2. \E m \in window : \A y \in window : m =< y
    BY ONLY <1>5, <2>1, MinIsLeast
  <2> DEFINE cursor == Sessions!Min(window)
  <2>3. cursor \in window /\ \A y \in window : cursor =< y
    BY <2>2 DEF Sessions!Min
  <2>4. page1.cursor = cursor
    BY <1>2, <1>11
  <2> HIDE DEF cursor
  <2>5. cursor \in Nat /\ cursor # None /\ \A y \in window : y >= cursor
    BY <1>5, <2>3, PagesAssumption
  <2>6. \A i \in remaining : i \in window \/ i < cursor
    BY <1>4, <2>3
  <2>7. \A i \in window : i \in remaining
    BY <1>4
  <2> DEFINE left(i) == i \in ids /\ (before = None \/ i < before)
  <2>8. \A i : left(i) <=> i \in remaining
    OBVIOUS
  <2>9. /\ page1.window = shown /\ page1.cursor = cursor
        /\ \A i \in Among(shown) : left(i)
        /\ cursor \in Among(shown)
        /\ \A i \in Among(shown) : i >= cursor
        /\ \A i : left(i) => i \in Among(shown) \/ i < cursor
    <3> HIDE DEF remaining, left
    <3> QED
      BY <1>7, <1>9, <2>3, <2>4, <2>5, <2>6, <2>7, <2>8
  <2> QED
    BY <1>8, <2>5, <2>9 DEF page1
<1> QED
  BY <1>10, <1>11

\* What a reading has shown, and what is left for it below its cursor.
ArchiveInv ==
  /\ IsFiniteSet(DOMAIN sessions) /\ DOMAIN sessions \subseteq Nat
  /\ reader = [query |-> reader.query, limit |-> reader.limit,
               cursor |-> reader.cursor, shown |-> reader.shown]
  /\ reader.limit \in Int /\ reader.cursor \in Nat \union {None}
  /\ reader.shown \in Seq(Nat) /\ IsDescending(reader.shown)
  /\ reader.cursor = None => listed \subseteq Among(reader.shown)
  /\ reader.cursor # None =>
       /\ \A i \in Among(reader.shown) : i >= reader.cursor
       /\ \A i \in listed : i \in Among(reader.shown) \/ i < reader.cursor

\* Search finds ids that are in the table.
LEMMA MatchingIsFinite ==
  ASSUME ArchiveInv, NEW query
  PROVE  Sessions!Matching(query) \in SUBSET Nat /\ IsFiniteSet(Sessions!Matching(query))
<1>1. Sessions!ListSessions \subseteq DOMAIN sessions
  BY DEF Sessions!ListSessions, Sessions!Newest
<1>2. Sessions!Matching(query) \in SUBSET DOMAIN sessions
  BY <1>1 DEF Sessions!Matching, Sessions!Search, Sessions!FromRows
<1>3. IsFiniteSet(DOMAIN sessions) /\ DOMAIN sessions \subseteq Nat
  BY DEF ArchiveInv
<1> QED
  BY ONLY <1>2, <1>3, FS_Subset

LEMMA ReadingUndisturbed ==
  ASSUME ArchiveInv, UNCHANGED <<reader, listed>>,
         IsFiniteSet(DOMAIN sessions'), DOMAIN sessions' \subseteq Nat
  PROVE  ArchiveInv'
BY DEF ArchiveInv

\* The table keeps rows with numbers, and finitely many.
LEMMA TableKeeps ==
  ASSUME ArchiveInv,
         \/ Sessions!StartAttempt \/ Sessions!ComeUp \/ Sessions!Finish
         \/ Sessions!ServiceStops \/ Sessions!NextDay
  PROVE  ArchiveInv'
<1>1. IsFiniteSet(DOMAIN sessions) /\ DOMAIN sessions \subseteq Nat
  BY DEF ArchiveInv
<1>2. UNCHANGED <<reader, listed>>
  BY DEF Sessions!StartAttempt, Sessions!ComeUp, Sessions!Finish, Sessions!ServiceStops,
         Sessions!NextDay
<1>3. CASE Sessions!StartAttempt
  <2> DEFINE ids == DOMAIN sessions \union {Sessions!NextSession}
  <2>1. Sessions!NextSession \in Nat
    <3> DEFINE used == DOMAIN sessions \union {0}
    <3>1. IsFiniteSet(used) /\ used \in SUBSET Int /\ used # {}
      BY <1>1, FS_AddElement
    <3>2. \E m \in used : \A y \in used : m >= y
      BY ONLY <3>1, MaxIsGreatest
    <3>3. Sessions!Max(used) \in used
      BY <3>2 DEF Sessions!Max
    <3> QED
      BY <1>1, <3>3 DEF Sessions!NextSession
  <2>2. IsFiniteSet(ids) /\ ids \subseteq Nat
    BY <1>1, <2>1, FS_AddElement
  <2>3. DOMAIN sessions' \in SUBSET ids
    BY <1>3 DEF Sessions!StartAttempt, Sessions!PruneSessions, Sessions!Newest
  <2>4. IsFiniteSet(DOMAIN sessions') /\ DOMAIN sessions' \subseteq Nat
    <3> HIDE DEF ids
    <3> QED
      BY ONLY <2>2, <2>3, FS_Subset
  <2> QED
    BY <1>2, <2>4, ReadingUndisturbed
<1>4. CASE Sessions!ComeUp
  <2>1. DOMAIN sessions' = DOMAIN sessions
    BY <1>4 DEF Sessions!ComeUp
  <2> QED
    BY <1>1, <1>2, <2>1, ReadingUndisturbed
<1>5. CASE Sessions!Finish
  <2>1. DOMAIN sessions' = DOMAIN sessions
    BY <1>5 DEF Sessions!Finish, Sessions!EndSession
  <2> QED
    BY <1>1, <1>2, <2>1, ReadingUndisturbed
<1>6. CASE Sessions!ServiceStops \/ Sessions!NextDay
  <2>1. UNCHANGED sessions
    BY <1>6 DEF Sessions!ServiceStops, Sessions!NextDay
  <2> QED
    BY <1>1, <1>2, <2>1, ReadingUndisturbed
<1> QED
  BY <1>3, <1>4, <1>5, <1>6

\* The first page.
LEMMA OpeningKeeps ==
  ASSUME ArchiveInv, Sessions!OpenPage
  PROVE  ArchiveInv'
<1>1. PICK query \in Queries, limit \in Limits :
        /\ reader' = [query |-> query, limit |-> limit,
                      cursor |-> Sessions!Answer(query, None, limit).cursor,
                      shown |-> Sessions!Answer(query, None, limit).window]
        /\ listed' = Sessions!Matching(query)
  BY DEF Sessions!OpenPage
<1> DEFINE ids   == Sessions!Matching(query)
           page1 == Sessions!Page(ids, None, limit)
<1>2. Sessions!Answer(query, None, limit) = page1
  BY DEF Sessions!Answer, Sessions!Matching
<1>3. ids \in SUBSET Nat /\ IsFiniteSet(ids) /\ limit \in Int
  BY MatchingIsFinite, PagesAssumption
<1> HIDE DEF ids
<1>4. /\ page1.window \in Seq(Nat) /\ IsDescending(page1.window)
      /\ page1.cursor \in Nat \union {None}
      /\ page1.cursor = None => \A i : i \in ids => i \in Among(page1.window)
      /\ page1.cursor # None =>
           /\ \A i \in Among(page1.window) : i >= page1.cursor
           /\ \A i : i \in ids => i \in Among(page1.window) \/ i < page1.cursor
  <2>1. None \in Nat \union {None}
    OBVIOUS
  <2> QED
    BY <1>3, <2>1, PageIsExact
<1> HIDE DEF page1
<1>5. UNCHANGED sessions
  BY DEF Sessions!OpenPage
<1>6. listed' = ids
  BY <1>1 DEF ids
<1>7. /\ reader' = [query |-> reader'.query, limit |-> reader'.limit,
                    cursor |-> reader'.cursor, shown |-> reader'.shown]
      /\ reader'.limit = limit /\ reader'.cursor = page1.cursor /\ reader'.shown = page1.window
  BY <1>1, <1>2
<1> QED
  BY <1>3, <1>4, <1>5, <1>6, <1>7 DEF ArchiveInv

\* Every page after it shows what is below the last cursor.
LEMMA PagingKeeps ==
  ASSUME ArchiveInv, Sessions!MorePages
  PROVE  ArchiveInv'
<1> DEFINE ids   == Sessions!Matching(reader.query)
           page1 == Sessions!Page(ids, reader.cursor, reader.limit)
           old   == reader.shown
           new   == old \o page1.window
<1>1. /\ reader.cursor # None
      /\ reader' = [reader EXCEPT !.cursor = page1.cursor, !.shown = @ \o page1.window]
      /\ listed' = listed \intersect ids /\ UNCHANGED sessions
  BY DEF Sessions!MorePages, Sessions!Answer, Sessions!Matching
<1>2. ids \in SUBSET Nat /\ IsFiniteSet(ids) /\ reader.limit \in Int
      /\ reader.cursor \in Nat \union {None}
  BY MatchingIsFinite DEF ArchiveInv
<1>3. /\ reader' = [query |-> reader'.query, limit |-> reader'.limit,
                    cursor |-> reader'.cursor, shown |-> reader'.shown]
      /\ reader'.limit = reader.limit /\ reader'.cursor = page1.cursor /\ reader'.shown = new
  <2>1. reader = [query |-> reader.query, limit |-> reader.limit,
                  cursor |-> reader.cursor, shown |-> reader.shown]
    BY DEF ArchiveInv
  <2> HIDE DEF page1
  <2> QED
    BY <1>1, <2>1
<1> HIDE DEF ids
<1>4. /\ page1.window \in Seq(Nat) /\ IsDescending(page1.window)
      /\ \A i \in Among(page1.window) : i \in ids /\ (reader.cursor = None \/ i < reader.cursor)
      /\ page1.cursor \in Nat \union {None}
      /\ page1.cursor = None =>
           \A i : i \in ids /\ (reader.cursor = None \/ i < reader.cursor) => i \in Among(page1.window)
      /\ page1.cursor # None =>
           /\ page1.cursor \in Among(page1.window)
           /\ \A i \in Among(page1.window) : i >= page1.cursor
           /\ \A i : i \in ids /\ (reader.cursor = None \/ i < reader.cursor) =>
                i \in Among(page1.window) \/ i < page1.cursor
  <2> DEFINE before == reader.cursor
             limit  == reader.limit
  <2>1. before \in Nat \union {None} /\ limit \in Int
    BY <1>2
  <2> HIDE DEF before, limit
  <2>2. /\ Sessions!Page(ids, before, limit).window \in Seq(Nat)
        /\ IsDescending(Sessions!Page(ids, before, limit).window)
        /\ \A i \in Among(Sessions!Page(ids, before, limit).window) : i \in ids /\ (before = None \/ i < before)
        /\ Sessions!Page(ids, before, limit).cursor \in Nat \union {None}
        /\ Sessions!Page(ids, before, limit).cursor = None =>
             \A i : i \in ids /\ (before = None \/ i < before) => i \in Among(Sessions!Page(ids, before, limit).window)
        /\ Sessions!Page(ids, before, limit).cursor # None =>
             /\ Sessions!Page(ids, before, limit).cursor \in Among(Sessions!Page(ids, before, limit).window)
             /\ \A i \in Among(Sessions!Page(ids, before, limit).window) : i >= Sessions!Page(ids, before, limit).cursor
             /\ \A i : i \in ids /\ (before = None \/ i < before) =>
                  i \in Among(Sessions!Page(ids, before, limit).window) \/ i < Sessions!Page(ids, before, limit).cursor
    BY ONLY <1>2, <2>1, PageIsExact
  <2> QED
    BY <2>2 DEF before, limit
<1> HIDE DEF page1
<1>5. /\ old \in Seq(Nat) /\ IsDescending(old) /\ reader.cursor \in Nat
      /\ \A i \in Among(old) : i >= reader.cursor
      /\ \A i \in listed : i \in Among(old) \/ i < reader.cursor
  BY <1>1 DEF ArchiveInv
<1> DEFINE more == page1.window
<1>6. more \in Seq(Nat) /\ IsDescending(more) /\ \A i \in Among(more) : i < reader.cursor
  BY <1>1, <1>4
<1> HIDE DEF old, more
<1>7. /\ Len(old) \in Nat /\ Len(more) \in Nat /\ Len(old \o more) = Len(old) + Len(more)
      /\ \A n \in 1 .. Len(old \o more) :
           (old \o more)[n] = IF n =< Len(old) THEN old[n] ELSE more[n - Len(old)]
      /\ old \o more \in Seq(Nat)
  BY ONLY <1>5, <1>6
<1>8. Among(old \o more) = Among(old) \union Among(more)
  <2>1. \A n \in 1 .. Len(old) : n \in 1 .. Len(old \o more) /\ (old \o more)[n] = old[n]
    BY ONLY <1>7
  <2>2. \A n \in 1 .. Len(more) : /\ n + Len(old) \in 1 .. Len(old \o more)
                                  /\ (old \o more)[n + Len(old)] = more[n]
    BY ONLY <1>7
  <2>3. \A n \in 1 .. Len(old \o more) :
          \/ n \in 1 .. Len(old) /\ (old \o more)[n] = old[n]
          \/ n - Len(old) \in 1 .. Len(more) /\ (old \o more)[n] = more[n - Len(old)]
    BY ONLY <1>7
  <2>4. DOMAIN old = 1 .. Len(old) /\ DOMAIN more = 1 .. Len(more)
        /\ DOMAIN (old \o more) = 1 .. Len(old \o more)
    BY <1>5, <1>6, <1>7
  <2> QED
    BY ONLY <2>1, <2>2, <2>3, <2>4 DEF Among
<1>9. IsDescending(old \o more)
  <2> SUFFICES ASSUME NEW m \in 1 .. Len(old \o more), NEW n \in 1 .. Len(old \o more), m < n
               PROVE  (old \o more)[m] > (old \o more)[n]
    BY DEF IsDescending
  <2>1. CASE n =< Len(old)
    <3>1. m \in 1 .. Len(old) /\ n \in 1 .. Len(old)
      BY <1>7, <2>1
    <3>2. (old \o more)[m] = old[m] /\ (old \o more)[n] = old[n]
      BY <1>7, <2>1, <3>1
    <3> QED
      BY <1>5, <3>1, <3>2 DEF IsDescending
  <2>2. CASE m > Len(old)
    <3>1. m - Len(old) \in 1 .. Len(more) /\ n - Len(old) \in 1 .. Len(more) /\ m - Len(old) < n - Len(old)
      BY <1>7, <2>2
    <3>2. (old \o more)[m] = more[m - Len(old)] /\ (old \o more)[n] = more[n - Len(old)]
      BY <1>7, <2>2
    <3> QED
      BY <1>6, <3>1, <3>2 DEF IsDescending
  <2>3. CASE m =< Len(old) /\ n > Len(old)
    <3>1. m \in 1 .. Len(old) /\ n - Len(old) \in 1 .. Len(more)
      BY <1>7, <2>3
    <3>2. (old \o more)[m] = old[m] /\ (old \o more)[n] = more[n - Len(old)]
      BY <1>7, <2>3
    <3>3. old[m] \in Among(old) /\ more[n - Len(old)] \in Among(more)
      BY <1>5, <1>6, <3>1 DEF Among
    <3>4. old[m] >= reader.cursor /\ more[n - Len(old)] < reader.cursor
      BY <1>5, <1>6, <3>3
    <3>5. old[m] \in Nat /\ more[n - Len(old)] \in Nat
      BY <1>5, <1>6, <3>1
    <3> QED
      BY <1>5, <3>2, <3>4, <3>5
  <2> QED
    BY <1>7, <2>1, <2>2, <2>3
<1>10. /\ reader'.shown = old \o more
       /\ Among(reader'.shown) = Among(old) \union Among(more)
  BY <1>3, <1>8 DEF old, more
<1>11. ASSUME page1.cursor = None PROVE listed' \subseteq Among(reader'.shown)
  BY <1>1, <1>4, <1>5, <1>10, <1>11 DEF more
<1>12. ASSUME page1.cursor # None
       PROVE  /\ \A i \in Among(reader'.shown) : i >= page1.cursor
              /\ \A i \in listed' : i \in Among(reader'.shown) \/ i < page1.cursor
  <2>1. /\ page1.cursor \in Nat /\ page1.cursor \in Among(more)
        /\ \A i \in Among(more) : i >= page1.cursor
        /\ \A i : i \in ids /\ i < reader.cursor => i \in Among(more) \/ i < page1.cursor
    BY <1>4, <1>12 DEF more
  <2>2. \A i \in Among(old) : i >= page1.cursor
    <3>1. page1.cursor < reader.cursor
      BY <1>6, <2>1
    <3>2. \A i \in Among(old) : i \in Nat
      BY <1>5 DEF Among
    <3> QED
      BY <1>5, <2>1, <3>1, <3>2
  <2>3. \A i \in listed' : i \in Among(old) \/ i \in Among(more) \/ i < page1.cursor
    BY <1>1, <1>5, <2>1
  <2> QED
    BY <1>10, <2>1, <2>2, <2>3
<1>13. reader'.shown \in Seq(Nat) /\ IsDescending(reader'.shown)
  BY <1>7, <1>9, <1>10
<1>14. IsFiniteSet(DOMAIN sessions') /\ DOMAIN sessions' \subseteq Nat
  BY <1>1 DEF ArchiveInv
<1>15. /\ reader'.limit \in Int /\ reader'.cursor = page1.cursor
       /\ reader'.cursor \in Nat \union {None}
       /\ reader' = [query |-> reader'.query, limit |-> reader'.limit,
                     cursor |-> reader'.cursor, shown |-> reader'.shown]
  BY <1>2, <1>3, <1>4
<1> QED
  BY <1>11, <1>12, <1>13, <1>14, <1>15 DEF ArchiveInv

\* Whoever pages through the history to its end has been shown every session that
\* each answer could have shown, and none twice, in one descending order -- of any
\* length, with any page sizes and searches, whatever was started, ended or swept
\* away between two pages.
THEOREM HistoryIsComplete == Spec => []PagesComplete
<1>1. Init => ArchiveInv
  <2> SUFFICES ASSUME Init PROVE ArchiveInv
    OBVIOUS
  <2>1. sessions = <<>> /\ reader = Sessions!Closed /\ listed = {}
    BY DEF Init, Sessions!ArchiveInit
  <2>2. DOMAIN sessions = {}
    BY <2>1
  <2>3. reader = [query |-> {}, limit |-> 1, cursor |-> None, shown |-> <<>>]
    BY <2>1 DEF Sessions!Closed
  <2>4. IsDescending(<<>>) /\ <<>> \in Seq(Nat)
    BY DEF IsDescending
  <2> QED
    BY <2>1, <2>2, <2>3, <2>4, FS_EmptySet DEF ArchiveInv
<1>2. ArchiveInv /\ [Next]_vars => ArchiveInv'
  <2> SUFFICES ASSUME ArchiveInv, [Next]_vars PROVE ArchiveInv'
    OBVIOUS
  <2>1. CASE Sessions!ArchiveNext
    BY <2>1, TableKeeps, OpeningKeeps, PagingKeeps DEF Sessions!ArchiveNext
  <2>2. CASE UNCHANGED sessionsVars
    BY <2>2 DEF sessionsVars, ArchiveInv
  <2> QED
    BY <2>1, <2>2 DEF Next, vars
<1>3. ArchiveInv => PagesComplete
  <2> SUFFICES ASSUME ArchiveInv PROVE Sessions!PagesComplete
    BY DEF PagesComplete
  <2> DEFINE shown == reader.shown
  <2>1. shown \in Seq(Nat) /\ IsDescending(shown) /\ (reader.cursor = None => listed \subseteq Among(shown))
    BY DEF ArchiveInv
  <2>2. Sessions!ToSet(shown) = Among(shown)
    BY DEF Sessions!ToSet, Among
  <2> HIDE DEF shown
  <2>3. \A i, j \in DOMAIN shown : i < j => shown[i] > shown[j]
    <3>1. DOMAIN shown = 1 .. Len(shown)
      BY <2>1
    <3> QED
      BY <2>1, <3>1 DEF IsDescending
  <2> QED
    BY <2>1, <2>2, <2>3 DEF Sessions!PagesComplete, shown
<1> QED
  BY <1>1, <1>2, <1>3, PTL DEF Spec

-----------------------------------------------------------------------------
(* The traffic graph: its operators.                                       *)

Sample == [at : Int, bytes : Nat, moved : Nat]
Drawn  == [t : Int, count : Nat, seconds : Int, bytes : Nat]

\* A sum is taken from the left.
LEMMA TotalIsSummed ==
  ASSUME NEW numbers \in Seq(Nat)
  PROVE  \E f \in [0 .. Len(numbers) -> Nat] :
           /\ f[0] = 0 /\ \A i \in 1 .. Len(numbers) : f[i] = f[i - 1] + numbers[i]
           /\ Graph!Total(numbers) = f[Len(numbers)]
<1> DEFINE n    == Len(numbers)
           sum  == CHOOSE f : f = [i \in 0 .. n |-> IF i = 0 THEN 0 ELSE f[i - 1] + numbers[i]]
           step == [i \in 1 .. n |-> [x \in Nat |-> x + numbers[i]]]
<1>1. Graph!Total(numbers) = sum[n]
  BY DEF Graph!Total
<1>2. n \in Nat /\ \A i \in 1 .. n : numbers[i] \in Nat
  BY LenProperties, ElementOfSeq
<1>3. step \in [1 .. n -> [Nat -> Nat]]
  BY <1>2
<1> HIDE DEF n, sum, step
<1>4. PICK f \in [0 .. n -> Nat] : f[0] = 0 /\ \A i \in 1 .. n : f[i] = step[i][f[i - 1]]
  <2>1. IsStep(step, n, Nat)
    BY <1>3 DEF IsStep
  <2>2. \E f : Follows(f, n, Nat, 0, step)
    BY <1>2, <2>1, RecursionExists
  <2> QED  BY <2>2 DEF Follows
<1>5. ASSUME NEW i \in 1 .. n PROVE f[i] = f[i - 1] + numbers[i]
  <2>1. f[i - 1] \in Nat
    BY <1>2, <1>4
  <2> QED  BY <1>4, <2>1 DEF step
<1>6. f = [i \in 0 .. n |-> IF i = 0 THEN 0 ELSE f[i - 1] + numbers[i]]
  BY <1>2, <1>4, <1>5
<1>7. sum = [i \in 0 .. n |-> IF i = 0 THEN 0 ELSE sum[i - 1] + numbers[i]]
  BY <1>6 DEF sum
<1> DEFINE S == {i \in 0 .. n : sum[i] = f[i]}
<1>8. 0 \in S
  BY <1>2, <1>4, <1>7
<1>9. ASSUME NEW i \in 0 .. n - 1, i \in S PROVE i + 1 \in S
  <2> DEFINE k == i + 1
  <2>1. k \in 1 .. n /\ k - 1 = i /\ k # 0 /\ k \in 0 .. n
    BY <1>2
  <2> HIDE DEF k
  <2>2. sum[k] = sum[k - 1] + numbers[k] /\ f[k] = f[k - 1] + numbers[k]
    BY <1>5, <1>7, <2>1
  <2>3. k \in S
    BY <1>9, <2>1, <2>2
  <2> QED  BY <2>3 DEF k
<1> HIDE DEF S
<1>10. 0 .. n \subseteq S
  BY <1>2, <1>8, <1>9, Climb
<1>11. sum[n] = f[n]
  BY <1>2, <1>10 DEF S
<1> QED  BY <1>1, <1>4, <1>5, <1>11 DEF n

LEMMA BytesAreSummed ==
  ASSUME NEW points \in Seq(Drawn)
  PROVE  \E f \in [0 .. Len(points) -> Nat] :
           /\ f[0] = 0 /\ \A i \in 1 .. Len(points) : f[i] = f[i - 1] + points[i].bytes
           /\ Graph!Bytes(points) = f[Len(points)]
<1> DEFINE n       == Len(points)
           numbers == [i \in DOMAIN points |-> points[i].bytes]
<1>1. n \in Nat /\ DOMAIN points = 1 .. n /\ \A i \in 1 .. n : points[i].bytes \in Nat
  <2>1. \A i \in 1 .. n : points[i] \in Drawn
    BY ElementOfSeq
  <2> QED  BY <2>1, LenProperties DEF Drawn
<1>2. numbers \in Seq(Nat) /\ Len(numbers) = n /\ \A i \in 1 .. n : numbers[i] = points[i].bytes
  BY <1>1
<1>3. Graph!Bytes(points) = Graph!Total(numbers)
  BY DEF Graph!Bytes
<1> HIDE DEF n, numbers
<1>4. PICK f \in [0 .. n -> Nat] :
        /\ f[0] = 0 /\ \A i \in 1 .. n : f[i] = f[i - 1] + numbers[i]
        /\ Graph!Total(numbers) = f[n]
  BY <1>2, TotalIsSummed
<1> QED  BY <1>2, <1>3, <1>4 DEF n

LEMMA BytesOfAppended ==
  ASSUME NEW points \in Seq(Drawn), NEW p \in Drawn
  PROVE  /\ Graph!Bytes(points) \in Nat /\ Graph!Bytes(<<>>) = 0
         /\ Graph!Bytes(Append(points, p)) = Graph!Bytes(points) + p.bytes
<1> DEFINE n   == Len(points)
           all == Append(points, p)
<1>1. /\ n \in Nat /\ all \in Seq(Drawn) /\ Len(all) = n + 1
      /\ \A i \in 1 .. n : all[i] = points[i]
      /\ all[n + 1] = p
  BY AppendProperties, LenProperties
<1>2. PICK f \in [0 .. n -> Nat] :
        /\ f[0] = 0 /\ \A i \in 1 .. n : f[i] = f[i - 1] + points[i].bytes
        /\ Graph!Bytes(points) = f[n]
  BY BytesAreSummed
<1> HIDE DEF n, all
<1>3. PICK g \in [0 .. n + 1 -> Nat] :
        /\ g[0] = 0 /\ \A i \in 1 .. n + 1 : g[i] = g[i - 1] + all[i].bytes
        /\ Graph!Bytes(all) = g[n + 1]
  BY <1>1, BytesAreSummed
<1> DEFINE S == {i \in 0 .. n : f[i] = g[i]}
<1>4. 0 \in S
  BY <1>1, <1>2, <1>3
<1>5. ASSUME NEW i \in 0 .. n - 1, i \in S PROVE i + 1 \in S
  <2> DEFINE k == i + 1
  <2>1. k \in 1 .. n /\ k \in 1 .. n + 1 /\ k - 1 = i /\ k \in 0 .. n
    BY <1>1
  <2> HIDE DEF k
  <2>2. f[k] = f[i] + points[k].bytes /\ g[k] = g[i] + all[k].bytes
    BY <1>2, <1>3, <2>1
  <2>3. k \in S
    BY <1>1, <1>5, <2>1, <2>2
  <2> QED  BY <2>3 DEF k
<1> HIDE DEF S
<1>6. 0 .. n \subseteq S
  BY <1>1, <1>4, <1>5, Climb
<1>7. f[n] = g[n]
  BY <1>1, <1>6 DEF S
<1>8. g[n + 1] = g[n] + p.bytes
  <2>1. n + 1 \in 1 .. n + 1 /\ (n + 1) - 1 = n
    BY <1>1
  <2>2. g[n + 1] = g[(n + 1) - 1] + all[n + 1].bytes
    BY ONLY <1>3, <2>1
  <2> QED  BY <1>1, <2>1, <2>2
<1>9. Graph!Bytes(points) \in Nat
  BY <1>1, <1>2
<1>10. Graph!Bytes(<<>>) = 0
  <2>1. <<>> \in Seq(Drawn) /\ Len(<<>>) = 0
    BY EmptySeq
  <2> HIDE DEF n
  <2>2. PICK h \in [0 .. Len(<<>>) -> Nat] : h[0] = 0 /\ Graph!Bytes(<<>>) = h[Len(<<>>)]
    BY <2>1, BytesAreSummed
  <2> QED  BY <2>1, <2>2
<1> QED  BY <1>2, <1>3, <1>7, <1>8, <1>9, <1>10 DEF all

\* Rate's subtraction never yields less than nothing.
LEMMA RateIsDrawn ==
  ASSUME NEW from \in Sample, NEW to \in Sample
  PROVE  /\ Graph!Rate(from, to) \in Drawn
         /\ Graph!Rate(from, to).seconds = to.at - from.at
         /\ Graph!Rate(from, to).bytes =
              IF to.bytes > from.bytes THEN to.bytes - from.bytes ELSE 0
<1> DEFINE d == to.bytes - from.bytes
           m == Graph!Max({0, d})
<1>1. d \in Int /\ to.at \in Int /\ from.at \in Int /\ to.bytes \in Nat /\ from.bytes \in Nat
  BY DEF Sample
<1>2. m = IF d > 0 THEN d ELSE 0
  <2> HIDE DEF d
  <2>1. {0, d} \in SUBSET Int /\ IsFiniteSet({0, d}) /\ {0, d} # {}
    <3>1. IsFiniteSet({0}) /\ {0, d} = {0} \union {d}
      BY FS_Singleton
    <3>2. IsFiniteSet({0, d})
      BY <3>1, FS_AddElement
    <3> QED  BY <1>1, <3>2
  <2>2. Max({0, d}) \in {0, d} /\ \A x \in {0, d} : Max({0, d}) >= x
    BY ONLY <2>1, MaxIsGreatest
  <2>3. m = Max({0, d})
    BY DEF Graph!Max, Max
  <2> QED  BY <1>1, <2>2, <2>3
<1>3. m \in Nat
  BY <1>1, <1>2
<1>4. Graph!Rate(from, to) = [t |-> to.at, count |-> 1, seconds |-> to.at - from.at, bytes |-> m]
  BY DEF Graph!Rate
<1> HIDE DEF m
<1> QED  BY <1>1, <1>2, <1>3, <1>4 DEF Drawn

\* Rates goes from reading to reading.
LEMMA RatesAreCollected ==
  ASSUME NEW table \in Seq(Sample)
  PROVE  \E f : /\ f \in [0 .. Len(table) -> Seq(Drawn)] /\ f[0] = <<>>
                /\ \A i \in 1 .. Len(table) :
                     f[i] = IF i > 1 /\ table[i].at > table[i - 1].at
                              THEN Append(f[i - 1], Graph!Rate(table[i - 1], table[i]))
                              ELSE f[i - 1]
                /\ Graph!Rates(table) = f[Len(table)]
<1> DEFINE n     == Len(table)
           on(i) == i > 1 /\ table[i].at > table[i - 1].at
           rate(i) == Graph!Rate(table[i - 1], table[i])
           rates == CHOOSE f : f = [i \in 0 .. n |->
                       IF i = 0 THEN <<>>
                       ELSE IF on(i) THEN Append(f[i - 1], rate(i)) ELSE f[i - 1]]
           step  == [i \in 1 .. n |-> [s \in Seq(Drawn) |-> IF on(i) THEN Append(s, rate(i)) ELSE s]]
<1>1. Graph!Rates(table) = rates[n]
  BY DEF Graph!Rates
<1>2. n \in Nat
  BY LenProperties
<1>3. ASSUME NEW i \in 1 .. n, on(i) PROVE rate(i) \in Drawn
  <2>1. table[i] \in Sample /\ table[i - 1] \in Sample
    BY <1>2, <1>3, ElementOfSeq
  <2> QED  BY <2>1, RateIsDrawn
<1> HIDE DEF n, rates, on, rate
<1>4. IsStep(step, n, Seq(Drawn))
  BY <1>3, AppendProperties DEF IsStep
<1>5. <<>> \in Seq(Drawn)
  BY EmptySeq
<1> HIDE DEF step
<1>6. PICK f : Follows(f, n, Seq(Drawn), <<>>, step)
  BY <1>2, <1>4, <1>5, RecursionExists
<1>7. f \in [0 .. n -> Seq(Drawn)] /\ f[0] = <<>>
  BY <1>6 DEF Follows
<1>8. ASSUME NEW i \in 1 .. n PROVE f[i] = IF on(i) THEN Append(f[i - 1], rate(i)) ELSE f[i - 1]
  <2>1. f[i - 1] \in Seq(Drawn)
    BY <1>2, <1>7
  <2> QED  BY <1>6, <2>1 DEF step, Follows
<1>9. f = [i \in 0 .. n |-> IF i = 0 THEN <<>>
                            ELSE IF on(i) THEN Append(f[i - 1], rate(i)) ELSE f[i - 1]]
  <2> DEFINE e(i) == IF i = 0 THEN <<>>
                     ELSE IF on(i) THEN Append(f[i - 1], rate(i)) ELSE f[i - 1]
  <2>1. \A i \in 0 .. n : i = 0 \/ i \in 1 .. n
    BY <1>2
  <2>2. \A i \in 0 .. n : f[i] = e(i)
    BY <1>7, <1>8, <2>1
  <2> HIDE DEF e
  <2>3. f = [i \in 0 .. n |-> e(i)]
    BY <1>7, <2>2
  <2> QED  BY <2>3 DEF e
<1>10. rates = [i \in 0 .. n |-> IF i = 0 THEN <<>>
                                 ELSE IF on(i) THEN Append(rates[i - 1], rate(i)) ELSE rates[i - 1]]
  BY <1>9 DEF rates
<1> DEFINE S == {i \in 0 .. n : rates[i] = f[i]}
<1>11. 0 \in S
  BY <1>2, <1>7, <1>10
<1>12. ASSUME NEW i \in 0 .. n - 1, i \in S PROVE i + 1 \in S
  <2> DEFINE k == i + 1
  <2>1. k \in 1 .. n /\ k # 0 /\ k - 1 = i /\ k \in 0 .. n
    BY <1>2
  <2> HIDE DEF k
  <2>2. rates[k] = IF on(k) THEN Append(rates[k - 1], rate(k)) ELSE rates[k - 1]
    BY <1>10, <2>1
  <2>3. k \in S
    BY <1>8, <1>12, <2>1, <2>2
  <2> QED  BY <2>3 DEF k
<1> HIDE DEF S
<1>13. 0 .. n \subseteq S
  BY <1>2, <1>11, <1>12, Climb
<1>14. rates[n] = f[n]
  BY <1>2, <1>13 DEF S
<1> QED  BY <1>1, <1>7, <1>8, <1>14 DEF n, on, rate

\* Between two readings at least as much is moved as is counted.
Counts(table) ==
  \A i \in 2 .. Len(table) :
    /\ table[i - 1].moved =< table[i].moved
    /\ table[i].bytes - table[i - 1].bytes =< table[i].moved - table[i - 1].moved

LEMMA RatesAreMoved ==
  ASSUME NEW table \in Seq(Sample), table # <<>>, Counts(table),
         NEW full, full = Graph!Rates(table), NEW n, n = Len(table)
  PROVE  /\ full \in Seq(Drawn) /\ Len(full) =< n - 1
         /\ \A k \in 1 .. Len(full) : full[k].seconds > 0
         /\ Graph!Bytes(full) =< table[n].moved - table[1].moved
         /\ Len(full) = n - 1 /\ (\A i \in 1 .. n : table[i].bytes = table[i].moved) =>
              Graph!Bytes(full) = table[n].moved - table[1].moved
<1> DEFINE same == \A i \in 1 .. n : table[i].bytes = table[i].moved
           rate(i) == Graph!Rate(table[i - 1], table[i])
           on(i)   == i > 1 /\ table[i].at > table[i - 1].at
<1>1. n \in Nat \ {0}
  BY LenProperties, EmptySeq
<1>2. \A i \in 1 .. n : /\ table[i] \in Sample /\ table[i].at \in Int
                        /\ table[i].bytes \in Nat /\ table[i].moved \in Nat
  <2>1. \A i \in 1 .. n : table[i] \in Sample
    BY ElementOfSeq
  <2> QED  BY <2>1 DEF Sample
<1>3. PICK f :
        /\ f \in [0 .. n -> Seq(Drawn)] /\ f[0] = <<>>
        /\ \A i \in 1 .. n : f[i] = IF on(i) THEN Append(f[i - 1], rate(i)) ELSE f[i - 1]
        /\ full = f[n]
  BY RatesAreCollected
<1> DEFINE Good(i) == /\ f[i] \in Seq(Drawn) /\ Len(f[i]) =< i - 1
                      /\ \A k \in 1 .. Len(f[i]) : f[i][k].seconds > 0
                      /\ Graph!Bytes(f[i]) =< table[i].moved - table[1].moved
                      /\ Len(f[i]) = i - 1 /\ same =>
                           Graph!Bytes(f[i]) = table[i].moved - table[1].moved
           S == {i \in 0 .. n : i = 0 \/ Good(i)}
<1>4. 0 \in S
  BY <1>1
<1>5. ASSUME NEW i \in 0 .. n - 1, i \in S PROVE i + 1 \in S
  <2> DEFINE k == i + 1
  <2>1. k \in 1 .. n /\ k - 1 = i /\ k \in 0 .. n /\ i \in 0 .. n
    BY <1>1
  <2>2. k > 1 <=> i # 0
    OBVIOUS
  <2> HIDE DEF k
  <2>3. CASE i = 0
    <3>1. k = 1 /\ f[1] = <<>>
      BY <1>3, <2>1, <2>3
    <3>2. Good(1)
      <4>1. /\ f[1] \in Seq(Drawn) /\ Len(f[1]) = 0 /\ Graph!Bytes(f[1]) = 0
        <5>1. [t |-> 0, count |-> 0, seconds |-> 0, bytes |-> 0] \in Drawn
          BY DEF Drawn
        <5>2. <<>> \in Seq(Drawn) /\ Len(<<>>) = 0
          BY EmptySeq
        <5>3. Graph!Bytes(<<>>) = 0
          BY <5>1, <5>2, BytesOfAppended
        <5> QED  BY <3>1, <5>2, <5>3
      <4>2. table[1].moved \in Nat
        BY <1>1, <1>2
      <4> QED  BY <4>1, <4>2
    <3> QED  BY <2>1, <3>1, <3>2 DEF k
  <2>4. CASE i # 0
    <3>1. Good(i) /\ f[i] \in Seq(Drawn)
      BY <1>5, <2>4
    <3>2. /\ i \in 1 .. n /\ k \in 2 .. n
      BY <2>1, <2>2, <2>4
    <3>3. /\ table[i].moved \in Nat /\ table[k].moved \in Nat /\ table[1].moved \in Nat
          /\ table[i].bytes \in Nat /\ table[k].bytes \in Nat
          /\ table[i].at \in Int /\ table[k].at \in Int
      BY <1>1, <1>2, <2>1, <3>2
    <3>4. /\ table[i].moved =< table[k].moved
          /\ table[k].bytes - table[i].bytes =< table[k].moved - table[i].moved
      BY <2>1, <3>2 DEF Counts
    <3>5. Len(f[i]) \in Nat /\ Graph!Bytes(f[i]) \in Nat
      <4>1. [t |-> 0, count |-> 0, seconds |-> 0, bytes |-> 0] \in Drawn
        BY DEF Drawn
      <4> QED  BY <3>1, <4>1, LenProperties, BytesOfAppended
    <3>6. CASE on(k)
      <4> DEFINE p == rate(k)
      <4>1. /\ p \in Drawn /\ p.seconds = table[k].at - table[i].at
            /\ p.bytes = IF table[k].bytes > table[i].bytes THEN table[k].bytes - table[i].bytes ELSE 0
        BY <1>2, <2>1, <3>2, RateIsDrawn
      <4>2. table[k].at > table[i].at
        BY <2>1, <3>6
      <4>3. f[k] = Append(f[i], p)
        BY <1>3, <2>1, <3>6
      <4> HIDE DEF p
      <4>4. /\ f[k] \in Seq(Drawn) /\ Len(f[k]) = Len(f[i]) + 1
            /\ \A m \in 1 .. Len(f[i]) : f[k][m] = f[i][m]
            /\ f[k][Len(f[i]) + 1] = p
        BY <3>1, <4>1, <4>3, AppendProperties
      <4>5. Graph!Bytes(f[k]) = Graph!Bytes(f[i]) + p.bytes
        BY <3>1, <4>1, <4>3, BytesOfAppended
      <4>6. p.bytes \in Nat /\ p.bytes =< table[k].moved - table[i].moved /\ p.seconds > 0
        <5>1. p.bytes \in Nat
          BY <4>1 DEF Drawn
        <5>2. p.seconds > 0
          BY ONLY <3>3, <4>1, <4>2
        <5>3. p.bytes =< table[k].moved - table[i].moved
          BY ONLY SMTT(30), <3>3, <3>4, <4>1
        <5> QED  BY <5>1, <5>2, <5>3
      <4>7. \A m \in 1 .. Len(f[k]) : f[k][m].seconds > 0
        <5>1. ASSUME NEW m \in 1 .. Len(f[k]) PROVE m \in 1 .. Len(f[i]) \/ m = Len(f[i]) + 1
          BY ONLY <3>5, <4>4, <5>1
        <5> QED  BY <3>1, <4>4, <4>6, <5>1
      <4>8. Len(f[k]) =< k - 1
        BY <2>1, <3>1, <3>2, <3>5, <4>4
      <4>9. Graph!Bytes(f[k]) =< table[k].moved - table[1].moved
        <5>1. Graph!Bytes(f[i]) =< table[i].moved - table[1].moved
          BY <3>1
        <5>2. \A x, y \in Nat, a, b, c \in Nat : x =< a - c /\ y =< b - a => x + y =< b - c
          OBVIOUS
        <5>3. Graph!Bytes(f[i]) + p.bytes =< table[k].moved - table[1].moved
          BY <3>3, <3>5, <4>6, <5>1, <5>2
        <5> QED  BY <4>5, <5>3
      <4>10. ASSUME Len(f[k]) = k - 1, same PROVE Graph!Bytes(f[k]) = table[k].moved - table[1].moved
        <5>1. Len(f[i]) = i - 1
          BY <2>1, <3>2, <3>5, <4>4, <4>10
        <5>2. Graph!Bytes(f[i]) = table[i].moved - table[1].moved
          BY <3>1, <4>10, <5>1
        <5>3. table[k].bytes = table[k].moved /\ table[i].bytes = table[i].moved
          BY <2>1, <3>2, <4>10
        <5>4. table[i].moved =< table[k].moved
          BY <3>4
        <5>5. p.bytes = table[k].moved - table[i].moved
          BY ONLY <3>3, <4>1, <5>3, <5>4
        <5> QED  BY ONLY SMTT(30), <3>3, <4>5, <5>2, <5>5
      <4>11. Good(k)
        BY <4>4, <4>7, <4>8, <4>9, <4>10
      <4> HIDE DEF Good
      <4> QED  BY <2>1, <4>11 DEF k
    <3>7. CASE ~on(k)
      <4>1. f[k] = f[i]
        BY <1>3, <2>1, <3>7
      <4>2. Len(f[k]) # k - 1 /\ Len(f[k]) =< k - 1
        BY <2>1, <3>1, <3>2, <3>5, <4>1
      <4>3. Graph!Bytes(f[k]) =< table[k].moved - table[1].moved
        BY <3>1, <3>3, <3>4, <3>5, <4>1
      <4>4. f[k] \in Seq(Drawn) /\ \A m \in 1 .. Len(f[k]) : f[k][m].seconds > 0
        BY <3>1, <4>1
      <4>5. Good(k)
        BY <4>2, <4>3, <4>4
      <4> HIDE DEF Good
      <4> QED  BY <2>1, <4>5 DEF k
    <3> QED  BY <3>6, <3>7
  <2> QED  BY <2>3, <2>4
<1> HIDE DEF S
<1>6. 0 .. n \subseteq S
  BY <1>1, <1>4, <1>5, Climb
<1>7. Good(n)
  BY <1>1, <1>6 DEF S
<1> QED  BY <1>3, <1>7

\* Where a sequence is cut into pieces that follow each other.
Cuts(cut, k, n) ==
  /\ cut \in [0 .. k -> 0 .. n] /\ cut[0] = 0 /\ cut[k] = n
  /\ \A b \in 1 .. k : cut[b - 1] =< cut[b]

\* Such pieces make it up again.
LEMMA PiecesRejoin ==
  ASSUME NEW T, NEW points \in Seq(T), NEW k \in Nat \ {0}, NEW cut, Cuts(cut, k, Len(points)),
         NEW pieces, pieces = [b \in 1 .. k |-> SubSeq(points, cut[b - 1] + 1, cut[b])]
  PROVE  Graph!FlattenSeq(pieces) = points
<1> DEFINE flat == CHOOSE f : f = [b \in 1 .. Len(pieces) |->
                                     IF b = 1 THEN pieces[b] ELSE f[b - 1] \o pieces[b]]
           g    == [b \in 1 .. k |-> SubSeq(points, 1, cut[b])]
           n    == Len(points)
<1>0. n \in Nat
  BY LenProperties
<1>1. /\ n \in Nat /\ cut \in [0 .. k -> 0 .. n] /\ cut[0] = 0 /\ cut[k] = n
      /\ \A b \in 1 .. k : cut[b - 1] =< cut[b]
  BY <1>0 DEF Cuts
<1>2. ASSUME NEW b \in 1 .. k PROVE pieces[b] \in Seq(T)
  <2>1. cut[b - 1] \in 0 .. n /\ cut[b] \in 0 .. n
    <3>1. b - 1 \in 0 .. k /\ b \in 0 .. k
      OBVIOUS
    <3> QED  BY <1>1, <3>1
  <2>2. \A i \in cut[b - 1] + 1 .. cut[b] : points[i] \in T
    <3>1. \A i \in cut[b - 1] + 1 .. cut[b] : i \in 1 .. n
      BY ONLY <1>1, <2>1
    <3> QED  BY <3>1, ElementOfSeq
  <2>3. SubSeq(points, cut[b - 1] + 1, cut[b]) \in Seq(T)
    <3> DEFINE c == cut[b - 1] + 1
               d == cut[b]
    <3>1. c \in Int /\ d \in Int
      BY <1>1, <2>1
    <3>2. \A i \in c .. d : points[i] \in T
      BY <2>2
    <3> HIDE DEF c, d
    <3>3. SubSeq(points, c, d) \in Seq(T)
      BY ONLY <3>1, <3>2, SubSeqProperties
    <3> QED  BY <3>3 DEF c, d
  <2> QED  BY <2>3
<1>3. Len(pieces) = k /\ DOMAIN pieces = 1 .. k
  <2>1. pieces \in Seq(Seq(T))
    <3>1. pieces \in [1 .. k -> Seq(T)]
      BY <1>2
    <3>2. Seq(Seq(T)) = UNION {[1 .. m -> Seq(T)] : m \in Nat}
      BY SeqDef
    <3>3. k \in Nat
      OBVIOUS
    <3> QED  BY ONLY <3>1, <3>2, <3>3
  <2> QED  BY <2>1, LenProperties
<1>4. Graph!FlattenSeq(pieces) = flat[k]
  BY <1>3 DEF Graph!FlattenSeq
<1> HIDE DEF flat
<1>5. ASSUME NEW b \in 2 .. k PROVE g[b] = g[b - 1] \o pieces[b]
  <2>1. /\ cut[b - 1] \in 0 .. n /\ cut[b] \in 0 .. n /\ cut[b - 1] =< cut[b]
        /\ b \in 1 .. k /\ b - 1 \in 1 .. k
    <3>1. b \in 1 .. k /\ b - 1 \in 1 .. k /\ b - 1 \in 0 .. k /\ b \in 0 .. k
      OBVIOUS
    <3> QED  BY <1>1, <3>1
  <2> DEFINE c == cut[b - 1]
             d == cut[b]
  <2>2. c \in 1 - 1 .. n /\ d \in c .. n /\ 1 \in 1 .. n + 1
    BY <1>1, <2>1
  <2>3. SubSeq(points, 1, c) \o SubSeq(points, c + 1, d) = SubSeq(points, 1, d)
    <3> HIDE DEF c, d
    <3> QED  BY <2>2, ConcatAdjacentSubSeq
  <2> QED  BY <2>1, <2>3
<1>6. g[1] = pieces[1]
  <2>1. 1 \in 1 .. k /\ 1 - 1 = 0 /\ 0 + 1 = 1
    OBVIOUS
  <2> QED  BY <1>1, <2>1
<1>7. ASSUME NEW f, DOMAIN f = 1 .. k, f[1] = pieces[1],
             \A b \in 2 .. k : f[b] = f[b - 1] \o pieces[b]
      PROVE  f[k] = points
  <2> DEFINE S == {b \in 0 .. k : b = 0 \/ f[b] = g[b]}
  <2> HIDE DEF g
  <2>1. 0 \in S
    OBVIOUS
  <2>2. ASSUME NEW b \in 0 .. k - 1, b \in S PROVE b + 1 \in S
    <3> DEFINE m == b + 1
    <3>1. m \in 1 .. k /\ m - 1 = b /\ m \in 0 .. k /\ (b = 0 => m = 1) /\ (b # 0 => m \in 2 .. k)
      OBVIOUS
    <3> HIDE DEF m
    <3>2. f[m] = g[m]
      <4>1. CASE b = 0
        BY <1>6, <1>7, <3>1, <4>1
      <4>2. CASE b # 0
        <5>1. f[b] = g[b] /\ m \in 2 .. k
          BY <2>2, <3>1, <4>2
        <5>2. f[m] = f[m - 1] \o pieces[m] /\ g[m] = g[m - 1] \o pieces[m]
          BY <1>5, <1>7, <5>1
        <5> QED  BY <3>1, <5>1, <5>2
      <4> QED  BY <4>1, <4>2
    <3>3. m \in S
      BY <3>1, <3>2
    <3> QED  BY <3>3 DEF m
  <2> HIDE DEF S
  <2>3. 0 .. k \subseteq S
    BY <2>1, <2>2, Climb
  <2>4. f[k] = g[k]
    BY <2>3 DEF S
  <2>5. g[k] = SubSeq(points, 1, n)
    <3>1. k \in 1 .. k
      OBVIOUS
    <3>2. g[k] = SubSeq(points, 1, cut[k])
      BY <3>1 DEF g
    <3> QED  BY <1>1, <3>2
  <2> QED  BY <2>4, <2>5, SubSeqFull
<1>8. flat = [b \in 1 .. k |-> IF b = 1 THEN pieces[b] ELSE flat[b - 1] \o pieces[b]]
  <2>1. ASSUME NEW b \in 1 .. k
        PROVE  g[b] = IF b = 1 THEN pieces[b] ELSE g[b - 1] \o pieces[b]
    <3>1. b = 1 \/ b \in 2 .. k
      OBVIOUS
    <3> HIDE DEF g
    <3> QED  BY <1>5, <1>6, <3>1
  <2>2. g = [b \in 1 .. k |-> IF b = 1 THEN pieces[b] ELSE g[b - 1] \o pieces[b]]
    <3> DEFINE e(b) == IF b = 1 THEN pieces[b] ELSE g[b - 1] \o pieces[b]
    <3>1. \A b \in 1 .. k : g[b] = e(b)
      BY <2>1
    <3>2. g = [b \in 1 .. k |-> g[b]]
      OBVIOUS
    <3> HIDE DEF e, g
    <3>3. g = [b \in 1 .. k |-> e(b)]
      BY <3>1, <3>2
    <3> QED  BY <3>3 DEF e
  <2> HIDE DEF g
  <2>3. \E f : f = [b \in 1 .. k |-> IF b = 1 THEN pieces[b] ELSE f[b - 1] \o pieces[b]]
    BY <2>2
  <2>4. flat = CHOOSE f : f = [b \in 1 .. k |-> IF b = 1 THEN pieces[b] ELSE f[b - 1] \o pieces[b]]
    BY <1>3 DEF flat
  <2> HIDE DEF flat
  <2> QED  BY ONLY <2>3, <2>4
<1> HIDE DEF g
<1>9. \A b \in 2 .. k : b \in 1 .. k /\ b # 1
  OBVIOUS
<1>10. DOMAIN flat = 1 .. k /\ flat[1] = pieces[1]
  BY <1>8
<1>11. ASSUME NEW b \in 2 .. k PROVE flat[b] = flat[b - 1] \o pieces[b]
  BY <1>8, <1>9
<1>12. flat[k] = points
  BY <1>7, <1>10, <1>11
<1> QED  BY <1>4, <1>12

\* The buckets take the points one after the other, and none is left empty.
LEMMA BucketsRejoin ==
  ASSUME NEW T, NEW points \in Seq(T), NEW limit \in Nat,
         NEW buckets, buckets = Graph!Buckets(points, limit)
  PROVE  /\ Graph!FlattenSeq(buckets) = points
         /\ \A b \in DOMAIN buckets : buckets[b] # <<>>
         /\ limit > 0 => Len(buckets) =< limit
         /\ buckets \in Seq(Seq(T))
<1> DEFINE n == Len(points)
<1>1. n \in Nat /\ DOMAIN points = 1 .. n /\ points \in [1 .. n -> T]
  BY LenProperties
<1>2. \A i \in 1 .. n : points[i] \in T
  BY <1>1
<1>3. CASE limit < 1 \/ n =< limit
  <2>1. buckets = [i \in 1 .. n |-> <<points[i]>>]
    <3>1. limit < 1 \/ Len(points) =< limit
      BY <1>3
    <3>2. buckets = [i \in DOMAIN points |-> <<points[i]>>]
      BY ONLY <3>1, buckets = Graph!Buckets(points, limit), Zenon DEF Graph!Buckets
    <3> QED  BY <1>1, <3>2
  <2>2. \A i \in 1 .. n : <<points[i]>> \in Seq(T) /\ <<points[i]>> # <<>>
    BY <1>2
  <2>3. Len(buckets) = n /\ buckets \in Seq(Seq(T))
    <3>1. buckets \in [1 .. n -> Seq(T)]
      BY <2>1, <2>2
    <3>2. buckets \in Seq(Seq(T))
      <4>1. Seq(Seq(T)) = UNION {[1 .. m -> Seq(T)] : m \in Nat}
        BY SeqDef
      <4> QED  BY ONLY <1>1, <3>1, <4>1
    <3>3. DOMAIN buckets = 1 .. Len(buckets) /\ Len(buckets) \in Nat
      BY <3>2, LenProperties
    <3>4. DOMAIN buckets = 1 .. n
      BY <2>1
    <3>5. Len(buckets) = n
      BY <1>1, <3>3, <3>4, IntervalsEnd
    <3> QED  BY <3>2, <3>5
  <2>4. CASE n = 0
    <3>1. Graph!FlattenSeq(buckets) = buckets
      BY <2>3, <2>4 DEF Graph!FlattenSeq
    <3>2. buckets = <<>> /\ points = <<>>
      BY <1>1, <2>1, <2>4
    <3> QED  BY <2>1, <2>3, <2>4, <3>1, <3>2
  <2>5. CASE n # 0
    <3> DEFINE cut == [b \in 0 .. n |-> b]
    <3>1. /\ n \in Nat \ {0} /\ cut \in [0 .. n -> 0 .. n] /\ cut[0] = 0 /\ cut[n] = n
          /\ \A b \in 1 .. n : cut[b - 1] =< cut[b]
      BY <1>1, <2>5
    <3>2. \A b \in 1 .. n : buckets[b] = SubSeq(points, cut[b - 1] + 1, cut[b])
      <4>1. TAKE b \in 1 .. n
      <4>2. cut[b - 1] + 1 = b /\ cut[b] = b
        BY <1>1
      <4>3. SubSeq(points, b, b) = <<points[b]>>
        <5>1. /\ SubSeq(points, b, b) \in Seq(T) /\ Len(SubSeq(points, b, b)) = 1
              /\ SubSeq(points, b, b)[1] = points[b]
          <6>1. b \in Int /\ \A i \in b .. b : points[i] \in T
            BY <1>1, <1>2
          <6>2. b - b + 1 = 1 /\ 1 \in 1 .. 1 /\ b + 1 - 1 = b /\ b =< b
            BY <1>1
          <6> QED  BY <6>1, <6>2, SubSeqProperties
        <5>2. /\ <<points[b]>> \in Seq(T) /\ Len(<<points[b]>>) = 1 /\ <<points[b]>>[1] = points[b]
          BY <1>2
        <5> DEFINE s == SubSeq(points, b, b)
                   t == <<points[b]>>
        <5>3. /\ s \in Seq(T) /\ t \in Seq(T) /\ Len(s) = Len(t)
              /\ \A i \in 1 .. Len(s) : s[i] = t[i]
          BY <5>1, <5>2
        <5> HIDE DEF s, t
        <5>4. s = t
          BY ONLY <5>3, SeqEqual
        <5> QED  BY <5>4 DEF s, t
      <4> QED  BY <2>1, <4>2, <4>3
    <3>3. buckets = [b \in 1 .. n |-> SubSeq(points, cut[b - 1] + 1, cut[b])]
      <4> HIDE DEF cut
      <4>1. buckets = [b \in 1 .. n |-> buckets[b]]
        BY <2>1
      <4> QED  BY <3>2, <4>1
    <3> DEFINE k == n
    <3>4. /\ k \in Nat \ {0} /\ Cuts(cut, k, Len(points))
          /\ buckets = [b \in 1 .. k |-> SubSeq(points, cut[b - 1] + 1, cut[b])]
      BY <3>1, <3>3 DEF Cuts
    <3> HIDE DEF cut, k, n
    <3>5. Graph!FlattenSeq(buckets) = points
      BY <3>4, PiecesRejoin
    <3>6. DOMAIN buckets = 1 .. n /\ \A b \in 1 .. n : buckets[b] # <<>>
      BY <2>1, <2>2
    <3> QED  BY ONLY <1>1, <1>3, <2>3, <3>5, <3>6, limit \in Nat
  <2> QED  BY <2>4, <2>5
<1>4. CASE ~(limit < 1 \/ n =< limit)
  <2> DEFINE cut == [b \in 0 .. limit |-> IF b < limit THEN (b * n) \div limit ELSE n]
  <2>1. /\ limit \in Nat \ {0} /\ limit < n
    BY <1>1, <1>4
  <2>2. buckets = [b \in 1 .. limit |->
                     SubSeq(points, ((b - 1) * n) \div limit + 1,
                            IF b < limit THEN (b * n) \div limit ELSE n)]
    BY <1>4 DEF Graph!Buckets
  <2> HIDE DEF n
  <2>3. ASSUME NEW b \in 0 .. limit PROVE cut[b] \in 0 .. n
    <3>1. CASE b = limit
      BY <1>1, <3>1
    <3>2. CASE b # limit
      <4>1. b * n \in Nat /\ limit - b \in Nat /\ (limit - b) * n \in Nat
        <5>1. \A x, y \in Nat : x * y \in Nat
          OBVIOUS
        <5> QED  BY <1>1, <5>1
      <4>2. limit * n = b * n + (limit - b) * n
        BY <1>1
      <4>3. b * n =< limit * n
        BY <4>1, <4>2
      <4>4. (b * n) \div limit \in Nat /\ (b * n) \div limit =< n
        BY <1>1, <2>1, <4>1, <4>3, QuotientIsBetween, QuotientIsBounded
      <4>5. cut[b] = (b * n) \div limit
        BY <3>2
      <4> QED  BY <1>1, <4>4, <4>5
    <3> QED  BY <3>1, <3>2
  <2>4. ASSUME NEW b \in 1 .. limit PROVE cut[b - 1] < cut[b] /\ cut[b - 1] = ((b - 1) * n) \div limit
    <3> DEFINE x == (b - 1) * n
    <3>1. x \in Nat /\ x + n = b * n
      BY <1>1, OneTimeMore
    <3>2. cut[b - 1] = x \div limit
      <4>1. b - 1 \in 0 .. limit /\ b - 1 < limit
        OBVIOUS
      <4> QED  BY <4>1
    <3> HIDE DEF x
    <3>3. x \div limit + 1 =< (x + n) \div limit /\ x \div limit \in Nat
      BY <1>1, <2>1, <3>1, QuotientsGrow, QuotientIsBetween
    <3>4. CASE b < limit
      <4>1. cut[b] = (b * n) \div limit
        BY <3>4
      <4>2. (b * n) \div limit \in Nat
        BY <2>1, <1>1, <3>1, QuotientIsBetween
      <4> QED  BY <3>1, <3>2, <3>3, <4>1, <4>2 DEF x
    <3>5. CASE b = limit
      <4>1. cut[b] = n
        BY <3>5
      <4>2. (x + n) \div limit =< n /\ (x + n) \div limit \in Nat
        <5>1. x + n \in Nat /\ x + n =< limit * n
          BY <1>1, <3>1, <3>5
        <5> QED  BY <1>1, <2>1, <5>1, QuotientIsBounded, QuotientIsBetween
      <4> QED  BY <1>1, <3>2, <3>3, <4>1, <4>2 DEF x
    <3> QED  BY <3>4, <3>5
  <2>5. /\ cut \in [0 .. limit -> 0 .. n] /\ cut[0] = 0 /\ cut[limit] = n
        /\ \A b \in 1 .. limit : cut[b - 1] =< cut[b]
    <3>1. cut \in [0 .. limit -> 0 .. n]
      BY <2>3
    <3>2. cut[0] = 0
      <4>1. 0 < limit /\ 0 * n = 0 /\ 0 \div limit = 0
        <5>1. 0 \div limit \in Nat /\ 0 \div limit =< 0
          <6>1. 0 =< limit * 0
            BY <2>1
          <6> QED  BY <2>1, <6>1, QuotientIsBetween, QuotientIsBounded
        <5> QED  BY <1>1, <2>1, <5>1
      <4> QED  BY <4>1
    <3>3. cut[limit] = n
      BY <2>1
    <3>4. \A b \in 1 .. limit : cut[b - 1] \in Int /\ cut[b] \in Int
      BY <1>1, <2>3
    <3> HIDE DEF cut
    <3>5. \A b \in 1 .. limit : cut[b - 1] =< cut[b]
      BY <2>4, <3>4
    <3> QED  BY ONLY <3>1, <3>2, <3>3, <3>5
  <2>6. buckets = [b \in 1 .. limit |-> SubSeq(points, cut[b - 1] + 1, cut[b])]
    <3>1. \A b \in 1 .. limit :
            buckets[b] = SubSeq(points, cut[b - 1] + 1, cut[b])
      <4>1. TAKE b \in 1 .. limit
      <4>2. cut[b - 1] = ((b - 1) * n) \div limit
        BY <2>4
      <4>3. cut[b] = IF b < limit THEN (b * n) \div limit ELSE n
        OBVIOUS
      <4> HIDE DEF cut
      <4> QED  BY <2>2, <4>2, <4>3
    <3>2. buckets = [b \in 1 .. limit |-> buckets[b]]
      BY <2>2
    <3> HIDE DEF cut
    <3> QED  BY <3>1, <3>2
  <2> HIDE DEF cut
  <2>7. Graph!FlattenSeq(buckets) = points
    <3>1. Cuts(cut, limit, Len(points))
      BY <2>5 DEF Cuts, n
    <3> QED  BY <2>1, <2>6, <3>1, PiecesRejoin
  <2>8. ASSUME NEW b \in 1 .. limit PROVE buckets[b] \in Seq(T) /\ buckets[b] # <<>>
    <3> DEFINE c == cut[b - 1] + 1
               d == cut[b]
    <3>1. cut[b - 1] \in 0 .. n /\ d \in 0 .. n /\ cut[b - 1] < d
      <4>1. b - 1 \in 0 .. limit /\ b \in 0 .. limit
        OBVIOUS
      <4> QED  BY <2>4, <2>5, <4>1
    <3>2. c \in 1 .. n /\ d \in 1 .. n /\ c =< d
      BY <1>1, <3>1
    <3>3. buckets[b] = SubSeq(points, c, d)
      BY <2>6
    <3> HIDE DEF c, d
    <3>4. \A i \in c .. d : points[i] \in T
      <4>1. \A i \in c .. d : i \in 1 .. n
        BY <1>1, <3>2
      <4> QED  BY <1>2, <4>1
    <3>5. c \in Int /\ d \in Int
      BY <1>1, <3>2
    <3>6. SubSeq(points, c, d) \in Seq(T) /\ Len(SubSeq(points, c, d)) = d - c + 1
      BY <3>2, <3>4, <3>5, SubSeqProperties
    <3>7. d - c + 1 # 0
      BY <3>2, <3>5
    <3> QED  BY <3>3, <3>6, <3>7, EmptySeq
  <2>9. Len(buckets) = limit /\ buckets \in Seq(Seq(T))
    <3>1. buckets \in [1 .. limit -> Seq(T)]
      BY <2>2, <2>8
    <3>2. buckets \in Seq(Seq(T))
      <4>1. Seq(Seq(T)) = UNION {[1 .. m -> Seq(T)] : m \in Nat}
        BY SeqDef
      <4> QED  BY ONLY <2>1, <3>1, <4>1
    <3>3. DOMAIN buckets = 1 .. Len(buckets) /\ Len(buckets) \in Nat
      BY <3>2, LenProperties
    <3>4. DOMAIN buckets = 1 .. limit
      BY <2>2
    <3>5. Len(buckets) = limit
      BY <2>1, <3>3, <3>4, IntervalsEnd
    <3> QED  BY <3>2, <3>5
  <2>10. DOMAIN buckets = 1 .. limit
    BY <2>2
  <2> QED  BY ONLY <2>1, <2>7, <2>8, <2>9, <2>10
<1> QED  BY <1>3, <1>4

\* Of rates, as bytes over seconds, the order is transitive.
LEMMA RatesCompare ==
  ASSUME NEW a \in Nat, NEW b \in Nat \ {0}, NEW c \in Nat, NEW d \in Nat \ {0},
         NEW e \in Nat, NEW f \in Nat \ {0}, a * d =< c * b, c * f =< e * d
  PROVE  a * f =< e * b
<1>1. \A x, y \in Nat : x * y \in Nat /\ x * y = y * x
  OBVIOUS
<1>2. \A x, y, z \in Nat : x * (y * z) = (x * y) * z
  OBVIOUS
<1> DEFINE ad == a * d
           cb == c * b
           cf == c * f
           ed == e * d
           af == a * f
           eb == e * b
<1>3. ad \in Nat /\ cb \in Nat /\ cf \in Nat /\ ed \in Nat /\ af \in Nat /\ eb \in Nat
  BY <1>1
<1>4. f * ad = d * af
  BY <1>1, <1>2
<1>5. f * cb = b * cf
  BY <1>1, <1>2
<1>6. b * ed = d * eb
  BY <1>1, <1>2
<1>7. ad =< cb /\ cf =< ed
  OBVIOUS
<1> HIDE DEF ad, cb, cf, ed, af, eb
<1>8. f * ad =< f * cb /\ b * cf =< b * ed
  BY <1>3, <1>7, ProductsKeepOrder
<1>9. d * af \in Nat /\ d * eb \in Nat /\ b * cf \in Nat
  BY <1>1, <1>3
<1>10. d * af < d * eb + d
  BY ONLY <1>4, <1>5, <1>6, <1>8, <1>9, d \in Nat \ {0}
<1>11. af =< eb
  BY <1>3, <1>10, FactorsCompare
<1> QED  BY <1>11 DEF af, eb

\* Of points with a rate there is one with the greatest.
LEMMA PeakExists ==
  ASSUME NEW full \in Seq(Drawn), full # <<>>, \A k \in 1 .. Len(full) : full[k].seconds > 0
  PROVE  \E p \in Graph!ToSet(full) : \A q \in Graph!ToSet(full) :
           q.bytes * p.seconds =< p.bytes * q.seconds
<1> DEFINE n == Len(full)
           Outdoes(i, j) == full[j].bytes * full[i].seconds =< full[i].bytes * full[j].seconds
           S == {m \in 0 .. n : m = 0 \/ \E i \in 1 .. m : \A j \in 1 .. m : Outdoes(i, j)}
<1>1. n \in Nat \ {0} /\ DOMAIN full = 1 .. n
  BY LenProperties, EmptySeq
<1>2. \A i \in 1 .. n : full[i].bytes \in Nat /\ full[i].seconds \in Nat \ {0}
  <2>1. \A i \in 1 .. n : full[i] \in Drawn
    BY ElementOfSeq
  <2>2. \A i \in 1 .. n : full[i].bytes \in Nat /\ full[i].seconds \in Int
    BY <2>1 DEF Drawn
  <2> QED  BY <2>2
<1>3. \A x, y \in Nat : x * y \in Nat /\ x * y = y * x
  OBVIOUS
<1>4. ASSUME NEW i \in 1 .. n, NEW j \in 1 .. n PROVE Outdoes(i, j) \/ Outdoes(j, i)
  <2>1. full[j].bytes * full[i].seconds \in Nat /\ full[i].bytes * full[j].seconds \in Nat
    BY <1>2, <1>3
  <2> QED  BY <2>1
<1>5. ASSUME NEW i \in 1 .. n, NEW j \in 1 .. n, NEW k \in 1 .. n, Outdoes(i, j), Outdoes(j, k)
      PROVE  Outdoes(i, k)
  <2> DEFINE a == full[k].bytes
             b == full[k].seconds
             c == full[j].bytes
             d == full[j].seconds
             e == full[i].bytes
             f == full[i].seconds
  <2>1. /\ a \in Nat /\ c \in Nat /\ e \in Nat
        /\ b \in Nat \ {0} /\ d \in Nat \ {0} /\ f \in Nat \ {0}
    BY <1>2
  <2>2. a * d =< c * b /\ c * f =< e * d
    BY <1>5
  <2> HIDE DEF a, b, c, d, e, f
  <2>3. a * f =< e * b
    BY ONLY <2>1, <2>2, RatesCompare
  <2> QED  BY <2>3 DEF a, b, c, d, e, f
<1> HIDE DEF Outdoes, n
<1>6. 0 \in S
  BY <1>1
<1>7. ASSUME NEW m \in 0 .. n - 1, m \in S PROVE m + 1 \in S
  <2> DEFINE k == m + 1
  <2>1. k \in 1 .. n /\ k \in 0 .. n /\ \A j \in 1 .. k : j \in 1 .. m \/ j = k
    BY <1>1
  <2>2. 1 .. m \subseteq 1 .. k /\ k \in 1 .. k /\ 1 .. k \subseteq 1 .. n
    BY <1>1
  <2>3. m = 0 => 1 .. m = {}
    OBVIOUS
  <2> HIDE DEF k
  <2>4. Outdoes(k, k)
    BY <1>4, <2>1
  <2>5. CASE m = 0
    <3>1. \A j \in 1 .. k : Outdoes(k, j)
      BY <2>1, <2>3, <2>4, <2>5
    <3>2. k \in S
      BY <2>1, <2>2, <3>1
    <3> QED  BY <3>2 DEF k
  <2>6. CASE m # 0
    <3>1. PICK i \in 1 .. m : \A j \in 1 .. m : Outdoes(i, j)
      BY <1>7, <2>6
    <3>2. \E h \in 1 .. k : \A j \in 1 .. k : Outdoes(h, j)
      <4>1. i \in 1 .. n /\ i \in 1 .. k
        BY <2>2
      <4>2. CASE Outdoes(i, k)
        <5>1. \A j \in 1 .. k : Outdoes(i, j)
          BY <2>1, <3>1, <4>2
        <5> QED  BY <4>1, <5>1
      <4>3. CASE Outdoes(k, i)
        <5>1. \A j \in 1 .. m : Outdoes(k, j)
          BY <1>5, <2>1, <2>2, <3>1, <4>1, <4>3
        <5>2. \A j \in 1 .. k : Outdoes(k, j)
          BY <2>1, <2>4, <5>1
        <5> QED  BY <2>2, <5>2
      <4> QED  BY <1>4, <2>1, <4>1, <4>2, <4>3
    <3>3. k \in S
      BY <2>1, <3>2
    <3> QED  BY <3>3 DEF k
  <2> QED  BY <2>5, <2>6
<1> HIDE DEF S
<1>8. 0 .. n \subseteq S
  BY <1>1, <1>6, <1>7, Climb
<1>9. PICK i \in 1 .. n : \A j \in 1 .. n : Outdoes(i, j)
  <2>1. n \in S /\ n # 0
    BY <1>1, <1>8
  <2> QED  BY <2>1 DEF S
<1>10. Graph!ToSet(full) = {full[j] : j \in 1 .. n}
  BY <1>1 DEF Graph!ToSet
<1> QED  BY <1>9, <1>10 DEF Outdoes

-----------------------------------------------------------------------------
(* The traffic graph: the mean of a bucket.                                *)

Rated == [t : Int, count : Nat, seconds : Nat \ {0}, bytes : Nat]

LEMMA ProductsAreNumbers ==
  /\ \A x, y \in Nat : x * y \in Nat
  /\ \A x, y \in Nat \ {0} : x * y \in Nat \ {0}
<1>1. \A x, y \in Nat : x * y \in Nat
  OBVIOUS
<1>2. ASSUME NEW x \in Nat \ {0}, NEW y \in Nat \ {0} PROVE x * y # 0
  OBVIOUS
<1> QED  BY <1>1, <1>2

LEMMA TogetherIsRated ==
  ASSUME NEW p \in Rated, NEW q \in Rated
  PROVE  Graph!Together(p, q) \in Rated
<1>1. /\ p.t \in Int /\ q.t \in Int /\ p.count \in Nat
      /\ p.bytes \in Nat /\ q.bytes \in Nat /\ p.seconds \in Nat \ {0} /\ q.seconds \in Nat \ {0}
  BY DEF Rated
<1> DEFINE B == p.bytes * q.seconds + q.bytes * p.seconds
           S == p.seconds * q.seconds
<1>2. B \in Nat /\ S \in Nat \ {0}
  <2>1. p.bytes * q.seconds \in Nat /\ q.bytes * p.seconds \in Nat /\ S \in Nat \ {0}
    BY <1>1, ProductsAreNumbers
  <2> QED  BY <2>1
<1>3. Graph!Together(p, q) = [t |-> p.t + q.t, count |-> p.count + 1, bytes |-> B, seconds |-> S]
  BY DEF Graph!Together
<1> HIDE DEF B, S
<1> QED  BY <1>1, <1>2, <1>3 DEF Rated

\* A mean is taken from the left, and counts what it is taken of.
LEMMA MeanIsSummed ==
  ASSUME NEW points \in Seq(Rated)
  PROVE  \E f \in [0 .. Len(points) -> Rated] :
           /\ f[0] = Graph!Nothing
           /\ \A i \in 1 .. Len(points) : f[i] = Graph!Together(f[i - 1], points[i])
           /\ \A i \in 0 .. Len(points) : f[i].count = i
           /\ Graph!Mean(points) = [f[Len(points)] EXCEPT !.seconds = @ * Len(points)]
<1> DEFINE n     == Len(points)
           added(p, i) == Graph!Together(p, points[i])
           sum   == CHOOSE f : f = [i \in 0 .. n |-> IF i = 0 THEN Graph!Nothing ELSE added(f[i - 1], i)]
           step  == [i \in 1 .. n |-> [p \in Rated |-> added(p, i)]]
<1>1. Graph!Mean(points) = [sum[n] EXCEPT !.seconds = @ * sum[n].count]
  BY DEF Graph!Mean
<1>2. n \in Nat /\ \A i \in 1 .. n : points[i] \in Rated
  BY LenProperties, ElementOfSeq
<1>3. step \in [1 .. n -> [Rated -> Rated]]
  BY <1>2, TogetherIsRated
<1>4. Graph!Nothing \in Rated /\ Graph!Nothing.count = 0
  BY DEF Graph!Nothing, Rated
<1>5. \A p, i : added(p, i).count = p.count + 1
  BY DEF Graph!Together
<1> HIDE DEF n, added, sum, step
<1>6. PICK f \in [0 .. n -> Rated] : f[0] = Graph!Nothing /\ \A i \in 1 .. n : f[i] = step[i][f[i - 1]]
  <2>1. IsStep(step, n, Rated)
    BY <1>3 DEF IsStep
  <2>2. \E f : Follows(f, n, Rated, Graph!Nothing, step)
    BY <1>2, <1>4, <2>1, RecursionExists
  <2> QED  BY <2>2 DEF Follows
<1>7. ASSUME NEW i \in 1 .. n PROVE f[i] = added(f[i - 1], i)
  <2>1. f[i - 1] \in Rated
    BY <1>2, <1>6
  <2> QED  BY <1>6, <2>1 DEF step
<1>8. f = [i \in 0 .. n |-> IF i = 0 THEN Graph!Nothing ELSE added(f[i - 1], i)]
  BY <1>2, <1>6, <1>7
<1>9. sum = [i \in 0 .. n |-> IF i = 0 THEN Graph!Nothing ELSE added(sum[i - 1], i)]
  BY <1>8 DEF sum
<1> DEFINE S == {i \in 0 .. n : sum[i] = f[i] /\ f[i].count = i}
<1>10. 0 \in S
  BY <1>2, <1>4, <1>6, <1>9
<1>11. ASSUME NEW i \in 0 .. n - 1, i \in S PROVE i + 1 \in S
  <2> DEFINE k == i + 1
  <2>1. k \in 1 .. n /\ k - 1 = i /\ k # 0 /\ k \in 0 .. n
    BY <1>2
  <2>2. i + 1 = k
    OBVIOUS
  <2> HIDE DEF k
  <2>3. sum[k] = added(sum[i], k) /\ f[k] = added(f[i], k)
    BY <1>7, <1>9, <2>1
  <2>4. sum[i] = f[i] /\ f[i].count = i
    BY <1>11
  <2>5. sum[k] = f[k] /\ f[k].count = k
    BY <1>5, <2>2, <2>3, <2>4
  <2>6. k \in S
    BY <2>1, <2>5
  <2> QED  BY <2>6 DEF k
<1> HIDE DEF S
<1>12. 0 .. n \subseteq S
  BY <1>2, <1>10, <1>11, Climb
<1>13. n \in 0 .. n /\ \A i \in 0 .. n : sum[i] = f[i] /\ f[i].count = i
  BY <1>2, <1>12 DEF S
<1>14. Graph!Mean(points) = [f[n] EXCEPT !.seconds = @ * n]
  BY <1>1, <1>13
<1> QED  BY <1>6, <1>7, <1>13, <1>14 DEF n, added

\* The sum of rates that are none of them above another is not above that many of it.
LEMMA SumStaysBelow ==
  ASSUME NEW B \in Nat, NEW S \in Nat, NEW b \in Nat, NEW c \in Nat, NEW i \in Nat,
         NEW P \in Nat, NEW Q \in Nat, B * Q =< i * (P * S), b * Q =< P * c
  PROVE  (B * c + b * S) * Q =< (i + 1) * (P * (S * c))
<1> DEFINE BQ  == B * Q
           iPS == i * (P * S)
           bQ  == b * Q
           Pc  == P * c
<1>1. BQ \in Nat /\ iPS \in Nat /\ bQ \in Nat /\ Pc \in Nat
  <2>1. P * S \in Nat
    BY ProductsAreNumbers
  <2> QED  BY <2>1, ProductsAreNumbers
<1>2. (B * c + b * S) * Q = c * BQ + S * bQ
  OBVIOUS
<1>3. (i + 1) * (P * (S * c)) = c * iPS + S * Pc
  OBVIOUS
<1>4. BQ =< iPS /\ bQ =< Pc
  OBVIOUS
<1> HIDE DEF BQ, iPS, bQ, Pc
<1>5. c * BQ =< c * iPS /\ S * bQ =< S * Pc
  BY <1>1, <1>4, ProductsKeepOrder
<1>6. c * BQ \in Nat /\ c * iPS \in Nat /\ S * bQ \in Nat /\ S * Pc \in Nat
  BY <1>1, ProductsAreNumbers
<1>7. c * BQ + S * bQ =< c * iPS + S * Pc
  BY ONLY <1>5, <1>6
<1> QED  BY <1>2, <1>3, <1>7

\* A mean is a rate, and it is not above one that none of its points is above.
LEMMA MeanStaysBelow ==
  ASSUME NEW points \in Seq(Rated), points # <<>>
  PROVE  /\ Graph!Mean(points) \in Rated
         /\ \A peak \in Rated : (\A i \in 1 .. Len(points) : Graph!AtMost(points[i], peak))
                                  => Graph!AtMost(Graph!Mean(points), peak)
<1> DEFINE n == Len(points)
<1>1. n \in Nat \ {0} /\ \A i \in 1 .. n : points[i] \in Rated
  BY LenProperties, EmptySeq, ElementOfSeq
<1>2. PICK f \in [0 .. n -> Rated] :
        /\ f[0] = Graph!Nothing
        /\ \A i \in 1 .. n : f[i] = Graph!Together(f[i - 1], points[i])
        /\ Graph!Mean(points) = [f[n] EXCEPT !.seconds = @ * n]
  BY MeanIsSummed
<1> HIDE DEF n
<1>3. Graph!Mean(points) \in Rated
  <2>1. n \in 0 .. n
    BY <1>1
  <2>2. f[n] \in Rated
    BY <1>2, <2>1
  <2>3. f[n].seconds * n \in Nat \ {0}
    BY <1>1, <2>2, ProductsAreNumbers DEF Rated
  <2>4. \A r \in Rated, s \in Nat \ {0} : [r EXCEPT !.seconds = s] \in Rated
    BY DEF Rated
  <2>5. Graph!Mean(points) = [f[n] EXCEPT !.seconds = f[n].seconds * n]
    BY <1>2
  <2> QED  BY <2>2, <2>3, <2>4, <2>5
<1>4. ASSUME NEW peak \in Rated, \A i \in 1 .. n : Graph!AtMost(points[i], peak)
      PROVE  Graph!AtMost(Graph!Mean(points), peak)
  <2> DEFINE P == peak.bytes
             Q == peak.seconds
             Below(r, i) == r.bytes * Q =< i * (P * r.seconds)
             T == {i \in 0 .. n : Below(f[i], i)}
  <2>1. P \in Nat /\ Q \in Nat \ {0}
    BY DEF Rated
  <2>2. 0 \in T
    <3>1. f[0].bytes = 0 /\ f[0].seconds = 1
      BY <1>2 DEF Graph!Nothing
    <3> HIDE DEF P, Q
    <3> QED  BY <1>1, <2>1, <3>1
  <2>3. ASSUME NEW i \in 0 .. n - 1, i \in T PROVE i + 1 \in T
    <3> DEFINE k == i + 1
    <3>1. k \in 1 .. n /\ k - 1 = i /\ k \in 0 .. n /\ i \in 0 .. n /\ i \in Nat
      BY <1>1
    <3>2. k = i + 1
      OBVIOUS
    <3> HIDE DEF k
    <3>3. f[k] = Graph!Together(f[i], points[k])
      BY <1>2, <3>1
    <3>4. f[i] \in Rated /\ points[k] \in Rated
      BY <1>1, <1>2, <3>1
    <3> DEFINE B == f[i].bytes
               S == f[i].seconds
               b == points[k].bytes
               c == points[k].seconds
    <3>5. B \in Nat /\ S \in Nat /\ b \in Nat /\ c \in Nat
      BY <3>4 DEF Rated
    <3>6. f[k].bytes = B * c + b * S /\ f[k].seconds = S * c
      BY <3>3 DEF Graph!Together
    <3>7. B * Q =< i * (P * S)
      BY <2>3
    <3>8. b * Q =< P * c
      BY <1>4, <3>1 DEF Graph!AtMost
    <3> HIDE DEF P, Q, B, S, b, c
    <3>9. (B * c + b * S) * Q =< (i + 1) * (P * (S * c))
      BY <2>1, <3>1, <3>5, <3>7, <3>8, SumStaysBelow
    <3>10. Below(f[k], k)
      BY <3>2, <3>6, <3>9
    <3>11. k \in T
      BY <3>1, <3>10
    <3> QED  BY <3>11 DEF k
  <2> HIDE DEF T
  <2>4. 0 .. n \subseteq T
    BY <1>1, <2>2, <2>3, Climb
  <2>5. f[n].bytes * Q =< n * (P * f[n].seconds)
    <3>1. n \in T
      BY <1>1, <2>4
    <3> QED  BY <3>1 DEF T
  <2>6. Graph!Mean(points).bytes = f[n].bytes /\ Graph!Mean(points).seconds = f[n].seconds * n
    <3>1. \A r \in Rated : \A s : /\ [r EXCEPT !.seconds = s].bytes = r.bytes
                                  /\ [r EXCEPT !.seconds = s].seconds = s
      BY DEF Rated
    <3>2. f[n] \in Rated
      BY <1>1, <1>2
    <3> QED  BY <1>2, <3>1, <3>2
  <2>7. n * (P * f[n].seconds) = P * (f[n].seconds * n)
    <3>1. f[n].seconds \in Nat
      BY <1>1, <1>2 DEF Rated
    <3> DEFINE s == f[n].seconds
    <3> HIDE DEF s, P
    <3>2. n * (P * s) = P * (s * n)
      BY <1>1, <2>1, <3>1 DEF s
    <3> QED  BY <3>2 DEF s
  <2> QED  BY <2>5, <2>6, <2>7 DEF Graph!AtMost
<1> QED  BY <1>3, <1>4 DEF n

\* The bytes of points that were all taken at one interval are, times it, their rates'
\* sum in the same measure.
LEMMA AreaGrows ==
  ASSUME NEW B \in Nat, NEW S \in Nat, NEW Y \in Nat, NEW b \in Nat, NEW c \in Nat, B * c = Y * S
  PROVE  (B * c + b * S) * c = (Y + b) * (S * c)
<1> DEFINE Bc == B * c
           YS == Y * S
<1>1. (B * c + b * S) * c = c * Bc + b * (S * c)
  OBVIOUS
<1>2. (Y + b) * (S * c) = c * YS + b * (S * c)
  OBVIOUS
<1>3. Bc = YS
  OBVIOUS
<1> HIDE DEF Bc, YS
<1> QED  BY <1>1, <1>2, <1>3

\* What is under the mean of points taken at equal intervals is what they moved.
LEMMA EvenAreaIsBytes ==
  ASSUME NEW points \in Seq(Rated), points # <<>>, Graph!Even(points)
  PROVE  Graph!AreaIsBytes(Graph!Mean(points), points)
<1> DEFINE n == Len(points)
           c == points[1].seconds
           spans == [i \in DOMAIN points |-> points[i].seconds]
<1>1. n \in Nat \ {0} /\ DOMAIN points = 1 .. n /\ \A i \in 1 .. n : points[i] \in Rated
  BY LenProperties, EmptySeq, ElementOfSeq
<1>2. c \in Nat /\ \A i \in 1 .. n : points[i].seconds = c
  <2>1. 1 \in 1 .. n /\ points[1] \in Rated
    BY <1>1
  <2>2. \A i \in 1 .. n : points[i].seconds = points[1].seconds
    BY <1>1, <2>1 DEF Graph!Even
  <2> QED  BY <2>1, <2>2 DEF Rated
<1>3. points \in Seq(Drawn)
  <2>1. Rated \subseteq Drawn
    BY DEF Rated, Drawn
  <2> QED  BY <1>1, <2>1
<1>4. spans \in Seq(Nat) /\ Len(spans) = n /\ \A i \in 1 .. n : spans[i] = c
  BY <1>1, <1>2
<1>5. Graph!Duration(points) = Graph!Total(spans)
  BY DEF Graph!Duration
<1> HIDE DEF n, c, spans
<1>6. PICK f \in [0 .. n -> Rated] :
        /\ f[0] = Graph!Nothing
        /\ \A i \in 1 .. n : f[i] = Graph!Together(f[i - 1], points[i])
        /\ Graph!Mean(points) = [f[n] EXCEPT !.seconds = @ * n]
  BY MeanIsSummed DEF n
<1>7. PICK g \in [0 .. n -> Nat] :
        /\ g[0] = 0 /\ \A i \in 1 .. n : g[i] = g[i - 1] + points[i].bytes
        /\ Graph!Bytes(points) = g[n]
  BY <1>3, BytesAreSummed DEF n
<1>8. PICK h \in [0 .. n -> Nat] :
        /\ h[0] = 0 /\ \A i \in 1 .. n : h[i] = h[i - 1] + spans[i]
        /\ Graph!Total(spans) = h[n]
  BY <1>4, TotalIsSummed
<1> DEFINE Same(i) == f[i].bytes * c = g[i] * f[i].seconds /\ h[i] = i * c
           T == {i \in 0 .. n : Same(i)}
<1>9. 0 \in T
  <2>1. f[0].bytes = 0 /\ f[0].seconds = 1
    BY <1>6 DEF Graph!Nothing
  <2> QED  BY <1>1, <1>2, <1>7, <1>8, <2>1
<1>10. ASSUME NEW i \in 0 .. n - 1, i \in T PROVE i + 1 \in T
  <2> DEFINE k == i + 1
  <2>1. k \in 1 .. n /\ k - 1 = i /\ k \in 0 .. n /\ i \in 0 .. n /\ i \in Nat
    BY <1>1
  <2>2. k = i + 1
    OBVIOUS
  <2> HIDE DEF k
  <2> DEFINE B == f[i].bytes
             S == f[i].seconds
             Y == g[i]
             b == points[k].bytes
  <2>3. B \in Nat /\ S \in Nat /\ Y \in Nat /\ b \in Nat /\ points[k].seconds = c
    <3>1. f[i] \in Rated /\ points[k] \in Rated /\ g[i] \in Nat
      BY <1>1, <1>6, <1>7, <2>1
    <3> QED  BY <1>2, <2>1, <3>1 DEF Rated
  <2>4. f[k].bytes = B * c + b * S /\ f[k].seconds = S * c
    <3>1. f[k] = Graph!Together(f[i], points[k])
      BY <1>6, <2>1
    <3> QED  BY <2>3, <3>1 DEF Graph!Together
  <2>5. g[k] = Y + b /\ h[k] = h[i] + c
    BY <1>4, <1>7, <1>8, <2>1
  <2>6. B * c = Y * S /\ h[i] = i * c
    BY <1>10
  <2> HIDE DEF B, S, Y, b
  <2>7. (B * c + b * S) * c = (Y + b) * (S * c)
    BY <1>2, <2>3, <2>6, AreaGrows
  <2>8. h[k] = k * c
    BY <1>2, <2>1, <2>2, <2>5, <2>6
  <2>9. Same(k)
    BY <2>4, <2>5, <2>7, <2>8
  <2>10. k \in T
    BY <2>1, <2>9
  <2> QED  BY <2>10 DEF k
<1> HIDE DEF T
<1>11. 0 .. n \subseteq T
  BY <1>1, <1>9, <1>10, Climb
<1> DEFINE B == f[n].bytes
           S == f[n].seconds
           Y == g[n]
<1>12. B * c = Y * S /\ h[n] = n * c
  <2>1. n \in T
    BY <1>1, <1>11
  <2> QED  BY <2>1 DEF T
<1>13. B \in Nat /\ S \in Nat /\ Y \in Nat
  <2>1. f[n] \in Rated /\ g[n] \in Nat
    BY <1>1, <1>6, <1>7
  <2> QED  BY <2>1 DEF Rated
<1>14. Graph!Mean(points).bytes = B /\ Graph!Mean(points).seconds = S * n
  <2>1. \A r \in Rated : \A s : /\ [r EXCEPT !.seconds = s].bytes = r.bytes
                                /\ [r EXCEPT !.seconds = s].seconds = s
    BY DEF Rated
  <2>2. f[n] \in Rated
    BY <1>1, <1>6
  <2> QED  BY <1>6, <2>1, <2>2
<1> HIDE DEF B, S, Y
<1>15. B * (n * c) = Y * (S * n)
  <2> DEFINE Bc == B * c
             YS == Y * S
  <2>1. B * (n * c) = n * Bc /\ Y * (S * n) = n * YS
    BY <1>1, <1>2, <1>13
  <2>2. Bc = YS
    BY <1>12
  <2> HIDE DEF Bc, YS
  <2> QED  BY <2>1, <2>2
<1>16. Graph!Bytes(points) = Y /\ Graph!Duration(points) = n * c
  BY <1>5, <1>7, <1>8, <1>12 DEF Y
<1> QED  BY <1>14, <1>15, <1>16 DEF Graph!AreaIsBytes

-----------------------------------------------------------------------------
(* The traffic graph: its readings.                                        *)

\* The inductive invariant: what was counted since a reading was moved since it, and
\* the last reading is the counter's.
GraphInv ==
  /\ samples \in Seq(Sample) /\ Counts(samples)
  /\ counter \in Nat /\ moved \in Nat /\ counter =< moved
  /\ samples # <<>> =>
       samples[Len(samples)].bytes = counter /\ samples[Len(samples)].moved = moved

\* The cap keeps the last readings, and they follow each other as before.
LEMMA LastAreKept ==
  ASSUME NEW all \in Seq(Sample), Counts(all), NEW lo \in 1 .. Len(all),
         NEW kept, kept = SubSeq(all, lo, Len(all))
  PROVE  /\ kept \in Seq(Sample) /\ Counts(kept) /\ kept # <<>>
         /\ kept[Len(kept)] = all[Len(all)]
<1> DEFINE n == Len(all)
<1>1. n \in Nat /\ lo \in Int /\ n \in Int /\ lo =< n
  BY LenProperties
<1>2. \A i \in lo .. n : all[i] \in Sample
  BY <1>1, ElementOfSeq
<1> HIDE DEF n
<1>3. /\ kept \in Seq(Sample) /\ Len(kept) = n - lo + 1
      /\ \A i \in 1 .. n - lo + 1 : kept[i] = all[lo + i - 1]
  <2>1. kept = SubSeq(all, lo, n)
    BY DEF n
  <2> QED  BY <1>1, <1>2, <2>1, SubSeqProperties
<1>4. ASSUME NEW i \in 2 .. Len(kept)
      PROVE  /\ kept[i - 1].moved =< kept[i].moved
             /\ kept[i].bytes - kept[i - 1].bytes =< kept[i].moved - kept[i - 1].moved
  <2> DEFINE k == lo + i - 1
  <2>1. /\ k \in 2 .. n /\ i \in 1 .. n - lo + 1 /\ i - 1 \in 1 .. n - lo + 1
        /\ lo + (i - 1) - 1 = k - 1
    BY <1>1, <1>3
  <2>2. kept[i] = all[k] /\ kept[i - 1] = all[k - 1]
    BY <1>3, <2>1
  <2> HIDE DEF k
  <2>3. /\ all[k - 1].moved =< all[k].moved
        /\ all[k].bytes - all[k - 1].bytes =< all[k].moved - all[k - 1].moved
    BY <2>1 DEF Counts, n
  <2> QED  BY <2>2, <2>3
<1>5. kept[Len(kept)] = all[n]
  <2>1. n - lo + 1 \in 1 .. n - lo + 1 /\ lo + (n - lo + 1) - 1 = n
    BY <1>1
  <2> QED  BY <1>3, <2>1
<1>6. kept # <<>>
  <2>1. n - lo + 1 # 0
    BY <1>1
  <2> QED  BY <1>3, <2>1, EmptySeq
<1> QED  BY <1>3, <1>4, <1>5, <1>6 DEF Counts, n

LEMMA ReadingPreserves ==
  ASSUME GraphInv, Graph!Reading
  PROVE  GraphInv'
<1>1. PICK seconds \in Ticks, bytes \in 0 .. MaxBytes :
        /\ counter' \in {counter + bytes} \union 0 .. bytes
        /\ moved' = moved + bytes
        /\ samples' = Graph!RecordSample(samples,
             [at |-> seconds + IF samples = <<>> THEN 0 ELSE Graph!Last(samples).at,
              bytes |-> counter', moved |-> moved'])
  BY DEF Graph!Reading
<1> DEFINE n    == Len(samples)
           at   == seconds + IF samples = <<>> THEN 0 ELSE Graph!Last(samples).at
           new  == [at |-> at, bytes |-> counter', moved |-> moved']
           all  == Append(samples, new)
           lo   == Graph!Max({1, Len(all) - Cap + 1})
           count == counter'
           total == moved'
<1>2. bytes \in Nat /\ seconds \in Int /\ Cap \in Nat \ {0}
  BY PagesAssumption
<1>3. /\ n \in Nat /\ samples \in Seq(Sample) /\ Counts(samples)
      /\ counter \in Nat /\ moved \in Nat /\ counter =< moved
      /\ \A i \in 1 .. n : samples[i] \in Sample
      /\ samples # <<>> => n \in 1 .. n
  BY LenProperties, ElementOfSeq, EmptySeq DEF GraphInv
<1>4. /\ count \in Nat /\ total \in Nat /\ count =< total /\ moved =< total
      /\ count - counter =< total - moved
  <2>1. (count = counter + bytes \/ count \in 0 .. bytes) /\ total = moved + bytes
    BY <1>1
  <2> HIDE DEF count, total
  <2> QED  BY ONLY <1>2, <1>3, <2>1
<1>5. at \in Int
  <2>1. samples # <<>> => Graph!Last(samples).at \in Int
    BY <1>3 DEF Graph!Last, Sample
  <2> QED  BY <1>2, <2>1
<1> HIDE DEF at, count, total
<1>6. new \in Sample /\ new.bytes = count /\ new.moved = total
  BY <1>4, <1>5 DEF Sample, count, total
<1> HIDE DEF new
<1>7. /\ all \in Seq(Sample) /\ Len(all) = n + 1 /\ all[n + 1] = new
      /\ \A i \in 1 .. n : all[i] = samples[i]
  BY <1>3, <1>6, AppendProperties
<1> HIDE DEF all
<1>8. Counts(all)
  <2> SUFFICES ASSUME NEW i \in 2 .. n + 1
               PROVE  /\ all[i - 1].moved =< all[i].moved
                      /\ all[i].bytes - all[i - 1].bytes =< all[i].moved - all[i - 1].moved
    BY <1>7 DEF Counts
  <2>1. CASE i = n + 1
    <3>1. n \in 1 .. n /\ i - 1 = n /\ samples # <<>>
      BY <1>3, <2>1, EmptySeq
    <3>2. all[i] = new /\ all[i - 1] = samples[n]
      BY <1>7, <2>1, <3>1
    <3>3. samples[n].bytes = counter /\ samples[n].moved = moved
      BY <3>1 DEF GraphInv
    <3> QED  BY <1>4, <1>6, <3>2, <3>3
  <2>2. CASE i # n + 1
    <3>1. i \in 2 .. n /\ i \in 1 .. n /\ i - 1 \in 1 .. n
      BY <1>3, <2>2
    <3>2. all[i] = samples[i] /\ all[i - 1] = samples[i - 1]
      BY <1>7, <3>1
    <3> QED  BY <1>3, <3>1, <3>2 DEF Counts
  <2> QED  BY <2>1, <2>2
<1>9. lo \in 1 .. Len(all)
  <2> DEFINE m == Len(all) - Cap + 1
  <2>1. m \in Int /\ m =< n + 1
    BY <1>2, <1>3, <1>7
  <2> HIDE DEF m
  <2>2. {1, m} \in SUBSET Int /\ IsFiniteSet({1, m}) /\ {1, m} # {}
    <3>1. IsFiniteSet({1}) /\ {1, m} = {1} \union {m}
      BY FS_Singleton
    <3>2. IsFiniteSet({1, m})
      BY <3>1, FS_AddElement
    <3> QED  BY <2>1, <3>2
  <2>3. Max({1, m}) \in {1, m} /\ \A x \in {1, m} : Max({1, m}) >= x
    BY ONLY <2>2, MaxIsGreatest
  <2>4. lo = Max({1, m})
    BY DEF Graph!Max, Max, m
  <2> QED  BY <1>3, <1>7, <2>1, <2>3, <2>4
<1>10. samples' = SubSeq(all, lo, Len(all))
  BY <1>1 DEF Graph!RecordSample, all, new, at
<1> HIDE DEF lo
<1> DEFINE kept == samples'
<1>11. kept = SubSeq(all, lo, Len(all))
  BY <1>10
<1> HIDE DEF kept
<1>12. /\ kept \in Seq(Sample) /\ Counts(kept) /\ kept # <<>>
       /\ kept[Len(kept)] = all[Len(all)]
  BY <1>7, <1>8, <1>9, <1>11, LastAreKept
<1>13. kept[Len(kept)].bytes = count /\ kept[Len(kept)].moved = total
  BY <1>6, <1>7, <1>12
<1> QED  BY <1>4, <1>12, <1>13 DEF GraphInv, Counts, kept, count, total

LEMMA GraphStep == GraphInv /\ [Next]_vars => GraphInv'
<1> SUFFICES ASSUME GraphInv, [Next]_vars PROVE GraphInv'
  OBVIOUS
<1>1. Graph!Reading \/ UNCHANGED graphVars
  BY DEF Next, vars, Graph!TrafficNext
<1>2. CASE UNCHANGED graphVars
  BY <1>2 DEF graphVars, GraphInv, Counts
<1> QED  BY <1>1, <1>2, ReadingPreserves

LEMMA GraphInit == Init => GraphInv
<1> SUFFICES ASSUME Init PROVE GraphInv
  OBVIOUS
<1>1. samples = <<>> /\ counter = 0 /\ moved = 0
  BY DEF Init, Graph!TrafficInit
<1>2. <<>> \in Seq(Sample) /\ Len(<<>>) = 0
  BY EmptySeq
<1> QED  BY <1>1, <1>2 DEF GraphInv, Counts

LEMMA SeriesOfReadings == GraphInv => SeriesFaithful
<1> SUFFICES ASSUME GraphInv, NEW limit \in Points
             PROVE  LET full    == Graph!Rates(samples)
                        series  == Graph!Series(samples, limit)
                        drawn   == series.points
                        buckets == Graph!Buckets(full, limit)
                        really  == IF samples = <<>> THEN 0
                                   ELSE Graph!Last(samples).moved - Head(samples).moved
                        steady  == /\ Len(full) = Len(samples) - 1
                                   /\ \A i \in DOMAIN samples : samples[i].bytes = samples[i].moved
                    IN /\ \A i \in DOMAIN full : full[i].seconds > 0 /\ full[i].bytes >= 0
                       /\ Graph!Bytes(full) =< really /\ series.total =< moved
                       /\ steady => Graph!Bytes(full) = really
                       /\ Graph!FlattenSeq(buckets) = full
                       /\ \A b \in DOMAIN buckets : buckets[b] # <<>>
                       /\ limit > 0 => Len(drawn) =< limit
                       /\ full # <<>> => series.peak # {}
                       /\ \A b \in DOMAIN drawn :
                            /\ drawn[b].seconds > 0 /\ drawn[b].bytes >= 0
                            /\ \A p \in series.peak : Graph!AtMost(drawn[b], p)
                            /\ Graph!Even(buckets[b]) => Graph!AreaIsBytes(drawn[b], buckets[b])
  BY DEF SeriesFaithful, Graph!SeriesFaithful
<1> DEFINE series  == Graph!Series(samples, limit)
           full    == Graph!Rates(samples)
           drawn   == series.points
           buckets == Graph!Buckets(full, limit)
           n       == Len(samples)
           really  == IF samples = <<>> THEN 0
                      ELSE Graph!Last(samples).moved - Head(samples).moved
           same    == \A i \in DOMAIN samples : samples[i].bytes = samples[i].moved
           Top     == {p \in Graph!ToSet(full) : \A q \in Graph!ToSet(full) : Graph!AtMost(q, p)}
<1>1. /\ drawn = [b \in DOMAIN buckets |-> Graph!Mean(buckets[b])]
      /\ series.total = IF samples = <<>> THEN 0 ELSE Graph!Last(samples).bytes
      /\ series.peak = Top
  BY DEF Graph!Series, Graph!Downsample
<1>2. /\ limit \in Nat /\ samples \in Seq(Sample) /\ Counts(samples)
      /\ n \in Nat /\ DOMAIN samples = 1 .. n /\ moved \in Nat /\ counter \in Nat /\ counter =< moved
  BY PagesAssumption, LenProperties DEF GraphInv
<1> HIDE DEF full, series
<1>3. /\ full \in Seq(Drawn)
      /\ \A k \in 1 .. Len(full) : full[k].seconds > 0
      /\ Graph!Bytes(full) =< really
      /\ Len(full) = n - 1 /\ same => Graph!Bytes(full) = really
  <2>1. CASE samples = <<>>
    <3>1. n = 0 /\ <<>> \in Seq(Drawn) /\ Len(<<>>) = 0
      BY <2>1, EmptySeq
    <3>2. full = <<>>
      <4>1. PICK f : f[0] = <<>> /\ full = f[n]
        BY <1>2, RatesAreCollected DEF full
      <4> QED  BY <3>1, <4>1
    <3>3. [t |-> 0, count |-> 0, seconds |-> 0, bytes |-> 0] \in Drawn
      BY DEF Drawn
    <3>4. Graph!Bytes(full) = 0
      BY <3>1, <3>2, <3>3, BytesOfAppended
    <3> QED  BY <2>1, <3>1, <3>2, <3>4
  <2>2. CASE samples # <<>>
    <3>1. really = samples[n].moved - samples[1].moved
      BY <2>2 DEF Graph!Last
    <3>2. same <=> \A i \in 1 .. n : samples[i].bytes = samples[i].moved
      BY <1>2
    <3> HIDE DEF really, same
    <3>3. /\ full \in Seq(Drawn)
          /\ \A k \in 1 .. Len(full) : full[k].seconds > 0
          /\ Graph!Bytes(full) =< samples[n].moved - samples[1].moved
          /\ Len(full) = n - 1 /\ (\A i \in 1 .. n : samples[i].bytes = samples[i].moved) =>
               Graph!Bytes(full) = samples[n].moved - samples[1].moved
      <4>1. full = Graph!Rates(samples)
        BY DEF full
      <4> QED  BY ONLY <1>2, <2>2, <4>1, RatesAreMoved
    <3> QED  BY <3>1, <3>2, <3>3
  <2> QED  BY <2>1, <2>2
<1> HIDE DEF really, same
<1> DEFINE All == Graph!ToSet(full)
<1>4. DOMAIN full = 1 .. Len(full) /\ All = {full[i] : i \in 1 .. Len(full)}
  <2>1. DOMAIN full = 1 .. Len(full)
    BY <1>3, LenProperties
  <2> QED  BY <2>1 DEF Graph!ToSet
<1>5. All \subseteq Rated
  <2>1. ASSUME NEW i \in 1 .. Len(full) PROVE full[i] \in Rated
    <3>1. full[i] \in Drawn /\ full[i].seconds > 0
      BY <1>3, ElementOfSeq
    <3>2. \A p \in Drawn : p.seconds > 0 => p \in Rated
      BY DEF Drawn, Rated
    <3> QED  BY <3>1, <3>2
  <2> QED  BY <1>4, <2>1
<1>6. full \in Seq(All)
  BY <1>3, <1>4, LenProperties
<1> HIDE DEF All
<1>7. /\ Graph!FlattenSeq(buckets) = full
      /\ \A b \in DOMAIN buckets : buckets[b] # <<>>
      /\ limit > 0 => Len(buckets) =< limit
      /\ buckets \in Seq(Seq(All))
  BY <1>2, <1>6, BucketsRejoin
<1> HIDE DEF buckets, drawn
<1>8. DOMAIN buckets = 1 .. Len(buckets) /\ DOMAIN drawn = DOMAIN buckets /\ Len(drawn) = Len(buckets)
  <2>1. DOMAIN buckets = 1 .. Len(buckets) /\ Len(buckets) \in Nat
    BY <1>7, LenProperties
  <2>2. DOMAIN drawn = DOMAIN buckets
    BY <1>1
  <2>3. drawn \in Seq({drawn[b] : b \in DOMAIN drawn})
    BY <1>1, <2>1, <2>2
  <2>4. DOMAIN drawn = 1 .. Len(drawn) /\ Len(drawn) \in Nat
    BY <2>3, LenProperties
  <2> QED  BY <2>1, <2>2, <2>4, IntervalsEnd
<1>9. ASSUME NEW b \in DOMAIN drawn
      PROVE  /\ drawn[b].seconds > 0 /\ drawn[b].bytes >= 0
             /\ \A p \in series.peak : Graph!AtMost(drawn[b], p)
             /\ Graph!Even(buckets[b]) => Graph!AreaIsBytes(drawn[b], buckets[b])
  <2> DEFINE points == buckets[b]
  <2>1. drawn[b] = Graph!Mean(points) /\ b \in 1 .. Len(buckets)
    BY <1>1, <1>8
  <2>2. points \in Seq(All) /\ points # <<>>
    BY <1>7, <1>8, <2>1, ElementOfSeq
  <2>3. points \in Seq(Rated) /\ \A i \in 1 .. Len(points) : points[i] \in All
    <3>1. \A i \in 1 .. Len(points) : points[i] \in All
      BY <2>2, ElementOfSeq
    <3>2. DOMAIN points = 1 .. Len(points) /\ Len(points) \in Nat
      BY <2>2, LenProperties
    <3> HIDE DEF points
    <3>3. points \in [1 .. Len(points) -> Rated]
      BY <1>5, <2>2, <3>1, <3>2
    <3> QED  BY <3>1, <3>2, <3>3
  <2> HIDE DEF points
  <2>4. Graph!Mean(points) \in Rated
    BY <2>2, <2>3, MeanStaysBelow
  <2>5. ASSUME NEW p \in series.peak PROVE Graph!AtMost(Graph!Mean(points), p)
    <3>1. p \in All /\ \A q \in All : Graph!AtMost(q, p)
      BY <1>1 DEF All
    <3>2. p \in Rated /\ \A i \in 1 .. Len(points) : Graph!AtMost(points[i], p)
      BY <1>5, <2>3, <3>1
    <3> QED  BY <2>2, <2>3, <3>2, MeanStaysBelow
  <2>6. Graph!Even(points) => Graph!AreaIsBytes(Graph!Mean(points), points)
    BY <2>2, <2>3, EvenAreaIsBytes
  <2>7. Graph!Mean(points).seconds > 0 /\ Graph!Mean(points).bytes >= 0
    BY <2>4 DEF Rated
  <2> QED  BY <2>1, <2>5, <2>6, <2>7 DEF points
<1>10. \A i \in DOMAIN full : full[i].seconds > 0 /\ full[i].bytes >= 0
  <2>1. \A i \in 1 .. Len(full) : full[i] \in Drawn
    BY <1>3, ElementOfSeq
  <2>2. \A p \in Drawn : p.bytes >= 0
    BY DEF Drawn
  <2> QED  BY <1>3, <1>4, <2>1, <2>2
<1>11. series.total =< moved
  BY <1>1, <1>2 DEF GraphInv, Graph!Last
<1>12. full # <<>> => series.peak # {}
  <2> SUFFICES ASSUME full # <<>> PROVE series.peak # {}
    OBVIOUS
  <2>1. \E p \in Graph!ToSet(full) : \A q \in Graph!ToSet(full) :
          q.bytes * p.seconds =< p.bytes * q.seconds
    BY <1>3, PeakExists
  <2> QED  BY <1>1, <2>1 DEF Graph!AtMost
<1>13. limit > 0 => Len(drawn) =< limit
  BY <1>7, <1>8
<1> DEFINE Goal(F, S, D, B, R) ==
      /\ \A i \in DOMAIN F : F[i].seconds > 0 /\ F[i].bytes >= 0
      /\ Graph!Bytes(F) =< R /\ S.total =< moved
      /\ Len(F) = n - 1 /\ same => Graph!Bytes(F) = R
      /\ Graph!FlattenSeq(B) = F
      /\ \A b \in DOMAIN B : B[b] # <<>>
      /\ limit > 0 => Len(D) =< limit
      /\ F # <<>> => S.peak # {}
      /\ \A b \in DOMAIN D :
           /\ D[b].seconds > 0 /\ D[b].bytes >= 0
           /\ \A p \in S.peak : Graph!AtMost(D[b], p)
           /\ Graph!Even(B[b]) => Graph!AreaIsBytes(D[b], B[b])
<1>14. Goal(full, series, drawn, buckets, really)
  BY ONLY <1>3, <1>7, <1>9, <1>10, <1>11, <1>12, <1>13
<1> QED  BY ONLY <1>14 DEF drawn, buckets, full, really, same, n, series

\* The graph never shows more than was moved, whatever the clock and the counter did,
\* and all of it if both went on; no mean is above the peak, and that of even
\* intervals has the area of what they moved.
THEOREM SeriesAreFaithful == Spec => []SeriesFaithful
<1> QED  BY GraphInit, GraphStep, SeriesOfReadings, PTL DEF Spec
==============================================================================
