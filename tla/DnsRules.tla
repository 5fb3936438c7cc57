------------------------------ MODULE DnsRules ------------------------------
(***************************************************************************)
(* The DNS rules on their way from the table to the running dnsmasq: a     *)
(* request changes the table (store.py), renders it, stages the text       *)
(* (dns_rules.py) and runs the helper's dns-apply, which installs the file, *)
(* puts the legacy one aside and restarts dnsmasq, or undoes it.  Nothing  *)
(* keeps two requests, or two helpers, apart.                              *)
(***************************************************************************)
EXTENDS DnsText

CONSTANTS
  Workers,     \* threads that serve requests
  Disliked,    \* addresses that pass validation and that dnsmasq refuses
  Legacies,    \* the legacy files there may be, as lines
  MaxRules,    \* bound: rows of the table
  Absent, Empty, Torn,   \* see Files
  Stopped,     \* dnsmasq is not running
  Failed       \* dnsmasq was started and refused its configuration

ASSUME DnsAssumption ==
  /\ Domains \subseteq Nat /\ Disliked \union Foreign \subseteq Addresses
  /\ MaxRules \in Nat /\ MaxLines \in Nat
  /\ None \notin Domains \union Addresses
  /\ Legacies \subseteq Seq(Line)
  /\ Absent \notin {Empty, Torn} /\ Empty # Torn
  /\ Absent \notin Seq(Line) /\ Empty \notin Seq(Line) /\ Torn \notin Seq(Line)

Disk == INSTANCE Files

VARIABLES
  rules,       \* table dns_rules
  staging,     \* dns-staged.conf, see Files
  etc,         \* the files of dnsmasq: conf, tmp, previous and legacy
  served,      \* what the running dnsmasq has loaded
  errand,      \* what each worker is doing
  root,        \* the helper that each worker has started
  crowded      \* two requests or helpers were ever under way at once (history)

dnsVars == <<rules, staging, etc, served, errand, root, crowded>>

\* op: what was asked; id: the rule it added; lines: those still to import;
\* text: what it stages; mixed: another request or somebody else interfered; ran:
\* the files dnsmasq was running on when it began, if those were the installed ones
\* and whole (history, both).
NoErrand == [at |-> "rest", op |-> "", id |-> None, lines |-> <<>>, text |-> Absent,
             mixed |-> FALSE, ran |-> None]

NoHelper == [at |-> "none", had |-> FALSE]

OnErrand(w, step) == errand[w].at = step
InRoot(w, step)   == root[w].at = step
Underway(w)       == errand[w].at # "rest" \/ root[w].at # "none"
Others(w)         == Workers \ {w}

Move(w, record)   == errand' = [errand EXCEPT ![w] = record]
Come(w, step)     == Move(w, [errand[w] EXCEPT !.at = step])

\* Somebody interferes with every request under way.
Interfered(e) ==
  [v \in Workers |-> IF e[v].at = "rest" THEN e[v] ELSE [e[v] EXCEPT !.mixed = TRUE]]

\* What dnsmasq reads when it starts.
Loaded == [conf |-> etc.conf, legacy |-> etc.legacy]

\* Whether it takes that.  It may or may not take a file that is not whole.
Takes(file) ==
  CASE file \in {Absent, Empty} -> {TRUE}
    [] file = Torn              -> BOOLEAN
    [] OTHER                    -> {\A i \in DOMAIN file : file[i].address \notin Disliked}

\* What comes of starting it.
Starts == {IF both = {TRUE} THEN Loaded ELSE Failed :
             both \in {{c, l} : c \in Takes(etc.conf), l \in Takes(etc.legacy)}}

Running == served \notin {Stopped, Failed}

\* The row an INSERT would get: rowids of deleted rows are used again.
NextId(table) == Max({r.id : r \in table} \union {0}) + 1

-----------------------------------------------------------------------------
(* The requests: the table.                                                *)

\* A request begins.
Begin(w, record) ==
  /\ ~Underway(w)
  /\ LET crowd == \E v \in Others(w) : Underway(v)
     IN  /\ errand' = [IF crowd THEN Interfered(errand) ELSE errand EXCEPT ![w] =
                         [record EXCEPT !.mixed = crowd,
                                     !.ran = IF Running /\ served = Loaded /\ etc.conf # Torn
                                               THEN Loaded ELSE None]]
         /\ crowded' = (crowded \/ crowd)
  /\ UNCHANGED <<staging, etc, served, root>>

Add(w) ==
  /\ Cardinality(rules) < MaxRules
  /\ \E kind \in {"domain", "fallback"}, domain \in Domains, address \in Addresses :
       /\ ~Refused(rules, kind, address)
       /\ rules' = AddRule(rules, NextId(rules), kind, domain, address)
       /\ Begin(w, [NoErrand EXCEPT !.at = "list", !.op = "add",
                                    !.id = AddedId(rules, NextId(rules), kind, domain)])

Delete(w) ==
  /\ \E rule \in rules : rules' = DeleteRule(rules, rule.id)
  /\ Begin(w, [NoErrand EXCEPT !.at = "list", !.op = "delete"])

MoveRule(w) ==
  /\ \E rule \in OfKind(rules, "fallback"), direction \in {"up", "down"} :
       rules' = MoveFallback(rules, rule, direction)
  /\ Begin(w, [NoErrand EXCEPT !.at = "list", !.op = "move"])

\* legacy_preview(): only while the table is empty and the file has something
\* to say.
Import(w) ==
  /\ rules = {} /\ etc.legacy # Absent
  /\ LET parsed == Parse(etc.legacy)
     IN  /\ parsed.rules # <<>> \/ parsed.unparsed # <<>>
         /\ Begin(w, [NoErrand EXCEPT !.at = "import", !.op = "import", !.lines = parsed.rules])
  /\ UNCHANGED rules

\* One transaction for each rule.  The first that is refused ends the request:
\* those before it stay in the table and nothing is applied.
ImportNext(w) ==
  /\ OnErrand(w, "import")
  /\ LET lines == errand[w].lines
     IN  IF lines = <<>> THEN Come(w, "list") /\ UNCHANGED rules
         ELSE LET import == Importing(rules, NextId(rules), Head(lines))
              IN  IF import.refused THEN Move(w, NoErrand) /\ UNCHANGED rules
                  ELSE rules' = import.rules /\ Move(w, [errand[w] EXCEPT !.lines = Tail(lines)])
  /\ UNCHANGED <<staging, etc, served, root, crowded>>

\* The transaction is refused, inside another thread's or by a locked database;
\* or the rule that was added is gone when add_dns_rule() reads it back.
DnsFails(w) ==
  /\ \/ OnErrand(w, "import")
     \/ OnErrand(w, "list") /\ errand[w].op = "add" /\ WithId(rules, errand[w].id) = {}
  /\ Move(w, NoErrand)
  /\ UNCHANGED <<rules, staging, etc, served, root, crowded>>

-----------------------------------------------------------------------------
(* The requests: _apply().                                                 *)

List(w) ==
  /\ OnErrand(w, "list")
  /\ Move(w, [errand[w] EXCEPT !.at = "open", !.text = Render(rules)])
  /\ UNCHANGED <<rules, staging, etc, served, root, crowded>>

OpenStaging(w) ==
  /\ OnErrand(w, "open")
  /\ staging' = Disk!Opened(staging, w)
  /\ Come(w, "write")
  /\ UNCHANGED <<rules, etc, served, root, crowded>>

WriteStaging(w) ==
  /\ OnErrand(w, "write")
  /\ staging' \in Disk!Written(staging, w, errand[w].text)
  /\ Come(w, "publish")
  /\ UNCHANGED <<rules, etc, served, root, crowded>>

PublishStaging(w) ==
  /\ OnErrand(w, "publish") /\ Disk!CanPublish(staging)
  /\ staging' = Disk!Published(staging, w)
  /\ Come(w, "run")
  /\ UNCHANGED <<rules, etc, served, root, crowded>>

\* OSError: it is raised to the request, which fails with the table changed.
StagingFails(w) ==
  /\ \/ OnErrand(w, "write")
     \/ OnErrand(w, "publish") /\ ~Disk!CanPublish(staging)
  /\ staging' = Disk!Abandoned(staging, w)
  /\ Move(w, NoErrand)
  /\ UNCHANGED <<rules, etc, served, root, crowded>>

\* run_helper(): sudo may refuse.
RunHelper(w) ==
  /\ OnErrand(w, "run")
  /\ \/ Come(w, "await") /\ root' = [root EXCEPT ![w].at = "install"]
     \/ Move(w, NoErrand) /\ UNCHANGED root
  /\ UNCHANGED <<rules, staging, etc, served, crowded>>

\* The helper takes too long: the request ends, the helper goes on.
GiveUp(w) ==
  /\ OnErrand(w, "await")
  /\ Move(w, NoErrand)
  /\ UNCHANGED <<rules, staging, etc, served, root, crowded>>

\* The request ends, with or without a warning.
Answer(w) ==
  /\ errand[w].at \in {"applied", "refused"}
  /\ Move(w, NoErrand)
  /\ UNCHANGED <<rules, staging, etc, served, root, crowded>>

-----------------------------------------------------------------------------
(* The helper: cmd_dns_apply().                                            *)

Proceed(w, step) == root' = [root EXCEPT ![w].at = step] /\ UNCHANGED errand

\* It ends, and whoever still waits is told.
Exit(w, outcome) ==
  /\ root' = [root EXCEPT ![w] = NoHelper]
  /\ IF OnErrand(w, "await") THEN Come(w, outcome) ELSE UNCHANGED errand

\* validate_dns_staging() and install.  A torn file may pass.
Install(w) ==
  /\ InRoot(w, "install")
  /\ LET file  == staging.final
         valid == file \notin {Absent, Empty, Torn} => Acceptable(file)
     IN  \/ /\ file # Absent /\ valid
            /\ etc' = [etc EXCEPT !.tmp = file]
            /\ Proceed(w, "keep")
         \/ /\ valid => file \in {Absent, Torn}
            /\ Exit(w, "refused") /\ UNCHANGED etc
  /\ UNCHANGED <<rules, staging, served, crowded>>

Keep(w) ==
  /\ InRoot(w, "keep")
  /\ IF etc.conf = Absent THEN UNCHANGED etc ELSE etc' = [etc EXCEPT !.previous = etc.conf]
  /\ root' = [root EXCEPT ![w] = [at |-> "swap", had |-> etc.conf # Absent]]
  /\ UNCHANGED <<rules, staging, served, errand, crowded>>

\* mv, which fails when another helper has moved the file.
Swap(w) ==
  /\ InRoot(w, "swap")
  /\ IF etc.tmp = Absent THEN Exit(w, "refused") /\ UNCHANGED etc
     ELSE etc' = [etc EXCEPT !.conf = etc.tmp, !.tmp = Absent] /\ Proceed(w, "aside")
  /\ UNCHANGED <<rules, staging, served, crowded>>

Aside(w) ==
  /\ InRoot(w, "aside")
  /\ etc' = [etc EXCEPT !.legacy = Absent]
  /\ Proceed(w, "restart")
  /\ UNCHANGED <<rules, staging, served, crowded>>

\* Deliberate fault: dnsmasq is told to reload, which reads no configuration.
ReloadOnly(w) ==
  /\ InRoot(w, "restart")
  /\ etc' = [etc EXCEPT !.previous = Absent]
  /\ Exit(w, "applied")
  /\ UNCHANGED <<rules, staging, served, crowded>>

\* Where dnsmasq is not running the rules are installed all the same.
Restart(w) ==
  /\ InRoot(w, "restart")
  /\ IF ~Running
       THEN etc' = [etc EXCEPT !.previous = Absent] /\ Exit(w, "applied") /\ UNCHANGED served
       ELSE /\ served' \in Starts
            /\ IF served' = Failed THEN UNCHANGED etc /\ Proceed(w, "undo")
               ELSE etc' = [etc EXCEPT !.previous = Absent] /\ Exit(w, "applied")
  /\ UNCHANGED <<rules, staging, crowded>>

\* Deliberate fault: what was there is not put back.
UndoByRemoval(w) ==
  /\ InRoot(w, "undo")
  /\ etc' = [etc EXCEPT !.conf = Absent]
  /\ Proceed(w, "revive")
  /\ UNCHANGED <<rules, staging, served, crowded>>

\* What was there is put back: the file, not the legacy one.
Undo(w) ==
  /\ InRoot(w, "undo")
  /\ IF ~root[w].had
       THEN etc' = [etc EXCEPT !.conf = Absent] /\ Proceed(w, "revive")
       ELSE IF etc.previous = Absent THEN Exit(w, "refused") /\ UNCHANGED etc
       ELSE etc' = [etc EXCEPT !.conf = etc.previous, !.previous = Absent] /\ Proceed(w, "revive")
  /\ UNCHANGED <<rules, staging, served, crowded>>

Revive(w) ==
  /\ InRoot(w, "revive")
  /\ served' \in Starts
  /\ Exit(w, "refused")
  /\ UNCHANGED <<rules, staging, etc, crowded>>

-----------------------------------------------------------------------------
(* What happens around them.                                               *)

\* Somebody stops or starts dnsmasq.
DnsmasqByHand ==
  /\ \/ Running /\ served' = Stopped
     \/ ~Running /\ served' \in Starts
  /\ errand' = Interfered(errand)
  /\ UNCHANGED <<rules, staging, etc, root, crowded>>

\* The service is restarted: requests end where they are, and so do the helpers
\* it still waited for.
DnsServiceRestart ==
  /\ errand' = [w \in Workers |-> NoErrand]
  /\ root' = [w \in Workers |-> NoHelper]
  /\ staging' = Disk!Orphaned(staging)
  /\ UNCHANGED <<rules, etc, served, crowded>>

\* The machine is restarted: dnsmasq reads what is installed by then.
DnsReboot ==
  /\ errand' = [w \in Workers |-> NoErrand]
  /\ root' = [w \in Workers |-> NoHelper]
  /\ staging' = Disk!Orphaned(staging)
  /\ served' \in Starts
  /\ UNCHANGED <<rules, etc, crowded>>

\* A new installation beside a legacy file, or one whose rules have been applied.
DnsInit ==
  /\ crowded = FALSE
  /\ \/ /\ rules = {}
        /\ staging = Disk!Fresh(Workers, Absent)
        /\ \E legacy \in Legacies :
             etc = [conf |-> Absent, tmp |-> Absent, previous |-> Absent, legacy |-> legacy]
     \/ /\ \E d \in Domains, a \in Addresses \ (Disliked \union Foreign) :
             rules = {Rule(1, "domain", d, a, None), Rule(2, "fallback", None, a, 0)}
        /\ staging = Disk!Fresh(Workers, Render(rules))
        /\ etc = [conf |-> Render(rules), tmp |-> Absent, previous |-> Absent, legacy |-> Absent]
  /\ served = Loaded
  /\ errand = [w \in Workers |-> NoErrand]
  /\ root = [w \in Workers |-> NoHelper]

DnsRequest(w) == Add(w) \/ Delete(w) \/ MoveRule(w) \/ Import(w)

DnsStep(w) ==
  \/ ImportNext(w) \/ DnsFails(w) \/ List(w) \/ OpenStaging(w) \/ WriteStaging(w)
  \/ PublishStaging(w) \/ StagingFails(w) \/ RunHelper(w) \/ GiveUp(w) \/ Answer(w)
  \/ Install(w) \/ Keep(w) \/ Swap(w) \/ Aside(w) \/ Restart(w) \/ Undo(w) \/ Revive(w)

-----------------------------------------------------------------------------
(* Properties.                                                             *)

IsText(file) == file \in {Absent, Empty, Torn} \/ file \in Seq(Line)

\* Every variable holds values of its kind, and only the helper of a request is
\* at work.
DnsTypeOK ==
  /\ \A r \in rules : r.id \in Nat \ {0} /\ r.address \in Addresses
  /\ \A file \in {staging.temp, staging.final, etc.conf, etc.tmp, etc.previous} : IsText(file)
  /\ etc.legacy \in Legacies \union {Absent}
  /\ Running => IsText(served.conf)
  /\ \A w \in Workers : IsText(errand[w].text) /\ errand[w].at = "await" => root[w].at # "none"
  /\ crowded \in BOOLEAN

\* What a request says it has applied is what the table holds, in the file and
\* in the running dnsmasq, with the legacy file out of the way -- unless another
\* request, or somebody's hand on dnsmasq, came in between.
AppliedWhole ==
  \A w \in Workers : OnErrand(w, "applied") /\ ~errand[w].mixed =>
    /\ etc.conf = Render(rules) /\ etc.legacy = Absent
    /\ Running => served = Loaded

\* The installed file is never half of one and never two mixed: wherever a request
\* or the service is cut off, until for the first time two are under way at once.
FileWhole == etc.conf \in {Empty, Torn} => crowded

\* A lone request that finds dnsmasq running on the installed files leaves it
\* running on the installed files, whatever dnsmasq thinks of the new ones: where
\* the request was refused and no legacy file was there, on the very files from
\* before.  With a legacy file there it may leave it without the rules of that one.
ResolverSurvives ==
  \A w \in Workers : errand[w].ran # None /\ ~errand[w].mixed =>
    /\ errand[w].at \in {"applied", "refused"} => served = Loaded
    /\ errand[w].at = "refused" /\ errand[w].ran.legacy = Absent => served = errand[w].ran

\* No rule is in the table twice and no two fallbacks stand in the same place,
\* so the text says every rule, in an order that is the operator's.
RulesDistinct ==
  \A r, s \in rules : r # s =>
    /\ r.id # s.id
    /\ r.kind = s.kind => IF r.kind = "domain" THEN r.domain # s.domain
                          ELSE r.position # s.position /\ r.address # s.address
=============================================================================
