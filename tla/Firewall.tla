------------------------------ MODULE Firewall ------------------------------
(***************************************************************************)
(* The tunnel's inbound filter: the operator's setting in the database     *)
(* (services/firewall.py) and the rules the root helper loads into the     *)
(* kernel's table (vpn-connect-helper.in).  A request reads the setting,   *)
(* asks the helper, stores and acts in separate steps, and so does the     *)
(* guard that precedes every connection attempt.                           *)
(***************************************************************************)
EXTENDS Integers, FiniteSets

CONSTANTS
  Workers,     \* threads that serve requests
  MaxCopies    \* bound: how often the ruleset is loaded without a removal

VARIABLES
  setting,     \* the setting block_tun_inbound
  copies,      \* how many copies of the ruleset the table holds; 0: no table
  duty,        \* what each worker is doing
  exposed,     \* a tunnel was started with the setting on and no filter (history)
  answer,      \* what the operator last stored with the switch (history)
  undone       \* a repair that had read the setting before then has stored it since (history)

fwVars == <<setting, copies, duty, exposed, answer, undone>>

\* op: switch, look or connect; on: the value it is to store; intended: the
\* setting as it read it; disturbed: the filter went or the setting came on
\* after a connect's guard had looked; overtaken: the operator has switched the
\* filter off since this repair read the setting (history, both).
Rest == [at |-> "rest", op |-> "", on |-> FALSE, intended |-> FALSE, disturbed |-> FALSE,
         overtaken |-> FALSE]

Doing(w, step)  == duty[w].at = step
Turn(w, record) == duty' = [duty EXCEPT ![w] = record]
Leave(w)        == Turn(w, Rest)

\* What another thread's step does to a request: disturbs a connection, overtakes
\* a repair.
Told(d, happened, off) ==
  [d EXCEPT !.disturbed = @ \/ (happened /\ d.op = "connect"),
            !.overtaken = @ \/ (off /\ d.op \in {"look", "connect"})]

TurnTelling(w, record, happened, off) ==
  duty' = [v \in Workers |-> IF v = w THEN record ELSE Told(duty[v], happened, off)]

-----------------------------------------------------------------------------
(* The helper.                                                             *)

\* cmd_fw_status() and parse_status().  Any failure to ask is "unknown", and any
\* failure of nft to list the table is "disarmed".
Answers == {"disarmed", "unavailable", "unknown"} \union (IF copies > 0 THEN {"armed"} ELSE {})

\* cmd_fw_on() adds the ruleset to the table there is; cmd_fw_off() removes the
\* table.  One that failed or timed out may have had its effect.
After(on) == IF on THEN {copies, copies + 1} ELSE {copies, 0}

-----------------------------------------------------------------------------
(* The requests.                                                           *)

\* POST /firewall.  Only switching on asks first what the machine can do.
Switch(w) ==
  /\ Doing(w, "rest")
  /\ \E on \in BOOLEAN :
       Turn(w, [Rest EXCEPT !.at = IF on THEN "probe" ELSE "store", !.op = "switch", !.on = on])
  /\ UNCHANGED <<setting, copies, exposed, answer, undone>>

\* GET /firewall: reconcile() reads the setting, then asks the helper.
Look(w) ==
  /\ Doing(w, "rest")
  /\ Turn(w, [Rest EXCEPT !.at = "status", !.op = "look", !.intended = setting])
  /\ UNCHANGED <<setting, copies, exposed, answer, undone>>

\* guard_connect(): nothing to guard while the setting is off.
Guard(w) ==
  /\ Doing(w, "rest")
  /\ Turn(w, [Rest EXCEPT !.at = IF setting THEN "recheck" ELSE "start", !.op = "connect"])
  /\ UNCHANGED <<setting, copies, exposed, answer, undone>>

\* It calls reconcile(), which reads the setting again.
Recheck(w) ==
  /\ Doing(w, "recheck")
  /\ Turn(w, [duty[w] EXCEPT !.at = "status", !.intended = setting, !.overtaken = FALSE])
  /\ UNCHANGED <<setting, copies, exposed, answer, undone>>

\* Deliberate fault: what could not be asked passes for armed.
ConcludedUnknown(w, state) ==
  IF duty[w].op = "connect" /\ state # "disarmed" THEN [duty[w] EXCEPT !.at = "start"] ELSE Rest

\* Where a request goes once the state of the filter is known: a connect goes on
\* only if it is armed.
Concluded(w, state) ==
  IF duty[w].op = "connect" /\ state = "armed" THEN [duty[w] EXCEPT !.at = "start"] ELSE Rest

\* Deliberate fault: a filter that is missing is repaired whatever the setting.
ReconcileAlways(w) ==
  /\ Doing(w, "status")
  /\ \E state \in Answers :
       Turn(w, IF state = "disarmed" THEN [duty[w] EXCEPT !.at = "probe", !.on = TRUE]
                 ELSE Concluded(w, state))
  /\ UNCHANGED <<setting, copies, exposed, answer, undone>>

\* reconcile(): only a filter that is asked for and missing is repaired.
Reconcile(w) ==
  /\ Doing(w, "status")
  /\ \E state \in Answers :
       Turn(w, IF duty[w].intended /\ state = "disarmed"
                 THEN [duty[w] EXCEPT !.at = "probe", !.on = TRUE]
                 ELSE Concluded(w, state))
  /\ UNCHANGED <<setting, copies, exposed, answer, undone>>

\* set_intent(True): refused where it could not be honoured.
Probe(w) ==
  /\ Doing(w, "probe")
  /\ \E state \in Answers :
       Turn(w, IF state \in {"unavailable", "unknown"} THEN Rest
                 ELSE [duty[w] EXCEPT !.at = "store"])
  /\ UNCHANGED <<setting, copies, exposed, answer, undone>>

\* set_intent(): the setting is stored first.
Store(w) ==
  /\ Doing(w, "store")
  /\ setting' = duty[w].on
  /\ IF duty[w].op = "switch"
       THEN answer' = duty[w].on /\ undone' = FALSE
       ELSE undone' = (undone \/ duty[w].overtaken) /\ UNCHANGED answer
  /\ TurnTelling(w, [duty[w] EXCEPT !.at = "act"], duty[w].on /\ ~setting, ~duty[w].on)
  /\ UNCHANGED <<copies, exposed>>

\* fw-on or fw-off.  A failure is reported, and the setting kept.
Act(w) ==
  /\ Doing(w, "act")
  /\ \E after \in After(duty[w].on), failed \in BOOLEAN :
       /\ failed \/ after = IF duty[w].on THEN copies + 1 ELSE 0
       /\ after =< MaxCopies
       /\ copies' = after
       /\ TurnTelling(w, IF failed THEN Rest ELSE [duty[w] EXCEPT !.at = "report"],
                      copies > 0 /\ after = 0, FALSE)
  /\ UNCHANGED <<setting, exposed, answer, undone>>

\* The state is read back from the helper.
Report(w) ==
  /\ Doing(w, "report")
  /\ \E state \in Answers : Turn(w, Concluded(w, state))
  /\ UNCHANGED <<setting, copies, exposed, answer, undone>>

\* connect() has resolved and claimed: the tunnel is started.
Start(w) ==
  /\ Doing(w, "start")
  /\ exposed' = (setting /\ copies = 0 /\ ~duty[w].disturbed)
  /\ Leave(w)
  /\ UNCHANGED <<setting, copies, answer, undone>>

\* The transaction is refused, inside another thread's or by a locked database.
StoreRefused(w) ==
  /\ Doing(w, "store")
  /\ Leave(w)
  /\ UNCHANGED <<setting, copies, exposed, answer, undone>>

\* Somebody loads the ruleset by hand or flushes the kernel's tables, or a helper
\* that its caller gave up on gets there after all.
ByHand ==
  /\ \E n \in {0, copies + 1} :
       /\ n =< MaxCopies /\ n # copies
       /\ copies' = n
       /\ duty' = [w \in Workers |-> Told(duty[w], n = 0, FALSE)]
  /\ UNCHANGED <<setting, exposed, answer, undone>>

\* The machine restarts: the kernel's tables are empty, the setting is kept.
FirewallReboot ==
  /\ copies' = 0
  /\ duty' = [w \in Workers |-> Rest]
  /\ exposed' = FALSE
  /\ UNCHANGED <<setting, answer, undone>>

\* The filter as the switch left it.
FirewallInit ==
  /\ setting \in BOOLEAN /\ copies = IF setting THEN 1 ELSE 0
  /\ duty = [w \in Workers |-> Rest]
  /\ exposed = FALSE /\ undone = FALSE
  /\ answer = setting

FirewallRequest(w) == Switch(w) \/ Look(w) \/ Guard(w)

FirewallStep(w) ==
  Recheck(w) \/ Reconcile(w) \/ Probe(w) \/ Store(w) \/ StoreRefused(w) \/ Act(w) \/ Report(w)
  \/ Start(w)

-----------------------------------------------------------------------------
(* Properties.                                                             *)

FirewallTypeOK ==
  /\ setting \in BOOLEAN /\ copies \in 0 .. MaxCopies
  /\ duty \in [Workers -> [at : {"rest", "recheck", "status", "probe", "store", "act", "report", "start"},
                           op : {"", "switch", "look", "connect"}, on : BOOLEAN,
                           intended : BOOLEAN, disturbed : BOOLEAN, overtaken : BOOLEAN]]
  /\ exposed \in BOOLEAN /\ answer \in BOOLEAN /\ undone \in BOOLEAN

\* What the operator stored with the switch stands, whatever fails and whoever looks
\* or connects at the same time.  Nothing ever turns "on" into "off"; and where "off"
\* was turned into "on", it was by a repair that had read the setting before the
\* switch was set to off: whoever reads it afterwards leaves it off.
AnswerKept ==
  /\ answer => setting
  /\ setting /\ ~answer => undone

\* No tunnel is started with the setting on and the filter missing, unless the
\* filter was removed or the setting came on after the guard had looked.
NeverExposed == ~exposed
=============================================================================
