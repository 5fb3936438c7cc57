------------------------------- MODULE Rooted -------------------------------
(***************************************************************************)
(* The two services that act through the root helper besides the tunnel:   *)
(* Firewall and DnsRules, served by the same threads of one process on one *)
(* machine.  A thread serves one request at a time; a restart of the       *)
(* service or of the machine hits both.                                    *)
(***************************************************************************)
EXTENDS DnsRules

CONSTANTS
  MaxCopies,     \* see Firewall
  MaxRequests,   \* bound: requests
  MaxEvents      \* bound: restarts and interferences by hand

VARIABLES
  setting, copies, duty, exposed, answer, undone,   \* see Firewall
  requests, events                                   \* how many there were

ASSUME RootedAssumption ==
  MaxRequests \in Nat /\ MaxEvents \in Nat /\ MaxCopies \in Nat \ {0}

Filter == INSTANCE Firewall

fwVars == <<setting, copies, duty, exposed, answer, undone>>

vars == <<dnsVars, fwVars, requests, events>>

Request == requests < MaxRequests /\ requests' = requests + 1 /\ UNCHANGED events

Event == events < MaxEvents /\ events' = events + 1 /\ UNCHANGED requests

Init == DnsInit /\ Filter!FirewallInit /\ requests = 0 /\ events = 0

\* A free thread takes the next request.
AskDns(w) == Filter!Doing(w, "rest") /\ DnsRequest(w) /\ Request /\ UNCHANGED fwVars

AskFirewall(w) == ~Underway(w) /\ Filter!FirewallRequest(w) /\ Request /\ UNCHANGED dnsVars

Continue(w) ==
  \/ DnsStep(w) /\ UNCHANGED <<fwVars, requests, events>>
  \/ Filter!FirewallStep(w) /\ UNCHANGED <<dnsVars, requests, events>>

Interference ==
  /\ Event
  /\ \/ DnsmasqByHand /\ UNCHANGED fwVars
     \/ Filter!ByHand /\ UNCHANGED dnsVars

\* The kernel's tables outlive the service, and its duties do not.
ServiceRestart ==
  /\ Event
  /\ DnsServiceRestart
  /\ duty' = [w \in Workers |-> Filter!Rest]
  /\ UNCHANGED <<setting, copies, exposed, answer, undone>>

Reboot == Event /\ DnsReboot /\ Filter!FirewallReboot

Next ==
  \/ \E w \in Workers : AskDns(w) \/ AskFirewall(w) \/ Continue(w)
  \/ Interference \/ ServiceRestart \/ Reboot

Spec == Init /\ [][Next]_vars

-----------------------------------------------------------------------------
(* Properties.                                                             *)

\* Both parts are well typed, and no thread serves two requests.
TypeOK ==
  /\ DnsTypeOK /\ Filter!FirewallTypeOK
  /\ requests \in 0 .. MaxRequests /\ events \in 0 .. MaxEvents
  /\ \A w \in Workers : Filter!Doing(w, "rest") \/ errand[w].at = "rest"

\* See Firewall: the switch's last answer stands, but for a repair that had read the
\* setting before.
AnswerKept == Filter!AnswerKept

\* See Firewall: no tunnel starts unprotected behind the guard's back.
NeverExposed == Filter!NeverExposed
=============================================================================
