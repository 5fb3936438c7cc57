------------------------------- MODULE Pages --------------------------------
(***************************************************************************)
(* What the panel tells its operator: the history, the traffic graph, the  *)
(* tunnel's routes and scope, its resolver, and the state of the           *)
(* installation, each over the part of the system that it describes.  They *)
(* share nothing, so that a behaviour is that of one part and its page,    *)
(* and the other parts stay as they began.                                 *)
(***************************************************************************)
EXTENDS Deployment

CONSTANTS
  MaxAttempts, MaxDays, Retention, Keep, MaxLimit, Limits, Queries,   \* see Archive
  MaxReadings, Ticks, MaxBytes, Cap, Points,                          \* see Traffic
  Bits, Private, Reserved, Tunnel,                                    \* see Scope
  Remote, Lan4, Lan6, OnLink, Offers, Carried6,                       \* see TunnelPage
  Links, RuleDomains                                                  \* see Resolver

VARIABLES
  page,                                                               \* the part
  sessions, current, today, reader, listed,                           \* see Archive
  samples, counter, moved, readings,                                  \* see Traffic
  running, offer, settled, table4, table6, view, taken,               \* see TunnelPage
  noting, logged, reply,
  link, domains, dnsReport                                            \* see Resolver

Sessions == INSTANCE Archive
Graph    == INSTANCE Traffic
Routes   == INSTANCE TunnelPage
Dns      == INSTANCE Resolver

ASSUME PagesAssumption ==
  /\ MaxAttempts \in Nat /\ MaxDays \in Nat /\ Retention \in Nat
  /\ Keep \in Nat \ {0} /\ MaxLimit \in Nat \ {0} /\ Limits \subseteq Int
  /\ None \notin Nat
  /\ MaxReadings \in Nat /\ Ticks \subseteq Int /\ MaxBytes \in Nat
  /\ Cap \in Nat \ {0} /\ Points \subseteq Nat
  /\ Bits \in Nat \ {0, 1} /\ OnLink \in Routes!Prefixes
  /\ Remote \in Routes!Prefixes /\ Len(Remote) = Bits
  /\ Lan4 \union Lan6 \subseteq
       [dst : Routes!Prefixes, dev : STRING \ {Tunnel, None}, gateway : BOOLEAN]
  /\ \A z \in Reserved : z \in Routes!Prefixes /\ Len(z) > 1
  /\ None \notin Routes!Prefixes /\ None \notin Offers
  /\ \A options \in Offers : \A o \in options :
       \/ o \in {Routes!RedirectGateway, Routes!Unreadable}
       \/ \E p \in Routes!Prefixes, via \in Routes!Gateways : o = Routes!RouteOption(p, via)
  /\ \A carried \in Carried6 : carried \subseteq Routes!Prefixes
  \* There is more of IPv6 than what is reserved and what this machine has routes for.
  /\ \E a \in Routes!Space :
       /\ ~\E z \in Reserved : a \in Routes!Addresses(z)
       /\ \A r \in Lan6 : a \in Routes!Addresses(r.dst) => r.dst = Routes!Everything
  /\ RuleDomains \subseteq Seq(STRING)
  /\ \A l \in Links : l.routed \subseteq Seq(STRING) /\ l.search \subseteq Seq(STRING)

sessionsVars == <<sessions, current, today, reader, listed>>
graphVars    == <<samples, counter, moved, readings>>
routesVars   ==
  <<running, offer, settled, table4, table6, noting, logged, reply, view, taken>>
dnsVars      == <<link, domains, dnsReport>>
vars         == <<page, sessionsVars, graphVars, routesVars, dnsVars, deploymentVars>>

Init ==
  /\ page \in {"sessions", "traffic", "tunnel", "dns", "deploy"}
  /\ Sessions!ArchiveInit /\ Graph!TrafficInit /\ Routes!PageInit /\ Dns!ResolverInit
  /\ DeploymentInit
  /\ page # "tunnel" => table6 = {}
  /\ page # "deploy" => helper = None /\ machine = CHOOSE m \in Machines : TRUE

Next ==
  /\ UNCHANGED page
  /\ \/ /\ page = "sessions" /\ Sessions!ArchiveNext
        /\ UNCHANGED <<graphVars, routesVars, dnsVars, deploymentVars>>
     \/ /\ page = "traffic" /\ Graph!TrafficNext
        /\ UNCHANGED <<sessionsVars, routesVars, dnsVars, deploymentVars>>
     \/ /\ page = "tunnel" /\ Routes!PageNext
        /\ UNCHANGED <<sessionsVars, graphVars, dnsVars, deploymentVars>>
     \/ /\ page = "dns" /\ Dns!ResolverNext
        /\ UNCHANGED <<sessionsVars, graphVars, routesVars, deploymentVars>>
     \/ /\ page = "deploy" /\ DeploymentNext
        /\ UNCHANGED <<sessionsVars, graphVars, routesVars, dnsVars>>

Spec == Init /\ [][Next]_vars

-----------------------------------------------------------------------------

\* The history page, read to its end, leaves nothing out and repeats nothing.
PagesComplete == Sessions!PagesComplete

\* The traffic graph never shows more than was moved, whatever clock and counter did,
\* nor a mean above the peak.
SeriesFaithful == Graph!SeriesFaithful

\* The scope says what becomes of packets, and warns of a leak where there is one.
ScopeExact == Routes!ScopeExact

\* A pushed route that came into effect in the tunnel is not reported missing, and one
\* that did not is.
AccusedRightly == Routes!AccusedRightly

\* What is said of each DNS rule is what becomes of the names it is for, if the link
\* has domains of one kind only.
RulesExplained == Dns!RulesExplained
=============================================================================
