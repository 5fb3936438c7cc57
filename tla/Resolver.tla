------------------------------ MODULE Resolver ------------------------------
(***************************************************************************)
(* Who resolves what (services/resolver.py, GET /dns/status): the report   *)
(* that sets the tunnel's DNS, as systemd-resolved has it, against the     *)
(* operator's rules, while either changes.  A domain is the sequence of    *)
(* its labels from the root, so that the root is <<>> and a parent is a    *)
(* prefix.                                                                 *)
(***************************************************************************)
EXTENDS Sequences, SequencesExt

CONSTANTS
  Links,         \* what systemd-resolved may have on the tunnel's device
  RuleDomains,   \* the domains that a forwarder may be for
  None

\* _link(): what is configured on the device; None when nothing can be said.
Link(servers, routed, search) == [servers |-> servers, routed |-> routed, search |-> search]

CatchAll(link) == <<>> \in link.routed

\* Search domains count only where there are no routed ones.
Claimed(link) == IF link.routed # {} THEN link.routed ELSE link.search

\* Deliberate fault: names that merely belong together are taken for covered.
CoveredEitherWay(domain, claimed) ==
  \E entry \in claimed : IsPrefix(entry, domain) \/ IsPrefix(domain, entry)

\* _covered(): claimed itself, or under a claimed parent.
Covered(domain, claimed) == \E entry \in claimed : IsPrefix(entry, domain)

DnsMode(link) ==
  IF link = None THEN "down"
  ELSE IF link.servers = {} THEN "none"
  ELSE IF CatchAll(link) THEN "all" ELSE "split"

\* The note on one rule: _tunnel_takes_everything(), _tunnel_takes_some() and
\* _no_tunnel_resolver().
Note(link, domain) ==
  CASE DnsMode(link) \in {"down", "none"} -> "resolves"
    [] DnsMode(link) = "all"              -> "bypassed"
    [] OTHER -> IF Covered(domain, Claimed(link)) THEN "redundant" ELSE "resolves"

\* report().
DnsReport(link, domains) ==
  [mode |-> DnsMode(link), notes |-> [d \in domains |-> Note(link, d)],
   action_needed |-> DnsMode(link) = "all" \/ (DnsMode(link) = "none" /\ domains = {})]

VARIABLES
  link,       \* the link in systemd-resolved; None without a device or an answer
  domains,    \* the domains of the stored forwarders
  dnsReport   \* the report on these two, None until it is asked for

resolverVars == <<link, domains, dnsReport>>

-----------------------------------------------------------------------------

\* OpenVPN sets the link up, differently, or takes it away (external).
LinkChanges == link' \in Links \union {None} /\ dnsReport' = None /\ UNCHANGED domains

\* The operator adds a forwarder or deletes one.
RulesChange ==
  /\ \E d \in RuleDomains : domains' \in {domains \union {d}, domains \ {d}}
  /\ dnsReport' = None /\ UNCHANGED link

\* GET /dns/status.
AskResolver == dnsReport' = DnsReport(link, domains) /\ UNCHANGED <<link, domains>>

ResolverInit == link = None /\ domains = {} /\ dnsReport = None

ResolverNext == LinkChanges \/ RulesChange \/ AskResolver

-----------------------------------------------------------------------------

\* Where systemd-resolved sends a name (external): to the link that has the longest
\* domain that the name is in, whether the domain is for routing only or for search
\* as well.  No other link has any of its own.
GoesToTunnel(name) ==
  /\ link # None /\ link.servers # {}
  /\ \E entry \in link.routed \union link.search : IsPrefix(entry, name)

NamesOf(rule) == {d \in RuleDomains : IsPrefix(rule, d)}

\* A rule is called redundant or bypassed only while every name that it is for goes
\* to the tunnel's servers, and in use only while its own domain does not, unless
\* the link has domains of both kinds; and the operator is told to act only when all
\* names go there, or when none does though the device is there, and there is no
\* rule for any.
RulesExplained ==
  dnsReport # None =>
    /\ \A d \in domains :
         /\ dnsReport.notes[d] # "resolves" => \A name \in NamesOf(d) : GoesToTunnel(name)
         /\ dnsReport.notes[d] = "resolves" /\ GoesToTunnel(d) =>
              link.routed # {} /\ link.search # {}
    /\ dnsReport.action_needed =>
         \/ \A d \in RuleDomains : GoesToTunnel(d)
         \/ link # None /\ domains = {} /\ ~\E d \in RuleDomains : GoesToTunnel(d)
=============================================================================
