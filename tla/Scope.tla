------------------------------- MODULE Scope --------------------------------
(***************************************************************************)
(* What the kernel's routing tables say of the tunnel (services/scope.py,  *)
(* services/routing.py), and what the server pushed of it                  *)
(* (services/pushed.py).  A table is a set of routes; an address is Bits   *)
(* bits, and a prefix the first bits of the addresses in it.  The two      *)
(* families are read alike.                                                *)
(***************************************************************************)
EXTENDS Integers, Sequences, FiniteSets

CONSTANTS
  Bits,        \* bound: the width of an address
  Private,     \* prefixes of private address space
  Reserved,    \* prefixes of link-local and multicast addresses
  Tunnel,      \* TUN_DEVICE
  None

Prefixes     == UNION {[1 .. l -> {0, 1}] : l \in 0 .. Bits}
Space        == [1 .. Bits -> {0, 1}]
Addresses(p) == {a \in Space : \A i \in DOMAIN p : a[i] = p[i]}
Everything   == <<>>
Halves       == {p \in Prefixes : Len(p) = 1}

Inside(p, zones) == \E z \in zones : Addresses(p) \subseteq Addresses(z)

\* is_public_network().
IsPublic(p) == ~Inside(p, Private \union Reserved) /\ Len(p) > 1

-----------------------------------------------------------------------------
(* The scope.                                                              *)

\* ipaddress.collapse_addresses(): the widest prefixes that cover the same.
Collapse(networks) ==
  LET covered == UNION {Addresses(p) : p \in networks}
      inside  == {p \in Prefixes : Addresses(p) \subseteq covered}
  IN  {p \in inside : \A q \in inside : Addresses(p) \subseteq Addresses(q) => q = p}

\* coverage(), in addresses: no two of the blocks share one.
Coverage(networks) == Cardinality(UNION {Addresses(p) : p \in Collapse(networks)})

\* Deliberate fault: a tunnel is full if it has the default route.
ModeByDefault(networks) ==
  IF networks = {} THEN "none" ELSE IF Everything \in networks THEN "full" ELSE "split"

Mode(networks) ==
  IF networks = {} THEN "none"
  ELSE IF Coverage(networks) >= Cardinality(Space) THEN "full" ELSE "split"

\* evaluate().
Evaluate(table) ==
  LET networks == {r.dst : r \in {x \in table : x.dev = Tunnel}}
      counted  == {p \in networks : ~Inside(p, Reserved)}
      public   == {p \in counted : IsPublic(p)}
      leaving  == {r.dev : r \in {x \in table : x.dst = Everything /\ x.dev # Tunnel}}
  IN [mode |-> Mode(counted), prefixes |-> Cardinality(counted),
      blocks |-> Cardinality(Collapse(counted)), public |-> Cardinality(public),
      redirect_pair |-> Halves \subseteq counted,
      egress |-> IF leaving = {} THEN None ELSE CHOOSE d \in leaving : TRUE]

Active(ipv4, ipv6) == ipv4.mode # "none" \/ ipv6.mode # "none"

\* leaking(), of one family of the two.
Leaking(family, ipv4, ipv6) ==
  Active(ipv4, ipv6) /\ family.egress # None /\ family.mode = "none"

\* warnings: only the contradiction between the families is worth one.
Warnings(ipv4, ipv6) ==
  IF ipv4.mode = "full" /\ ipv6.mode # "full" /\ ipv6.egress # None THEN {ipv6.mode} ELSE {}

\* public_notice.
PublicNotice(ipv4) == ipv4.mode = "split" /\ ipv4.public > 0

-----------------------------------------------------------------------------
(* The routes, and the push.                                               *)

\* parse_routes(): those on the tunnel's device, and the server's own.
ParseRoutes(table, remote) ==
  {[dst |-> r.dst, kind |-> IF r.dev # Tunnel THEN "bypass"
                            ELSE IF r.gateway THEN "tunnel" ELSE "on-link"] :
     r \in {x \in table : x.dev = Tunnel \/ x.dst = remote}}

\* The options of a PUSH_REPLY: a route through one of the symbolic gateways, one
\* that cannot be read, or redirect-gateway.
RouteOption(p, via) == [verb |-> "route", dst |-> p, gateway |-> via]
Gateways            == {"vpn_gateway", "net_gateway"}
Unreadable          == RouteOption(None, "vpn_gateway")
RedirectGateway     == [verb |-> "redirect-gateway", dst |-> None, gateway |-> None]

\* parse(): the rest of the reply is not read.
ParsePush(reply) == {o \in reply : o.verb \in {"route", "redirect-gateway"}}

\* Deliberate fault: redirect-gateway is looked for as a default route.
InstalledPlainly(option, present) ==
  IF option.verb = "redirect-gateway" THEN Everything \in present ELSE option.dst \in present

\* _installed(): redirect-gateway comes as a default route or as two halves.
Installed(option, present) ==
  IF option.verb = "redirect-gateway" THEN Everything \in present \/ Halves \subseteq present
  ELSE option.dst \in present

\* report(): nothing is said without a reply, or without routes.
PushReport(reply, installed) ==
  IF reply = None THEN [seen |-> FALSE, pushed |-> {}, rejected |-> {}]
  ELSE LET pushed  == ParsePush(reply)
           present == {r.dst : r \in installed}
       IN [seen |-> TRUE, pushed |-> pushed,
           rejected |-> IF installed = {} THEN {} ELSE {o \in pushed : ~Installed(o, present)}]

Wholesale(report) == report.pushed # {} /\ report.rejected = report.pushed
=============================================================================
