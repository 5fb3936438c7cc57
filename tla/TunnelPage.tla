----------------------------- MODULE TunnelPage -----------------------------
(***************************************************************************)
(* The tunnel's pages (GET /routes and /scope) over the machine they       *)
(* describe: the kernel's routing tables and the last PUSH_REPLY that the  *)
(* controller kept.  OpenVPN changes the machine, step by step and at any  *)
(* time; a page reads it with one command after another.                   *)
(***************************************************************************)
EXTENDS Scope

CONSTANTS
  Remote,       \* the server's address, as a prefix
  Lan4, Lan6,   \* the routes of this machine without a tunnel
  OnLink,       \* the tunnel's own subnet
  Offers,       \* what a server may push: sets of options
  Carried6      \* what it may make the tunnel carry of IPv6: sets of prefixes

VARIABLES
  running,   \* OpenVPN is there
  offer,     \* what its server has pushed, None before that
  settled,   \* OpenVPN has acted on it
  table4,    \* the IPv4 routes
  table6,    \* the IPv6 routes
  noting,    \* the PUSH_REPLY that _append_log() is about to keep aside
  logged,    \* ... while its line is in _log, which is what find_reply() would find
  reply,     \* _push_reply: the last one kept aside since the last connect()
  view,      \* the page being read: what it has read, or what it says
  taken      \* the options that OpenVPN has put into effect (history)

machine == <<running, offer, settled, table4, table6, noting, logged, reply, taken>>
pageVars == <<machine, view>>

\* unsure: a reading failed, or the machine changed between two of them.
Shut == [at |-> "closed", read |-> {}, unsure |-> FALSE, says |-> {}]

Route(p, dev) == [dst |-> p, dev |-> dev, gateway |-> dev = Tunnel]
Subnet        == [dst |-> OnLink, dev |-> Tunnel, gateway |-> FALSE]
Elsewhere(table) == {r \in table : r.dev # Tunnel}

\* A change disturbs a page that is being read, and ends one that has been.
Disturb == view' = IF view.at \in {"reply", "ipv6"} THEN [view EXCEPT !.unsure = TRUE] ELSE Shut

-----------------------------------------------------------------------------
(* The machine (external, but for what the controller keeps of the log).   *)

kept == <<noting, logged, reply>>

\* connect() clears the log and forgets the last reply; a daemon that something
\* else started does not make the controller do so.
Starts ==
  /\ ~running
  /\ running' = TRUE /\ offer' = None /\ settled' = FALSE
  /\ \/ logged' = FALSE /\ reply' = None
     \/ UNCHANGED <<logged, reply>>
  /\ Disturb
  /\ UNCHANGED <<table4, table6, noting, taken>>

\* The first push, or that of a reconnect: the routes of the last one go.
Push ==
  /\ running /\ (offer = None \/ settled)
  /\ offer' \in Offers
  /\ settled' = FALSE /\ taken' = {}
  /\ table4' = Lan4 \union {Subnet} /\ table6' = Elsewhere(table6)
  /\ Disturb
  /\ UNCHANGED <<running, kept>>

\* _append_log(): the notification is handled in its own time, and its line is in
\* the log before it is kept aside.
AppendLog ==
  /\ running /\ offer # None /\ noting = None /\ reply # offer
  /\ logged' = TRUE /\ noting' = offer
  /\ Disturb
  /\ UNCHANGED <<running, offer, settled, table4, table6, reply, taken>>

\* From here on no one looks for it in the log, until connect() clears both.
KeepAside ==
  /\ noting # None
  /\ reply' = noting /\ noting' = None /\ logged' = FALSE
  /\ Disturb
  /\ UNCHANGED <<running, offer, settled, table4, table6, taken>>

\* redirect-gateway replaces the default route or overrides it by two halves, and
\* pins the server's own address to the device that it was reached by.
Redirected ==
  LET default == {r \in Lan4 : r.dst = Everything}
      pinned  == {[r EXCEPT !.dst = Remote] : r \in default}
  IN  {(Lan4 \ default) \union pinned \union {Route(Everything, Tunnel)},
       Lan4 \union pinned \union {Route(p, Tunnel) : p \in Halves}}

\* A route through net_gateway goes where this machine's default route does.
Bypasses(option) == option.gateway = "net_gateway"
Bypass(p)        == {[r EXCEPT !.dst = p] : r \in {x \in Lan4 : x.dst = Everything}}

\* OpenVPN acts on the push, and any of the options may come to nothing.
Install ==
  /\ running /\ offer # None /\ ~settled
  /\ settled' = TRUE
  /\ taken' \in SUBSET (offer \ {Unreadable})
  /\ LET routes == taken' \ {RedirectGateway}
         pushed == {Route(o.dst, Tunnel) : o \in {x \in routes : ~Bypasses(x)}}
         around == UNION {Bypass(o.dst) : o \in {x \in routes : Bypasses(x)}}
     IN  \E lan \in IF RedirectGateway \in taken' THEN Redirected ELSE {Lan4} :
           table4' = lan \union around \union pushed \union {Subnet}
  /\ \E carried \in Carried6 :
       table6' = Elsewhere(table6) \union {Route(p, Tunnel) : p \in carried}
  /\ Disturb
  /\ UNCHANGED <<running, offer, kept>>

\* The device goes, with its routes: OpenVPN stops, or the link is lost under it.
Vanish ==
  /\ running
  /\ running' \in BOOLEAN
  /\ offer' = None /\ settled' = FALSE /\ taken' = {}
  /\ table4' = Lan4 /\ table6' = Elsewhere(table6)
  /\ Disturb
  /\ UNCHANGED kept

\* IPv6 comes to this machine's network, or goes.
Ipv6Changes ==
  /\ table6' = IF Elsewhere(table6) = {} THEN table6 \union Lan6 ELSE table6 \ Lan6
  /\ Disturb
  /\ UNCHANGED <<running, offer, settled, table4, kept, taken>>

-----------------------------------------------------------------------------
(* The pages.                                                              *)

\* A command prints the table, or it fails and nothing is read.
ReadTable(table) == {table, {}}

\* GET /routes: the routes first; the server's address may not be known.
ReadRoutes ==
  /\ view.at = "closed" /\ running
  /\ \E table \in ReadTable(table4), remote \in {Remote, None} :
       view' = [Shut EXCEPT !.at = "reply", !.read = ParseRoutes(table, remote),
                            !.unsure = table # table4]
  /\ UNCHANGED machine

\* pushed(): then the reply that was kept, or else one that is in the log.
Known == IF reply # None THEN reply ELSE IF logged THEN noting ELSE None

CompareRoutes ==
  /\ view.at = "reply"
  /\ view' = [view EXCEPT !.at = "routes", !.read = {},
                          !.says = PushReport(IF running THEN Known ELSE None, view.read)]
  /\ UNCHANGED machine

\* GET /scope: one family after the other.
ReadIpv4 ==
  /\ view.at = "closed" /\ running
  /\ \E table \in ReadTable(table4) :
       view' = [Shut EXCEPT !.at = "ipv6", !.read = {Evaluate(table)}, !.unsure = table # table4]
  /\ UNCHANGED machine

ReadIpv6 ==
  /\ view.at = "ipv6"
  /\ \E ipv4 \in view.read, table \in ReadTable(table6) :
       view' = [view EXCEPT !.at = "scope", !.read = {}, !.unsure = @ \/ table # table6,
                            !.says = [ipv4 |-> ipv4, ipv6 |-> Evaluate(table)]]
  /\ UNCHANGED machine

\* The page is read and shut.
ShutPage == view.at \in {"routes", "scope"} /\ view' = Shut /\ UNCHANGED machine

-----------------------------------------------------------------------------

PageInit ==
  /\ running = FALSE /\ offer = None /\ settled = FALSE /\ taken = {}
  /\ table4 = Lan4 /\ table6 \in {Lan6, {}}
  /\ noting = None /\ logged = FALSE /\ reply = None
  /\ view = Shut

PageNext ==
  \/ Starts \/ Push \/ AppendLog \/ KeepAside \/ Install \/ Vanish \/ Ipv6Changes
  \/ ReadRoutes \/ CompareRoutes \/ ReadIpv4 \/ ReadIpv6 \/ ShutPage

-----------------------------------------------------------------------------
(* What the pages say, against where a packet would go.                    *)

\* The route the kernel takes: the longest prefix, and the tunnel's own among
\* equals, which OpenVPN installs without a metric.
Via(table, a) ==
  LET on   == {r \in table : a \in Addresses(r.dst)}
      best == {r \in on : \A q \in on : Len(q.dst) =< Len(r.dst)}
      tun  == {r \in best : r.dev = Tunnel}
  IN  IF tun # {} THEN tun ELSE best

Tunnelled(table, a) == \E r \in Via(table, a) : r.dev = Tunnel
Escapes(table, a)   == \E r \in Via(table, a) : r.dev # Tunnel /\ r.dst = Everything

\* The scope is what becomes of packets.  "full": every address is in a route into
\* the tunnel that is not of reserved space only, and none leaves by another default
\* route; "none": none but reserved ones takes the tunnel.  A leak is reported
\* where all IPv4 is kept in and some IPv6 has no such route, and only there; a
\* family that is said to leak goes past the tunnel whole; and the notice on public
\* space is given only where packets of others do take the tunnel.  This of a page
\* whose readings succeeded and between which nothing changed.
ScopeTold(ipv4, ipv6) ==
  LET into(table)     == {r \in table : r.dev = Tunnel}
      carries(table)  == {r \in into(table) : ~Inside(r.dst, Reserved)}
      covered(routes) == UNION {Addresses(r.dst) : r \in routes}
      escaping(table) == {a \in Space : Escapes(table, a)}
      reserved        == UNION {Addresses(p) : p \in Reserved}
      inside(table)   == {a \in Space : Tunnelled(table, a)}
  IN /\ ipv4.mode = "full" <=> Space \subseteq covered(carries(table4))
     /\ ipv4.mode = "full" => escaping(table4) = {}
     /\ ipv4.mode = "none" => inside(table4) \subseteq reserved
     /\ Warnings(ipv4, ipv6) # {} => escaping(table4) = {} /\ ~(Space \subseteq covered(carries(table6)))
     /\ ipv4.mode = "full" /\ escaping(table6) # {} => Warnings(ipv4, ipv6) # {}
     /\ Leaking(ipv6, ipv4, ipv6) => escaping(table6) # {} /\ inside(table6) \subseteq reserved
     /\ PublicNotice(ipv4) => \E p \in Prefixes : IsPublic(p) /\ Addresses(p) \subseteq covered(into(table4))

ScopeExact ==
  view.at = "scope" /\ ~view.unsure => ScopeTold(view.says.ipv4, view.says.ipv6)

\* A route into the tunnel that came into effect is never reported as missing, and
\* of the others, those that go around it included, one is, unless the tunnel has
\* its effect or the route is to the server -- once OpenVPN has acted on the push,
\* the controller has it, and nothing changed while the page was read.
AccusedRightly ==
  view.at = "routes" /\ ~view.unsure /\ settled /\ Known = offer =>
    LET report   == view.says
        into     == {o \in taken : ~Bypasses(o)}
        other(o) == IF o = RedirectGateway THEN Evaluate(table4).mode = "full"
                    ELSE \E r \in table4 : r.dst = o.dst /\ (r.dev = Tunnel \/ o.dst = Remote)
    IN /\ report.rejected \intersect into = {}
       /\ \A o \in ParsePush(offer) \ into : o \in report.rejected \/ other(o)
       /\ Wholesale(report) => into = {}
=============================================================================
