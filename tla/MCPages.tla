------------------------------ MODULE MCPages -------------------------------
(***************************************************************************)
(* The instance of Pages that TLC checks.  Addresses have three bits:      *)
(* 0-1 are private, 7 is reserved, 5 is the server's, 2 the tunnel's own   *)
(* subnet and 1 an on-link network of this machine.                        *)
(***************************************************************************)
EXTENDS Pages

NoDays == {0, 2}
TwoSearches == {{}, {"dropped"}}
AnyTick == {-1, 1, 3}

\* The prefix of that length that an address begins with.
Prefix(address, len) == [i \in 1 .. len |-> (address \div 2^(Bits - i)) % 2]
Lan(p)            == [dst |-> p, dev |-> "lan", gateway |-> p = Prefix(0, 0)]
Low               == {Prefix(0, 2)}
Top               == {Prefix(7, 3)}
Server            == Prefix(5, 3)
OwnSubnet         == Prefix(2, 3)
HomeRoutes        == {Lan(Prefix(0, 0)), Lan(Prefix(1, 3))}
HomeRoutes6       == {Lan(Prefix(0, 0))}

\* The options as Scope has them, and the links as Resolver does.
RouteTo(p)  == [verb |-> "route", dst |-> p, gateway |-> "vpn_gateway"]
Around(p)   == [verb |-> "route", dst |-> p, gateway |-> "net_gateway"]
Garbled     == RouteTo(None)
Redirect    == [verb |-> "redirect-gateway", dst |-> None, gateway |-> None]
\* Of each of them any part may take effect.
Pushes ==
  {{}, {Redirect, RouteTo(Prefix(0, 2)), Around(Prefix(6, 3))},
   {RouteTo(Prefix(0, 1)), RouteTo(Prefix(4, 2)), RouteTo(Prefix(6, 2))},
   {Garbled, RouteTo(Server), RouteTo(Prefix(7, 3))}}
SomeIpv6 == {{}, {Prefix(0, 1), Prefix(4, 1)}, {Prefix(4, 2)}}

LinkOf(servers, routed, search) == [servers |-> servers, routed |-> routed, search |-> search]
SomeLinks ==
  {LinkOf({}, {}, {}), LinkOf({"s"}, {<<>>}, {}), LinkOf({"s"}, {}, {}),
   LinkOf({"s"}, {<<"corp">>}, {}), LinkOf({"s"}, {}, {<<"corp">>}),
   LinkOf({"s"}, {<<"corp", "a">>}, {<<"lab">>}), LinkOf({}, {<<"corp">>}, {})}
SomeDomains == {<<"corp">>, <<"corp", "a">>, <<"lab">>}

Sets(key) == [key |-> key]
Sound     == <<Sets("a"), Comment, Sets("b")>>
Doubled   == <<Sets("a"), Sets("b"), Sets("a")>>
Littered  == <<Sets("a"), Junk>>
SomeMachines ==
  {[clients |-> {"openvpn"}, env |-> Sound], [clients |-> {"openvpn"}, env |-> Doubled],
   [clients |-> {"openvpn3"}, env |-> Littered]}
=============================================================================
