------------------------------- MODULE Access -------------------------------
(***************************************************************************)
(* Which address a request is attributed to (services/access.py).  A       *)
(* request carries the address of its socket's peer and the hops of its    *)
(* X-Forwarded-For header, to which every proxy it passed has appended     *)
(* the address it received the request from.                               *)
(***************************************************************************)
EXTENDS Integers, Sequences, FiniteSetsExt

CONSTANTS
  Proxies,    \* VPN_CONNECT_TRUSTED_PROXIES
  Blank,      \* an empty hop
  Garbage,    \* a hop that is no address
  MaxHops     \* MAX_FORWARDED_HOPS

\* A blank or unreadable address is in no network.
IsAllowed(address, networks) == address \in networks \ {Blank, Garbage}

\* Deliberate fault: the leftmost hop is believed.
LeftmostAddress(peer, hops) ==
  IF ~IsAllowed(peer, Proxies) \/ hops = <<>> THEN peer ELSE Head(hops)

\* client_address(): the nearest hop that is not a trusted proxy itself, if a
\* trusted proxy sent the request and that hop is an address.
ClientAddress(peer, hops) ==
  LET hop(i) == hops[Len(hops) + 1 - i]
      near   == {i \in 1 .. Min({MaxHops, Len(hops)}) :
                   hop(i) # Blank /\ ~IsAllowed(hop(i), Proxies)}
  IN IF ~IsAllowed(peer, Proxies) \/ near = {} \/ hop(Min(near)) = Garbage
       THEN peer ELSE hop(Min(near))

\* How a request of this client may arrive that it sent with this header: directly,
\* or through one or two proxies.
Ways(client, sent) ==
  {[peer |-> client, hops |-> sent]}
    \union {[peer |-> p, hops |-> Append(sent, client)] : p \in Proxies}
    \union {[peer |-> q, hops |-> sent \o <<client, p>>] : p \in Proxies, q \in Proxies}

Arrivals(client, headers) == UNION {Ways(client, sent) : sent \in headers}

\* login(): the throttle's key.  The allowlist has let the peer in already.
Attributed(client, headers, allowed) ==
  {ClientAddress(r.peer, r.hops) :
     r \in {x \in Arrivals(client, headers) : IsAllowed(x.peer, allowed)}}
=============================================================================
