------------------------------ MODULE DnsText -------------------------------
(***************************************************************************)
(* The dnsmasq configuration as a sequence of lines: how dns.py renders    *)
(* the rules of the table and reads an existing file back.  A domain is a  *)
(* number, so that sorting by it has a meaning.                            *)
(***************************************************************************)
EXTENDS Tables

CONSTANTS
  Domains,     \* what validate_domain() accepts, cleaned
  Addresses,   \* what validate_address() accepts
  Foreign,     \* those of them that the helper does not know: with an IPv6 zone
  MaxLines     \* how many lines the helper accepts: 2000

DomainLine(domain, address) == [shape |-> "domain", domain |-> domain, address |-> address]
FallbackLine(address)       == [shape |-> "fallback", domain |-> None, address |-> address]
Comment                     == [shape |-> "comment", domain |-> None, address |-> None]

Line == [shape : {"comment", "blank", "domain", "fallback", "other"},
         domain : Domains \union {None}, address : Addresses \union {None}]

\* sorted(): what key has a value for, from the least value to the greatest.
InOrder(key) ==
  [i \in 1 .. Cardinality(DOMAIN key) |->
     CHOOSE x \in DOMAIN key : Cardinality({y \in DOMAIN key : key[y] < key[x]}) = i - 1]

\* render_dnsmasq(): the domains in order, then the fallbacks by position.
Render(rules) ==
  LET byDomain   == InOrder([r \in OfKind(rules, "domain") |-> r.domain])
      byPosition == InOrder([r \in OfKind(rules, "fallback") |-> r.position])
  IN  <<Comment>> \o [i \in DOMAIN byDomain |-> DomainLine(byDomain[i].domain, byDomain[i].address)]
                  \o [i \in DOMAIN byPosition |-> FallbackLine(byPosition[i].address)]

\* parse_dnsmasq(): what a line says, when it says something valid.
Understood(line) ==
  \/ line.shape = "domain" /\ line.domain \in Domains /\ line.address \in Addresses
  \/ line.shape = "fallback" /\ line.address \in Addresses

Skipped(line) == line.shape \in {"comment", "blank"}

\* The lines at some places, one after the other.
Picked(lines, places) ==
  LET order == InOrder([i \in places |-> i]) IN [k \in DOMAIN order |-> lines[order[k]]]

Parse(lines) ==
  LET understood == {i \in DOMAIN lines : Understood(lines[i])}
      skipped    == {i \in DOMAIN lines : Skipped(lines[i])}
  IN  [rules    |-> Picked(lines, understood),
       unparsed |-> Picked(lines, DOMAIN lines \ (understood \union skipped))]

\* The helper's validate_dns_staging(): not too many lines, each of one of the known
\* shapes and with an address of the helper's own, narrower pattern.
Acceptable(lines) ==
  /\ Len(lines) =< MaxLines
  /\ \A i \in DOMAIN lines : lines[i].shape # "other" /\ lines[i].address \notin Foreign

\* import_legacy() adds the parsed rules one at a time; where the first one is
\* refused, the rest is never added.
Importing(rules, id, line) ==
  [refused |-> Refused(rules, line.shape, line.address),
   rules   |-> AddRule(rules, id, line.shape, line.domain, line.address)]
=============================================================================
