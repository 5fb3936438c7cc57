------------------------------ MODULE MCRooted ------------------------------
(***************************************************************************)
(* The instance of Rooted that TLC checks: two threads, one domain, two    *)
(* addresses of which dnsmasq dislikes one, and a legacy file of two rules *)
(* and a line nobody understands.  What the helper refuses is a text of    *)
(* three rules, which is too long; an address it refused would go the same *)
(* way.                                                                    *)
(***************************************************************************)
EXTENDS Rooted, TLC

CONSTANTS good, bad

Other == [shape |-> "other", domain |-> None, address |-> None]

OneDomain == {1}
TwoAddresses == {good, bad}
OneLegacy == {<<Comment, FallbackLine(good), DomainLine(1, good), Other>>}

RootedSymmetry == Permutations(Workers)
=============================================================================
