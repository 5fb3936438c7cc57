------------------------------ MODULE MCPanel -------------------------------
(***************************************************************************)
(* The instance of Panel that TLC checks: two connections, two profiles of *)
(* which one asks for a code and the other filters pushed DNS itself.      *)
(***************************************************************************)
EXTENDS Panel, TLC

\* Neither the workers nor the passwords are named by a property.
PanelSymmetry == Permutations(Workers) \union Permutations(Passwords)

TwoNames == 1 .. 2

CONSTANTS caller, stranger, proxy

\* Nothing, somebody else's address, or what no proxy could have written.
SomeHeaders == {<<>>, <<stranger>>, <<stranger, proxy>>, <<Garbage>>, <<stranger, Blank>>}
=============================================================================
