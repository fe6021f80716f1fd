----------------------------- MODULE MCKnownHosts -----------------------------
(* KnownHosts on a few addresses, keys and connections: the text of one    *)
(* address ends in that of another.                                        *)
EXTENDS KnownHosts, TLC

CONSTANTS long, short

MCEnds == [a \in Addrs |-> IF a = long THEN {short} ELSE {}]

Symmetry == Permutations(Keys) \cup Permutations(Conns)
=============================================================================
