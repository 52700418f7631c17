-------------------------------- MODULE MCKvd --------------------------------
(* Instances of Kvd for TLC: two namespaces that share no key, the blocks of *)
(* one too large for a slot, two clients that map the arena and one that     *)
(* does not.                                                                 *)
EXTENDS Kvd, TLC

CONSTANTS m1, m2, k1, k2, kb, kc, e1, e2, e3

MCComposites == {<<m1, k1>>, <<m1, k2>>, <<m2, kb>>, <<m2, kc>>}
SharedKey == {<<m1, k1>>, <<m2, k1>>}
MCSlots == {0, 1}
World(s, l, r, x) == [saves |-> s, loads |-> l, leases |-> r, losses |-> x]
MCWorlds == {World(3, 1, 1, 0), World(2, 1, 1, 1), World(2, 1, 2, 0)}
Alike == Permutations({k1, k2}) \union Permutations({kb, kc}) \union Permutations({e1, e2})
=============================================================================
