---------------------------- MODULE MCForwarding ----------------------------
(* Topologies for the runs on Forwarding.                                  *)
EXTENDS Forwarding, TLC

CONSTANTS a, b, c, d

Both(E) == E \cup {<<e[2], e[1]>> : e \in E}

\* b - a - c - d: a has two neighbours, d is two hops from a.
Line == Both({<<b, a>>, <<a, c>>, <<c, d>>})

\* b and c each hear a, and a hears them.
Star == Both({<<b, a>>, <<a, c>>})

\* b and c hear a and each other, a hears nobody: each flood of a reaches b
\* and c on two paths.
Fan == {<<b, a>>, <<c, a>>, <<b, c>>, <<c, b>>}

\* Who sends how many messages.
OneOfA == [n \in Node |-> IF n = a THEN 1 ELSE 0]
TwoOfA == [n \in Node |-> IF n = a THEN 2 ELSE 0]
=============================================================================
