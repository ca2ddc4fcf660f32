------------------------------- MODULE MCURaft -------------------------------
(* Instances of URaft for TLC; the sets of set-ups are closed under          *)
(* permutations of the nodes.                                               *)
EXTENDS URaft, TLC

Symmetry == Permutations(Nodes)

Setup(electors, version, grace, assertions, uses, maxAge) ==
  [electors |-> electors, version |-> version, grace |-> grace,
   assertions |-> assertions, uses |-> uses, maxAge |-> maxAge]

\* All metadata servers are equally up to date.
Equal == [n \in Nodes |-> 0]

\* A slow network, and a grace of one heartbeat or the default one.
Lease == {Setup({}, Equal, 1, FALSE, {}, 2)}
DefaultGrace == {Setup({}, Equal, 5, FALSE, {}, 1)}

\* One of the nodes is an elector, and one metadata server lags behind the other.
Lagging(uses, maxAge) ==
  {Setup({e}, [n \in Nodes |-> IF n = lagging THEN 1 ELSE 2], 1, FALSE, uses, maxAge) :
     <<e, lagging>> \in {<<x, y>> \in Nodes \X Nodes : x # y}}

\* With an elector, nodes that restart and assertions in the program; leaders that give
\* up; a slow network.
Failures ==
  {Setup({e}, Equal, 1, TRUE, {"restart"}, 1) : e \in Nodes}
    \cup Lagging({"demote"}, 1) \cup Lagging({}, 2)
=============================================================================
