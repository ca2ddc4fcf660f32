------------------------------ MODULE MCChunks ------------------------------
(* Instances of Chunks for TLC: servers and lock ids are interchangeable. *)
EXTENDS Chunks, TLC

Symmetry == Permutations(Servers) \cup Permutations(LockIds)

Setup(servers, needed, useLock, maxFaults, faultKinds, uses) ==
  [servers |-> servers, needed |-> needed, goal |-> 2, useLock |-> useLock,
   maxFaults |-> maxFaults, faultKinds |-> faultKinds, uses |-> uses]

\* Two copies without locks on the chunkservers, two copies with them (writers that
\* leave, workers of the master), and two parts that are both needed.
Pairs ==
  UNION {{
    Setup(S, 1, FALSE, 1, {"disconnect", "restart", "io", "damage"},
          {"truncate", "share", "delete", "leave", "worker"}),
    Setup(S, 1, TRUE, 1, {"disconnect", "write"}, {"leave"}),
    Setup(S, 1, TRUE, 1, {"disconnect", "write"}, {"worker"}),
    Setup(S, 2, TRUE, 2, {"write", "io", "damage"}, {"worker", "truncate"})} :
    S \in kSubset(2, Servers)}

\* Two copies on three servers.
Triple == {Setup(Servers, 1, FALSE, 1, {"disconnect", "io"}, {"worker"})}

PairsAndTriple == Pairs \cup Triple

\* Nothing but damaged parts.
Damage == {Setup(Servers, 1, FALSE, 1, {"damage"}, {})}
=============================================================================
