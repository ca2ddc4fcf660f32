---------------------------- MODULE MCFileLocks ----------------------------
(* Instances of FileLocks for TLC: owners are alike. *)
EXTENDS FileLocks, TLC

\* A flock table with three waiting requests; POSIX tables of two owners, with
\* one waiting request on three bytes and two on two.
LockTables ==
  {[type |-> "flock", owners |-> Owners, waiting |-> 3, bytes |-> 1]} \cup
  {[type |-> "posix", owners |-> S, waiting |-> n, bytes |-> 4 - n] :
     S \in kSubset(2, Owners), n \in {1, 2}}

\* A POSIX table alone.
PosixTable == {[type |-> "posix", owners |-> Owners, waiting |-> 2, bytes |-> 2]}

Symmetry == Permutations(Owners)
=============================================================================
