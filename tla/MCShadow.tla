--------------------------------- MODULE MCShadow ---------------------------------
(* Instances of Shadow for model checking. *)
EXTENDS Shadow

None == [f \in Faults |-> 0]

\* Failed dumps; a restart of the shadow; a lost connection during a dump, or
\* around a death of the master; deaths in a row; a failed commit and a death;
\* two changes of personality.
SyncBudgets ==
  {[None EXCEPT !.dumps = 2, !.failures = 1],
   [None EXCEPT !.dumps = 1, !.restarts = 1],
   [None EXCEPT !.dumps = 1, !.drops = 1],
   [None EXCEPT !.drops = 1, !.deaths = 1],
   [None EXCEPT !.deaths = 2],
   [None EXCEPT !.dumps = 1, !.renames = 1, !.deaths = 1],
   [None EXCEPT !.dumps = 1, !.failovers = 2]}

StuckBudgets == {[None EXCEPT !.drops = 1]}

============================================================================
