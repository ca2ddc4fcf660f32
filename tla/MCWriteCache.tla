------------------------------- MODULE MCWriteCache -------------------------------
(* Instances of WriteCache for model checking. *)
EXTENDS WriteCache, TLC

CONSTANTS c1, c2, t1, t2, w1, w2

SetUp(workers, cache, limit, may1, may2, places, writes, retries, nfaults, errors) ==
  [workers |-> workers, cache |-> cache, percent |-> 100, limit |-> limit,
   may |-> (t1 :> may1 @@ t2 :> may2), places |-> places, writes |-> writes,
   retries |-> retries, faults |-> nfaults, errors |-> errors]

One == {<<c1, 1>>}
Two == {<<c1, 1>>, <<c1, 2>>}
Far == {<<c1, 1>>, <<c2, 1>>}
Soft == {"recoverable", "locked"}
Writer == {"open", "write"}
Guest == {"visit"}

\* Two writers of one chunk and one block of cache; two chunks that are written in turn,
\* with a failure and somebody who flushes without a handle; two chunks written at the
\* same time; somebody who flushes without a handle while the inodedata is deleted and
\* workers are still in it, with a write that the master refuses; three writes to one
\* place, with a failure; writes that fail for good.
WriteSetUps ==
  {SetUp({w1}, 1, 1, Writer, Writer, Two, 2, 2, 0, Soft),
   SetUp({w1}, 1, 1, Writer, Guest, Far, 2, 2, 1, Soft),
   SetUp({w1, w2}, 1, 0, Writer, {}, Far, 2, 2, 0, Soft),
   SetUp({w1, w2}, 1, 0, Writer, Guest, One, 1, 2, 1, {"fatal"}),
   SetUp({w1}, 1, 1, Writer, {}, One, 3, 2, 1, {"recoverable"}),
   SetUp({w1}, 1, 0, Writer, {}, Far, 2, 1, 1, {"recoverable"})}

============================================================================
