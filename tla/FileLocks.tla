------------------------------ MODULE FileLocks ------------------------------
(***************************************************************************)
(* The advisory locks of one inode (src/src/master/locks.h, locks.cc), the *)
(* lock operations of the master (filesystem_operations.cc) and the        *)
(* handlers of the clients' requests (matoclserv.cc).                      *)
(*                                                                         *)
(* The master has two tables, of flock and of POSIX locks; a behaviour is  *)
(* about one of them.  A table is a vector of active ranges with their     *)
(* owners and a vector of pending requests.                                *)
(***************************************************************************)
EXTENDS Integers, Sequences, FiniteSets, Bags, SequencesExt, FiniteSetsExt

CONSTANTS
  Owners,       \* the lock owners (a session and FUSE's owner field)
  Sessions,     \* the sessions that may end, each a set of owners
  Size,         \* bound: bytes of the file; Size stands for uint64's maximum
  Tables        \* the tables looked at, with who uses them and, two bounds, how
                \* many requests may wait and which bytes they name

ASSUME FileLocksAssumption ==
  /\ Size \in Nat \ {0}
  /\ UNION Sessions \subseteq Owners
  /\ Tables \subseteq [type : {"flock", "posix"}, owners : SUBSET Owners, waiting : Nat,
                        bytes : 1 .. Size]

VARIABLES
  table,    \* the table of this behaviour
  active,   \* active_locks_[inode]
  pending   \* pending_locks_[inode]

vars == <<table, active, pending>>

Bytes == 0 .. Size - 1

-----------------------------------------------------------------------------
(* LockRange, and a vector of them. *)

LockRange(type, start, end, o) == [type |-> type, start |-> start, end |-> end, owners |-> {o}]

overlaps(r, s) == r.start < s.end /\ s.start < r.end
sticks(r, s) == r.start = s.end \/ s.start = r.end
unlocking(r) == r.type = "unlock" \/ r.owners = {}
owner(r) == CHOOSE o \in Owners : r.owners = {o}

\* The part of v that std::lower_bound and std::upper_bound on the starts
\* delimit, with the element before it: first and last index.
FaultyWindow(v, start, end) ==
  [first |-> 1 + Cardinality({i \in DOMAIN v : v[i].start < start}),
   last |-> Cardinality({i \in DOMAIN v : v[i].start <= end})]

Window(v, start, end) ==
  LET before == Cardinality({i \in DOMAIN v : v[i].start < start})
  IN [first |-> Max({before, 1}), last |-> Cardinality({i \in DOMAIN v : v[i].start <= end})]

\* LockRanges::findCollision() finds something.
Collides(data, r) ==
  /\ ~unlocking(r)
  /\ \E i \in Window(data, r.start, r.end).first .. Window(data, r.start, r.end).last :
       /\ overlaps(r, data[i])
       /\ r.type # "shared" \/ data[i].type # "shared"
       /\ data[i].owners # r.owners

FaultyKeep(data, r) == Append(data, r)

Keep(data, r) == IF unlocking(r) THEN data ELSE Append(data, r)

\* The bytes that the range r and the range s have in common, once r is applied.
FaultyCommon(r, s) ==
  [s EXCEPT !.start = Max({r.start, s.start}), !.end = Min({r.end, s.end}),
            !.type = IF unlocking(r) \/ r.owners = s.owners THEN r.type ELSE @,
            !.owners = @ \cup r.owners]

Common(r, s) ==
  LET both == [s EXCEPT !.start = Max({r.start, s.start}), !.end = Min({r.end, s.end})]
  IN IF r.owners = s.owners THEN [both EXCEPT !.type = r.type]
     ELSE IF unlocking(r) THEN [both EXCEPT !.owners = @ \ r.owners]
     ELSE [both EXCEPT !.owners = @ \cup r.owners]

\* The loop of LockRanges::insert() at the range s: acc.range is what is left
\* of the range that is inserted, acc.out the ranges so far.
Visit(acc, s) ==
  LET r == acc.range
      head == IF r.start < s.start THEN [r EXCEPT !.end = s.start]
              ELSE [s EXCEPT !.end = r.start]
      front == IF r.start = s.start THEN acc.out ELSE Keep(acc.out, head)
      middle == Keep(front, Common(r, s))
      tail == [s EXCEPT !.start = r.end]
  IN CASE r.end <= r.start -> [acc EXCEPT !.out = Append(@, s)]
       [] r.end > r.start /\ sticks(r, s) /\ r.owners = s.owners /\ r.type = s.type ->
            [acc EXCEPT !.range = [r EXCEPT !.start = Min({r.start, s.start}),
                                            !.end = Max({r.end, s.end})]]
       [] OTHER ->
            IF r.end <= s.start
            THEN [range |-> [r EXCEPT !.start = r.end], out |-> Append(Keep(acc.out, r), s)]
            ELSE IF ~overlaps(r, s) THEN [acc EXCEPT !.out = Append(@, s)]
            ELSE [range |-> [r EXCEPT !.start = s.end],
                  out |-> IF r.end < s.end THEN Append(middle, tail) ELSE middle]

insert(data, r) ==
  LET w == Window(data, r.start, r.end)
      visited == FoldLeft(Visit, [range |-> r, out |-> <<>>], SubSeq(data, w.first, w.last))
      left == visited.range
  IN SubSeq(data, 1, w.first - 1)
       \o (IF left.end > left.start THEN Keep(visited.out, left) ELSE visited.out)
       \o SubSeq(data, w.last + 1, Len(data))

-----------------------------------------------------------------------------
(* FileLocks: t is the pair of vectors of the inode. *)

\* operator<: by start, then by end
Before(r, s) == r.start < s.start \/ (r.start = s.start /\ r.end < s.end)

enqueue(queue, r) ==
  InsertAt(queue, 1 + Cardinality({i \in DOMAIN queue : Before(queue[i], r)}), r)

apply(t, r, nonblocking) ==
  IF ~Collides(t.active, r) THEN [t EXCEPT !.active = insert(@, r)]
  ELSE IF nonblocking THEN t ELSE [t EXCEPT !.pending = enqueue(@, r)]

Candidates(t, start, end) ==
  LET w == Window(t.pending, start, end) IN SubSeq(t.pending, w.first, w.last)

\* gatherCandidates() takes them out of the queue.
WithoutCandidates(t, start, end) ==
  LET w == Window(t.pending, start, end)
  IN [t EXCEPT !.pending = SubSeq(@, 1, w.first - 1) \o SubSeq(@, w.last + 1, Len(@))]

removePending(t, gone) ==
  [t EXCEPT !.pending = SelectSeq(@, LAMBDA r : owner(r) \notin gone)]

\* Gather the candidates and apply those that fit; the others wait again.
RetryPending(t, start, end) ==
  FoldLeft(LAMBDA u, r : apply(u, r, FALSE), WithoutCandidates(t, start, end),
           Candidates(t, start, end))

\* unlock(inode, pred) for the owners of a session.
UnlockOwners(data, gone) ==
  SelectSeq([i \in DOMAIN data |-> [data[i] EXCEPT !.owners = @ \ gone]],
            LAMBDA r : r.owners # {})

\* store() writes a range once for each of its owners, load() inserts them.
StoreLoad(data) ==
  LET one(d, r) == FoldSet(LAMBDA o, e : insert(e, [r EXCEPT !.owners = {o}]), d, r.owners)
  IN FoldLeft(one, <<>>, data)

-----------------------------------------------------------------------------
(* The operations of the master. *)

t == [active |-> active, pending |-> pending]

Becomes(u) == active' = u.active /\ pending' = u.pending /\ table' = table

\* The ranges a request may name: flock() has one.
Ranges == IF table.type = "flock" THEN {<<0, 1>>}
          ELSE {<<start, end>> \in Bytes \X (1 .. table.bytes) : start < end}

\* A client asks for a lock: matoclserv_fuse_setlk(), matoclserv_fuse_flock().
\* An owner may have several requests that wait.
FaultyLockOperation(o, type, range, nonblocking) ==
  /\ nonblocking \/ Len(pending) < table.waiting
  /\ Becomes(apply(t, LockRange(type, range[1], range[2], o), nonblocking))

LockOperation(o, type, range, nonblocking) ==
  LET r == LockRange(type, range[1], range[2], o)
      asked == apply(t, r, nonblocking)
  IN /\ nonblocking \/ Len(pending) < table.waiting
     /\ Becomes(IF type = "exclusive" THEN asked
                ELSE RetryPending(asked, range[1], range[2]))

\* A client, or the administrator for it, gives a range up.
UnlockOperation(o, range) ==
  /\ Becomes(RetryPending(apply(t, LockRange("unlock", range[1], range[2], o), FALSE),
                          range[1], range[2]))

\* The client closes the file.
ReleaseOperation(o) ==
  /\ Becomes(RetryPending(apply(removePending(t, {o}), LockRange("unlock", 0, Size, o), FALSE),
                          0, Size))

\* A system call of the client is interrupted: locksRemovePending() of the request
\* that has its reqid.
RemovePending(i) == Becomes([t EXCEPT !.pending = RemoveAt(@, i)])

\* matocl_locks_release() for a session that has ended: locksClearSession()
LocksClearSession(session) ==
  LET left == removePending(t, session)
      freed == {i \in DOMAIN active : active[i].owners \cap session # {}}
      start == Min({active[i].start : i \in freed})
      end == Max({active[i].end : i \in freed})
      unlocked == [left EXCEPT !.active = UnlockOwners(@, session)]
  IN Becomes(IF freed = {} THEN left ELSE WithoutCandidates(unlocked, start, end))

\* The administrator removes the locks of the inode: locksUnlockInode()
LocksUnlockInode ==
  /\ active # <<>>
  /\ Becomes(RetryPending([t EXCEPT !.active = <<>>], 0, IF table.type = "flock" THEN 1 ELSE Size))

\* The master is stopped and started again with the metadata it has saved.
Restart ==
  /\ Becomes([t EXCEPT !.active = StoreLoad(@)])

Init ==
  /\ table \in Tables
  /\ active = <<>> /\ pending = <<>>

Next ==
  \/ \E o \in table.owners : \E range \in Ranges :
       \/ \E type \in {"shared", "exclusive"} : \E nonblocking \in BOOLEAN :
            LockOperation(o, type, range, nonblocking)
       \/ UnlockOperation(o, range)
  \/ \E o \in table.owners : ReleaseOperation(o)
  \/ \E i \in DOMAIN pending : RemovePending(i)
  \/ \E session \in Sessions : LocksClearSession(session)
  \/ LocksUnlockInode
  \/ Restart

Spec == Init /\ [][Next]_vars

-----------------------------------------------------------------------------
(* Properties. *)

RangeType ==
  [type : {"shared", "exclusive"}, start : Bytes, end : 1 .. Size, owners : SUBSET Owners \ {{}}]

\* The fields of active and pending ranges have their types, and no range that
\* LockRanges::insert() should have erased (unlocked, without owners) is left.
TypeOK ==
  /\ table \in Tables
  /\ \A i \in DOMAIN active : active[i] \in RangeType
  /\ \A i \in DOMAIN pending : pending[i] \in RangeType /\ Cardinality(pending[i].owners) = 1

\* The binary searches of findCollision(), insert() and gatherCandidates() are
\* right only on vectors in order: active ranges are not empty, in order and
\* disjoint, an exclusive one has one owner, and pending requests are in order.
VectorsInOrder ==
  /\ \A i \in DOMAIN active :
       /\ active[i].start < active[i].end
       /\ active[i].type = "exclusive" => Cardinality(active[i].owners) = 1
       /\ \A j \in 1 .. i - 1 : active[j].end <= active[i].start
  /\ \A i \in DOMAIN pending : \A j \in 1 .. i - 1 : ~Before(pending[i], pending[j])

Held ==
  [b \in Bytes |->
     LET here == SelectSeq(active, LAMBDA r : r.start <= b /\ b < r.end)
     IN [o \in Owners |->
           IF here # <<>> /\ o \in here[1].owners THEN here[1].type ELSE "unlock"]]

Request(r) == [owner |-> owner(r), type |-> r.type, start |-> r.start, end |-> r.end]

\* The bag of the requests that wait.
Waiting ==
  [q \in {Request(r) : r \in ToSet(pending)} |->
     Cardinality({i \in DOMAIN pending : Request(pending[i]) = q})]

Gone == BagToSet(Waiting (-) Waiting')

\* Whoever waits for a flock lock has to wait: whenever a lock is given up or
\* turned into a shared one, lockOperation() and manageLockTryLockPending() grant
\* every request that now fits.  One case is not covered by their single pass over
\* the queue: an exclusive and a shared request of one owner are both granted in
\* it, and a shared request of another owner between them is left behind.
WaiterHasToWait ==
  [][(\A i \in DOMAIN pending : Collides(active, pending[i])) /\ table.type = "flock" =>
       \/ \A i \in DOMAIN pending' : Collides(active', pending'[i])
       \/ \E r, s \in Gone : r.owner = s.owner /\ r.type # s.type]_vars

\* "Candidates are not guaranteed to be suitable for insertion [...] so they need
\* to be reinserted after checking if they can be applied" (locks.h): a request
\* that leaves the queue, and whose client is told so, was given its lock (which
\* another request of its owner, served with it, may have changed).  The client is
\* not told when it withdrew the request itself.
WokenHoldsLock ==
  [][\A r \in Gone :
       \/ \E i \in DOMAIN pending : owner(pending[i]) = r.owner /\ RemovePending(i)
       \/ ReleaseOperation(r.owner)
       \/ \E session \in Sessions : r.owner \in session /\ LocksClearSession(session)
       \/ \A b \in r.start .. r.end - 1 :
            \E s \in Gone : /\ s.owner = r.owner /\ s.start <= b /\ b < s.end
                           /\ Held'[b][r.owner] = s.type]_vars

\* gatherCandidates() returns "a list of locks from pending queue that might be
\* available after removing a lock from range [start, end)" (locks.h): no request
\* is left waiting for a lock that fits.
NoWaiterFits == \A i \in DOMAIN pending : Collides(active, pending[i])

B == INSTANCE ByteLocks WITH held <- Held, waiting <- Waiting

\* The ranges with their owners implement a table of bytes.
ImplementsByteLocks == B!Spec
=============================================================================
