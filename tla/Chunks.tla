------------------------------- MODULE Chunks -------------------------------
(***************************************************************************)
(* The chunk manager of the master (src/src/master/chunks.cc) and the      *)
(* chunkservers that store the parts of one chunk.                         *)
(*                                                                         *)
(* The master keeps one Chunk object; a function of the chunk manager is   *)
(* an operator from the master's state to the master's next state, and an  *)
(* action composes these operators in the order the handler calls them.    *)
(* A chunkserver receives the requests of the master in order, runs them   *)
(* on a pool of worker threads (so in any order) and keeps the write lock  *)
(* of its part.  Clients ask the master for a write, send the data to the  *)
(* servers they were given and release the chunk.                          *)
(***************************************************************************)
EXTENDS Integers, Sequences, FiniteSets, FiniteSetsExt

CONSTANTS
  Servers,       \* the chunkservers; each stores at most one part
  LockIds,       \* the random lock ids; one is never drawn twice
  Setups,        \* the set-ups to consider
  MaxVersion     \* bound: chunk version

\* A set-up is a record of
\*   servers     the servers there are
\*   needed      parts needed to read the chunk (1: copies, k: EC(k,m))
\*   goal        parts the goal of the file asks for
\*   useLock     USE_CHUNKSERVER_SIDE_CHUNK_LOCK
\*   maxFaults   bound: connections lost, failed disk operations, ...
\*   faultKinds  the faults that may happen
\*   uses        what else goes on: "truncate", "share", "delete" (of files),
\*               "leave" (clients go away), "slow" (a client may outlive its
\*               lock), "worker" (the chunk loop runs)
ASSUME ChunksAssumption ==
  /\ IsFiniteSet(Servers) /\ Servers # {}
  /\ MaxVersion \in Nat \ {0}
  /\ \A setup \in Setups :
       /\ setup.servers \subseteq Servers
       /\ setup.needed \in 1 .. Cardinality(setup.servers)
       /\ setup.goal \in setup.needed .. Cardinality(setup.servers)
       /\ setup.useLock \in BOOLEAN
       /\ setup.maxFaults \in Nat

VARIABLES
  m,      \* the master: its Chunk object, what it sent, what it promised
  conn,   \* is the chunkserver connected to the master?
  toMa,   \* packets on their way from a chunkserver to the master
  cs,     \* the chunkservers: the part on disk, its lock, the job pool
  faults, \* faults so far
  use     \* one of the set-ups

vars == <<m, conn, toMa, cs, faults, use>>

-----------------------------------------------------------------------------
(* The Chunk object. *)

NoPart == [state |-> "none", version |-> 0, beingWritten |-> FALSE]

\* The lock id 0: a truncation locks the chunk without one.
NoLock == "nolock"

\* No operation of a client is waiting for the chunkservers' replies.
Nobody == [kind |-> "none", by |-> NoLock, known |-> FALSE]

\* What a client holds of the chunk: nothing, or the lock and the locations.
NoGrant == [held |-> FALSE, version |-> 0, servers |-> {}, done |-> {}]
JustLock == [NoGrant EXCEPT !.held = TRUE]

is_valid(p) == p.state \in {"VALID", "BUSY"}
is_busy(p) == p.state = "BUSY"

ValidParts(c) == {s \in Servers : is_valid(c.parts[s])}
BusyParts(c) == {s \in Servers : is_busy(c.parts[s])}
WrittenParts(c) == {s \in Servers : c.parts[s].beingWritten}

isLost(c) == Cardinality(ValidParts(c)) < use.needed

isLocked(c) ==
  \/ c.lockedto = "future"
  \/ c.lockedto = "zero" /\ ValidParts(c) \cap WrittenParts(c) # {}

invalidateCopy(c, s) ==
  [c EXCEPT !.parts[s] = [state |-> "INVALID", version |-> 0, beingWritten |-> FALSE]]

\* requests[s] goes to the server s.
SendTo(c, requests) ==
  [c EXCEPT !.toCs = [s \in Servers |-> IF s \in DOMAIN requests THEN Append(@[s], requests[s])
                                        ELSE @[s]]]

-----------------------------------------------------------------------------
(* Operations the master runs on the parts. *)

\* Mutant: the servers are told the next version, the chunk keeps its own.
FaultyIncreaseVersion(c, needsLocking) ==
  LET sent == SendTo(c, [s \in ValidParts(c) |->
                       [op |-> "SETVERSION", from |-> c.version,
                        to |-> c.version + 1, lock |-> FALSE]])
  IN [sent EXCEPT
        !.parts = [s \in Servers |-> IF s \in ValidParts(c) THEN [@[s] EXCEPT !.state = "BUSY"]
                                     ELSE @[s]],
        !.interrupted = FALSE, !.operation = "SET_VERSION"]

\* Every valid part becomes BUSY with the next version, whatever it was doing.
chunk_increase_version_operation(c, needsLocking) ==
  LET Locks(s) == needsLocking /\ use.useLock /\ ~c.parts[s].beingWritten
      sent == SendTo(c, [s \in ValidParts(c) |->
                       [op |-> "SETVERSION", from |-> c.version,
                        to |-> c.version + 1, lock |-> Locks(s)]])
  IN [sent EXCEPT
        !.parts = [s \in Servers |->
                     IF s \in ValidParts(c)
                     THEN [state |-> "BUSY", version |-> c.version + 1,
                           beingWritten |-> c.parts[s].beingWritten \/ Locks(s)]
                     ELSE c.parts[s]],
        !.interrupted = FALSE, !.operation = "SET_VERSION", !.version = @ + 1]

\* The changelog entry INCVERSION makes the replaying servers follow.
chunk_emergency_increase_version(c) ==
  [chunk_increase_version_operation(c, FALSE) EXCEPT !.replayed = @ + 1]

chunk_lock_operation(c) ==
  LET locked == IF use.useLock
                THEN {s \in ValidParts(c) : ~is_busy(c.parts[s]) /\ ~c.parts[s].beingWritten}
                ELSE {}
      sent == SendTo(c, [s \in locked |-> [op |-> "LOCK"]])
  IN [sent EXCEPT
        !.parts = [s \in Servers |->
                     IF s \in locked
                     THEN [c.parts[s] EXCEPT !.state = "BUSY", !.beingWritten = TRUE]
                     ELSE c.parts[s]],
        !.interrupted = FALSE,
        !.operation = IF locked # {} THEN "LOCK" ELSE "NONE"]

chunk_truncate_operation(c, l) ==
  LET sent == SendTo(c, [s \in ValidParts(c) |->
                       [op |-> "TRUNCATE", from |-> c.version,
                        to |-> c.version + 1, by |-> l]])
  IN [sent EXCEPT
        !.parts = [s \in Servers |->
                     IF s \in ValidParts(c)
                     THEN [c.parts[s] EXCEPT !.state = "BUSY", !.version = c.version + 1]
                     ELSE c.parts[s]],
        !.interrupted = FALSE, !.operation = "TRUNCATE", !.version = @ + 1]

\* A chunk is born with its parts BUSY on the servers T: a new chunk, the copy
\* of a chunk that several files share, or a truncated copy of it.
birth(operation, T, l) ==
  LET locks == use.useLock /\ operation # "DUPTRUNC"
      c == [version |-> 1, operation |-> operation, interrupted |-> FALSE,
            needVersionIncrease |-> TRUE, lockedto |-> "future",
            lockid |-> IF operation = "DUPTRUNC" THEN NoLock ELSE l,
            fileCount |-> 1,
            parts |-> [s \in Servers |->
                         IF s \in T THEN [state |-> "BUSY", version |-> 1,
                                          beingWritten |-> locks]
                         ELSE NoPart],
            delayed |-> [kind |-> IF operation = "DUPTRUNC" THEN "truncate" ELSE "write",
                         by |-> l, known |-> FALSE],
            toCs |-> [s \in Servers |-> <<>>],
            grant |-> [k \in LockIds |-> NoGrant], used |-> {l},
            acked |-> {}, replayed |-> 1]
  IN SendTo(c, [s \in T |-> [op |-> "CREATE", lock |-> locks,
                             by |-> IF operation = "DUPTRUNC" THEN {l} ELSE {}]])

-----------------------------------------------------------------------------
(* The answer to the client whose operation was waiting. *)

chunk_unlock(c) == [c EXCEPT !.lockedto = "zero"]

\* The locations a client is given are the valid parts, busy or not.
respond(c, l) ==
  [c EXCEPT !.grant[l] = [held |-> TRUE, version |-> c.version,
                          servers |-> ValidParts(c), done |-> {}]]

\* A failed write is unlocked; the client keeps its lock id unless the error is
\* one it cannot recover from, and a failed creation takes the chunk out of the
\* file.
matoclserv_chunk_status(c, status) ==
  LET d == c.delayed
      answered == [c EXCEPT !.delayed = Nobody]
      failed == [answered EXCEPT
                   !.grant[d.by] = IF status = "CHUNKLOST" /\ d.known THEN JustLock ELSE NoGrant,
                   !.fileCount = IF c.operation = "CREATE" /\ @ > 0 THEN @ - 1 ELSE @]
  IN CASE d.kind = "none" -> c
       [] d.kind = "write" /\ status = "OK" -> respond(answered, d.by)
       [] d.kind = "write" /\ status # "OK" -> chunk_unlock(failed)
       [] d.kind = "truncate" /\ status = "OK" ->
            chunk_unlock([answered EXCEPT !.acked = @ \cup {d.by}])
       [] OTHER -> chunk_unlock(answered)   \* a failed truncation

-----------------------------------------------------------------------------
(* What the master does when replies arrive or servers disappear. *)

\* Mutant: nobody is told.
FaultySilentFailure(c) == [c EXCEPT !.operation = "NONE"]

\* Mutant: the servers are unlocked, and the chunk still takes the parts for
\* being written.
FaultyStillWritten(c) ==
  LET told == matoclserv_chunk_status(c, "NOTDONE")
      unlocked == {s \in WrittenParts(told) : told.parts[s].state = "VALID"}
  IN [SendTo(told, [s \in unlocked |-> [op |-> "UNLOCK"]]) EXCEPT !.operation = "NONE"]
                                        
chunk_finalize_failed_operation(c) ==
  LET told == matoclserv_chunk_status(c, IF c.operation \in {"CREATE", "LOCK"}
                                         THEN "CHUNKLOST" ELSE "NOTDONE")
      unlocked == {s \in WrittenParts(told) : told.parts[s].state = "VALID"}
      sent == SendTo(told, [s \in unlocked |-> [op |-> "UNLOCK"]])
  IN [sent EXCEPT
        !.operation = "NONE",
        !.parts = [s \in Servers |->
                     IF s \in unlocked THEN [@[s] EXCEPT !.beingWritten = FALSE] ELSE @[s]]]

\* Mutant: the loss of a part is not remembered.
FaultyForgetLoss(c) ==
  LET gone == {s \in Servers : c.parts[s] # NoPart /\ ~conn[s]}
      d == [c EXCEPT !.parts = [s \in Servers |-> IF s \in gone THEN NoPart ELSE @[s]]]
  IN IF gone = {} THEN c
     ELSE IF d.operation # "NONE" /\ BusyParts(d) = {}
     THEN IF isLost(d) THEN chunk_finalize_failed_operation(d)
          ELSE chunk_emergency_increase_version(d)
     ELSE d

\* Mutant: an operation is always left to the remaining answers.
FaultyKeepWaiting(c) ==
  LET gone == {s \in Servers : c.parts[s] # NoPart /\ ~conn[s]}
  IN IF gone = {} THEN c
     ELSE [c EXCEPT !.parts = [s \in Servers |-> IF s \in gone THEN NoPart ELSE @[s]],
                    !.needVersionIncrease = TRUE, !.interrupted = TRUE]

chunk_handle_disconnected_copies(c) ==
  LET gone == {s \in Servers : c.parts[s] # NoPart /\ ~conn[s]}
      writtenGone == gone \cap WrittenParts(c) # {}
      d == [c EXCEPT
              !.parts = [s \in Servers |-> IF s \in gone THEN NoPart ELSE @[s]],
              !.needVersionIncrease = TRUE,
              !.interrupted = @ \/ writtenGone]
  IN IF gone = {} THEN c
     ELSE IF d.operation # "NONE"
     THEN IF BusyParts(d) # {} THEN [d EXCEPT !.interrupted = TRUE]
          ELSE IF ~isLost(d) THEN chunk_emergency_increase_version(d)
          ELSE chunk_finalize_failed_operation(d)
     ELSE IF writtenGone /\ WrittenParts(d) = {} /\ ~isLost(d)
     THEN chunk_emergency_increase_version(d)
     ELSE d

\* Every handler looks the chunk up first, and the lookup drops the parts of
\* the servers that are gone.
chunk_find(c) == chunk_handle_disconnected_copies(c)

\* Mutant: a failed operation leaves the part valid.
FaultyOperationStatus(c, s, ok) ==
  LET d == IF is_busy(c.parts[s]) THEN [c EXCEPT !.parts[s].state = "VALID"] ELSE c
  IN IF BusyParts(d) # {} THEN d
     ELSE [matoclserv_chunk_status(d, "OK") EXCEPT
             !.operation = "NONE", !.needVersionIncrease = FALSE]

chunk_operation_status(c, s, ok) ==
  LET p == c.parts[s]
      d == IF p = NoPart THEN c
           ELSE IF ~ok THEN [invalidateCopy(c, s) EXCEPT !.interrupted = TRUE]
           ELSE IF is_busy(p) THEN [c EXCEPT !.parts[s].state = "VALID"]
           ELSE c
  IN IF BusyParts(d) # {} THEN d
     ELSE IF isLost(d) THEN chunk_finalize_failed_operation(d)
     ELSE IF d.interrupted THEN chunk_emergency_increase_version(d)
     ELSE [matoclserv_chunk_status(d, "OK") EXCEPT
             !.operation = "NONE", !.needVersionIncrease = FALSE]

\* Mutant: a failed write counts as finished.
FaultyWriteEnd(c, s, ok) == [c EXCEPT !.parts[s].beingWritten = FALSE]

chunk_write_end_status(c, s, ok) ==
  LET p == c.parts[s]
      d == IF p = NoPart THEN c
           ELSE IF ~ok THEN [invalidateCopy(c, s) EXCEPT !.interrupted = TRUE]
           ELSE [c EXCEPT !.parts[s].beingWritten = FALSE]
  IN IF WrittenParts(d) = {} /\ d.interrupted /\ ~isLost(d)
     THEN chunk_emergency_increase_version(d)
     ELSE d

chunk_server_has_chunk(c, s, version) ==
  LET p == c.parts[s]
      state == IF version = c.version THEN "VALID" ELSE "INVALID"
  IN CASE p = NoPart -> [c EXCEPT !.parts[s] = [state |-> state, version |-> version,
                                               beingWritten |-> FALSE]]
       [] p.state = "DEL" -> invalidateCopy(c, s)
       [] p.state = "INVALID" -> c
       [] OTHER -> [c EXCEPT !.parts[s].version = version,
                             !.parts[s].state = IF version = c.version THEN @ ELSE "INVALID"]

chunk_damaged(c, s) ==
  [invalidateCopy(c, s) EXCEPT !.needVersionIncrease = TRUE]

chunk_lost(c, s) ==
  IF c.parts[s] = NoPart THEN c
  ELSE [c EXCEPT !.parts[s] = NoPart, !.needVersionIncrease = TRUE]

chunk_got_delete_status(c, s) == [c EXCEPT !.parts[s] = NoPart]

chunk_got_replicate_status(c, s, version, ok) ==
  LET p == c.parts[s]
  IN CASE ~ok -> c
       [] ok /\ p = NoPart ->
            [c EXCEPT !.parts[s] =
               [state |-> IF isLocked(c) \/ version # c.version THEN "INVALID" ELSE "VALID",
                version |-> version, beingWritten |-> FALSE]]
       [] ok /\ p.state = "VALID" /\ version # c.version ->
            [c EXCEPT !.parts[s].state = "INVALID", !.parts[s].version = version]
       [] OTHER -> c

-----------------------------------------------------------------------------
(* Requests of clients. *)

\* Every step of the master that increases the version respects the bound.
MasterBecomes(c) == c.version <= MaxVersion /\ m' = c

\* The client l has the chunk and no request of its own under way.
Holds(l) == m.grant[l].held /\ m.delayed.by # l

\* The checks of chunk_modify before anything changes; lock = 0 in the code is
\* a client that does not know a lock id (~known).
Refusal(c, l, known) ==
  IF known /\ l # c.lockid THEN "WRONGLOCKID"
  ELSE IF ~known /\ isLocked(c) THEN "LOCKED"
  ELSE IF isLost(c) \/ c.fileCount = 0 THEN "CHUNKLOST"
  ELSE IF c.fileCount = 1 /\ c.operation # "NONE" THEN "CHUNKBUSY"
  ELSE "OK"

\* Mutant: every operation is taken to change the version.
FaultyShouldIncrease(operation) == operation # "NONE"

should_increase_chunk_version_on_modification(operation) ==
  operation \in {"CREATE", "SET_VERSION", "TRUNCATE"}

\* What the changelog entry WRITE or TRUNC makes of the version where it is
\* replayed.
chunk_apply_modification(version, increase) == IF increase THEN version + 1 ELSE version

chunk_modify(c, l, known) ==
  LET started == IF c.needVersionIncrease THEN chunk_increase_version_operation(c, TRUE)
                 ELSE chunk_lock_operation(c)
      locked == [started EXCEPT
                   !.lockedto = "future", !.lockid = l, !.used = @ \cup {l},
                   !.replayed = chunk_apply_modification(@,
                      should_increase_chunk_version_on_modification(started.operation))]
  IN IF locked.operation = "NONE" THEN respond(locked, l)
     ELSE [locked EXCEPT !.delayed = [kind |-> "write", by |-> l, known |-> known]]

\* FUSE_WRITE_CHUNK: a client asks for the chunk, with the lock id it holds (a
\* retry after an error) or without one.  A chunk that several files share is
\* left alone; the write goes to a copy of it.
WriteRequest(l, known) ==
  /\ IF known THEN Holds(l) ELSE l \notin m.used
  /\ LET c == chunk_find(m)
         asked == IF known THEN [c EXCEPT !.grant[l] = JustLock] ELSE c
         refusal == Refusal(asked, l, known)
     IN MasterBecomes(
          CASE refusal = "WRONGLOCKID" -> [asked EXCEPT !.grant[l] = NoGrant]
            [] refusal \in {"LOCKED", "CHUNKLOST", "CHUNKBUSY"} -> asked
            [] refusal = "OK" /\ c.fileCount = 1 -> chunk_modify(asked, l, known)
            [] OTHER -> [asked EXCEPT !.fileCount = @ - 1, !.grant[l] = NoGrant])
  /\ UNCHANGED <<conn, toMa, cs, faults>>

\* FUSE_TRUNCATE of a file whose last chunk this is.
TruncateRequest(l) ==
  /\ "truncate" \in use.uses /\ l \notin m.used
  /\ LET c == chunk_find(m)
     IN MasterBecomes(
          IF isLost(c) \/ isLocked(c) \/ c.fileCount # 1 \/ c.operation # "NONE"
          THEN [c EXCEPT !.fileCount = IF ~isLost(c) /\ ~isLocked(c) /\ @ > 1 THEN @ - 1 ELSE @]
          ELSE [chunk_truncate_operation(c, l) EXCEPT
                  !.lockedto = "future", !.lockid = NoLock, !.used = @ \cup {l},
                  !.delayed = [kind |-> "truncate", by |-> l, known |-> FALSE],
                  !.replayed = chunk_apply_modification(@, TRUE)])
  /\ UNCHANGED <<conn, toMa, cs, faults>>

\* FUSE_WRITE_CHUNK_END: the client has finished or has given up.
WriteEnd(l) ==
  /\ Holds(l)
  /\ LET c == [chunk_find(m) EXCEPT !.grant[l] = NoGrant]
     IN MasterBecomes(IF c.lockid = l THEN chunk_unlock(c) ELSE c)
  /\ UNCHANGED <<conn, toMa, cs, faults>>

\* A client whose operation is waiting disconnects; only a truncation is
\* unlocked.
matocl_before_disconnect ==
  /\ "leave" \in use.uses /\ m.delayed.kind # "none"
  /\ LET c == chunk_find(m)
         dropped == [c EXCEPT !.delayed = Nobody]
     IN MasterBecomes(IF c.delayed.kind = "truncate" THEN chunk_unlock(dropped) ELSE dropped)
  /\ UNCHANGED <<conn, toMa, cs, faults>>

\* A client that holds the chunk goes away for good.
ClientCrash(l) ==
  /\ "leave" \in use.uses /\ Holds(l)
  /\ m' = [m EXCEPT !.grant[l] = NoGrant]
  /\ UNCHANGED <<conn, toMa, cs, faults>>

\* LOCKTIMEOUT seconds have passed: the client has gone, unless it is slow.
LockExpires ==
  /\ m.lockedto = "future"
  /\ "slow" \notin use.uses => /\ m.delayed = Nobody
                           /\ \A l \in LockIds : m.lockid = l => ~m.grant[l].held
  /\ m' = [m EXCEPT !.lockedto = "past"]
  /\ UNCHANGED <<conn, toMa, cs, faults>>

\* A snapshot shares the chunk, the removal of a file gives it back.
chunk_add_file ==
  /\ "share" \in use.uses
  /\ LET c == chunk_find(m)
     IN c.fileCount = 1 /\ MasterBecomes([c EXCEPT !.fileCount = 2])
  /\ UNCHANGED <<conn, toMa, cs, faults>>

\* Mutant: files that do not use the chunk are counted off.
FaultyDeleteFile ==
  /\ "delete" \in use.uses
  /\ MasterBecomes([chunk_find(m) EXCEPT !.fileCount = @ - 1])
  /\ UNCHANGED <<conn, toMa, cs, faults>>

chunk_delete_file ==
  /\ "delete" \in use.uses
  /\ LET c == chunk_find(m)
     IN c.fileCount > 0 /\ MasterBecomes([c EXCEPT !.fileCount = @ - 1])
  /\ UNCHANGED <<conn, toMa, cs, faults>>

-----------------------------------------------------------------------------
(* The chunk loop of the master. *)

deleteInvalidChunkParts(c, able) ==
  LET victims == {s \in able : c.parts[s].state \in {"INVALID", "DEL"}}
      sent == SendTo(c, [s \in victims |-> [op |-> "DELETE", version |-> 0]])
  IN [sent EXCEPT !.parts = [s \in Servers |->
        IF s \in victims THEN [@[s] EXCEPT !.state = "DEL"] ELSE @[s]]]

\* Mutant: a chunk above its goal loses all its parts.
FaultyDeleteParts(c, victims, version) ==
  LET sent == SendTo(c, [s \in ValidParts(c) |-> [op |-> "DELETE", version |-> version]])
  IN [sent EXCEPT
        !.parts = [s \in Servers |->
                     IF s \in ValidParts(c) THEN [@[s] EXCEPT !.state = "DEL"] ELSE @[s]],
        !.needVersionIncrease = TRUE]

\* Unused chunks lose all their parts, a chunk above its goal one of them.
deleteParts(c, victims, version) ==
  LET sent == SendTo(c, [s \in victims |-> [op |-> "DELETE", version |-> version]])
  IN [sent EXCEPT
        !.parts = [s \in Servers |->
                     IF s \in victims THEN [@[s] EXCEPT !.state = "DEL"] ELSE @[s]],
        !.needVersionIncrease = @ \/ victims # {}]

tryReplication(c, s) ==
  LET sources == {x \in ValidParts(c) : ~is_busy(c.parts[x])}
      sent == SendTo(c, [x \in {s} |-> [op |-> "REPLICATE", version |-> c.version,
                                        sources |-> sources]])
  IN IF Cardinality(sources) < use.needed THEN c
     ELSE [sent EXCEPT !.needVersionIncrease = TRUE]

\* The loop comes back to a chunk after minutes: what it asked for the last time
\* has been done.
LastRoundDone ==
  LET Asked(msg) == msg.op \in {"DELETE", "REPLICATE"}
  IN \A s \in Servers :
       /\ \A i \in DOMAIN m.toCs[s] : ~Asked(m.toCs[s][i])
       /\ \A i \in DOMAIN cs[s].jobs : ~Asked(cs[s].jobs[i].msg)
       /\ \A i \in DOMAIN toMa[s] : toMa[s][i].type \notin {"DELETED", "REPLICATED"}

\* able: the servers below their limit of deletions.  A missing part is
\* recovered, a spare one removed, and otherwise a part may be moved to balance
\* the servers.
doChunkJobs ==
  /\ "worker" \in use.uses /\ LastRoundDone
  /\ \E able \in SUBSET {s \in Servers : m.parts[s] # NoPart} :
       LET c == chunk_find(m)
           d == deleteInvalidChunkParts(c, able)
           invalid == {s \in Servers : c.parts[s].state \in {"INVALID", "DEL"}}
           free == {s \in Servers : conn[s] /\ d.parts[s] = NoPart}
           valid == ValidParts(d)
       IN IF isLost(c) /\ invalid # {} /\ c.fileCount > 0 THEN MasterBecomes(c)
          ELSE IF d.operation # "NONE" \/ isLocked(d) \/ BusyParts(d) # {} THEN MasterBecomes(d)
          ELSE IF d.fileCount = 0 THEN MasterBecomes(deleteParts(d, valid \cap able, d.version))
          ELSE \/ isLost(d) /\ MasterBecomes(d)
               \/ /\ ~isLost(d) /\ Cardinality(valid) > use.goal
                  /\ \E s \in valid \cap able : MasterBecomes(deleteParts(d, {s}, 0))
               \/ /\ ~isLost(d) /\ Cardinality(valid) <= use.goal
                  /\ \E s \in free : MasterBecomes(tryReplication(d, s))
  /\ UNCHANGED <<conn, toMa, cs, faults>>

\* The scan for the parts of disconnected servers reaches the chunk.
chunk_clean_zombie_servers_a_bit ==
  /\ chunk_find(m) # m
  /\ MasterBecomes(chunk_find(m))
  /\ UNCHANGED <<conn, toMa, cs, faults>>

-----------------------------------------------------------------------------
(* The chunkserver. *)

NewServer == [version |-> 0, data |-> {}, lock |-> "free", wanted |-> TRUE,
              error |-> FALSE, writers |-> {}, jobs |-> <<>>]

startChunkLock(k) ==
  IF k.lock # "free" THEN k
  ELSE [k EXCEPT !.lock = "locked", !.wanted = TRUE, !.error = FALSE, !.writers = {}]

\* The jobs that waited for the end of the write join the queue.
releaseChunkLockEntry(k) ==
  [k EXCEPT !.lock = "free", !.wanted = TRUE, !.error = FALSE, !.writers = {},
            !.jobs = [i \in DOMAIN @ |-> [@[i] EXCEPT !.deferred = FALSE]]]

Tell(s, packet) ==
  toMa' = IF conn[s] THEN [toMa EXCEPT ![s] = Append(@, packet)] ELSE toMa

\* A request is executed (LOCK, UNLOCK) or becomes a job, which is deferred if
\* a client is writing.
CsReceive(s) ==
  /\ conn[s] /\ m.toCs[s] # <<>>
  /\ m' = [m EXCEPT !.toCs[s] = Tail(@)]
  /\ LET msg == Head(m.toCs[s])
         job == [msg |-> msg, wanted |-> TRUE,
                 deferred |-> /\ cs[s].lock = "writing"
                              /\ msg.op \in {"SETVERSION", "TRUNCATE", "DELETE"}]
     IN CASE msg.op = "LOCK" -> /\ cs' = [cs EXCEPT ![s] = startChunkLock(@)]
                                /\ Tell(s, [type |-> "STATUS", ok |-> TRUE])
          [] msg.op = "UNLOCK" -> /\ cs' = [cs EXCEPT ![s] = releaseChunkLockEntry(@)]
                                  /\ UNCHANGED toMa
          [] OTHER -> /\ cs' = [cs EXCEPT ![s].jobs = Append(@, job)]
                      /\ UNCHANGED toMa
  /\ UNCHANGED <<conn, faults>>

\* What a job does to the part on disk: the possible results.
Effects(k, msg) ==
  LET Success(v, data) == [k |-> [k EXCEPT !.version = v, !.data = data], ok |-> TRUE]
      Failure == [k |-> k, ok |-> FALSE]
  IN CASE msg.op \in {"SETVERSION", "TRUNCATE"} ->
            IF k.version # msg.from THEN {Failure}
            ELSE {Success(msg.to, IF msg.op = "TRUNCATE" THEN k.data \cup {msg.by} ELSE k.data)}
       [] msg.op = "CREATE" -> IF k.version # 0 THEN {Failure} ELSE {Success(1, msg.by)}
       [] msg.op \in {"DELETE", "PURGE"} ->
            IF k.version = 0 \/ msg.version \notin {0, k.version} THEN {Failure}
            ELSE {Success(0, {})}
       [] msg.op = "REPLICATE" ->
            LET readable == {x \in msg.sources : cs[x].version = msg.version}
            IN IF k.version # 0 \/ Cardinality(readable) < use.needed THEN {Failure}
               ELSE {Success(msg.version, {l \in LockIds : \A x \in S : l \in cs[x].data}) :
                       S \in kSubset(use.needed, readable)}

\* A disk error: a file that is renamed before the error has the new version.
FailedEffects(k, msg) ==
  {[k |-> k, ok |-> FALSE]} \cup
  (IF msg.op \in {"SETVERSION", "TRUNCATE"} /\ k.version = msg.from
   THEN {[k |-> [k EXCEPT !.version = msg.to], ok |-> FALSE]} ELSE {})

Reply(msg, ok) ==
  CASE msg.op = "DELETE" -> [type |-> "DELETED"]
    [] msg.op = "REPLICATE" -> [type |-> "REPLICATED", version |-> msg.version, ok |-> ok]
    [] OTHER -> [type |-> "STATUS", ok |-> ok]

Fault(kind) == kind \in use.faultKinds /\ faults < use.maxFaults /\ faults' = faults + 1

\* A sequence without its entry i.
RemoveAt(q, i) == SubSeq(q, 1, i - 1) \o SubSeq(q, i + 1, Len(q))

\* A worker runs a job and the callback answers the master, unless the job was
\* requested on a connection that is gone.
CsExecute(s) ==
  \E i \in DOMAIN cs[s].jobs :
    LET job == cs[s].jobs[i]
        k == [cs[s] EXCEPT !.jobs = RemoveAt(@, i)]
        Finish(r) ==
          /\ cs' = [cs EXCEPT ![s] =
                      IF r.ok /\ job.wanted /\ job.msg.op \in {"CREATE", "SETVERSION"} /\ job.msg.lock
                      THEN startChunkLock(r.k) ELSE r.k]
          /\ IF job.msg.op = "PURGE" /\ r.ok THEN Tell(s, [type |-> "LOST"])
             ELSE IF job.wanted /\ job.msg.op # "PURGE" THEN Tell(s, Reply(job.msg, r.ok))
             ELSE UNCHANGED toMa
    IN /\ ~job.deferred
       /\ \/ \E r \in Effects(k, job.msg) : Finish(r) /\ UNCHANGED faults
          \/ \E r \in FailedEffects(k, job.msg) : Finish(r) /\ Fault("io")
       /\ UNCHANGED <<m, conn>>

-----------------------------------------------------------------------------
(* A client writes to the servers it was given. *)

\* The data of the write l reaches the part on s; the write is acknowledged
\* when it has reached all the parts.  "open": the client has only announced
\* the write.  "untold": the server said OK and failed to store the data.
WriteData(l, s, outcome) ==
  LET g == m.grant[l]
      opened == [cs[s] EXCEPT !.lock = IF @ = "free" THEN @ ELSE "writing",
                              !.writers = IF cs[s].lock = "free" THEN @ ELSE @ \cup {l}]
      done == g.done \cup {s}
      landed == [m EXCEPT !.grant[l].done = done,
                          !.acked = IF done = g.servers THEN @ \cup {l} ELSE @]
  IN /\ s \in g.servers \ g.done /\ cs[s].version = g.version
     /\ \/ /\ outcome = "open" /\ cs[s].lock = "locked"
           /\ cs' = [cs EXCEPT ![s] = opened] /\ UNCHANGED <<m, faults>>
        \/ /\ outcome = "ok" /\ m' = landed
           /\ cs' = [cs EXCEPT ![s] = [opened EXCEPT !.data = @ \cup {l}]] /\ UNCHANGED faults
        \/ /\ outcome = "untold" /\ cs[s].lock # "free" /\ m' = landed
           /\ cs' = [cs EXCEPT ![s] = [opened EXCEPT !.error = TRUE]] /\ Fault("write")
     /\ UNCHANGED <<conn, toMa>>

\* The last write operation on the part is closed: the lock ends and its job
\* reports the status to the master.  A lock that outlived its connection
\* reports nothing, and deletes a part with an error.
endChunkLock(s) ==
  /\ cs[s].lock = "writing"
  /\ LET k == releaseChunkLockEntry(cs[s])
         purge == [msg |-> [op |-> "PURGE", version |-> 0], wanted |-> FALSE, deferred |-> FALSE]
     IN \/ /\ cs[s].wanted
           /\ cs' = [cs EXCEPT ![s] = k]
           /\ Tell(s, [type |-> "WRITEEND", ok |-> ~cs[s].error])
        \/ /\ ~cs[s].wanted \/ ~conn[s]
           /\ cs' = [cs EXCEPT ![s] = IF cs[s].error THEN [k EXCEPT !.jobs = Append(@, purge)] ELSE k]
           /\ UNCHANGED toMa
  /\ m' = [m EXCEPT !.grant = [l \in LockIds |->
             IF l \in cs[s].writers /\ s \in @[l].servers /\ @[l].done # @[l].servers
             THEN JustLock ELSE @[l]]]
  /\ UNCHANGED <<conn, faults>>

-----------------------------------------------------------------------------
(* Connections and disks. *)

\* The connection breaks: packets in both directions are lost.
Disconnect(s) ==
  /\ conn[s] /\ Fault("disconnect")
  /\ conn' = [conn EXCEPT ![s] = FALSE]
  /\ toMa' = [toMa EXCEPT ![s] = <<>>]
  /\ m' = [m EXCEPT !.toCs[s] = <<>>]
  /\ UNCHANGED cs

Register(s, k) ==
  /\ s \in use.servers /\ ~conn[s]
  /\ "fast" \notin use.faultKinds => m.parts[s] = NoPart
  /\ conn' = [conn EXCEPT ![s] = TRUE]
  /\ cs' = [cs EXCEPT ![s] = k]
  /\ toMa' = [toMa EXCEPT ![s] = IF k.version = 0 THEN <<>>
                                 ELSE <<[type |-> "HASCHUNK", version |-> k.version]>>]
  /\ UNCHANGED <<m, faults>>

\* The chunkserver reconnects.  Jobs that had not started are dropped, started
\* ones finish silently, jobs deferred behind a lock stay as they are, and the
\* lock itself no longer reports.
Reconnect(s) ==
  \E silent \in SUBSET (DOMAIN cs[s].jobs) :
    LET jobs == cs[s].jobs
        stay == {i \in DOMAIN jobs : jobs[i].deferred \/ ~jobs[i].wanted} \cup silent
    IN /\ \A i \in silent : ~jobs[i].deferred /\ jobs[i].wanted
       /\ \E nth \in [1 .. Cardinality(stay) -> stay] :
            /\ \A i, j \in DOMAIN nth : i < j => nth[i] < nth[j]
            /\ Register(s, [cs[s] EXCEPT
                   !.jobs = [i \in DOMAIN nth |->
                               [jobs[nth[i]] EXCEPT !.wanted = @ /\ nth[i] \notin silent]],
                   !.wanted = cs[s].lock = "free"])

\* The chunkserver process starts again; only the disk survives.
Restart(s) ==
  /\ "restart" \in use.faultKinds
  /\ Register(s, [NewServer EXCEPT !.version = cs[s].version, !.data = cs[s].data])

\* A test or a read finds the part damaged.
DamagePart(s) ==
  /\ conn[s] /\ cs[s].version # 0 /\ Fault("damage")
  /\ toMa' = [toMa EXCEPT ![s] = Append(@, [type |-> "DAMAGED"])]
  /\ UNCHANGED <<m, conn, cs>>

-----------------------------------------------------------------------------
(* The master receives a packet of a chunkserver. *)

MaReceive(s) ==
  /\ conn[s] /\ toMa[s] # <<>>
  /\ toMa' = [toMa EXCEPT ![s] = Tail(@)]
  /\ LET p == Head(toMa[s])
         c == chunk_find(m)
     IN MasterBecomes(
          CASE p.type = "STATUS" -> chunk_operation_status(c, s, p.ok)
            [] p.type = "WRITEEND" -> chunk_write_end_status(c, s, p.ok)
            [] p.type = "DELETED" -> chunk_got_delete_status(c, s)
            [] p.type = "REPLICATED" -> chunk_got_replicate_status(c, s, p.version, p.ok)
            [] p.type = "HASCHUNK" -> chunk_server_has_chunk(c, s, p.version)
            [] p.type = "DAMAGED" -> chunk_damaged(c, s)
            [] OTHER -> chunk_lost(c, s))   \* "LOST"
  /\ UNCHANGED <<conn, cs, faults>>

-----------------------------------------------------------------------------

Init ==
  /\ use \in Setups
  /\ \E operation \in {"CREATE", "DUPLICATE", "DUPTRUNC"}, T \in kSubset(use.goal, use.servers),
        l \in LockIds : m = birth(operation, T, l)
  /\ conn = [s \in Servers |-> s \in use.servers]
  /\ toMa = [s \in Servers |-> <<>>]
  /\ cs = [s \in Servers |-> NewServer]
  /\ faults = 0

Step ==
  \/ \E l \in LockIds :
       \/ \E known \in BOOLEAN : WriteRequest(l, known)
       \/ TruncateRequest(l)
       \/ WriteEnd(l)
       \/ ClientCrash(l)
       \/ \E s \in Servers, outcome \in {"open", "ok", "untold"} : WriteData(l, s, outcome)
  \/ LockExpires
  \/ matocl_before_disconnect
  \/ chunk_add_file
  \/ chunk_delete_file
  \/ doChunkJobs
  \/ chunk_clean_zombie_servers_a_bit
  \/ \E s \in Servers :
       \/ CsReceive(s) \/ CsExecute(s) \/ endChunkLock(s) \/ MaReceive(s)
       \/ Disconnect(s) \/ Reconnect(s) \/ Restart(s) \/ DamagePart(s)

Next == Step /\ UNCHANGED use

Spec == Init /\ [][Next]_vars

-----------------------------------------------------------------------------

Versions == 0 .. MaxVersion

\* The Chunk object and the parts on disk keep their types; the file counter in
\* particular never wraps below zero in chunk_delete_file or after a failed
\* creation.
TypeOK ==
  /\ m.version \in 1 .. MaxVersion
  /\ m.operation \in {"NONE", "CREATE", "SET_VERSION", "DUPLICATE", "TRUNCATE", "DUPTRUNC", "LOCK"}
  /\ m.interrupted \in BOOLEAN /\ m.needVersionIncrease \in BOOLEAN
  /\ m.lockedto \in {"zero", "future", "past"}
  /\ m.lockid \in LockIds \cup {NoLock}
  /\ m.fileCount \in 0 .. 2
  /\ \A s \in Servers :
       /\ m.parts[s].state \in {"none", "INVALID", "DEL", "BUSY", "VALID"}
       /\ m.parts[s].version \in Versions
       /\ cs[s].version \in Versions /\ cs[s].data \subseteq LockIds
       /\ cs[s].lock \in {"free", "locked", "writing"}

\* The server will still tell the master that a write failed.
FailureUntold(s) ==
  \/ cs[s].error
  \/ \E i \in DOMAIN cs[s].jobs : cs[s].jobs[i].msg.op = "PURGE"
  \/ \E i \in DOMAIN toMa[s] : toMa[s][i] = [type |-> "WRITEEND", ok |-> FALSE]

\* A reader of a chunk that is not lost is sent to the valid parts and the
\* chunkserver serves it when the version is the one the master named: such a
\* part holds every write and truncation that was acknowledged to a client,
\* unless its server is still to report a failed write in a WRITE_END status.
AcknowledgedDataIsRead ==
  \A s \in ValidParts(m) :
    ~isLost(m) /\ conn[s] /\ cs[s].version = m.version =>
      m.acked \subseteq cs[s].data \/ FailureUntold(s)

\* No part is damaged and no data is lost on its way to the disk.
DisksKeepData == use.faultKinds \cap {"damage", "write"} = {}

\* While a file uses the chunk, the deletions and replications of the chunk
\* loop leave enough parts with every acknowledged write on the disks of the
\* servers, connected or not.
AcknowledgedDataSurvives ==
  DisksKeepData /\ m.fileCount > 0 /\ m.acked # {} =>
    Cardinality({s \in Servers : cs[s].version # 0 /\ m.acked \subseteq cs[s].data}) >= use.needed

\* The locations a client was given by matoclserv_chunk_status for a write cover
\* every part on disk with the version of the chunk: a part that was lost
\* before, and will miss the write, has an older version (what
\* needVersionIncrease is for).
GrantCoversCopies ==
  \A l \in LockIds :
    DisksKeepData /\ m.grant[l].servers # {} /\ m.grant[l].version = m.version =>
      \A s \in Servers : cs[s].version = m.version => s \in m.grant[l].servers

\* A part that was given up (chunk_damaged, a failed WRITE_END) while its server
\* still has the version of the chunk makes the chunk increase its version:
\* interrupted or needVersionIncrease is set.
InvalidPartForcesVersion ==
  \A s \in Servers :
    m.parts[s].state \in {"INVALID", "DEL"} /\ cs[s].version = m.version =>
      m.interrupted \/ m.needVersionIncrease

\* The server has a request of an operation to answer, or its answer is on its
\* way.
AnswerDue(s) ==
  LET Asks(msg) == msg.op \in {"CREATE", "SETVERSION", "TRUNCATE", "LOCK"}
  IN \/ \E i \in DOMAIN m.toCs[s] : Asks(m.toCs[s][i])
     \/ \E i \in DOMAIN cs[s].jobs : cs[s].jobs[i].wanted /\ Asks(cs[s].jobs[i].msg)
     \/ \E i \in DOMAIN toMa[s] : toMa[s][i].type = "STATUS"

\* A part on a connected server is BUSY only while the answer that ends it
\* (chunk_operation_status) is still to come: no part stays BUSY for ever.
BusyAwaitsAnswer == \A s \in BusyParts(m) : conn[s] => AnswerDue(s)

\* A part the master takes for being written, and for whose sake it refuses
\* other clients (isLocked), is locked on its server by a lock whose end is
\* reported, or is about to be, or its WRITE_END status is on its way, as long as
\* no connection was lost.
WriteEndWillCome ==
  use.faultKinds \cap {"disconnect", "restart"} = {} =>
    \A s \in WrittenParts(m) :
      \/ cs[s].lock # "free" /\ cs[s].wanted
      \/ AnswerDue(s)
      \/ \E i \in DOMAIN toMa[s] : toMa[s][i].type = "WRITEEND"

\* A part with a write error whose lock outlived its connection is purged, and
\* reported as lost.
PartsPurged == use.maxFaults > 1 /\ {"write", "disconnect"} \subseteq use.faultKinds

\* An operation in progress will be ended, by an answer of a connected server or
\* by the clean-up of a part whose server is gone
\* (chunk_handle_disconnected_copies), and so will each of its parts: the chunk is
\* not CHUNKBUSY for ever.  (chunk_lost takes a BUSY part away and leaves the
\* operation to the answer: where parts are purged, the server may be gone before
\* it answers, and nothing is left to clean up.)
OperationWillEnd ==
  /\ BusyAwaitsAnswer
  /\ m.operation # "NONE" /\ ~PartsPurged =>
       \E s \in Servers : IF conn[s] THEN AnswerDue(s) ELSE m.parts[s] # NoPart

\* When the master holds the operation for finished (chunk_operation_status), a
\* valid part is on the disk of its server with the version of the chunk.  (Parts
\* of a chunk that no file uses, or that has a spare one, are deleted by jobs that
\* a server may still run when it has connected again and reported its parts.)
ValidPartIsCurrent ==
  m.operation = "NONE" /\ m.fileCount > 0 /\ Cardinality(use.servers) = use.goal =>
    \A s \in ValidParts(m) : conn[s] => cs[s].version = m.version

\* A client's write or truncation waits in the list of delayed operations only
\* while an operation of the chunk is in progress: whoever ends the operation
\* answers it (matoclserv_chunk_status).
ClientAwaitsOperation == m.delayed # Nobody => m.operation # "NONE"

\* A shadow master that replays WRITE, TRUNC and INCVERSION from the changelog
\* arrives at the version of the chunk, whatever operation the master ran.
ReplayAgrees == m.replayed = m.version

\* No part on disk is ahead of the master: chunk_server_has_chunk would take it
\* for a wrong version and have it deleted.
NoFutureVersion == \A s \in Servers : cs[s].version <= m.version

=============================================================================
