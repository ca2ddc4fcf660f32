---------------------------- MODULE ChunksProofs ----------------------------
(***************************************************************************)
(* Types and versions in Chunks, for any servers, lock ids, faults and     *)
(* uses.  Everything that carries a version (parts, requests, jobs,        *)
(* answers, disks) is typed relative to the master's version of the chunk, *)
(* which only grows: each operator on the Chunk object gives an object     *)
(* that is well typed again and whose version is not smaller, so that what *)
(* was on its way before stays typed.  That a delayed client has an        *)
(* operation to wait for is kept by the same steps.                        *)
(*                                                                         *)
(* Then ReplayAgrees: a master and the shadows that replay its changelog   *)
(* agree on the version of every chunk.  The property is inductive as it   *)
(* stands; what takes the work is that every operator on the Chunk object  *)
(* leaves the two versions alone or moves both, whatever it is composed    *)
(* of.                                                                     *)
(***************************************************************************)
EXTENDS Chunks, FiniteSetTheorems, TLAPS

Operations == {"NONE", "CREATE", "SET_VERSION", "DUPLICATE", "TRUNCATE", "DUPTRUNC", "LOCK"}

\* What may be said about a chunk whose version is v: no version is above it.
Parts(v) ==
  [state : {"none", "INVALID", "DEL", "BUSY", "VALID"}, version : 0 .. v, beingWritten : BOOLEAN]
Requests(v) ==
       [op : {"CREATE"}, lock : BOOLEAN, by : SUBSET LockIds]
  \cup [op : {"SETVERSION"}, from : 0 .. v, to : 0 .. v, lock : BOOLEAN]
  \cup [op : {"TRUNCATE"}, from : 0 .. v, to : 0 .. v, by : LockIds]
  \cup [op : {"LOCK", "UNLOCK"}]
  \cup [op : {"DELETE", "PURGE"}, version : 0 .. v]
  \cup [op : {"REPLICATE"}, version : 0 .. v, sources : SUBSET Servers]
Work(v) == {msg \in Requests(v) : msg.op \notin {"LOCK", "UNLOCK"}}
Jobs(v) == [msg : Work(v), wanted : BOOLEAN, deferred : BOOLEAN]
Packets(v) ==
       [type : {"STATUS", "WRITEEND"}, ok : BOOLEAN]
  \cup [type : {"DELETED", "LOST", "DAMAGED"}]
  \cup [type : {"REPLICATED"}, version : 0 .. v, ok : BOOLEAN]
  \cup [type : {"HASCHUNK"}, version : 0 .. v]
Grants == [held : BOOLEAN, version : Nat, servers : SUBSET Servers, done : SUBSET Servers]
Delays == [kind : {"none", "write", "truncate"}, by : LockIds \cup {NoLock}, known : BOOLEAN]

Fields == {"version", "operation", "interrupted", "needVersionIncrease", "lockedto", "lockid",
           "fileCount", "parts", "delayed", "toCs", "grant", "used", "acked", "replayed"}

\* The flags and the counter of a Chunk object.
Scalars(c) ==
  /\ c.operation \in Operations
  /\ c.interrupted \in BOOLEAN /\ c.needVersionIncrease \in BOOLEAN
  /\ c.lockedto \in {"zero", "future", "past"}
  /\ c.lockid \in LockIds \cup {NoLock}
  /\ c.fileCount \in 0 .. 2

\* What the clients know.
Clients(c) ==
  /\ c.delayed \in Delays
  /\ c.grant \in [LockIds -> Grants]
  /\ c.used \subseteq LockIds /\ c.acked \subseteq LockIds

\* A client waits for an operation only.
Awaits(c) ==
  c.delayed # Nobody =>
    c.delayed.kind # "none" /\ c.delayed.by \in LockIds /\ c.operation # "NONE"

Typed(c) ==
  /\ Fields \subseteq DOMAIN c
  /\ c.version \in Nat /\ Scalars(c) /\ Clients(c) /\ Awaits(c)
  /\ c.parts \in [Servers -> Parts(c.version)]
  /\ c.toCs \in [Servers -> Seq(Requests(c.version))]

\* A step of the master from c to d.
Grows(c, d) == Typed(d) /\ c.version <= d.version

-----------------------------------------------------------------------------
\* A larger version allows more.
LEMMA Monotone ==
  ASSUME NEW v \in Nat, NEW w \in Nat, v <= w
  PROVE  /\ 0 .. v \subseteq 0 .. w
         /\ Parts(v) \subseteq Parts(w) /\ Requests(v) \subseteq Requests(w)
         /\ Jobs(v) \subseteq Jobs(w) /\ Packets(v) \subseteq Packets(w)
         /\ Seq(Requests(v)) \subseteq Seq(Requests(w))
         /\ Seq(Jobs(v)) \subseteq Seq(Jobs(w)) /\ Seq(Packets(v)) \subseteq Seq(Packets(w))
  <1>1. 0 .. v \subseteq 0 .. w
    OBVIOUS
  <1>2. Parts(v) \subseteq Parts(w)
    BY <1>1 DEF Parts
  <1>3. Requests(v) \subseteq Requests(w)
    <2>1. /\ [op : {"SETVERSION"}, from : 0 .. v, to : 0 .. v, lock : BOOLEAN]
               \subseteq [op : {"SETVERSION"}, from : 0 .. w, to : 0 .. w, lock : BOOLEAN]
          /\ [op : {"TRUNCATE"}, from : 0 .. v, to : 0 .. v, by : LockIds]
               \subseteq [op : {"TRUNCATE"}, from : 0 .. w, to : 0 .. w, by : LockIds]
      BY <1>1
    <2>2. /\ [op : {"DELETE", "PURGE"}, version : 0 .. v]
               \subseteq [op : {"DELETE", "PURGE"}, version : 0 .. w]
          /\ [op : {"REPLICATE"}, version : 0 .. v, sources : SUBSET Servers]
               \subseteq [op : {"REPLICATE"}, version : 0 .. w, sources : SUBSET Servers]
      BY <1>1
    <2> QED
      BY <2>1, <2>2, Zenon DEF Requests
  <1>4. Jobs(v) \subseteq Jobs(w)
    <2>1. Work(v) \subseteq Work(w)
      BY <1>3, Zenon DEF Work
    <2> QED
      BY <2>1 DEF Jobs
  <1>5. Packets(v) \subseteq Packets(w)
    BY <1>1 DEF Packets
  <1>6. ASSUME NEW S, NEW T, S \subseteq T
        PROVE  Seq(S) \subseteq Seq(T)
    BY <1>6
  <1> QED
    BY <1>1, <1>2, <1>3, <1>4, <1>5, <1>6, SMTT(30)

\* The first packet of a queue is taken off.
LEMMA HeadTail ==
  ASSUME NEW S, NEW q \in Seq(S), q # <<>>
  PROVE  Head(q) \in S /\ Tail(q) \in Seq(S)
  OBVIOUS

\* A packet is added to a queue.
LEMMA AppendTyped ==
  ASSUME NEW S, NEW q \in Seq(S), NEW e \in S
  PROVE  Append(q, e) \in Seq(S)
  OBVIOUS

\* A sequence is a function on an initial interval.
LEMMA SeqIntro ==
  ASSUME NEW S, NEW n \in Nat, NEW f \in [1 .. n -> S]
  PROVE  f \in Seq(S)
  OBVIOUS

\* A job is taken out of the pool.
LEMMA RemoveTyped ==
  ASSUME NEW S, NEW q \in Seq(S), NEW i \in DOMAIN q
  PROVE  RemoveAt(q, i) \in Seq(S)
  BY DEF RemoveAt

\* Sending requests changes the queues only.
LEMMA SendToFields ==
  ASSUME NEW c, Fields \subseteq DOMAIN c, NEW requests
  PROVE  LET d == SendTo(c, requests)
         IN  /\ DOMAIN d = DOMAIN c
             /\ d.version = c.version /\ d.operation = c.operation
             /\ d.interrupted = c.interrupted /\ d.needVersionIncrease = c.needVersionIncrease
             /\ d.lockedto = c.lockedto /\ d.lockid = c.lockid /\ d.fileCount = c.fileCount
             /\ d.parts = c.parts /\ d.delayed = c.delayed /\ d.grant = c.grant
             /\ d.used = c.used /\ d.acked = c.acked /\ d.replayed = c.replayed
  BY DEF SendTo, Fields

\* The queues keep their type.
LEMMA SendToQueues ==
  ASSUME NEW c, Fields \subseteq DOMAIN c, NEW S, c.toCs \in [Servers -> Seq(S)],
         NEW requests, \A s \in DOMAIN requests : requests[s] \in S
  PROVE  SendTo(c, requests).toCs \in [Servers -> Seq(S)]
  <1> DEFINE q == [s \in Servers |-> IF s \in DOMAIN requests THEN Append(c.toCs[s], requests[s])
                                     ELSE c.toCs[s]]
  <1>1. SendTo(c, requests).toCs = q
    BY DEF SendTo, Fields
  <1>2. q \in [Servers -> Seq(S)]
    OBVIOUS
  <1> QED
    BY <1>1, <1>2

\* The requests of the master are requests.
LEMMA RequestTypes ==
  ASSUME NEW v \in Nat, NEW a \in 0 .. v
  PROVE  /\ [op |-> "LOCK"] \in Requests(v) /\ [op |-> "UNLOCK"] \in Requests(v)
         /\ [op |-> "DELETE", version |-> a] \in Requests(v)
         /\ [op |-> "PURGE", version |-> a] \in Requests(v)
         /\ \A b \in 0 .. v, lock \in BOOLEAN :
              [op |-> "SETVERSION", from |-> a, to |-> b, lock |-> lock] \in Requests(v)
         /\ \A b \in 0 .. v, l \in LockIds :
              [op |-> "TRUNCATE", from |-> a, to |-> b, by |-> l] \in Requests(v)
         /\ \A lock \in BOOLEAN, L \in SUBSET LockIds :
              [op |-> "CREATE", lock |-> lock, by |-> L] \in Requests(v)
         /\ \A S \in SUBSET Servers :
              [op |-> "REPLICATE", version |-> a, sources |-> S] \in Requests(v)
  BY ZenonT(60) DEF Requests

\* The queues and parts of a chunk may be those of a chunk with a larger version.
LEMMA Later ==
  ASSUME NEW c, Typed(c), NEW w \in Nat, c.version <= w
  PROVE  /\ c.parts \in [Servers -> Parts(w)]
         /\ c.toCs \in [Servers -> Seq(Requests(w))]
  <1>1. Parts(c.version) \subseteq Parts(w)
        /\ Seq(Requests(c.version)) \subseteq Seq(Requests(w))
    BY Monotone DEF Typed
  <1> QED
    BY <1>1, Zenon DEF Typed

\* chunk_increase_version_operation keeps the types.
LEMMA IncreaseTyped ==
  ASSUME NEW c, Typed(c), use.useLock \in BOOLEAN, NEW b \in BOOLEAN
  PROVE  LET d == chunk_increase_version_operation(c, b)
         IN  /\ Typed(d) /\ d.version = c.version + 1
             /\ d.operation = "SET_VERSION" /\ d.delayed = c.delayed
  <1> DEFINE Locks(s) == b /\ use.useLock /\ ~c.parts[s].beingWritten
             w == c.version + 1
             requests == [s \in ValidParts(c) |->
                       [op |-> "SETVERSION", from |-> c.version, to |-> w, lock |-> Locks(s)]]
             sent == SendTo(c, requests)
             parts == [s \in Servers |->
                         IF s \in ValidParts(c)
                         THEN [state |-> "BUSY", version |-> w,
                               beingWritten |-> c.parts[s].beingWritten \/ Locks(s)]
                         ELSE c.parts[s]]
             d == [sent EXCEPT !.parts = parts, !.interrupted = FALSE,
                               !.operation = "SET_VERSION", !.version = @ + 1]
  <1>1. chunk_increase_version_operation(c, b) = d
    BY DEF chunk_increase_version_operation
  <1>2. w \in Nat /\ c.version \in 0 .. w /\ w \in 0 .. w
    BY DEF Typed
  <1>3. /\ c.parts \in [Servers -> Parts(w)]
        /\ c.toCs \in [Servers -> Seq(Requests(w))]
    BY <1>2, Later DEF Typed
  <1>4. \A s : Locks(s) \in BOOLEAN
    OBVIOUS
  <1> HIDE DEF Locks
  <1>5. \A s \in DOMAIN requests : requests[s] \in Requests(w)
    <2>1. \A lock \in BOOLEAN :
            [op |-> "SETVERSION", from |-> c.version, to |-> w, lock |-> lock] \in Requests(w)
      BY <1>2, RequestTypes, Zenon
    <2> QED
      BY <1>4, <2>1, Zenon
  <1>6. parts \in [Servers -> Parts(w)]
    <2>1. ASSUME NEW s \in Servers
          PROVE  [state |-> "BUSY", version |-> w,
                  beingWritten |-> c.parts[s].beingWritten \/ Locks(s)] \in Parts(w)
      BY <1>2 DEF Parts
    <2> QED
      BY <2>1, <1>3
  <1>7. sent.toCs \in [Servers -> Seq(Requests(w))]
    BY <1>3, <1>5, SendToQueues, Zenon DEF Typed
  <1> HIDE DEF requests, parts
  <1>8. /\ DOMAIN sent = DOMAIN c
        /\ sent.version = c.version /\ sent.operation = c.operation
        /\ sent.interrupted = c.interrupted /\ sent.needVersionIncrease = c.needVersionIncrease
        /\ sent.lockedto = c.lockedto /\ sent.lockid = c.lockid
        /\ sent.fileCount = c.fileCount /\ sent.parts = c.parts /\ sent.delayed = c.delayed
        /\ sent.grant = c.grant /\ sent.used = c.used /\ sent.acked = c.acked
    BY SendToFields DEF Typed
  <1> HIDE DEF sent
  <1>9. d.version = w /\ d.operation = "SET_VERSION" /\ d.delayed = c.delayed
    BY <1>8 DEF Typed, Fields
  <1>10. Typed(d)
    BY <1>2, <1>6, <1>7, <1>8, SMTT(30) DEF Typed, Fields, Scalars, Clients, Awaits, Operations
  <1> QED
    BY <1>1, <1>9, <1>10, SMTT(30)

\* chunk_emergency_increase_version keeps the types.
LEMMA EmergencyTyped ==
  ASSUME NEW c, Typed(c), use.useLock \in BOOLEAN
  PROVE  Grows(c, chunk_emergency_increase_version(c))
  <1> DEFINE d == chunk_increase_version_operation(c, FALSE)
  <1>1. Typed(d) /\ d.version = c.version + 1
    BY IncreaseTyped, Zenon
  <1>2. chunk_emergency_increase_version(c) = [d EXCEPT !.replayed = @ + 1]
    BY DEF chunk_emergency_increase_version
  <1> HIDE DEF d
  <1>3. Typed([d EXCEPT !.replayed = @ + 1])
    BY <1>1 DEF Typed, Fields, Scalars, Clients, Awaits
  <1> QED
    BY <1>1, <1>2, <1>3, SMTT(30) DEF Typed, Grows, Fields

\* chunk_lock_operation, which chunk_modify calls on an idle chunk, keeps the types.
LEMMA LockTyped ==
  ASSUME NEW c, Typed(c), c.operation = "NONE"
  PROVE  LET d == chunk_lock_operation(c)
         IN  Typed(d) /\ d.version = c.version /\ d.delayed = Nobody
  <1> DEFINE locked == IF use.useLock
                       THEN {s \in ValidParts(c) : ~is_busy(c.parts[s]) /\ ~c.parts[s].beingWritten}
                       ELSE {}
             requests == [s \in locked |-> [op |-> "LOCK"]]
             sent == SendTo(c, requests)
             parts == [s \in Servers |->
                         IF s \in locked
                         THEN [c.parts[s] EXCEPT !.state = "BUSY", !.beingWritten = TRUE]
                         ELSE c.parts[s]]
             operation == IF locked # {} THEN "LOCK" ELSE "NONE"
             d == [sent EXCEPT !.parts = parts, !.interrupted = FALSE, !.operation = operation]
  <1>1. chunk_lock_operation(c) = d
    BY DEF chunk_lock_operation
  <1>2. operation \in {"LOCK", "NONE"} /\ c.version \in Nat /\ 0 \in 0 .. c.version
    BY DEF Typed
  <1> HIDE DEF locked, operation
  <1>3. \A s \in DOMAIN requests : requests[s] \in Requests(c.version)
    BY <1>2, RequestTypes, Zenon
  <1>4. parts \in [Servers -> Parts(c.version)]
    BY Zenon DEF Typed, Parts
  <1>5. sent.toCs \in [Servers -> Seq(Requests(c.version))]
    BY <1>3, SendToQueues, Zenon DEF Typed
  <1> HIDE DEF requests, parts
  <1>6. /\ DOMAIN sent = DOMAIN c
        /\ sent.version = c.version /\ sent.needVersionIncrease = c.needVersionIncrease
        /\ sent.lockedto = c.lockedto /\ sent.lockid = c.lockid
        /\ sent.fileCount = c.fileCount /\ sent.delayed = c.delayed
        /\ sent.grant = c.grant /\ sent.used = c.used /\ sent.acked = c.acked
    BY SendToFields DEF Typed
  <1> HIDE DEF sent
  <1>7. d.version = c.version /\ d.delayed = Nobody
    BY <1>6 DEF Typed, Fields, Awaits
  <1>8. Typed(d)
    BY <1>2, <1>4, <1>5, <1>6, <1>7, SMTT(30) DEF Typed, Fields, Scalars, Clients, Awaits, Operations
  <1> QED
    BY <1>1, <1>7, <1>8, SMTT(30)

\* chunk_truncate_operation keeps the types.
LEMMA TruncateTyped ==
  ASSUME NEW c, Typed(c), NEW l \in LockIds
  PROVE  LET d == chunk_truncate_operation(c, l)
         IN  Typed(d) /\ d.version = c.version + 1 /\ d.operation = "TRUNCATE"
  <1> DEFINE w == c.version + 1
             requests == [s \in ValidParts(c) |->
                       [op |-> "TRUNCATE", from |-> c.version, to |-> w, by |-> l]]
             sent == SendTo(c, requests)
             parts == [s \in Servers |->
                         IF s \in ValidParts(c)
                         THEN [c.parts[s] EXCEPT !.state = "BUSY", !.version = w]
                         ELSE c.parts[s]]
             d == [sent EXCEPT !.parts = parts, !.interrupted = FALSE,
                               !.operation = "TRUNCATE", !.version = @ + 1]
  <1>1. chunk_truncate_operation(c, l) = d
    BY DEF chunk_truncate_operation
  <1>2. w \in Nat /\ c.version \in 0 .. w /\ w \in 0 .. w
    BY DEF Typed
  <1>3. /\ c.parts \in [Servers -> Parts(w)]
        /\ c.toCs \in [Servers -> Seq(Requests(w))]
    BY <1>2, Later DEF Typed
  <1>4. \A s \in DOMAIN requests : requests[s] \in Requests(w)
    BY <1>2, RequestTypes, Zenon
  <1>5. parts \in [Servers -> Parts(w)]
    BY <1>2, <1>3, Zenon DEF Parts
  <1>6. sent.toCs \in [Servers -> Seq(Requests(w))]
    BY <1>3, <1>4, SendToQueues, Zenon DEF Typed
  <1> HIDE DEF requests, parts
  <1>7. /\ DOMAIN sent = DOMAIN c
        /\ sent.version = c.version /\ sent.needVersionIncrease = c.needVersionIncrease
        /\ sent.lockedto = c.lockedto /\ sent.lockid = c.lockid
        /\ sent.fileCount = c.fileCount /\ sent.delayed = c.delayed
        /\ sent.grant = c.grant /\ sent.used = c.used /\ sent.acked = c.acked
    BY SendToFields DEF Typed
  <1> HIDE DEF sent
  <1>8. d.version = w /\ d.operation = "TRUNCATE"
    BY <1>7 DEF Typed, Fields
  <1>9. Typed(d)
    BY <1>2, <1>5, <1>6, <1>7, SMTT(30) DEF Typed, Fields, Scalars, Clients, Awaits, Operations
  <1> QED
    BY <1>1, <1>8, <1>9, SMTT(30)

\* The answer to the client (matoclserv_chunk_status) keeps the types, and nobody
\* waits any more.
LEMMA StatusTyped ==
  ASSUME NEW c, Typed(c), NEW status
  PROVE  LET d == matoclserv_chunk_status(c, status)
         IN  /\ Typed(d) /\ d.delayed = Nobody
             /\ d.version = c.version /\ d.parts = c.parts /\ DOMAIN d = DOMAIN c
  <1> DEFINE by == c.delayed.by
             answered == [c EXCEPT !.delayed = Nobody]
             grant == IF status = "CHUNKLOST" /\ c.delayed.known THEN JustLock ELSE NoGrant
             count == IF c.operation = "CREATE" /\ c.fileCount > 0 THEN c.fileCount - 1
                      ELSE c.fileCount
             failed == [answered EXCEPT
                          !.grant[by] = grant,
                          !.fileCount = IF c.operation = "CREATE" /\ @ > 0 THEN @ - 1 ELSE @]
             truncated == [answered EXCEPT !.acked = @ \cup {by}]
             Good(d) == /\ Typed(d) /\ d.delayed = Nobody
                        /\ d.version = c.version /\ d.parts = c.parts /\ DOMAIN d = DOMAIN c
  <1>1. Good(answered)
    BY DEF Typed, Fields, Scalars, Clients, Awaits, Delays, Nobody
  <1>2. NoGrant \in Grants /\ JustLock \in Grants
    BY Zenon DEF NoGrant, JustLock, Grants
  <1>3. count \in 0 .. 2 /\ grant \in Grants
    BY <1>2 DEF Typed, Scalars
  <1>4. failed = [answered EXCEPT !.grant[by] = grant, !.fileCount = count]
    BY DEF Typed, Fields
  <1> HIDE DEF grant, count
  <1>5. Good(failed)
    BY <1>1, <1>3, <1>4, Zenon DEF Typed, Fields, Scalars, Clients, Awaits
  <1>6. c.delayed.kind = "truncate" => Good(truncated)
    <2>1. c.delayed.kind = "truncate" => by \in LockIds
      BY DEF Typed, Awaits, Clients, Delays, Nobody
    <2> QED
      BY <1>1, <2>1, SMTT(30) DEF Typed, Fields, Scalars, Clients, Awaits
  <1>7. Good(respond(answered, by))
    <2> DEFINE g == [held |-> TRUE, version |-> answered.version,
                     servers |-> ValidParts(answered), done |-> {}]
    <2>1. g \in Grants
      BY <1>1 DEF Grants, Typed, ValidParts
    <2>2. respond(answered, by) = [answered EXCEPT !.grant[by] = g]
      BY DEF respond
    <2> DEFINE e == [answered EXCEPT !.grant[by] = g]
    <2> HIDE DEF answered, g, by
    <2>3. Good(e)
      BY <1>1, <2>1, Zenon DEF Typed, Fields, Scalars, Clients, Awaits
    <2> QED
      BY <2>2, <2>3, SMTT(30)
  <1>8. c.delayed.kind = "none" => Good(c)
    BY DEF Typed, Awaits
  <1>9. LET d == matoclserv_chunk_status(c, status)
        IN  CASE c.delayed.kind = "none" -> d = c
              [] c.delayed.kind = "write" /\ status = "OK" -> d = respond(answered, by)
              [] c.delayed.kind = "write" /\ status # "OK" -> d = chunk_unlock(failed)
              [] c.delayed.kind = "truncate" /\ status = "OK" -> d = chunk_unlock(truncated)
              [] OTHER -> d = chunk_unlock(answered)
    BY DEF matoclserv_chunk_status, grant
  <1>10. ASSUME NEW d, Good(d)
         PROVE  Good(chunk_unlock(d))
    BY <1>10 DEF chunk_unlock, Typed, Fields, Scalars, Clients, Awaits
  <1> HIDE DEF answered, failed, truncated
  <1> QED
    BY <1>1, <1>5, <1>6, <1>7, <1>8, <1>9, <1>10, SMTT(30)

\* chunk_finalize_failed_operation keeps the types and ends the operation.
LEMMA FinalizeTyped ==
  ASSUME NEW c, Typed(c)
  PROVE  Grows(c, chunk_finalize_failed_operation(c))
  <1> DEFINE told == matoclserv_chunk_status(c, IF c.operation \in {"CREATE", "LOCK"}
                                                THEN "CHUNKLOST" ELSE "NOTDONE")
             unlocked == {s \in WrittenParts(told) : told.parts[s].state = "VALID"}
             requests == [s \in unlocked |-> [op |-> "UNLOCK"]]
             sent == SendTo(told, requests)
             parts == [s \in Servers |-> IF s \in unlocked
                                         THEN [sent.parts[s] EXCEPT !.beingWritten = FALSE]
                                         ELSE sent.parts[s]]
             d == [sent EXCEPT !.operation = "NONE", !.parts = parts]
  <1>1. Typed(told) /\ told.delayed = Nobody /\ told.version = c.version
    BY StatusTyped
  <1>2. chunk_finalize_failed_operation(c) = d
    BY DEF chunk_finalize_failed_operation
  <1> HIDE DEF told
  <1>3. \A s \in DOMAIN requests : requests[s] \in Requests(told.version)
    <2>1. told.version \in Nat /\ 0 \in 0 .. told.version
      BY <1>1 DEF Typed
    <2> QED
      BY <2>1, RequestTypes, Zenon
  <1>4. sent.toCs \in [Servers -> Seq(Requests(told.version))]
    BY <1>1, <1>3, SendToQueues, Zenon DEF Typed
  <1> HIDE DEF requests
  <1>5. /\ DOMAIN sent = DOMAIN told
        /\ sent.version = told.version /\ sent.interrupted = told.interrupted
        /\ sent.needVersionIncrease = told.needVersionIncrease
        /\ sent.lockedto = told.lockedto /\ sent.lockid = told.lockid
        /\ sent.fileCount = told.fileCount /\ sent.parts = told.parts
        /\ sent.delayed = told.delayed
        /\ sent.grant = told.grant /\ sent.used = told.used /\ sent.acked = told.acked
    BY <1>1, SendToFields, SMTT(30) DEF Typed
  <1> HIDE DEF sent, unlocked
  <1>6. parts \in [Servers -> Parts(told.version)]
    BY <1>1, <1>5, ZenonT(60) DEF Typed, Parts
  <1> HIDE DEF parts
  <1>7. d.version = c.version
    BY <1>1, <1>5 DEF Typed, Fields
  <1>8. Typed(d)
    BY <1>1, <1>4, <1>5, <1>6 DEF Typed, Fields, Scalars, Clients, Awaits, Operations
  <1> QED
    BY <1>1, <1>2, <1>7, <1>8, SMTT(30) DEF Grows, Typed

\* chunk_handle_disconnected_copies keeps the types.
LEMMA DisconnectedTyped ==
  ASSUME NEW c, Typed(c), use.useLock \in BOOLEAN
  PROVE  Grows(c, chunk_handle_disconnected_copies(c))
  <1> DEFINE gone == {s \in Servers : c.parts[s] # NoPart /\ ~conn[s]}
             writtenGone == gone \cap WrittenParts(c) # {}
             parts == [s \in Servers |-> IF s \in gone THEN NoPart ELSE c.parts[s]]
             d == [c EXCEPT
                     !.parts = [s \in Servers |-> IF s \in gone THEN NoPart ELSE @[s]],
                     !.needVersionIncrease = TRUE,
                     !.interrupted = @ \/ writtenGone]
             e == [d EXCEPT !.interrupted = TRUE]
  <1>1. chunk_handle_disconnected_copies(c)
          \in {c, d, e, chunk_emergency_increase_version(d), chunk_finalize_failed_operation(d)}
    BY DEF chunk_handle_disconnected_copies
  <1>2. NoPart \in Parts(c.version)
    BY DEF NoPart, Parts, Typed
  <1>3. parts \in [Servers -> Parts(c.version)] /\ (c.interrupted \/ writtenGone) \in BOOLEAN
    BY <1>2 DEF Typed
  <1>4. d = [c EXCEPT !.parts = parts, !.needVersionIncrease = TRUE,
                      !.interrupted = @ \/ writtenGone]
    BY DEF Typed, Fields
  <1> HIDE DEF gone, writtenGone, parts
  <1>5. Typed(d) /\ d.version = c.version
    BY <1>3, <1>4, Zenon DEF Typed, Fields, Scalars, Clients, Awaits
  <1> HIDE DEF d
  <1>6. Typed(e) /\ e.version = c.version
    BY <1>5 DEF Typed, Fields, Scalars, Clients, Awaits
  <1> HIDE DEF e
  <1>7. Grows(c, chunk_emergency_increase_version(d)) /\ Grows(c, chunk_finalize_failed_operation(d))
    BY <1>5, EmergencyTyped, FinalizeTyped, SMTT(30) DEF Grows
  <1>8. Grows(c, c) /\ Grows(c, d) /\ Grows(c, e)
    BY <1>5, <1>6, SMTT(30) DEF Grows, Typed
  <1> QED
    BY <1>1, <1>7, <1>8

\* A part may be replaced by another.
LEMMA PartTyped ==
  ASSUME NEW c, Typed(c), NEW s \in Servers, NEW p \in Parts(c.version),
         NEW d, d = [c EXCEPT !.parts[s] = p]
  PROVE  Grows(c, d)
  <1> DEFINE parts == [c.parts EXCEPT ![s] = p]
             e == [c EXCEPT !.parts = parts]
  <1>1. parts \in [Servers -> Parts(c.version)]
    BY DEF Typed
  <1>2. e = [c EXCEPT !.parts[s] = p]
    OBVIOUS
  <1> HIDE DEF parts
  <1>3. Typed(e) /\ e.version = c.version
    BY <1>1 DEF Typed, Fields, Scalars, Clients, Awaits
  <1> QED
    BY <1>2, <1>3, SMTT(30) DEF Grows, Typed

\* The flags of an object may change.
LEMMA FlagsTyped ==
  ASSUME NEW c, Typed(c), NEW b \in BOOLEAN, NEW d,
         d = [c EXCEPT !.interrupted = b] \/ d = [c EXCEPT !.needVersionIncrease = b]
  PROVE  Grows(c, d)
  <1>1. CASE d = [c EXCEPT !.interrupted = b]
    BY <1>1 DEF Grows, Typed, Fields, Scalars, Clients, Awaits
  <1>2. CASE d = [c EXCEPT !.needVersionIncrease = b]
    BY <1>2 DEF Grows, Typed, Fields, Scalars, Clients, Awaits
  <1> QED
    BY <1>1, <1>2, SMTT(30)

\* A part that is given up is INVALID.
LEMMA InvalidTyped ==
  ASSUME NEW c, Typed(c), NEW s \in Servers
  PROVE  Grows(c, invalidateCopy(c, s))
  <1> DEFINE p == [state |-> "INVALID", version |-> 0, beingWritten |-> FALSE]
  <1>1. p \in Parts(c.version)
    BY DEF Parts, Typed
  <1>2. invalidateCopy(c, s) = [c EXCEPT !.parts[s] = p]
    BY DEF invalidateCopy
  <1> HIDE DEF p
  <1> QED
    BY <1>1, <1>2, PartTyped, SMTT(30)

\* Growth is transitive.
LEMMA GrowsTransitive ==
  ASSUME NEW c, NEW d, NEW e, Typed(c), Grows(c, d), Grows(d, e)
  PROVE  Grows(c, e)
  BY DEF Grows, Typed

\* chunk_operation_status keeps the types.
LEMMA OperationStatusTyped ==
  ASSUME NEW c, Typed(c), use.useLock \in BOOLEAN, NEW s \in Servers, NEW ok \in BOOLEAN
  PROVE  Grows(c, chunk_operation_status(c, s, ok))
  <1> DEFINE p == c.parts[s]
             failed == [invalidateCopy(c, s) EXCEPT !.interrupted = TRUE]
             finished == [c EXCEPT !.parts[s].state = "VALID"]
             d == IF p = NoPart THEN c
                  ELSE IF ~ok THEN failed
                  ELSE IF is_busy(p) THEN finished
                  ELSE c
             told == matoclserv_chunk_status(d, "OK")
             e == [told EXCEPT !.operation = "NONE", !.needVersionIncrease = FALSE]
  <1>1. Grows(c, failed)
    <2> DEFINE invalid == invalidateCopy(c, s)
    <2>1. Grows(c, invalid)
      BY InvalidTyped
    <2> HIDE DEF invalid
    <2>2. \A x : x = [invalid EXCEPT !.interrupted = TRUE] => Grows(invalid, x)
      BY <2>1, FlagsTyped, Zenon DEF Grows
    <2>3. failed = [invalid EXCEPT !.interrupted = TRUE]
      BY DEF invalid
    <2> HIDE DEF failed
    <2> QED
      BY <2>1, <2>2, <2>3, GrowsTransitive, SMTT(30)
  <1>2. Grows(c, finished)
    <2> DEFINE q == [c.parts[s] EXCEPT !.state = "VALID"]
    <2>1. q \in Parts(c.version)
      BY Zenon DEF Typed, Parts
    <2>2. finished = [c EXCEPT !.parts[s] = q]
      OBVIOUS
    <2> HIDE DEF q, finished
    <2> QED
      BY <2>1, <2>2, PartTyped, SMTT(30)
  <1>3. Grows(c, c)
    BY DEF Grows, Typed
  <1>4. chunk_operation_status(c, s, ok)
          \in {d, chunk_finalize_failed_operation(d), chunk_emergency_increase_version(d), e}
    BY DEF chunk_operation_status
  <1> HIDE DEF failed, finished
  <1>5. Grows(c, d)
    BY <1>1, <1>2, <1>3, SMTT(30)
  <1> HIDE DEF d
  <1>6. Typed(told) /\ told.delayed = Nobody /\ told.version = d.version
    BY <1>5, StatusTyped DEF Grows
  <1> HIDE DEF told
  <1>7. Grows(d, e)
    BY <1>5, <1>6 DEF Grows, Typed, Fields, Scalars, Clients, Awaits, Operations
  <1> HIDE DEF e
  <1>8. Grows(d, chunk_finalize_failed_operation(d)) /\ Grows(d, chunk_emergency_increase_version(d))
    BY <1>5, FinalizeTyped, EmergencyTyped, SMTT(30) DEF Grows
  <1> QED
    BY <1>4, <1>5, <1>7, <1>8, GrowsTransitive, SMTT(30)

\* chunk_write_end_status keeps the types.
LEMMA WriteEndTyped ==
  ASSUME NEW c, Typed(c), use.useLock \in BOOLEAN, NEW s \in Servers, NEW ok \in BOOLEAN
  PROVE  Grows(c, chunk_write_end_status(c, s, ok))
  <1> DEFINE failed == [invalidateCopy(c, s) EXCEPT !.interrupted = TRUE]
             ended == [c EXCEPT !.parts[s].beingWritten = FALSE]
             d == IF c.parts[s] = NoPart THEN c ELSE IF ~ok THEN failed ELSE ended
  <1>1. Grows(c, failed)
    <2> DEFINE invalid == invalidateCopy(c, s)
    <2>1. Grows(c, invalid)
      BY InvalidTyped
    <2> HIDE DEF invalid
    <2>2. \A x : x = [invalid EXCEPT !.interrupted = TRUE] => Grows(invalid, x)
      BY <2>1, FlagsTyped, Zenon DEF Grows
    <2>3. failed = [invalid EXCEPT !.interrupted = TRUE]
      BY DEF invalid
    <2> HIDE DEF failed
    <2> QED
      BY <2>1, <2>2, <2>3, GrowsTransitive
  <1>2. Grows(c, ended)
    <2> DEFINE q == [c.parts[s] EXCEPT !.beingWritten = FALSE]
    <2>1. q \in Parts(c.version)
      BY Zenon DEF Typed, Parts
    <2>2. ended = [c EXCEPT !.parts[s] = q]
      OBVIOUS
    <2> HIDE DEF q, ended
    <2> QED
      BY <2>1, <2>2, PartTyped
  <1>3. Grows(c, c)
    BY DEF Grows, Typed
  <1>4. chunk_write_end_status(c, s, ok) \in {d, chunk_emergency_increase_version(d)}
    BY DEF chunk_write_end_status
  <1> HIDE DEF failed, ended
  <1>5. Grows(c, d)
    BY <1>1, <1>2, <1>3, SMTT(30)
  <1> HIDE DEF d
  <1> QED
    BY <1>4, <1>5, EmergencyTyped, GrowsTransitive, SMTT(30) DEF Grows

\* What a chunkserver reports about its part (chunk_server_has_chunk) keeps the
\* types; a version it reports is not above the chunk's.
LEMMA HasChunkTyped ==
  ASSUME NEW c, Typed(c), NEW s \in Servers, NEW version \in 0 .. c.version
  PROVE  Grows(c, chunk_server_has_chunk(c, s, version))
  <1> DEFINE p == c.parts[s]
             new == [state |-> IF version = c.version THEN "VALID" ELSE "INVALID",
                     version |-> version, beingWritten |-> FALSE]
             state == IF version = c.version THEN p.state ELSE "INVALID"
             old == [p EXCEPT !.version = version, !.state = state]
             d == chunk_server_has_chunk(c, s, version)
  <1>1. new \in Parts(c.version) /\ old \in Parts(c.version)
    <2>1. new \in Parts(c.version)
      BY DEF Parts
    <2>2. state \in {"none", "INVALID", "DEL", "BUSY", "VALID"}
      BY DEF Parts, Typed
    <2> HIDE DEF state
    <2>3. old \in Parts(c.version)
      BY <2>2, Zenon DEF Parts, Typed
    <2> QED
      BY <2>1, <2>3, SMTT(30)
  <1>2. p = NoPart => d = [c EXCEPT !.parts[s] = new]
    BY DEF chunk_server_has_chunk, NoPart
  <1>3. p # NoPart /\ p.state = "DEL" => d = invalidateCopy(c, s)
    BY DEF chunk_server_has_chunk
  <1>4. p # NoPart /\ p.state = "INVALID" => d = c
    BY DEF chunk_server_has_chunk
  <1>5. p # NoPart /\ p.state \notin {"DEL", "INVALID"} => d = [c EXCEPT !.parts[s] = old]
    <2> DEFINE e == [c EXCEPT !.parts[s].version = version]
    <2>1. e.parts[s].state = p.state /\ e = [c EXCEPT !.parts[s] = [p EXCEPT !.version = version]]
      BY DEF Typed, Fields, Parts
    <2>2. p # NoPart /\ p.state \notin {"DEL", "INVALID"} =>
            d = [e EXCEPT !.parts[s].state = IF version = c.version THEN @ ELSE "INVALID"]
      BY Zenon DEF chunk_server_has_chunk
    <2>3. [e EXCEPT !.parts[s].state = IF version = c.version THEN @ ELSE "INVALID"]
            = [c EXCEPT !.parts[s] = old]
      BY <2>1, ZenonT(60) DEF Typed, Fields, Parts
    <2> QED
      BY <2>2, <2>3, SMTT(30)
  <1>6. Grows(c, c)
    BY DEF Grows, Typed
  <1> HIDE DEF new, old, d
  <1>7. d = [c EXCEPT !.parts[s] = new] => Grows(c, d)
    BY <1>1, PartTyped
  <1>8. d = [c EXCEPT !.parts[s] = old] => Grows(c, d)
    BY <1>1, PartTyped
  <1> QED
    BY <1>2, <1>3, <1>4, <1>5, <1>6, <1>7, <1>8, InvalidTyped, SMTT(30) DEF d

\* So does the report of a damaged, a lost or a deleted part.
LEMMA GoneTyped ==
  ASSUME NEW c, Typed(c), NEW s \in Servers
  PROVE  /\ Grows(c, chunk_damaged(c, s)) /\ Grows(c, chunk_lost(c, s))
         /\ Grows(c, chunk_got_delete_status(c, s))
  <1>1. NoPart \in Parts(c.version)
    BY DEF NoPart, Parts, Typed
  <1>2. Grows(c, chunk_damaged(c, s))
    <2> DEFINE invalid == invalidateCopy(c, s)
    <2>1. Grows(c, invalid)
      BY InvalidTyped
    <2>2. chunk_damaged(c, s) = [invalid EXCEPT !.needVersionIncrease = TRUE]
      BY DEF chunk_damaged
    <2> HIDE DEF invalid
    <2>3. Grows(invalid, chunk_damaged(c, s))
      BY <2>1, <2>2, FlagsTyped, Zenon DEF Grows
    <2> QED
      BY <2>1, <2>3, GrowsTransitive
  <1>3. Grows(c, chunk_got_delete_status(c, s))
    <2>1. chunk_got_delete_status(c, s) = [c EXCEPT !.parts[s] = NoPart]
      BY DEF chunk_got_delete_status
    <2> QED
      BY <1>1, <2>1, PartTyped, SMTT(30)
  <1>4. Grows(c, chunk_lost(c, s))
    <2> DEFINE d == chunk_got_delete_status(c, s)
    <2>1. chunk_lost(c, s) \in {c, [d EXCEPT !.needVersionIncrease = TRUE]}
      BY DEF chunk_lost, chunk_got_delete_status
    <2> HIDE DEF d
    <2>2. \A e : e = [d EXCEPT !.needVersionIncrease = TRUE] => Grows(d, e)
      BY <1>3, FlagsTyped, ZenonT(30) DEF Grows, d
    <2>3. Grows(c, d) /\ Grows(c, c)
      BY <1>3, SMTT(30) DEF d, Grows, Typed
    <2> QED
      BY <2>1, <2>2, <2>3, GrowsTransitive, SMTT(30)
  <1> QED
    BY <1>2, <1>3, <1>4

\* So does the end of a replication.
LEMMA ReplicatedTyped ==
  ASSUME NEW c, Typed(c), NEW s \in Servers, NEW version \in 0 .. c.version, NEW ok \in BOOLEAN
  PROVE  Grows(c, chunk_got_replicate_status(c, s, version, ok))
  <1> DEFINE p == c.parts[s]
             new == [state |-> IF isLocked(c) \/ version # c.version THEN "INVALID" ELSE "VALID",
                     version |-> version, beingWritten |-> FALSE]
             old == [p EXCEPT !.state = "INVALID", !.version = version]
             d == chunk_got_replicate_status(c, s, version, ok)
  <1>1. new \in Parts(c.version) /\ old \in Parts(c.version)
    BY Zenon DEF Parts, Typed
  <1>2. d \in {c, [c EXCEPT !.parts[s] = new],
               [c EXCEPT !.parts[s].state = "INVALID", !.parts[s].version = version]}
    BY DEF chunk_got_replicate_status
  <1>3. [c EXCEPT !.parts[s].state = "INVALID", !.parts[s].version = version]
          = [c EXCEPT !.parts[s] = old]
    BY Zenon DEF Typed, Fields, Parts
  <1>4. Grows(c, c)
    BY DEF Grows, Typed
  <1> HIDE DEF new, old, d
  <1>5. d = [c EXCEPT !.parts[s] = new] => Grows(c, d)
    BY <1>1, PartTyped, SMTT(30)
  <1>6. d = [c EXCEPT !.parts[s] = old] => Grows(c, d)
    BY <1>1, PartTyped, SMTT(30)
  <1> QED
    BY <1>2, <1>3, <1>4, <1>5, <1>6, SMTT(30) DEF d

\* The requests of the chunk loop keep the types.
LEMMA LoopTyped ==
  ASSUME NEW c, Typed(c), NEW S, NEW version \in 0 .. c.version, NEW s
  PROVE  /\ Grows(c, deleteInvalidChunkParts(c, S))
         /\ Grows(c, deleteParts(c, S, version))
         /\ Grows(c, tryReplication(c, s))
  <1>1. c.version \in Nat /\ 0 \in 0 .. c.version /\ c.version \in 0 .. c.version
    BY DEF Typed
  <1>2. ASSUME NEW requests, \A x \in DOMAIN requests : requests[x] \in Requests(c.version)
        PROVE  Grows(c, SendTo(c, requests))
    <2> DEFINE d == SendTo(c, requests)
    <2>1. d.toCs \in [Servers -> Seq(Requests(c.version))]
      BY <1>2, SendToQueues, SMTT(30) DEF Typed
    <2>2. /\ DOMAIN d = DOMAIN c
          /\ d.version = c.version /\ d.operation = c.operation
          /\ d.interrupted = c.interrupted /\ d.needVersionIncrease = c.needVersionIncrease
          /\ d.lockedto = c.lockedto /\ d.lockid = c.lockid /\ d.fileCount = c.fileCount
          /\ d.parts = c.parts /\ d.delayed = c.delayed /\ d.grant = c.grant
          /\ d.used = c.used /\ d.acked = c.acked /\ d.replayed = c.replayed
      BY SendToFields, SMTT(30) DEF Typed
    <2> HIDE DEF d
    <2>3. Grows(c, d)
      BY <1>1, <2>1, <2>2, SMTT(30) DEF Grows, Typed, Scalars, Clients, Awaits
    <2> QED
      BY <2>3, SMTT(30) DEF d
  <1>3. ASSUME NEW d, Typed(d), NEW T, NEW b \in BOOLEAN, NEW e,
               e = [d EXCEPT !.parts = [x \in Servers |-> IF x \in T
                                          THEN [@[x] EXCEPT !.state = "DEL"] ELSE @[x]],
                             !.needVersionIncrease = b]
        PROVE  Grows(d, e)
    <2> DEFINE parts == [x \in Servers |-> IF x \in T THEN [d.parts[x] EXCEPT !.state = "DEL"]
                                           ELSE d.parts[x]]
               f == [d EXCEPT !.parts = parts, !.needVersionIncrease = b]
    <2>1. parts \in [Servers -> Parts(d.version)]
      BY <1>3, ZenonT(30) DEF Typed, Parts
    <2>2. e = f
      BY <1>3
    <2> HIDE DEF parts
    <2>3. Grows(d, f)
      BY <1>3, <2>1 DEF Grows, Typed, Fields, Scalars, Clients, Awaits
    <2> QED
      BY <2>2, <2>3, SMTT(30)
  <1>4. Grows(c, deleteInvalidChunkParts(c, S))
    <2> DEFINE victims == {x \in S : c.parts[x].state \in {"INVALID", "DEL"}}
               requests == [x \in victims |-> [op |-> "DELETE", version |-> 0]]
               sent == SendTo(c, requests)
               parts == [x \in Servers |-> IF x \in victims
                           THEN [sent.parts[x] EXCEPT !.state = "DEL"] ELSE sent.parts[x]]
               b == sent.needVersionIncrease
    <2>1. \A x \in DOMAIN requests : requests[x] \in Requests(c.version)
      BY <1>1, RequestTypes, Zenon
    <2>2. Grows(c, sent)
      BY <1>2, <2>1, Zenon
    <2>3. deleteInvalidChunkParts(c, S) = [sent EXCEPT !.parts = parts]
      BY DEF deleteInvalidChunkParts
    <2> HIDE DEF victims, sent
    <2>4. [sent EXCEPT !.parts = parts] = [sent EXCEPT !.parts = parts, !.needVersionIncrease = b]
      BY <2>2, Zenon DEF Grows, Typed, Fields
    <2>5. b \in BOOLEAN
      BY <2>2, SMTT(30) DEF Grows, Typed, Scalars
    <2>6. \A e : e = [sent EXCEPT !.parts = [x \in Servers |-> IF x \in victims
                              THEN [@[x] EXCEPT !.state = "DEL"] ELSE @[x]],
                            !.needVersionIncrease = b] => Grows(sent, e)
      BY <1>3, <2>2, <2>5, ZenonT(60) DEF Grows
    <2>7. Grows(sent, deleteInvalidChunkParts(c, S))
      BY <2>3, <2>4, <2>6, Zenon
    <2> QED
      BY <2>2, <2>7, GrowsTransitive, SMTT(30)
  <1>5. Grows(c, deleteParts(c, S, version))
    <2> DEFINE requests == [x \in S |-> [op |-> "DELETE", version |-> version]]
               sent == SendTo(c, requests)
               b == sent.needVersionIncrease \/ S # {}
    <2>1. \A x \in DOMAIN requests : requests[x] \in Requests(c.version)
      BY <1>1, RequestTypes, Zenon
    <2>2. Grows(c, sent)
      BY <1>2, <2>1, SMTT(30)
    <2>3. deleteParts(c, S, version)
            = [sent EXCEPT !.parts = [x \in Servers |-> IF x \in S
                             THEN [@[x] EXCEPT !.state = "DEL"] ELSE @[x]],
                           !.needVersionIncrease = b]
      BY DEF deleteParts
    <2>4. b \in BOOLEAN
      BY SMTT(30)
    <2> HIDE DEF sent, b
    <2>5. Grows(sent, deleteParts(c, S, version))
      BY <1>3, <2>2, <2>3, <2>4, ZenonT(60) DEF Grows
    <2> QED
      BY <2>2, <2>5, GrowsTransitive, SMTT(30)
  <1>6. Grows(c, tryReplication(c, s))
    <2> DEFINE sources == {x \in ValidParts(c) : ~is_busy(c.parts[x])}
               requests == [x \in {s} |-> [op |-> "REPLICATE", version |-> c.version,
                                           sources |-> sources]]
               sent == SendTo(c, requests)
    <2>1. sources \in SUBSET Servers
      BY DEF ValidParts
    <2> HIDE DEF sources
    <2>2. \A x \in DOMAIN requests : requests[x] \in Requests(c.version)
      BY <1>1, <2>1, RequestTypes, Zenon
    <2>3. Grows(c, sent) /\ Grows(c, c)
      BY <1>2, <2>2, SMTT(30) DEF Grows, Typed
    <2>4. tryReplication(c, s) \in {c, [sent EXCEPT !.needVersionIncrease = TRUE]}
      BY DEF tryReplication, sources
    <2> HIDE DEF sent
    <2>5. \A e : e = [sent EXCEPT !.needVersionIncrease = TRUE] => Grows(sent, e)
      BY <2>3, FlagsTyped, Zenon DEF Grows
    <2> QED
      BY <2>3, <2>4, <2>5, GrowsTransitive
  <1> QED
    BY <1>4, <1>5, <1>6, SMTT(30)

\* What the clients hold may change.
LEMMA GrantTyped ==
  ASSUME NEW c, Typed(c), NEW grant \in [LockIds -> Grants], NEW d, d = [c EXCEPT !.grant = grant]
  PROVE  Grows(c, d)
  BY DEF Grows, Typed, Fields, Scalars, Clients, Awaits

\* A client is given the chunk, its lock, or nothing.
LEMMA OneGrantTyped ==
  ASSUME NEW c, Typed(c), NEW l, NEW g \in Grants, NEW d, d = [c EXCEPT !.grant[l] = g]
  PROVE  Grows(c, d) /\ d.operation = c.operation /\ d.fileCount = c.fileCount
  <1> DEFINE grant == [c.grant EXCEPT ![l] = g]
             e == [c EXCEPT !.grant = grant]
  <1>1. grant \in [LockIds -> Grants]
    BY Zenon DEF Typed, Clients
  <1>2. e = [c EXCEPT !.grant[l] = g]
    OBVIOUS
  <1>3. e.operation = c.operation /\ e.fileCount = c.fileCount
    BY DEF Typed, Fields
  <1> HIDE DEF grant
  <1>4. Grows(c, e)
    BY <1>1, GrantTyped, SMTT(30)
  <1> QED
    BY <1>2, <1>3, <1>4, SMTT(30)

\* The grants that appear in the handlers.
LEMMA GrantTypes ==
  /\ NoGrant \in Grants /\ JustLock \in Grants
  /\ \A c : Typed(c) => [held |-> TRUE, version |-> c.version,
                         servers |-> ValidParts(c), done |-> {}] \in Grants
  <1>1. NoGrant \in Grants /\ JustLock \in Grants
    BY Zenon DEF NoGrant, JustLock, Grants
  <1>2. \A c : Typed(c) => [held |-> TRUE, version |-> c.version,
                            servers |-> ValidParts(c), done |-> {}] \in Grants
    BY DEF Grants, Typed, ValidParts
  <1> QED
    BY <1>1, <1>2, SMTT(30)

\* chunk_modify keeps the types: it starts from an idle chunk.
LEMMA ModifyTyped ==
  ASSUME NEW c, Typed(c), c.operation = "NONE", use.useLock \in BOOLEAN,
         NEW l \in LockIds, NEW known \in BOOLEAN
  PROVE  Grows(c, chunk_modify(c, l, known))
  <1> DEFINE started == IF c.needVersionIncrease THEN chunk_increase_version_operation(c, TRUE)
                        ELSE chunk_lock_operation(c)
             replayed == chunk_apply_modification(started.replayed,
                           should_increase_chunk_version_on_modification(started.operation))
             locked == [started EXCEPT !.lockedto = "future", !.lockid = l, !.used = @ \cup {l},
                                       !.replayed = replayed]
             waiting == [locked EXCEPT !.delayed = [kind |-> "write", by |-> l, known |-> known]]
  <1>1. IF locked.operation = "NONE" THEN chunk_modify(c, l, known) = respond(locked, l)
        ELSE chunk_modify(c, l, known) = waiting
    BY Zenon DEF chunk_modify
  <1>2. Grows(c, started) /\ started.delayed = Nobody
    <2>1. CASE c.needVersionIncrease
      <3> DEFINE d == chunk_increase_version_operation(c, TRUE)
      <3>1. Typed(d) /\ d.version = c.version + 1 /\ d.delayed = c.delayed
        BY IncreaseTyped, Zenon
      <3>2. started = d
        BY <2>1, SMTT(30)
      <3> HIDE DEF d, started
      <3> QED
        BY <3>1, <3>2, SMTT(30) DEF Grows, Typed, Awaits
    <2>2. CASE ~c.needVersionIncrease
      <3> DEFINE d == chunk_lock_operation(c)
      <3>1. Typed(d) /\ d.version = c.version /\ d.delayed = Nobody
        BY LockTyped
      <3>2. started = d
        BY <2>2, SMTT(30)
      <3> HIDE DEF d, started
      <3> QED
        BY <3>1, <3>2, SMTT(30) DEF Grows, Typed
    <2> QED
      BY <2>1, <2>2, Zenon
  <1> HIDE DEF started, replayed
  <1>3. Grows(c, locked) /\ locked.delayed = Nobody
    BY <1>2 DEF Grows, Typed, Fields, Scalars, Clients, Awaits
  <1> HIDE DEF locked
  <1>4. locked.operation # "NONE" => Grows(c, waiting)
    <2> DEFINE delayed == [kind |-> "write", by |-> l, known |-> known]
    <2>1. delayed \in Delays /\ delayed.kind # "none" /\ delayed.by \in LockIds
      BY DEF Delays
    <2> DEFINE e == [locked EXCEPT !.delayed = delayed]
    <2> HIDE DEF delayed
    <2>2. locked.operation # "NONE" => Typed(e) /\ e.version = locked.version
      BY <1>3, <2>1, SMTT(30) DEF Grows, Typed, Fields, Scalars, Clients, Awaits
    <2>3. waiting = e
      BY DEF delayed
    <2> HIDE DEF waiting, e
    <2> QED
      BY <1>3, <2>2, <2>3, SMTT(30) DEF Grows
  <1>5. Grows(locked, respond(locked, l))
    <2> DEFINE g == [held |-> TRUE, version |-> locked.version,
                     servers |-> ValidParts(locked), done |-> {}]
    <2>1. g \in Grants
      BY <1>3, GrantTypes, SMTT(30) DEF Grows
    <2>2. respond(locked, l) = [locked EXCEPT !.grant[l] = g]
      BY DEF respond
    <2> HIDE DEF g
    <2>3. Typed(locked)
      BY <1>3, SMTT(30) DEF Grows
    <2> QED
      BY <2>1, <2>2, <2>3, OneGrantTyped, SMTT(30)
  <1> QED
    BY <1>1, <1>3, <1>4, <1>5, GrowsTransitive, SMTT(30)

\* A chunk is born with its types.
LEMMA BirthTyped ==
  ASSUME NEW operation \in {"CREATE", "DUPLICATE", "DUPTRUNC"}, NEW T \in SUBSET Servers,
         NEW l \in LockIds, use.useLock \in BOOLEAN
  PROVE  Typed(birth(operation, T, l)) /\ birth(operation, T, l).version = 1
  <1> DEFINE locks == use.useLock /\ operation # "DUPTRUNC"
             lockid == IF operation = "DUPTRUNC" THEN NoLock ELSE l
             parts == [s \in Servers |->
                         IF s \in T THEN [state |-> "BUSY", version |-> 1,
                                          beingWritten |-> locks]
                         ELSE NoPart]
             delayed == [kind |-> IF operation = "DUPTRUNC" THEN "truncate" ELSE "write",
                         by |-> l, known |-> FALSE]
             toCs == [s \in Servers |-> <<>>]
             grant == [k \in LockIds |-> NoGrant]
             c == [version |-> 1, operation |-> operation, interrupted |-> FALSE,
                   needVersionIncrease |-> TRUE, lockedto |-> "future", lockid |-> lockid,
                   fileCount |-> 1, parts |-> parts, delayed |-> delayed, toCs |-> toCs,
                   grant |-> grant, used |-> {l}, acked |-> {}, replayed |-> 1]
             by == IF operation = "DUPTRUNC" THEN {l} ELSE {}
             requests == [s \in T |-> [op |-> "CREATE", lock |-> locks, by |-> by]]
  <1>1. birth(operation, T, l) = SendTo(c, requests)
    BY DEF birth
  <1>2. locks \in BOOLEAN /\ by \in SUBSET LockIds /\ lockid \in LockIds \cup {NoLock}
    OBVIOUS
  <1> HIDE DEF locks, by, lockid
  <1>3. parts \in [Servers -> Parts(1)]
    <2>1. [state |-> "BUSY", version |-> 1, beingWritten |-> locks] \in Parts(1)
      BY <1>2, SMTT(30) DEF Parts
    <2>2. NoPart \in Parts(1)
      BY DEF Parts, NoPart
    <2> QED
      BY <2>1, <2>2, SMTT(30)
  <1>4. toCs \in [Servers -> Seq(Requests(1))] /\ grant \in [LockIds -> Grants]
    BY GrantTypes, SMTT(30)
  <1>5. delayed \in Delays /\ delayed.kind # "none" /\ delayed.by \in LockIds
    BY DEF Delays
  <1>6. \A s \in DOMAIN requests : requests[s] \in Requests(1)
    <2>1. 0 \in 0 .. 1 /\ 1 \in Nat
      OBVIOUS
    <2> QED
      BY <1>2, <2>1, RequestTypes, Zenon
  <1> HIDE DEF parts, toCs, grant, delayed
  <1>7. Fields \subseteq DOMAIN c /\ c.toCs = toCs /\ c.version = 1
    BY DEF Fields
  <1>8. Scalars(c) /\ Clients(c) /\ Awaits(c)
    BY <1>2, <1>4, <1>5, SMTT(30) DEF Scalars, Clients, Awaits, Operations
  <1>9. c.parts \in [Servers -> Parts(1)]
    BY <1>3, SMTT(30)
  <1> DEFINE d == SendTo(c, requests)
  <1> HIDE DEF c, requests
  <1>10. d.toCs \in [Servers -> Seq(Requests(1))]
    BY <1>4, <1>6, <1>7, SendToQueues, SMTT(30)
  <1>11. /\ DOMAIN d = DOMAIN c
         /\ d.version = c.version /\ d.operation = c.operation
         /\ d.interrupted = c.interrupted /\ d.needVersionIncrease = c.needVersionIncrease
         /\ d.lockedto = c.lockedto /\ d.lockid = c.lockid /\ d.fileCount = c.fileCount
         /\ d.parts = c.parts /\ d.delayed = c.delayed /\ d.grant = c.grant
         /\ d.used = c.used /\ d.acked = c.acked /\ d.replayed = c.replayed
    BY <1>7, SendToFields, SMTT(30)
  <1> HIDE DEF d
  <1>12. Typed(d) /\ d.version = 1
    BY <1>7, <1>8, <1>9, <1>10, <1>11, SMTT(30) DEF Typed, Scalars, Clients, Awaits
  <1> QED
    BY <1>1, <1>12, SMTT(30) DEF d

-----------------------------------------------------------------------------
(* The actions. *)

\* A chunkserver of a chunk whose version is v.
Hosts(v) ==
  [version : 0 .. v, data : SUBSET LockIds, lock : {"free", "locked", "writing"},
   wanted : BOOLEAN, error : BOOLEAN, writers : SUBSET LockIds, jobs : Seq(Jobs(v))]

\* The inductive invariant: nothing anywhere in the system names a version above
\* the one of the master's Chunk object.
IInv ==
  /\ use \in Setups
  /\ Typed(m) /\ m.version \in 1 .. MaxVersion
  /\ cs \in [Servers -> Hosts(m.version)]
  /\ toMa \in [Servers -> Seq(Packets(m.version))]

\* The set-up is one of those that were assumed.
LEMMA SetupFacts ==
  ASSUME use \in Setups
  PROVE  use.useLock \in BOOLEAN /\ use.servers \subseteq Servers
  BY ChunksAssumption, SMTT(30)

\* A step that keeps the types keeps the invariant.
LEMMA StepTyped ==
  ASSUME IInv, Grows(m, m'), m'.version <= MaxVersion, use' = use,
         cs' \in [Servers -> Hosts(m.version)], toMa' \in [Servers -> Seq(Packets(m.version))]
  PROVE  IInv'
  <1>1. m.version \in Nat /\ m'.version \in Nat /\ m.version <= m'.version
    BY DEF IInv, Grows, Typed
  <1>2. /\ 0 .. m.version \subseteq 0 .. m'.version
        /\ Seq(Jobs(m.version)) \subseteq Seq(Jobs(m'.version))
        /\ Seq(Packets(m.version)) \subseteq Seq(Packets(m'.version))
    BY <1>1, Monotone, SMTT(30)
  <1>3. Hosts(m.version) \subseteq Hosts(m'.version)
    BY <1>2 DEF Hosts
  <1>4. cs' \in [Servers -> Hosts(m'.version)] /\ toMa' \in [Servers -> Seq(Packets(m'.version))]
    BY <1>2, <1>3, Zenon
  <1>5. use' \in Setups /\ Typed(m') /\ m'.version \in 1 .. MaxVersion
    BY <1>1, ChunksAssumption, SMTT(30) DEF IInv, Grows
  <1> QED
    BY <1>4, <1>5, SMTT(30) DEF IInv, Typed, Scalars, Clients, Awaits, Delays, Nobody

\* A handler of the master starts by looking the chunk up and ends within the bound.
LEMMA FindTyped ==
  ASSUME IInv
  PROVE  Grows(m, chunk_find(m)) /\ Typed(chunk_find(m))
  BY SetupFacts, DisconnectedTyped, SMTT(30) DEF IInv, chunk_find, Grows

\* A step of the master alone.
LEMMA MasterTyped ==
  ASSUME IInv, NEW d, Grows(chunk_find(m), d), MasterBecomes(d), use' = use, cs' = cs,
         toMa' \in [Servers -> Seq(Packets(m.version))]
  PROVE  IInv'
  <1>1. Grows(m, m')
    BY FindTyped, GrowsTransitive, SMTT(30) DEF MasterBecomes, IInv
  <1>2. m'.version <= MaxVersion
    BY DEF MasterBecomes
  <1>3. cs' \in [Servers -> Hosts(m.version)]
    BY DEF IInv
  <1> QED
    BY <1>1, <1>2, <1>3, StepTyped, SMTT(30)

\* FUSE_WRITE_CHUNK keeps the types: an operation is started on an idle chunk only
\* (CHUNKBUSY).
LEMMA WriteRequestTyped ==
  ASSUME IInv, use' = use, NEW l \in LockIds, NEW known \in BOOLEAN, WriteRequest(l, known)
  PROVE  IInv'
  <1> DEFINE c == chunk_find(m)
             asked == IF known THEN [c EXCEPT !.grant[l] = JustLock] ELSE c
             refused == [asked EXCEPT !.grant[l] = NoGrant]
             copied == [asked EXCEPT !.fileCount = @ - 1, !.grant[l] = NoGrant]
             modified == chunk_modify(asked, l, known)
             refusal == Refusal(asked, l, known)
             d == CASE refusal = "WRONGLOCKID" -> refused
                    [] refusal \in {"LOCKED", "CHUNKLOST", "CHUNKBUSY"} -> asked
                    [] refusal = "OK" /\ c.fileCount = 1 -> modified
                    [] OTHER -> copied
  <1>1. MasterBecomes(d) /\ cs' = cs /\ toMa' = toMa
    BY DEF WriteRequest
  <1>2. Typed(c)
    BY FindTyped, SMTT(30)
  <1> HIDE DEF c
  <1>3. Grows(c, asked) /\ asked.operation = c.operation /\ asked.fileCount = c.fileCount
    <2>1. CASE known
      <3>1. asked = [c EXCEPT !.grant[l] = JustLock]
        BY <2>1
      <3> HIDE DEF asked
      <3> QED
        BY <1>2, <3>1, GrantTypes, OneGrantTyped, SMTT(30)
    <2>2. CASE ~known
      BY <1>2, <2>2, SMTT(30) DEF Grows, Typed
    <2> QED
      BY <2>1, <2>2, SMTT(30)
  <1>4. Typed(asked)
    BY <1>3, SMTT(30) DEF Grows
  <1>5. refusal \in {"WRONGLOCKID", "LOCKED", "CHUNKLOST", "CHUNKBUSY", "OK"}
    BY DEF Refusal
  <1>6. refusal = "OK" => asked.fileCount # 0 /\ (asked.fileCount = 1 => asked.operation = "NONE")
    BY DEF Refusal
  <1> HIDE DEF asked, refusal
  <1>7. Grows(asked, refused)
    <2> HIDE DEF refused
    <2>1. refused = [asked EXCEPT !.grant[l] = NoGrant]
      BY DEF refused
    <2> QED
      BY <1>4, <2>1, GrantTypes, OneGrantTyped, SMTT(30)
  <1>8. refusal = "OK" /\ c.fileCount # 1 => Grows(asked, copied)
    <2> DEFINE n == asked.fileCount - 1
               grant == [asked.grant EXCEPT ![l] = NoGrant]
    <2>1. refusal = "OK" /\ c.fileCount # 1 => n \in 0 .. 2
      BY <1>3, <1>4, <1>6, SMTT(30) DEF Typed, Scalars
    <2>2. grant \in [LockIds -> Grants]
      BY <1>4, GrantTypes, SMTT(30) DEF Typed, Clients
    <2>3. copied = [asked EXCEPT !.fileCount = n, !.grant = grant]
      BY <1>4, SMTT(30) DEF Typed, Fields
    <2> DEFINE e == [asked EXCEPT !.fileCount = n, !.grant = grant]
    <2> HIDE DEF n, grant, copied
    <2>4. refusal = "OK" /\ c.fileCount # 1 => Grows(asked, e)
      BY <1>4, <2>1, <2>2, SMTT(30) DEF Grows, Typed, Fields, Scalars, Clients, Awaits
    <2> QED
      BY <2>3, <2>4, SMTT(30)
  <1>9. refusal = "OK" /\ c.fileCount = 1 => Grows(asked, modified)
    BY <1>3, <1>4, <1>6, SetupFacts, ModifyTyped, SMTT(30) DEF IInv
  <1>10. Grows(asked, asked)
    BY <1>4, SMTT(30) DEF Grows, Typed
  <1> HIDE DEF refused, copied, modified
  <1>11. Grows(asked, d)
    BY <1>5, <1>7, <1>8, <1>9, <1>10, SMTT(30)
  <1> HIDE DEF d
  <1>12. Grows(chunk_find(m), d)
    BY <1>2, <1>3, <1>11, GrowsTransitive, SMTT(30) DEF c
  <1>13. toMa' \in [Servers -> Seq(Packets(m.version))]
    BY <1>1, SMTT(30) DEF IInv
  <1> QED
    BY <1>1, <1>12, <1>13, MasterTyped, SMTT(30)

\* FUSE_TRUNCATE keeps the types.
LEMMA TruncateRequestTyped ==
  ASSUME IInv, use' = use, NEW l \in LockIds, TruncateRequest(l)
  PROVE  IInv'
  <1> DEFINE c == chunk_find(m)
             t == chunk_truncate_operation(c, l)
             n == IF ~isLost(c) /\ ~isLocked(c) /\ c.fileCount > 1 THEN c.fileCount - 1
                  ELSE c.fileCount
             copied == [c EXCEPT !.fileCount = n]
             delayed == [kind |-> "truncate", by |-> l, known |-> FALSE]
             replayed == chunk_apply_modification(t.replayed, TRUE)
             cut == [t EXCEPT !.lockedto = "future", !.lockid = NoLock, !.used = @ \cup {l},
                              !.delayed = delayed, !.replayed = replayed]
  <1>1. (MasterBecomes(copied) \/ MasterBecomes(cut)) /\ cs' = cs /\ toMa' = toMa
    BY DEF TruncateRequest
  <1>2. Typed(c)
    BY FindTyped, SMTT(30)
  <1> HIDE DEF c
  <1>3. n \in 0 .. 2
    BY <1>2, SMTT(30) DEF Typed, Scalars
  <1> HIDE DEF n
  <1>4. Grows(c, copied)
    BY <1>2, <1>3, SMTT(30) DEF Grows, Typed, Fields, Scalars, Clients, Awaits
  <1>5. Typed(t) /\ t.version = c.version + 1 /\ t.operation = "TRUNCATE"
    BY <1>2, TruncateTyped, SMTT(30)
  <1>6. delayed \in Delays /\ delayed.kind # "none" /\ delayed.by \in LockIds
    BY DEF Delays
  <1> HIDE DEF t, delayed, replayed
  <1>7. Typed(cut) /\ cut.version = t.version
    BY <1>5, <1>6, SMTT(30) DEF Typed, Fields, Scalars, Clients, Awaits
  <1>8. Grows(c, cut)
    BY <1>2, <1>5, <1>7, SMTT(30) DEF Grows, Typed
  <1> HIDE DEF copied, cut
  <1>9. toMa' \in [Servers -> Seq(Packets(m.version))]
    BY <1>1 DEF IInv
  <1> QED
    BY <1>1, <1>4, <1>8, <1>9, MasterTyped, SMTT(30) DEF c

\* Unlocking a chunk keeps the types.
LEMMA UnlockTyped ==
  ASSUME NEW c, Typed(c)
  PROVE  Grows(c, chunk_unlock(c))
  BY DEF chunk_unlock, Grows, Typed, Fields, Scalars, Clients, Awaits

\* What else a client asks of the master keeps the types: FUSE_WRITE_CHUNK_END, the
\* end of a connection, the snapshot and the removal of a file.
LEMMA ClientsTyped ==
  ASSUME IInv, use' = use,
         \/ \E l \in LockIds : WriteEnd(l)
         \/ matocl_before_disconnect \/ chunk_add_file \/ chunk_delete_file
  PROVE  IInv'
  <1> DEFINE c == chunk_find(m)
  <1>1. Typed(c) /\ Grows(c, c)
    BY FindTyped DEF Grows, Typed
  <1>2. toMa' \in [Servers -> Seq(Packets(m.version))] /\ cs' = cs
    BY Zenon DEF IInv, WriteEnd, matocl_before_disconnect, chunk_add_file, chunk_delete_file
  <1>3. CASE \E l \in LockIds : WriteEnd(l)
    <2> PICK l \in LockIds : WriteEnd(l)
      BY <1>3, SMTT(30)
    <2> DEFINE d == [c EXCEPT !.grant[l] = NoGrant]
    <2>1. MasterBecomes(d) \/ MasterBecomes(chunk_unlock(d))
      BY DEF WriteEnd
    <2> HIDE DEF c, d
    <2>2. Grows(c, d)
      <3>1. d = [c EXCEPT !.grant[l] = NoGrant]
        BY DEF d
      <3> QED
        BY <1>1, <3>1, GrantTypes, OneGrantTyped, SMTT(30)
    <2>3. Grows(c, chunk_unlock(d))
      BY <1>1, <2>2, UnlockTyped, GrowsTransitive, SMTT(30) DEF Grows
    <2> QED
      BY <1>2, <2>1, <2>2, <2>3, MasterTyped, SMTT(30) DEF c
  <1>4. CASE matocl_before_disconnect
    <2> DEFINE d == [c EXCEPT !.delayed = Nobody]
    <2>1. MasterBecomes(d) \/ MasterBecomes(chunk_unlock(d))
      BY <1>4, SMTT(30) DEF matocl_before_disconnect
    <2> HIDE DEF c
    <2>2. Grows(c, d)
      <3>1. Nobody \in Delays
        BY DEF Nobody, Delays
      <3> QED
        BY <1>1, <3>1, SMTT(30) DEF Grows, Typed, Fields, Scalars, Clients, Awaits
    <2> HIDE DEF d
    <2>3. Grows(c, chunk_unlock(d))
      BY <1>1, <2>2, UnlockTyped, GrowsTransitive, SMTT(30) DEF Grows
    <2> QED
      BY <1>2, <2>1, <2>2, <2>3, MasterTyped, SMTT(30) DEF c
  <1>5. CASE chunk_add_file \/ chunk_delete_file
    <2>1. PICK n \in 0 .. 2 : MasterBecomes([c EXCEPT !.fileCount = n])
      <3>1. c.fileCount \in 0 .. 2
        BY <1>1, SMTT(30) DEF Typed, Scalars
      <3>2. CASE chunk_add_file
        BY <3>2 DEF chunk_add_file
      <3>3. CASE chunk_delete_file
        <4>1. c.fileCount > 0 /\ MasterBecomes([c EXCEPT !.fileCount = @ - 1])
          BY <3>3, SMTT(30) DEF chunk_delete_file
        <4> HIDE DEF c
        <4>2. c.fileCount - 1 \in 0 .. 2
          BY <3>1, <4>1, SMTT(30)
        <4> QED
          BY <4>1, <4>2, SMTT(30)
      <3> QED
        BY <1>5, <3>2, <3>3, SMTT(30)
    <2> DEFINE d == [c EXCEPT !.fileCount = n]
    <2> HIDE DEF c
    <2>2. Grows(c, d)
      BY <1>1, SMTT(30) DEF Grows, Typed, Fields, Scalars, Clients, Awaits
    <2> QED
      BY <1>2, <2>1, <2>2, MasterTyped, SMTT(30) DEF c
  <1> QED
    BY <1>3, <1>4, <1>5, SMTT(30)

\* A lock that runs out keeps the types.
LEMMA LockExpiresTyped ==
  ASSUME IInv, use' = use, LockExpires
  PROVE  IInv'
  <1>1. Typed(m) /\ m.version <= MaxVersion
    BY DEF IInv, Typed
  <1>2. m' = [m EXCEPT !.lockedto = "past"] /\ cs' = cs /\ toMa' = toMa
    BY DEF LockExpires
  <1>3. Grows(m, m') /\ m'.version <= MaxVersion
    BY <1>1, <1>2, SMTT(30) DEF Grows, Typed, Fields, Scalars, Clients, Awaits
  <1> QED
    BY <1>2, <1>3, StepTyped, SMTT(30) DEF IInv

\* A client that dies keeps the types.
LEMMA CrashTyped ==
  ASSUME IInv, use' = use, NEW l \in LockIds, ClientCrash(l)
  PROVE  IInv'
  <1>1. Typed(m) /\ m.version <= MaxVersion
    BY DEF IInv, Typed
  <1>2. m' = [m EXCEPT !.grant[l] = NoGrant] /\ cs' = cs /\ toMa' = toMa
    BY DEF ClientCrash
  <1>3. Grows(m, m')
    BY <1>1, <1>2, GrantTypes, OneGrantTyped, SMTT(30)
  <1>4. m'.version <= MaxVersion
    BY <1>1, <1>2, SMTT(30) DEF Typed, Fields
  <1> QED
    BY <1>2, <1>3, <1>4, StepTyped, SMTT(30) DEF IInv

\* The data a client writes on a chunkserver keeps the types.
LEMMA WriteDataTyped ==
  ASSUME IInv, use' = use, NEW l \in LockIds, NEW s \in Servers, NEW outcome,
         WriteData(l, s, outcome)
  PROVE  IInv'
  <1>1. Typed(m) /\ Grows(m, m) /\ m.version <= MaxVersion
    BY DEF IInv, Grows, Typed
  <1>2. toMa' \in [Servers -> Seq(Packets(m.version))]
    BY DEF IInv, WriteData
  <1> DEFINE g == m.grant[l]
             done == g.done \cup {s}
             grant == [m.grant EXCEPT ![l].done = done]
             acked == IF done = g.servers THEN m.acked \cup {l} ELSE m.acked
             landed == [m EXCEPT !.grant[l].done = done,
                                 !.acked = IF done = g.servers THEN @ \cup {l} ELSE @]
             k == cs[s]
             opened == [k EXCEPT !.lock = IF @ = "free" THEN @ ELSE "writing",
                                 !.writers = IF k.lock = "free" THEN @ ELSE @ \cup {l}]
             written == [opened EXCEPT !.data = @ \cup {l}]
             broken == [opened EXCEPT !.error = TRUE]
  <1>3. /\ m' = m \/ m' = landed
        /\ \/ cs' = [cs EXCEPT ![s] = opened]
           \/ cs' = [cs EXCEPT ![s] = written]
           \/ cs' = [cs EXCEPT ![s] = broken]
    BY DEF WriteData
  <1>4. Grows(m, m') /\ m'.version <= MaxVersion
    <2>1. g \in Grants
      BY <1>1, SMTT(30) DEF Typed, Clients
    <2>2. [g EXCEPT !.done = done] \in Grants
      BY <2>1, SMTT(30) DEF Grants
    <2>3. grant \in [LockIds -> Grants]
      BY <1>1, <2>2, SMTT(30) DEF Typed, Clients
    <2>4. acked \subseteq LockIds
      BY <1>1, SMTT(30) DEF Typed, Clients
    <2>5. landed = [m EXCEPT !.grant = grant, !.acked = acked]
      BY <1>1, SMTT(30) DEF Typed, Fields
    <2> DEFINE e == [m EXCEPT !.grant = grant, !.acked = acked]
    <2> HIDE DEF grant, acked, landed
    <2>6. Grows(m, e) /\ e.version <= MaxVersion
      BY <1>1, <2>3, <2>4, SMTT(30) DEF Grows, Typed, Fields, Scalars, Clients, Awaits
    <2> QED
      BY <1>1, <1>3, <2>5, <2>6, Zenon
  <1>5. k \in Hosts(m.version)
    BY DEF IInv
  <1>6. opened \in Hosts(m.version)
    BY <1>5, Zenon DEF Hosts
  <1> HIDE DEF opened
  <1>7. written \in Hosts(m.version) /\ broken \in Hosts(m.version)
    BY <1>6, Zenon DEF Hosts
  <1> HIDE DEF written, broken, k
  <1>8. cs' \in [Servers -> Hosts(m.version)]
    BY <1>3, <1>6, <1>7, SMTT(30) DEF IInv
  <1> QED
    BY <1>2, <1>4, <1>8, StepTyped, SMTT(30)

\* The chunk loop and the scan for the parts of lost servers keep the types.
LEMMA WorkerTyped ==
  ASSUME IInv, use' = use, doChunkJobs \/ chunk_clean_zombie_servers_a_bit
  PROVE  IInv'
  <1> DEFINE c == chunk_find(m)
  <1>1. Typed(c) /\ Grows(c, c)
    BY FindTyped, SMTT(30) DEF Grows, Typed
  <1>2. toMa' \in [Servers -> Seq(Packets(m.version))] /\ cs' = cs
    BY Zenon DEF IInv, doChunkJobs, chunk_clean_zombie_servers_a_bit
  <1>3. CASE doChunkJobs
    <2>1. PICK able :
            LET d == deleteInvalidChunkParts(c, able)
            IN  \/ MasterBecomes(c) \/ MasterBecomes(d)
                \/ \E S : MasterBecomes(deleteParts(d, S, d.version)) \/ MasterBecomes(deleteParts(d, S, 0))
                \/ \E s : MasterBecomes(tryReplication(d, s))
      <3>1. PICK able \in SUBSET {s \in Servers : m.parts[s] # NoPart} :
              LET d == deleteInvalidChunkParts(c, able)
                  invalid == {s \in Servers : c.parts[s].state \in {"INVALID", "DEL"}}
                  free == {s \in Servers : conn[s] /\ d.parts[s] = NoPart}
                  valid == ValidParts(d)
              IN IF isLost(c) /\ invalid # {} /\ c.fileCount > 0 THEN MasterBecomes(c)
                 ELSE IF d.operation # "NONE" \/ isLocked(d) \/ BusyParts(d) # {} THEN MasterBecomes(d)
                 ELSE IF d.fileCount = 0 THEN MasterBecomes(deleteParts(d, valid \cap able, d.version))
                 ELSE \/ isLost(d) /\ MasterBecomes(d)
                      \/ /\ ~isLost(d) /\ Cardinality(valid) > use.goal
                         /\ \E s \in valid \cap able : MasterBecomes(deleteParts(d, {s}, 0))
                      \/ /\ ~isLost(d) /\ Cardinality(valid) <= use.goal
                         /\ \E s \in free : MasterBecomes(tryReplication(d, s))
        BY <1>3, Zenon DEF doChunkJobs
      <3> DEFINE d == deleteInvalidChunkParts(c, able)
      <3> HIDE DEF c, d
      <3>2. \/ MasterBecomes(c) \/ MasterBecomes(d)
            \/ \E S : MasterBecomes(deleteParts(d, S, d.version)) \/ MasterBecomes(deleteParts(d, S, 0))
            \/ \E s : MasterBecomes(tryReplication(d, s))
        BY <3>1, Zenon DEF d
      <3> QED
        BY <3>2, Zenon DEF d
    <2> DEFINE d == deleteInvalidChunkParts(c, able)
    <2> HIDE DEF c, d
    <2>2. 0 \in 0 .. c.version /\ c.version \in Nat
      BY <1>1 DEF Typed
    <2>3. Grows(c, d)
      BY <1>1, <2>2, LoopTyped, SMTT(30) DEF d
    <2>4. Typed(d) /\ 0 \in 0 .. d.version /\ d.version \in 0 .. d.version
      BY <2>3, SMTT(30) DEF Grows, Typed
    <2>5. \A S : Grows(d, deleteParts(d, S, 0)) /\ Grows(d, deleteParts(d, S, d.version))
      BY <2>4, LoopTyped, SMTT(30)
    <2>6. \A s : Grows(d, tryReplication(d, s))
      BY <2>4, LoopTyped, SMTT(30)
    <2>7. \E e : MasterBecomes(e) /\ (e = c \/ e = d \/ Grows(d, e))
      BY <2>1, <2>5, <2>6, Zenon DEF d
    <2>8. PICK e : MasterBecomes(e) /\ Grows(c, e)
      BY <1>1, <2>3, <2>7, GrowsTransitive, SMTT(30)
    <2> QED
      BY <1>2, <2>8, MasterTyped, SMTT(30) DEF c
  <1>4. CASE chunk_clean_zombie_servers_a_bit
    BY <1>1, <1>2, <1>4, MasterTyped, SMTT(30) DEF chunk_clean_zombie_servers_a_bit
  <1> QED
    BY <1>3, <1>4, SMTT(30)

\* The packets of a chunkserver keep the types.
LEMMA ReceiveTyped ==
  ASSUME IInv, use' = use, NEW s \in Servers, MaReceive(s)
  PROVE  IInv'
  <1> DEFINE c == chunk_find(m)
             p == Head(toMa[s])
             d == CASE p.type = "STATUS" -> chunk_operation_status(c, s, p.ok)
                    [] p.type = "WRITEEND" -> chunk_write_end_status(c, s, p.ok)
                    [] p.type = "DELETED" -> chunk_got_delete_status(c, s)
                    [] p.type = "REPLICATED" -> chunk_got_replicate_status(c, s, p.version, p.ok)
                    [] p.type = "HASCHUNK" -> chunk_server_has_chunk(c, s, p.version)
                    [] p.type = "DAMAGED" -> chunk_damaged(c, s)
                    [] OTHER -> chunk_lost(c, s)
  <1>1. Typed(c) /\ Grows(m, c)
    BY FindTyped, SMTT(30)
  <1>2. MasterBecomes(d) /\ cs' = cs /\ toMa' = [toMa EXCEPT ![s] = Tail(@)] /\ toMa[s] # <<>>
    BY DEF MaReceive
  <1>3. toMa[s] \in Seq(Packets(m.version))
    BY DEF IInv
  <1>4. p \in Packets(m.version) /\ Tail(toMa[s]) \in Seq(Packets(m.version))
    <2> HIDE DEF d
    <2> QED
      BY <1>2, <1>3, HeadTail, Zenon
  <1>5. toMa' \in [Servers -> Seq(Packets(m.version))]
    BY <1>2, <1>4, SMTT(30) DEF IInv
  <1>6. use.useLock \in BOOLEAN
    BY SetupFacts, SMTT(30) DEF IInv
  <1>7. /\ p.type \in {"STATUS", "WRITEEND", "REPLICATED"} => p.ok \in BOOLEAN
        /\ p.type \in {"REPLICATED", "HASCHUNK"} => p.version \in 0 .. m.version
    BY <1>4, SMTT(30) DEF Packets
  <1>8. 0 .. m.version \subseteq 0 .. c.version
    BY <1>1, SMTT(30) DEF Grows, IInv, Typed
  <1> HIDE DEF c, p
  <1>9. /\ p.type = "STATUS" => Grows(c, chunk_operation_status(c, s, p.ok))
        /\ p.type = "WRITEEND" => Grows(c, chunk_write_end_status(c, s, p.ok))
    BY <1>1, <1>6, <1>7, OperationStatusTyped, WriteEndTyped, SMTT(30)
  <1>10. /\ p.type = "REPLICATED" => Grows(c, chunk_got_replicate_status(c, s, p.version, p.ok))
         /\ p.type = "HASCHUNK" => Grows(c, chunk_server_has_chunk(c, s, p.version))
    BY <1>1, <1>7, <1>8, ReplicatedTyped, HasChunkTyped, SMTT(30)
  <1>11. Grows(c, chunk_damaged(c, s)) /\ Grows(c, chunk_lost(c, s))
         /\ Grows(c, chunk_got_delete_status(c, s))
    BY <1>1, GoneTyped, SMTT(30)
  <1>12. Grows(c, d)
    BY <1>9, <1>10, <1>11, SMTT(30)
  <1> HIDE DEF d
  <1> QED
    BY <1>2, <1>5, <1>12, MasterTyped, SMTT(30) DEF c

\* What the lock of a part does to the state of the server keeps the types.
LEMMA LockEntryTyped ==
  ASSUME NEW v \in Nat, NEW k \in Hosts(v)
  PROVE  startChunkLock(k) \in Hosts(v) /\ releaseChunkLockEntry(k) \in Hosts(v)
  <1>1. startChunkLock(k) \in Hosts(v)
    BY Zenon DEF startChunkLock, Hosts
  <1>2. releaseChunkLockEntry(k) \in Hosts(v)
    <2> DEFINE jobs == [i \in DOMAIN k.jobs |-> [k.jobs[i] EXCEPT !.deferred = FALSE]]
    <2>1. k.jobs \in Seq(Jobs(v))
      BY DEF Hosts
    <2>2. \A i \in DOMAIN k.jobs : [k.jobs[i] EXCEPT !.deferred = FALSE] \in Jobs(v)
      <3>1. \A i \in DOMAIN k.jobs : k.jobs[i] \in Jobs(v)
        BY <2>1, SMTT(30)
      <3> QED
        BY <3>1, Zenon DEF Jobs
    <2>3. jobs \in Seq(Jobs(v))
      <3>1. Len(k.jobs) \in Nat /\ DOMAIN k.jobs = 1 .. Len(k.jobs)
        BY <2>1, SMTT(30)
      <3>2. jobs \in [1 .. Len(k.jobs) -> Jobs(v)]
        BY <2>2, <3>1, SMTT(30)
      <3> QED
        BY <3>1, <3>2, SeqIntro, SMTT(30)
    <2>4. releaseChunkLockEntry(k)
            = [k EXCEPT !.lock = "free", !.wanted = TRUE, !.error = FALSE, !.writers = {},
                        !.jobs = jobs]
      BY DEF releaseChunkLockEntry, Hosts
    <2> HIDE DEF jobs
    <2> QED
      BY <2>3, <2>4, Zenon DEF Hosts
  <1> QED
    BY <1>1, <1>2, SMTT(30)

\* What a job does to the part on disk keeps the types: the version it writes is one
\* the master has named.
LEMMA EffectsTyped ==
  ASSUME NEW v \in Nat, 1 <= v, NEW k \in Hosts(v), NEW msg \in Work(v),
         NEW r \in Effects(k, msg) \cup FailedEffects(k, msg)
  PROVE  r.k \in Hosts(v) /\ r.ok \in BOOLEAN
  <1>1. ASSUME NEW w \in 0 .. v, NEW data \in SUBSET LockIds
        PROVE  [k EXCEPT !.version = w, !.data = data] \in Hosts(v)
    BY Zenon DEF Hosts
  <1>2. k.data \in SUBSET LockIds
    BY DEF Hosts
  <1>3. ASSUME r = [k |-> k, ok |-> FALSE]
        PROVE  r.k \in Hosts(v) /\ r.ok \in BOOLEAN
    BY <1>3
  <1>4. ASSUME NEW w \in 0 .. v, NEW data \in SUBSET LockIds,
               r = [k |-> [k EXCEPT !.version = w, !.data = data], ok |-> TRUE]
        PROVE  r.k \in Hosts(v) /\ r.ok \in BOOLEAN
    BY <1>1, <1>4, Zenon
  <1>5. CASE msg.op \in {"SETVERSION", "TRUNCATE"}
    <2>1. msg.to \in 0 .. v /\ (msg.op = "TRUNCATE" => msg.by \in LockIds)
      BY <1>5, SMTT(30) DEF Work, Requests
    <2> DEFINE data == IF msg.op = "TRUNCATE" THEN k.data \cup {msg.by} ELSE k.data
    <2>2. data \in SUBSET LockIds
      BY <1>2, <2>1, SMTT(30)
    <2>3. \/ r = [k |-> k, ok |-> FALSE]
          \/ r = [k |-> [k EXCEPT !.version = msg.to, !.data = data], ok |-> TRUE]
          \/ r = [k |-> [k EXCEPT !.version = msg.to], ok |-> FALSE]
      BY <1>5, Zenon DEF Effects, FailedEffects
    <2> HIDE DEF data
    <2>4. [k EXCEPT !.version = msg.to] \in Hosts(v)
      BY <2>1 DEF Hosts
    <2>5. CASE r = [k |-> [k EXCEPT !.version = msg.to, !.data = data], ok |-> TRUE]
      BY <1>4, <2>1, <2>2, <2>5, Zenon
    <2>6. CASE r = [k |-> [k EXCEPT !.version = msg.to], ok |-> FALSE]
      BY <2>4, <2>6, SMTT(30)
    <2> QED
      BY <1>3, <2>3, <2>5, <2>6, SMTT(30)
  <1>6. CASE msg.op = "CREATE"
    <2>1. msg.by \in SUBSET LockIds
      BY <1>6, SMTT(30) DEF Work, Requests
    <2>2. \/ r = [k |-> k, ok |-> FALSE]
          \/ r = [k |-> [k EXCEPT !.version = 1, !.data = msg.by], ok |-> TRUE]
      BY <1>6, SMTT(30) DEF Effects, FailedEffects
    <2>3. 1 \in 0 .. v
      OBVIOUS
    <2> QED
      BY <1>3, <1>4, <2>1, <2>2, <2>3, Zenon
  <1>7. CASE msg.op \in {"DELETE", "PURGE"}
    <2>1. \/ r = [k |-> k, ok |-> FALSE]
          \/ r = [k |-> [k EXCEPT !.version = 0, !.data = {}], ok |-> TRUE]
      BY <1>7, Zenon DEF Effects, FailedEffects
    <2>2. 0 \in 0 .. v /\ {} \in SUBSET LockIds
      OBVIOUS
    <2> QED
      BY <1>3, <1>4, <2>1, <2>2, Zenon
  <1>8. CASE msg.op = "REPLICATE"
    <2>1. msg.version \in 0 .. v
      BY <1>8 DEF Work, Requests
    <2>2. \/ r = [k |-> k, ok |-> FALSE]
          \/ \E data \in SUBSET LockIds :
               r = [k |-> [k EXCEPT !.version = msg.version, !.data = data], ok |-> TRUE]
      BY <1>8, Zenon DEF Effects, FailedEffects
    <2> QED
      BY <1>3, <1>4, <2>1, <2>2, Zenon
  <1>9. msg.op \in {"CREATE", "SETVERSION", "TRUNCATE", "DELETE", "PURGE", "REPLICATE"}
    BY DEF Work, Requests
  <1> QED
    BY <1>5, <1>6, <1>7, <1>8, <1>9, SMTT(30)

\* A packet to the master keeps the types.
LEMMA TellTyped ==
  ASSUME IInv, NEW s \in Servers, NEW packet \in Packets(m.version), Tell(s, packet)
  PROVE  toMa' \in [Servers -> Seq(Packets(m.version))]
  <1>1. Append(toMa[s], packet) \in Seq(Packets(m.version))
    BY AppendTyped DEF IInv
  <1> QED
    BY <1>1 DEF Tell, IInv

\* The packets of a chunkserver are packets.
LEMMA PacketTypes ==
  ASSUME NEW v \in Nat, NEW ok \in BOOLEAN
  PROVE  /\ [type |-> "STATUS", ok |-> ok] \in Packets(v)
         /\ [type |-> "WRITEEND", ok |-> ok] \in Packets(v)
         /\ [type |-> "LOST"] \in Packets(v) /\ [type |-> "DAMAGED"] \in Packets(v)
         /\ \A w \in 0 .. v : [type |-> "HASCHUNK", version |-> w] \in Packets(v)
         /\ \A msg \in Work(v) : Reply(msg, ok) \in Packets(v)
  <1>1. /\ [type |-> "STATUS", ok |-> ok] \in Packets(v)
        /\ [type |-> "WRITEEND", ok |-> ok] \in Packets(v)
        /\ [type |-> "LOST"] \in Packets(v) /\ [type |-> "DAMAGED"] \in Packets(v)
        /\ [type |-> "DELETED"] \in Packets(v)
        /\ \A w \in 0 .. v : /\ [type |-> "HASCHUNK", version |-> w] \in Packets(v)
                             /\ [type |-> "REPLICATED", version |-> w, ok |-> ok] \in Packets(v)
    BY ZenonT(60) DEF Packets
  <1>2. \A msg \in Work(v) : msg.op = "REPLICATE" => msg.version \in 0 .. v
    BY DEF Work, Requests
  <1>3. \A msg \in Work(v) : Reply(msg, ok) \in Packets(v)
    BY <1>1, <1>2, Zenon DEF Reply
  <1> QED
    BY <1>1, <1>3, Zenon

\* Taking a request off its queue, or losing the queue, keeps the types.
LEMMA QueueTyped ==
  ASSUME IInv, NEW s \in Servers, NEW q \in Seq(Requests(m.version)), m' = [m EXCEPT !.toCs[s] = q]
  PROVE  Grows(m, m') /\ m'.version <= MaxVersion
  <1> DEFINE toCs == [m.toCs EXCEPT ![s] = q]
             e == [m EXCEPT !.toCs = toCs]
  <1>1. Typed(m) /\ m.version <= MaxVersion
    BY DEF IInv, Typed
  <1>2. toCs \in [Servers -> Seq(Requests(m.version))]
    BY <1>1 DEF Typed
  <1>3. e = [m EXCEPT !.toCs[s] = q]
    OBVIOUS
  <1> HIDE DEF toCs
  <1>4. Grows(m, e) /\ e.version <= MaxVersion
    BY <1>1, <1>2, SMTT(30) DEF Grows, Typed, Fields, Scalars, Clients, Awaits
  <1> QED
    BY <1>3, <1>4, SMTT(30)

\* A request that reaches its server keeps the types.
LEMMA CsReceiveTyped ==
  ASSUME IInv, use' = use, NEW s \in Servers, CsReceive(s)
  PROVE  IInv'
  <1> DEFINE v == m.version
             msg == Head(m.toCs[s])
             job == [msg |-> msg, wanted |-> TRUE,
                     deferred |-> /\ cs[s].lock = "writing"
                                  /\ msg.op \in {"SETVERSION", "TRUNCATE", "DELETE"}]
             queued == [cs[s] EXCEPT !.jobs = Append(@, job)]
  <1>1. v \in Nat /\ cs[s] \in Hosts(v) /\ m.toCs[s] \in Seq(Requests(v))
    BY DEF IInv, Typed
  <1>2. m.toCs[s] # <<>> /\ m' = [m EXCEPT !.toCs[s] = Tail(@)]
    BY DEF CsReceive
  <1>3. msg \in Requests(v) /\ Tail(m.toCs[s]) \in Seq(Requests(v))
    BY <1>1, <1>2, HeadTail, Zenon
  <1>4. Grows(m, m') /\ m'.version <= MaxVersion
    BY <1>2, <1>3, QueueTyped, Zenon
  <1>5. CASE msg.op = "LOCK"
    <2>1. cs' = [cs EXCEPT ![s] = startChunkLock(@)] /\ Tell(s, [type |-> "STATUS", ok |-> TRUE])
      BY <1>5, SMTT(30) DEF CsReceive
    <2>2. cs' \in [Servers -> Hosts(v)]
      BY <1>1, <2>1, LockEntryTyped, SMTT(30) DEF IInv
    <2>3. toMa' \in [Servers -> Seq(Packets(v))]
      BY <1>1, <2>1, PacketTypes, TellTyped, Zenon
    <2> QED
      BY <1>4, <2>2, <2>3, StepTyped, SMTT(30)
  <1>6. CASE msg.op = "UNLOCK"
    <2>1. cs' = [cs EXCEPT ![s] = releaseChunkLockEntry(@)] /\ toMa' = toMa
      BY <1>6, SMTT(30) DEF CsReceive
    <2>2. cs' \in [Servers -> Hosts(v)]
      BY <1>1, <2>1, LockEntryTyped, SMTT(30) DEF IInv
    <2> QED
      BY <1>4, <2>1, <2>2, StepTyped, SMTT(30) DEF IInv
  <1>7. CASE msg.op \notin {"LOCK", "UNLOCK"}
    <2>1. cs' = [cs EXCEPT ![s].jobs = Append(@, job)] /\ toMa' = toMa
      BY <1>7, SMTT(30) DEF CsReceive
    <2>2. job \in Jobs(v)
      BY <1>3, <1>7 DEF Jobs, Work
    <2> HIDE DEF job
    <2>3. Append(cs[s].jobs, job) \in Seq(Jobs(v))
      BY <1>1, <2>2, AppendTyped DEF Hosts
    <2>4. queued \in Hosts(v)
      BY <1>1, <2>3, Zenon DEF Hosts
    <2>5. cs' = [cs EXCEPT ![s] = queued]
      BY <2>1
    <2> HIDE DEF queued
    <2>6. cs' \in [Servers -> Hosts(v)]
      BY <2>4, <2>5 DEF IInv
    <2> QED
      BY <1>4, <2>1, <2>6, StepTyped, SMTT(30) DEF IInv
  <1> QED
    BY <1>5, <1>6, <1>7, SMTT(30)

\* A job that runs keeps the types.
LEMMA CsExecuteTyped ==
  ASSUME IInv, use' = use, NEW s \in Servers, CsExecute(s)
  PROVE  IInv'
  <1> DEFINE v == m.version
  <1>1. v \in Nat /\ 1 <= v /\ cs[s] \in Hosts(v) /\ Grows(m, m) /\ m.version <= MaxVersion
    BY DEF IInv, Typed, Grows
  <1>2. PICK i \in DOMAIN cs[s].jobs :
          LET job == cs[s].jobs[i]
              k == [cs[s] EXCEPT !.jobs = RemoveAt(@, i)]
          IN  /\ m' = m
              /\ \E r \in Effects(k, job.msg) \cup FailedEffects(k, job.msg) :
                   /\ cs' = [cs EXCEPT ![s] = startChunkLock(r.k)] \/ cs' = [cs EXCEPT ![s] = r.k]
                   /\ \/ Tell(s, [type |-> "LOST"])
                      \/ Tell(s, Reply(job.msg, r.ok))
                      \/ toMa' = toMa
    BY Zenon DEF CsExecute
  <1> DEFINE job == cs[s].jobs[i]
             k == [cs[s] EXCEPT !.jobs = RemoveAt(@, i)]
  <1>3. job \in Jobs(v) /\ job.msg \in Work(v)
    <2>1. cs[s].jobs \in Seq(Jobs(v))
      BY <1>1 DEF Hosts
    <2>2. job \in Jobs(v)
      BY <2>1
    <2> HIDE DEF job
    <2> QED
      BY <2>2 DEF Jobs
  <1>4. k \in Hosts(v)
    <2>1. RemoveAt(cs[s].jobs, i) \in Seq(Jobs(v))
      BY <1>1, RemoveTyped DEF Hosts
    <2> QED
      BY <1>1, <2>1 DEF Hosts
  <1> HIDE DEF job, k
  <1>5. PICK r \in Effects(k, job.msg) \cup FailedEffects(k, job.msg) :
          /\ cs' = [cs EXCEPT ![s] = startChunkLock(r.k)] \/ cs' = [cs EXCEPT ![s] = r.k]
          /\ \/ Tell(s, [type |-> "LOST"])
             \/ Tell(s, Reply(job.msg, r.ok))
             \/ toMa' = toMa
    BY <1>2, Zenon DEF job, k
  <1>6. r.k \in Hosts(v) /\ r.ok \in BOOLEAN
    BY <1>1, <1>3, <1>4, EffectsTyped
  <1>7. cs' \in [Servers -> Hosts(v)]
    <2>1. startChunkLock(r.k) \in Hosts(v)
      BY <1>1, <1>6, LockEntryTyped
    <2> QED
      BY <1>5, <1>6, <2>1, Zenon DEF IInv
  <1>8. toMa' \in [Servers -> Seq(Packets(v))]
    <2>1. [type |-> "LOST"] \in Packets(v) /\ Reply(job.msg, r.ok) \in Packets(v)
      BY <1>1, <1>3, <1>6, PacketTypes, Zenon
    <2> QED
      BY <1>5, <2>1, TellTyped DEF IInv
  <1> QED
    BY <1>1, <1>2, <1>7, <1>8, StepTyped

\* The end of a write on a chunkserver keeps the types.
LEMMA EndChunkLockTyped ==
  ASSUME IInv, use' = use, NEW s \in Servers, endChunkLock(s)
  PROVE  IInv'
  <1> DEFINE v == m.version
             k == releaseChunkLockEntry(cs[s])
             purge == [msg |-> [op |-> "PURGE", version |-> 0], wanted |-> FALSE, deferred |-> FALSE]
             purged == [k EXCEPT !.jobs = Append(@, purge)]
             grant == [l \in LockIds |->
                         IF l \in cs[s].writers /\ s \in m.grant[l].servers
                              /\ m.grant[l].done # m.grant[l].servers
                         THEN JustLock ELSE m.grant[l]]
  <1>1. v \in Nat /\ Typed(m) /\ m.version <= MaxVersion /\ cs[s] \in Hosts(v)
    BY DEF IInv, Typed
  <1>2. /\ m' = [m EXCEPT !.grant = grant]
        /\ cs' = [cs EXCEPT ![s] = k] \/ cs' = [cs EXCEPT ![s] = purged]
        /\ Tell(s, [type |-> "WRITEEND", ok |-> ~cs[s].error]) \/ toMa' = toMa
    BY DEF endChunkLock
  <1>3. Grows(m, m') /\ m'.version <= MaxVersion
    <2>1. grant \in [LockIds -> Grants]
      BY <1>1, GrantTypes DEF Typed, Clients
    <2> HIDE DEF grant
    <2> QED
      BY <1>1, <1>2, <2>1 DEF Grows, Typed, Fields, Scalars, Clients, Awaits
  <1>4. k \in Hosts(v)
    BY <1>1, LockEntryTyped
  <1> HIDE DEF k
  <1>5. purged \in Hosts(v)
    <2>1. 0 \in 0 .. v
      BY <1>1
    <2>2. [op |-> "PURGE", version |-> 0] \in Work(v)
      BY <1>1, <2>1, RequestTypes, Zenon DEF Work
    <2>3. purge \in Jobs(v)
      BY <2>2 DEF Jobs
    <2> HIDE DEF purge
    <2>4. Append(k.jobs, purge) \in Seq(Jobs(v))
      BY <1>4, <2>3, AppendTyped DEF Hosts
    <2> QED
      BY <1>4, <2>4, Zenon DEF Hosts
  <1> HIDE DEF purged
  <1>6. cs' \in [Servers -> Hosts(v)]
    BY <1>2, <1>4, <1>5, Zenon DEF IInv
  <1>7. toMa' \in [Servers -> Seq(Packets(v))]
    <2> DEFINE ok == ~cs[s].error
    <2>1. ok \in BOOLEAN
      BY Zenon
    <2> HIDE DEF ok
    <2>2. [type |-> "WRITEEND", ok |-> ok] \in Packets(v)
      BY <1>1, <2>1, PacketTypes, Zenon
    <2> USE DEF ok
    <2> QED
      BY <1>2, <2>2, TellTyped DEF IInv
  <1> QED
    BY <1>3, <1>6, <1>7, StepTyped

\* A server that registers keeps the types if its state has them.
LEMMA RegisterTyped ==
  ASSUME IInv, use' = use, NEW s \in Servers, NEW k \in Hosts(m.version), Register(s, k)
  PROVE  IInv'
  <1> DEFINE v == m.version
             q == IF k.version = 0 THEN <<>> ELSE <<[type |-> "HASCHUNK", version |-> k.version]>>
  <1>1. v \in Nat /\ Grows(m, m) /\ m.version <= MaxVersion
    BY DEF IInv, Typed, Grows
  <1>2. m' = m /\ cs' = [cs EXCEPT ![s] = k] /\ toMa' = [toMa EXCEPT ![s] = q]
    BY DEF Register
  <1>3. q \in Seq(Packets(v))
    <2>1. k.version \in 0 .. v
      BY DEF Hosts
    <2>2. [type |-> "HASCHUNK", version |-> k.version] \in Packets(v)
      BY <1>1, <2>1, PacketTypes, Zenon
    <2> DEFINE packet == [type |-> "HASCHUNK", version |-> k.version]
    <2> HIDE DEF packet
    <2>3. <<packet>> \in Seq(Packets(v)) /\ <<>> \in Seq(Packets(v))
      BY <2>2 DEF packet
    <2> QED
      BY <2>3, Zenon DEF packet
  <1> HIDE DEF q
  <1>4. toMa' \in [Servers -> Seq(Packets(v))] /\ cs' \in [Servers -> Hosts(v)]
    BY <1>2, <1>3 DEF IInv
  <1> QED
    BY <1>1, <1>2, <1>4, StepTyped

\* A broken connection, the ways a server comes back and a damaged part keep the
\* types.
LEMMA ConnectionTyped ==
  ASSUME IInv, use' = use, NEW s \in Servers,
         Disconnect(s) \/ Reconnect(s) \/ Restart(s) \/ DamagePart(s)
  PROVE  IInv'
  <1> DEFINE v == m.version
  <1>1. v \in Nat /\ Grows(m, m) /\ m.version <= MaxVersion /\ cs[s] \in Hosts(v)
    BY DEF IInv, Typed, Grows
  <1>2. CASE Disconnect(s)
    <2>1. toMa' = [toMa EXCEPT ![s] = <<>>] /\ m' = [m EXCEPT !.toCs[s] = <<>>] /\ cs' = cs
      BY <1>2 DEF Disconnect
    <2>2. Grows(m, m') /\ m'.version <= MaxVersion
      <3>1. <<>> \in Seq(Requests(v))
        OBVIOUS
      <3> QED
        BY <2>1, <3>1, QueueTyped, Zenon
    <2>3. toMa' \in [Servers -> Seq(Packets(v))]
      BY <2>1 DEF IInv
    <2> QED
      BY <2>1, <2>2, <2>3, StepTyped DEF IInv
  <1>3. CASE Reconnect(s)
    <2> DEFINE jobs == cs[s].jobs
    <2>0. PICK silent \in SUBSET (DOMAIN jobs), stay \in SUBSET (DOMAIN jobs) :
            \E nth \in [1 .. Cardinality(stay) -> stay] :
              Register(s, [cs[s] EXCEPT
                !.jobs = [i \in DOMAIN nth |-> [jobs[nth[i]] EXCEPT !.wanted = @ /\ nth[i] \notin silent]],
                !.wanted = cs[s].lock = "free"])
      <3>1. PICK silent \in SUBSET (DOMAIN jobs) :
              LET stay == {i \in DOMAIN jobs : jobs[i].deferred \/ ~jobs[i].wanted} \cup silent
              IN \E nth \in [1 .. Cardinality(stay) -> stay] :
                   Register(s, [cs[s] EXCEPT
                     !.jobs = [i \in DOMAIN nth |->
                                 [jobs[nth[i]] EXCEPT !.wanted = @ /\ nth[i] \notin silent]],
                     !.wanted = cs[s].lock = "free"])
        BY <1>3, Zenon DEF Reconnect
      <3> DEFINE stay == {i \in DOMAIN jobs : jobs[i].deferred \/ ~jobs[i].wanted} \cup silent
      <3>2. stay \in SUBSET (DOMAIN jobs)
        OBVIOUS
      <3> QED
        BY <3>1, <3>2, Zenon
    <2>1. PICK nth \in [1 .. Cardinality(stay) -> stay] :
            Register(s, [cs[s] EXCEPT
              !.jobs = [i \in DOMAIN nth |-> [jobs[nth[i]] EXCEPT !.wanted = @ /\ nth[i] \notin silent]],
              !.wanted = cs[s].lock = "free"])
      BY <2>0, Zenon
    <2> DEFINE n == Cardinality(stay)
               kept == [i \in DOMAIN nth |-> [jobs[nth[i]] EXCEPT !.wanted = @ /\ nth[i] \notin silent]]
               k == [cs[s] EXCEPT !.jobs = kept, !.wanted = cs[s].lock = "free"]
    <2>2. jobs \in Seq(Jobs(v))
      BY <1>1 DEF Hosts
    <2>3. n \in Nat
      <3>1. Len(jobs) \in Nat /\ DOMAIN jobs = 1 .. Len(jobs)
        BY <2>2
      <3>2. IsFiniteSet(DOMAIN jobs)
        BY <3>1, FS_Interval
      <3> QED
        BY <3>2, FS_Subset, FS_CardinalityType
    <2> HIDE DEF n
    <2>4. kept \in Seq(Jobs(v))
      <3>1. \A i \in 1 .. n : jobs[nth[i]] \in Jobs(v)
        <4>1. \A i \in 1 .. n : nth[i] \in DOMAIN jobs
          BY <2>1 DEF n
        <4> HIDE DEF jobs
        <4> QED
          BY <2>2, <4>1
      <3>2. \A j \in Jobs(v), b \in BOOLEAN : [j EXCEPT !.wanted = b] \in Jobs(v)
        BY Zenon DEF Jobs
      <3>3. \A i \in 1 .. n : [jobs[nth[i]] EXCEPT !.wanted = @ /\ nth[i] \notin silent] \in Jobs(v)
        BY <3>1, <3>2, Zenon
      <3>4. kept \in [1 .. n -> Jobs(v)]
        BY <3>3, Zenon DEF n
      <3> HIDE DEF kept
      <3> QED
        BY <2>3, <3>4, SeqIntro
    <2> HIDE DEF kept
    <2>5. k \in Hosts(v)
      BY <1>1, <2>4, Zenon DEF Hosts
    <2>6. Register(s, k)
      BY <2>1, Zenon DEF kept
    <2> HIDE DEF k
    <2> QED
      BY <2>5, <2>6, RegisterTyped
  <1>4. CASE Restart(s)
    <2> DEFINE k == [NewServer EXCEPT !.version = cs[s].version, !.data = cs[s].data]
    <2>1. k \in Hosts(v)
      <3>1. cs[s].version \in 0 .. v /\ cs[s].data \in SUBSET LockIds /\ <<>> \in Seq(Jobs(v))
        BY <1>1 DEF Hosts
      <3>2. NewServer \in Hosts(v)
        BY <1>1, <3>1 DEF NewServer, Hosts
      <3> QED
        BY <3>1, <3>2, Zenon DEF Hosts
    <2>2. Register(s, k)
      BY <1>4 DEF Restart
    <2> HIDE DEF k
    <2> QED
      BY <2>1, <2>2, RegisterTyped
  <1>5. CASE DamagePart(s)
    <2>1. m' = m /\ cs' = cs /\ toMa' = [toMa EXCEPT ![s] = Append(@, [type |-> "DAMAGED"])]
      BY <1>5, Zenon DEF DamagePart
    <2>2. [type |-> "DAMAGED"] \in Packets(v)
      BY <1>1, PacketTypes, Zenon
    <2>3. Append(toMa[s], [type |-> "DAMAGED"]) \in Seq(Packets(v))
      BY <2>2, AppendTyped DEF IInv
    <2>4. toMa' \in [Servers -> Seq(Packets(v))]
      BY <2>1, <2>3 DEF IInv
    <2> QED
      BY <1>1, <2>1, <2>4, StepTyped DEF IInv
  <1> QED
    BY <1>2, <1>3, <1>4, <1>5

-----------------------------------------------------------------------------
\* A chunk is born with the version 1 on servers that have nothing.
LEMMA InitTyped ==
  ASSUME Init
  PROVE  IInv
  <1>1. use \in Setups /\ use.useLock \in BOOLEAN /\ use.servers \subseteq Servers
    BY SetupFacts DEF Init
  <1>2. PICK operation \in {"CREATE", "DUPLICATE", "DUPTRUNC"}, T \in kSubset(use.goal, use.servers),
             l \in LockIds : m = birth(operation, T, l)
    BY DEF Init
  <1>3. T \in SUBSET Servers
    BY <1>1 DEF kSubset
  <1>4. Typed(m) /\ m.version = 1
    BY <1>1, <1>2, <1>3, BirthTyped
  <1>5. m.version \in 1 .. MaxVersion
    BY <1>4, ChunksAssumption
  <1>6. NewServer \in Hosts(m.version)
    BY <1>4 DEF NewServer, Hosts
  <1> QED
    BY <1>1, <1>4, <1>5, <1>6 DEF Init, IInv

\* Every step of the master, the chunkservers and the clients keeps the types.
LEMMA NextTyped ==
  ASSUME IInv, [Next]_vars
  PROVE  IInv'
  <1>1. CASE Next
    <2>1. use' = use /\ Step
      BY <1>1 DEF Next
    <2>2. ASSUME NEW l \in LockIds, NEW known \in BOOLEAN, WriteRequest(l, known)
          PROVE  IInv'
      BY <2>1, <2>2, WriteRequestTyped
    <2>3. ASSUME NEW l \in LockIds, TruncateRequest(l)
          PROVE  IInv'
      BY <2>1, <2>3, TruncateRequestTyped
    <2>4. ASSUME NEW l \in LockIds, WriteEnd(l)
          PROVE  IInv'
      BY <2>1, <2>4, ClientsTyped
    <2>5. ASSUME NEW l \in LockIds, NEW s \in Servers, NEW outcome \in {"open", "ok", "untold"},
                 WriteData(l, s, outcome)
          PROVE  IInv'
      BY <2>1, <2>5, WriteDataTyped
    <2>6. ASSUME NEW l \in LockIds, ClientCrash(l)
          PROVE  IInv'
      BY <2>1, <2>6, CrashTyped
    <2>7. CASE LockExpires
      BY <2>1, <2>7, LockExpiresTyped
    <2>8. CASE matocl_before_disconnect \/ chunk_add_file \/ chunk_delete_file
      BY <2>1, <2>8, ClientsTyped
    <2>9. CASE doChunkJobs \/ chunk_clean_zombie_servers_a_bit
      BY <2>1, <2>9, WorkerTyped
    <2>10. ASSUME NEW s \in Servers, CsReceive(s) \/ CsExecute(s) \/ endChunkLock(s) \/ MaReceive(s)
           PROVE  IInv'
      BY <2>1, <2>10, CsReceiveTyped, CsExecuteTyped, EndChunkLockTyped, ReceiveTyped
    <2>11. ASSUME NEW s \in Servers, Disconnect(s) \/ Reconnect(s) \/ Restart(s) \/ DamagePart(s)
           PROVE  IInv'
      BY <2>1, <2>11, ConnectionTyped
    <2> QED
      BY <2>1, <2>2, <2>3, <2>4, <2>5, <2>6, <2>7, <2>8, <2>9, <2>10, <2>11, Zenon DEF Step
  <1>2. CASE UNCHANGED vars
    BY <1>2 DEF vars, IInv, Typed, Scalars, Clients, Awaits
  <1> QED
    BY <1>1, <1>2

\* What the types say of the Chunk object and of the disks.
LEMMA InvariantFacts ==
  ASSUME IInv
  PROVE  TypeOK /\ NoFutureVersion /\ ClientAwaitsOperation
  <1>1. m.version \in 1 .. MaxVersion /\ Typed(m)
    BY DEF IInv
  <1>2. \A s \in Servers : m.parts[s] \in Parts(m.version) /\ cs[s] \in Hosts(m.version)
    BY <1>1 DEF IInv, Typed
  <1>3. \A s \in Servers :
          /\ m.parts[s].state \in {"none", "INVALID", "DEL", "BUSY", "VALID"}
          /\ m.parts[s].version \in 0 .. m.version
          /\ cs[s].version \in 0 .. m.version /\ cs[s].data \subseteq LockIds
          /\ cs[s].lock \in {"free", "locked", "writing"}
    BY <1>2 DEF Parts, Hosts
  <1>4. TypeOK
    BY <1>1, <1>3, ChunksAssumption DEF TypeOK, Versions, Typed, Scalars, Operations
  <1>5. NoFutureVersion
    BY <1>1, <1>3 DEF NoFutureVersion
  <1>6. ClientAwaitsOperation
    BY <1>1 DEF ClientAwaitsOperation, Typed, Awaits
  <1> QED
    BY <1>4, <1>5, <1>6

\* The Chunk object of the master and the parts on the disks keep their types,
\* and the file counter stays between 0 and 2 (chunk_add_file, chunk_delete_file,
\* the copy on write of chunk_multi_modify), in every execution.
THEOREM TypeOKThm == Spec => []TypeOK
  BY InitTyped, NextTyped, InvariantFacts, PTL DEF Spec

\* No part on a disk is ever ahead of the version in the master, whatever
\* requests, jobs and answers are lost, late or repeated by reconnections.
THEOREM NoFutureVersionThm == Spec => []NoFutureVersion
  BY InitTyped, NextTyped, InvariantFacts, PTL DEF Spec

\* A client whose answer was put off always has an operation of the chunk to
\* wait for: no path of the master ends the operation and forgets the client.
THEOREM ClientAwaitsThm == Spec => []ClientAwaitsOperation
  BY InitTyped, NextTyped, InvariantFacts, PTL DEF Spec

-----------------------------------------------------------------------------
(* The changelog *)


\* c has the fields the argument is about.
Shaped(c) == {"version", "replayed", "operation"} \subseteq DOMAIN c /\ c.version \in Int

Agrees(c) == Shaped(c) /\ c.replayed = c.version

\* d differs from c in nothing the argument is about, the operation apart.
Same(c, d) == DOMAIN d = DOMAIN c /\ d.version = c.version /\ d.replayed = c.replayed

\* Same objects agree on the versions together.
LEMMA SameAgrees ==
  ASSUME NEW c, NEW d, Same(c, d), Agrees(c)
  PROVE  Agrees(d)
  BY DEF Same, Agrees, Shaped

\* Same is transitive.
LEMMA SameTransitive ==
  ASSUME NEW c, NEW d, NEW e, Same(c, d), Same(d, e)
  PROVE  Same(c, e)
  BY DEF Same

\* Same keeps the shape.
LEMMA SameShaped ==
  ASSUME NEW c, NEW d, Same(c, d), Shaped(c)
  PROVE  Shaped(d)
  BY DEF Same, Shaped

\* Sending a request changes neither version.
LEMMA SendToSame ==
  ASSUME NEW c, Shaped(c), NEW requests
  PROVE  Same(c, SendTo(c, requests)) /\ SendTo(c, requests).operation = c.operation
  BY DEF Shaped, Same, SendTo

\* A version increase moves the version of the chunk by one.
LEMMA IncreaseVersion ==
  ASSUME NEW c, Shaped(c), NEW b
  PROVE  LET d == chunk_increase_version_operation(c, b)
         IN  /\ DOMAIN d = DOMAIN c /\ d.version = c.version + 1
             /\ d.replayed = c.replayed /\ d.operation = "SET_VERSION"
  <1> DEFINE Locks(s) == b /\ use.useLock /\ ~c.parts[s].beingWritten
             sent == SendTo(c, [s \in ValidParts(c) |->
                       [op |-> "SETVERSION", from |-> c.version,
                        to |-> c.version + 1, lock |-> Locks(s)]])
  <1>1. Same(c, sent)
    BY SendToSame
  <1> HIDE DEF sent
  <1> DEFINE parts == [s \in Servers |->
                         IF s \in ValidParts(c)
                         THEN [state |-> "BUSY", version |-> c.version + 1,
                               beingWritten |-> c.parts[s].beingWritten \/ Locks(s)]
                         ELSE c.parts[s]]
  <1>2. chunk_increase_version_operation(c, b)
          = [sent EXCEPT !.parts = parts, !.interrupted = FALSE,
                         !.operation = "SET_VERSION", !.version = @ + 1]
    BY DEF chunk_increase_version_operation, sent
  <1> HIDE DEF parts
  <1> QED
    BY <1>1, <1>2 DEF Same, Shaped

\* An emergency increase is written to the changelog as well.
LEMMA EmergencyIncrease ==
  ASSUME NEW c, Agrees(c)
  PROVE  Agrees(chunk_emergency_increase_version(c))
  <1> DEFINE d == chunk_increase_version_operation(c, FALSE)
  <1>1. /\ DOMAIN d = DOMAIN c /\ d.version = c.version + 1
        /\ d.replayed = c.replayed /\ d.operation = "SET_VERSION"
    BY IncreaseVersion, ZenonT(60) DEF Agrees
  <1> HIDE DEF d
  <1>2. chunk_emergency_increase_version(c) = [d EXCEPT !.replayed = @ + 1]
    BY DEF chunk_emergency_increase_version, d
  <1> QED
    BY <1>1, <1>2 DEF Agrees, Shaped

\* A lock operation changes neither version and is not one that shadows take for
\* a version increase.
LEMMA LockOperation ==
  ASSUME NEW c, Shaped(c)
  PROVE  /\ Same(c, chunk_lock_operation(c))
         /\ chunk_lock_operation(c).operation \in {"LOCK", "NONE"}
  <1> DEFINE locked == IF use.useLock
                       THEN {s \in ValidParts(c) : ~is_busy(c.parts[s]) /\ ~c.parts[s].beingWritten}
                       ELSE {}
             sent == SendTo(c, [s \in locked |-> [op |-> "LOCK"]])
             parts == [s \in Servers |->
                         IF s \in locked
                         THEN [c.parts[s] EXCEPT !.state = "BUSY", !.beingWritten = TRUE]
                         ELSE c.parts[s]]
             operation == IF locked # {} THEN "LOCK" ELSE "NONE"
  <1>1. Same(c, sent) /\ operation \in {"LOCK", "NONE"}
    BY SendToSame
  <1>2. chunk_lock_operation(c)
          = [sent EXCEPT !.parts = parts, !.interrupted = FALSE, !.operation = operation]
    BY DEF chunk_lock_operation
  <1> HIDE DEF sent, parts, operation
  <1> QED
    BY <1>1, <1>2 DEF Same, Shaped

\* A truncation moves the version of the chunk by one.
LEMMA TruncateOperation ==
  ASSUME NEW c, Shaped(c), NEW l
  PROVE  LET d == chunk_truncate_operation(c, l)
         IN  DOMAIN d = DOMAIN c /\ d.version = c.version + 1 /\ d.replayed = c.replayed
  <1> DEFINE sent == SendTo(c, [s \in ValidParts(c) |->
                       [op |-> "TRUNCATE", from |-> c.version,
                        to |-> c.version + 1, by |-> l]])
             parts == [s \in Servers |->
                         IF s \in ValidParts(c)
                         THEN [c.parts[s] EXCEPT !.state = "BUSY", !.version = c.version + 1]
                         ELSE c.parts[s]]
  <1>1. Same(c, sent)
    BY SendToSame
  <1>2. chunk_truncate_operation(c, l)
          = [sent EXCEPT !.parts = parts, !.interrupted = FALSE,
                         !.operation = "TRUNCATE", !.version = @ + 1]
    BY DEF chunk_truncate_operation
  <1> HIDE DEF sent, parts
  <1> QED
    BY <1>1, <1>2 DEF Same, Shaped

\* Answering the client changes neither version.
LEMMA StatusSame ==
  ASSUME NEW c, Shaped(c), NEW status
  PROVE  Same(c, matoclserv_chunk_status(c, status))
  <1> DEFINE d == c.delayed
             answered == [c EXCEPT !.delayed = Nobody]
             grant == IF status = "CHUNKLOST" /\ d.known THEN JustLock ELSE NoGrant
             failed == [answered EXCEPT
                          !.grant[d.by] = grant,
                          !.fileCount = IF c.operation = "CREATE" /\ @ > 0 THEN @ - 1 ELSE @]
  <1>1. Same(c, answered)
    BY DEF Same, Shaped
  <1>2. Same(answered, failed)
    BY <1>1 DEF Same, Shaped
  <1>3. Same(failed, chunk_unlock(failed)) /\ Same(answered, chunk_unlock(answered))
    BY <1>1, <1>2 DEF Same, Shaped, chunk_unlock
  <1>4. Same(answered, respond(answered, d.by))
    BY <1>1 DEF Same, Shaped, respond
  <1> DEFINE truncated == [answered EXCEPT !.acked = @ \cup {d.by}]
  <1>5. Same(answered, chunk_unlock(truncated))
    BY <1>1 DEF Same, Shaped, chunk_unlock
  <1>6. Same(c, c)
    BY DEF Same
  <1>7. matoclserv_chunk_status(c, status)
          \in {c, respond(answered, d.by), chunk_unlock(failed), chunk_unlock(truncated),
              chunk_unlock(answered)}
    BY DEF matoclserv_chunk_status
  <1> HIDE DEF answered, failed, truncated
  <1> QED
    BY <1>1, <1>2, <1>3, <1>4, <1>5, <1>6, <1>7, SMTT(30) DEF Same

\* The end of a failed operation changes neither version.
LEMMA FinalizeSame ==
  ASSUME NEW c, Shaped(c)
  PROVE  Same(c, chunk_finalize_failed_operation(c))
  <1> DEFINE told == matoclserv_chunk_status(c, IF c.operation \in {"CREATE", "LOCK"}
                                                THEN "CHUNKLOST" ELSE "NOTDONE")
             unlocked == {s \in WrittenParts(told) : told.parts[s].state = "VALID"}
             sent == SendTo(told, [s \in unlocked |-> [op |-> "UNLOCK"]])
             parts == [s \in Servers |-> IF s \in unlocked
                                         THEN [sent.parts[s] EXCEPT !.beingWritten = FALSE]
                                         ELSE sent.parts[s]]
  <1>1. Same(c, told)
    BY StatusSame
  <1>2. Same(told, sent)
    BY <1>1, SameShaped, SendToSame
  <1>3. chunk_finalize_failed_operation(c) = [sent EXCEPT !.operation = "NONE", !.parts = parts]
    BY DEF chunk_finalize_failed_operation
  <1> HIDE DEF told, sent, parts
  <1> QED
    BY <1>1, <1>2, <1>3 DEF Same, Shaped

\* Dropping the parts of lost servers keeps the versions in step, also when it
\* ends in an emergency increase.
LEMMA DisconnectedAgrees ==
  ASSUME NEW c, Agrees(c)
  PROVE  Agrees(chunk_handle_disconnected_copies(c))
  <1> DEFINE gone == {s \in Servers : c.parts[s] # NoPart /\ ~conn[s]}
             writtenGone == gone \cap WrittenParts(c) # {}
             d == [c EXCEPT
                     !.parts = [s \in Servers |-> IF s \in gone THEN NoPart ELSE @[s]],
                     !.needVersionIncrease = TRUE,
                     !.interrupted = @ \/ writtenGone]
             e == [d EXCEPT !.interrupted = TRUE]
  <1>1. chunk_handle_disconnected_copies(c)
          \in {c, d, e, chunk_emergency_increase_version(d), chunk_finalize_failed_operation(d)}
    BY DEF chunk_handle_disconnected_copies
  <1>2. Agrees(d)
    BY DEF Agrees, Shaped
  <1> HIDE DEF d
  <1>3. Agrees(e)
    BY <1>2 DEF Agrees, Shaped
  <1>4. Agrees(chunk_emergency_increase_version(d))
    BY <1>2, EmergencyIncrease
  <1>5. Agrees(chunk_finalize_failed_operation(d))
    BY <1>2, FinalizeSame, SameAgrees DEF Agrees
  <1> QED
    BY <1>1, <1>2, <1>3, <1>4, <1>5, ZenonT(60)

\* The end of an operation keeps the versions in step.
LEMMA OperationStatusAgrees ==
  ASSUME NEW c, Agrees(c), NEW s, NEW ok
  PROVE  Agrees(chunk_operation_status(c, s, ok))
  <1> DEFINE p == c.parts[s]
             d == IF p = NoPart THEN c
                  ELSE IF ~ok THEN [invalidateCopy(c, s) EXCEPT !.interrupted = TRUE]
                  ELSE IF is_busy(p) THEN [c EXCEPT !.parts[s].state = "VALID"]
                  ELSE c
             told == matoclserv_chunk_status(d, "OK")
             e == [told EXCEPT !.operation = "NONE", !.needVersionIncrease = FALSE]
  <1>1. Agrees(d)
    BY DEF Agrees, Shaped, invalidateCopy
  <1>2. chunk_operation_status(c, s, ok)
          \in {d, chunk_finalize_failed_operation(d), chunk_emergency_increase_version(d), e}
    BY DEF chunk_operation_status
  <1> HIDE DEF d
  <1>3. Agrees(told)
    BY <1>1, StatusSame, SameAgrees DEF Agrees
  <1> HIDE DEF told
  <1>4. Agrees(e)
    BY <1>3 DEF Agrees, Shaped
  <1>5. Agrees(chunk_finalize_failed_operation(d)) /\ Agrees(chunk_emergency_increase_version(d))
    BY <1>1, FinalizeSame, SameAgrees, EmergencyIncrease, SMTT(30) DEF Agrees
  <1> QED
    BY <1>1, <1>2, <1>4, <1>5, SMTT(30)

\* The end of a write keeps the versions in step.
LEMMA WriteEndAgrees ==
  ASSUME NEW c, Agrees(c), NEW s, NEW ok
  PROVE  Agrees(chunk_write_end_status(c, s, ok))
  <1> DEFINE p == c.parts[s]
             d == IF p = NoPart THEN c
                  ELSE IF ~ok THEN [invalidateCopy(c, s) EXCEPT !.interrupted = TRUE]
                  ELSE [c EXCEPT !.parts[s].beingWritten = FALSE]
  <1>1. Agrees(d)
    BY DEF Agrees, Shaped, invalidateCopy
  <1>2. chunk_write_end_status(c, s, ok) \in {d, chunk_emergency_increase_version(d)}
    BY DEF chunk_write_end_status
  <1> HIDE DEF d
  <1> QED
    BY <1>1, <1>2, EmergencyIncrease

\* What a chunkserver reports about its part changes neither version.
LEMMA ReportSame ==
  ASSUME NEW c, Shaped(c), NEW s, NEW version, NEW ok
  PROVE  /\ Same(c, chunk_server_has_chunk(c, s, version))
         /\ Same(c, chunk_damaged(c, s))
         /\ Same(c, chunk_lost(c, s))
         /\ Same(c, chunk_got_delete_status(c, s))
         /\ Same(c, chunk_got_replicate_status(c, s, version, ok))
  <1>1. Same(c, chunk_server_has_chunk(c, s, version))
    BY DEF Same, Shaped, chunk_server_has_chunk, invalidateCopy
  <1>2. Same(c, chunk_damaged(c, s))
    BY DEF Same, Shaped, chunk_damaged, invalidateCopy
  <1>3. Same(c, chunk_lost(c, s)) /\ Same(c, chunk_got_delete_status(c, s))
    BY DEF Same, Shaped, chunk_lost, chunk_got_delete_status
  <1>4. Same(c, chunk_got_replicate_status(c, s, version, ok))
    BY DEF Same, Shaped, chunk_got_replicate_status
  <1> QED
    BY <1>1, <1>2, <1>3, <1>4, SMTT(30)

\* The requests of the chunk loop change neither version.
LEMMA LoopSame ==
  ASSUME NEW c, Shaped(c), NEW S, NEW version, NEW s
  PROVE  /\ Same(c, deleteInvalidChunkParts(c, S))
         /\ Same(c, deleteParts(c, S, version))
         /\ Same(c, tryReplication(c, s))
  <1>1. Same(c, deleteInvalidChunkParts(c, S))
    <2> DEFINE victims == {x \in S : c.parts[x].state \in {"INVALID", "DEL"}}
               sent == SendTo(c, [x \in victims |-> [op |-> "DELETE", version |-> 0]])
               parts == [x \in Servers |->
                           IF x \in victims THEN [sent.parts[x] EXCEPT !.state = "DEL"]
                           ELSE sent.parts[x]]
    <2>1. Same(c, sent)
      BY SendToSame
    <2>2. deleteInvalidChunkParts(c, S) = [sent EXCEPT !.parts = parts]
      BY DEF deleteInvalidChunkParts
    <2> HIDE DEF sent, parts
    <2> QED
      BY <2>1, <2>2 DEF Same, Shaped
  <1>2. Same(c, deleteParts(c, S, version))
    <2> DEFINE sent == SendTo(c, [x \in S |-> [op |-> "DELETE", version |-> version]])
               parts == [x \in Servers |->
                           IF x \in S THEN [sent.parts[x] EXCEPT !.state = "DEL"]
                           ELSE sent.parts[x]]
               need == sent.needVersionIncrease \/ S # {}
    <2>1. Same(c, sent)
      BY SendToSame
    <2>2. deleteParts(c, S, version) = [sent EXCEPT !.parts = parts, !.needVersionIncrease = need]
      BY DEF deleteParts
    <2> HIDE DEF sent, parts, need
    <2> QED
      BY <2>1, <2>2 DEF Same, Shaped
  <1>3. Same(c, tryReplication(c, s))
    <2> DEFINE sources == {x \in ValidParts(c) : ~is_busy(c.parts[x])}
               sent == SendTo(c, [x \in {s} |-> [op |-> "REPLICATE", version |-> c.version,
                                                 sources |-> sources]])
    <2>1. Same(c, sent)
      BY SendToSame
    <2>2. tryReplication(c, s) \in {c, [sent EXCEPT !.needVersionIncrease = TRUE]}
      BY DEF tryReplication
    <2> HIDE DEF sent
    <2> QED
      BY <2>1, <2>2 DEF Same, Shaped
  <1> QED
    BY <1>1, <1>2, <1>3, SMTT(30)

\* A write that starts an operation moves the version exactly when the changelog
\* entry says so.
LEMMA ModifyAgrees ==
  ASSUME NEW c, Agrees(c), NEW l, NEW known
  PROVE  Agrees(chunk_modify(c, l, known))
  <1> DEFINE started == IF c.needVersionIncrease THEN chunk_increase_version_operation(c, TRUE)
                        ELSE chunk_lock_operation(c)
             increase == should_increase_chunk_version_on_modification(started.operation)
             locked == [started EXCEPT
                          !.lockedto = "future", !.lockid = l, !.used = @ \cup {l},
                          !.replayed = chunk_apply_modification(@, increase)]
             waiting == [locked EXCEPT !.delayed = [kind |-> "write", by |-> l, known |-> known]]
  <1>1. chunk_modify(c, l, known) \in {respond(locked, l), waiting}
    BY DEF chunk_modify
  <1>2. /\ DOMAIN started = DOMAIN c /\ started.replayed = c.replayed
        /\ \/ started.operation = "SET_VERSION" /\ started.version = c.version + 1
           \/ started.operation \in {"LOCK", "NONE"} /\ started.version = c.version
    <2>1. CASE c.needVersionIncrease
      BY <2>1, IncreaseVersion, ZenonT(60) DEF Agrees
    <2>2. CASE ~c.needVersionIncrease
      BY <2>2, LockOperation DEF Agrees, Same
    <2> QED
      BY <2>1, <2>2, ZenonT(60)
  <1> HIDE DEF started
  <1>3. chunk_apply_modification(started.replayed, increase) = started.version
    BY <1>2 DEF Agrees, Shaped, chunk_apply_modification,
                should_increase_chunk_version_on_modification
  <1>4. started.version \in Int
    BY <1>2 DEF Agrees, Shaped
  <1>5. Agrees(locked)
    BY <1>2, <1>3, <1>4, SMTT(30) DEF Agrees, Shaped
  <1> HIDE DEF locked
  <1>6. Agrees(waiting) /\ Agrees(respond(locked, l))
    BY <1>5 DEF Agrees, Shaped, respond
  <1> QED
    BY <1>1, <1>6

-----------------------------------------------------------------------------
(* The actions. *)

\* A handler starts by looking the chunk up.
LEMMA FindAgrees ==
  ASSUME Agrees(m)
  PROVE  Agrees(chunk_find(m))
  BY DisconnectedAgrees DEF chunk_find

\* The requests of clients, FUSE_WRITE_CHUNK and FUSE_TRUNCATE, keep the versions
\* in step.
LEMMA RequestsAgree ==
  ASSUME Agrees(m), NEW l,
         (\E known \in BOOLEAN : WriteRequest(l, known)) \/ TruncateRequest(l)
  PROVE  Agrees(m')
  <1> DEFINE c == chunk_find(m)
  <1>1. Agrees(c)
    BY FindAgrees
  <1>2. ASSUME NEW known \in BOOLEAN, WriteRequest(l, known)
        PROVE  Agrees(m')
    <2> DEFINE asked == IF known THEN [c EXCEPT !.grant[l] = JustLock] ELSE c
               refused == [asked EXCEPT !.grant[l] = NoGrant]
               copied == [asked EXCEPT !.fileCount = @ - 1, !.grant[l] = NoGrant]
    <2>1. m' \in {refused, asked, chunk_modify(asked, l, known), copied}
      BY <1>2, ZenonT(60) DEF WriteRequest, MasterBecomes
    <2> HIDE DEF c
    <2>2. Agrees(asked)
      BY <1>1 DEF Agrees, Shaped
    <2> HIDE DEF asked
    <2>3. Agrees(refused) /\ Agrees(copied)
      BY <2>2 DEF Agrees, Shaped
    <2>4. Agrees(chunk_modify(asked, l, known))
      BY <2>2, ModifyAgrees
    <2> QED
      BY <2>1, <2>2, <2>3, <2>4, SMTT(30)
  <1>3. ASSUME TruncateRequest(l)
        PROVE  Agrees(m')
    <2> DEFINE d == chunk_truncate_operation(c, l)
               copied == [c EXCEPT !.fileCount = IF ~isLost(c) /\ ~isLocked(c) /\ @ > 1
                                                 THEN @ - 1 ELSE @]
               cut == [d EXCEPT
                         !.lockedto = "future", !.lockid = NoLock, !.used = @ \cup {l},
                         !.delayed = [kind |-> "truncate", by |-> l, known |-> FALSE],
                         !.replayed = chunk_apply_modification(@, TRUE)]
    <2>1. m' \in {copied, cut}
      BY <1>3 DEF TruncateRequest, MasterBecomes
    <2> HIDE DEF c
    <2>2. Agrees(copied)
      BY <1>1 DEF Agrees, Shaped
    <2>3. DOMAIN d = DOMAIN c /\ d.version = c.version + 1 /\ d.replayed = c.replayed
      BY <1>1, TruncateOperation DEF Agrees
    <2> HIDE DEF d
    <2>4. Agrees(cut)
      BY <1>1, <2>3 DEF Agrees, Shaped, chunk_apply_modification
    <2> QED
      BY <2>1, <2>2, <2>4, SMTT(30)
  <1> QED
    BY <1>2, <1>3

\* What else a client does to the chunk changes neither version.
LEMMA ClientsAgree ==
  ASSUME Agrees(m), NEW l, NEW s, NEW outcome,
         \/ WriteEnd(l) \/ ClientCrash(l) \/ WriteData(l, s, outcome) \/ LockExpires
         \/ matocl_before_disconnect \/ chunk_add_file \/ chunk_delete_file
  PROVE  Agrees(m')
  <1> DEFINE c == chunk_find(m)
  <1>1. Agrees(c)
    BY FindAgrees
  <1>2. CASE WriteEnd(l)
    <2> DEFINE d == [c EXCEPT !.grant[l] = NoGrant]
    <2>1. m' \in {d, chunk_unlock(d)}
      BY <1>2 DEF WriteEnd, MasterBecomes
    <2> HIDE DEF c
    <2> QED
      BY <1>1, <2>1, ZenonT(60) DEF Agrees, Shaped, chunk_unlock
  <1>3. CASE ClientCrash(l)
    BY <1>3 DEF ClientCrash, Agrees, Shaped
  <1>4. CASE WriteData(l, s, outcome)
    <2> DEFINE done == m.grant[l].done \cup {s}
               grant == [m.grant EXCEPT ![l].done = done]
    <2>1. m' = m \/ \E acked : m' = [m EXCEPT !.grant = grant, !.acked = acked]
      BY <1>4, ZenonT(60) DEF WriteData
    <2> HIDE DEF grant
    <2> QED
      BY <2>1, ZenonT(60) DEF Agrees, Shaped
  <1>5. CASE LockExpires
    BY <1>5 DEF LockExpires, Agrees, Shaped
  <1>6. CASE matocl_before_disconnect
    <2> DEFINE d == [c EXCEPT !.delayed = Nobody]
    <2>1. m' \in {d, chunk_unlock(d)}
      BY <1>6 DEF matocl_before_disconnect, MasterBecomes
    <2> HIDE DEF c
    <2> QED
      BY <1>1, <2>1, ZenonT(60) DEF Agrees, Shaped, chunk_unlock
  <1>7. CASE chunk_add_file \/ chunk_delete_file
    <2>1. \E n : m' = [c EXCEPT !.fileCount = n]
      BY <1>7 DEF chunk_add_file, chunk_delete_file, MasterBecomes
    <2> HIDE DEF c
    <2> QED
      BY <1>1, <2>1 DEF Agrees, Shaped
  <1> QED
    BY <1>2, <1>3, <1>4, <1>5, <1>6, <1>7, SMTT(30)

\* The chunk loop and the scan for the parts of lost servers keep the versions in
\* step.
LEMMA LoopAgrees ==
  ASSUME Agrees(m), doChunkJobs \/ chunk_clean_zombie_servers_a_bit
  PROVE  Agrees(m')
  <1> DEFINE c == chunk_find(m)
  <1>1. Agrees(c)
    BY FindAgrees
  <1>2. CASE doChunkJobs
    <2>1. PICK able \in SUBSET Servers :
            LET d == deleteInvalidChunkParts(c, able)
                valid == ValidParts(d)
            IN  \/ m' \in {c, d, deleteParts(d, valid \cap able, d.version)}
                \/ \E s \in valid \cap able : m' = deleteParts(d, {s}, 0)
                \/ \E s \in Servers : m' = tryReplication(d, s)
      BY <1>2, ZenonT(60) DEF doChunkJobs, MasterBecomes
    <2> DEFINE d == deleteInvalidChunkParts(c, able)
    <2>2. Agrees(d)
      BY <1>1, LoopSame, SameAgrees DEF Agrees
    <2>3. \A S, version : Agrees(deleteParts(d, S, version))
      BY <2>2, LoopSame, SameAgrees DEF Agrees
    <2>4. \A s : Agrees(tryReplication(d, s))
      BY <2>2, LoopSame, SameAgrees, SMTT(30) DEF Agrees
    <2> QED
      BY <1>1, <2>1, <2>2, <2>3, <2>4, ZenonT(60)
  <1>3. CASE chunk_clean_zombie_servers_a_bit
    BY <1>1, <1>3 DEF chunk_clean_zombie_servers_a_bit, MasterBecomes
  <1> QED
    BY <1>2, <1>3

\* The packets of a chunkserver keep the versions in step.
LEMMA ReceiveAgrees ==
  ASSUME Agrees(m), NEW s, MaReceive(s)
  PROVE  Agrees(m')
  <1> DEFINE c == chunk_find(m)
             p == Head(toMa[s])
  <1>1. Agrees(c) /\ Shaped(c)
    BY FindAgrees, SMTT(30) DEF Agrees
  <1>2. m' \in {chunk_operation_status(c, s, p.ok), chunk_write_end_status(c, s, p.ok),
                chunk_got_delete_status(c, s), chunk_got_replicate_status(c, s, p.version, p.ok),
                chunk_server_has_chunk(c, s, p.version), chunk_damaged(c, s), chunk_lost(c, s)}
    BY DEF MaReceive, MasterBecomes
  <1> HIDE DEF c, p
  <1>3. Agrees(chunk_operation_status(c, s, p.ok)) /\ Agrees(chunk_write_end_status(c, s, p.ok))
    BY <1>1, OperationStatusAgrees, WriteEndAgrees, SMTT(30)
  <1>4. Same(c, m') => Agrees(m')
    BY <1>1, SameAgrees
  <1> QED
    BY <1>1, <1>2, <1>3, <1>4, ReportSame, SMTT(30)

\* The chunkservers touch what the master sent and what the clients hold, never
\* the Chunk object.
LEMMA ServersAgree ==
  ASSUME Agrees(m), NEW s,
         \/ CsReceive(s) \/ CsExecute(s) \/ endChunkLock(s)
         \/ Disconnect(s) \/ Reconnect(s) \/ Restart(s) \/ DamagePart(s)
  PROVE  Agrees(m')
  <1>1. CASE CsReceive(s) \/ Disconnect(s)
    <2>1. \E toCs : m' = [m EXCEPT !.toCs = toCs]
      BY <1>1 DEF CsReceive, Disconnect
    <2> QED
      BY <2>1, SMTT(30) DEF Agrees, Shaped
  <1>2. CASE endChunkLock(s)
    <2>1. \E grant : m' = [m EXCEPT !.grant = grant]
      BY <1>2, ZenonT(60) DEF endChunkLock
    <2> QED
      BY <2>1, SMTT(30) DEF Agrees, Shaped
  <1>3. CASE CsExecute(s) \/ Reconnect(s) \/ Restart(s) \/ DamagePart(s)
    <2>1. m' = m
      BY <1>3, ZenonT(60) DEF CsExecute, Reconnect, Restart, DamagePart, Register
    <2> QED
      BY <2>1
  <1> QED
    BY <1>1, <1>2, <1>3, SMTT(30)

\* A chunk is born with both versions at 1.
LEMMA BirthAgrees ==
  ASSUME NEW operation, NEW T, NEW l
  PROVE  Agrees(birth(operation, T, l))
  BY DEF birth, SendTo, Agrees, Shaped

\* The inductive invariant.
ReplayInv == Agrees(m)

\* A master and the servers that replay its changelog (chunk_apply_modification,
\* chunk_increase_version) agree on the version of the chunk: for any number of
\* servers and clients, with and without locks on the chunkservers, and for any
\* number of faults.
THEOREM ReplayAgreesThm == Spec => []ReplayAgrees
  <1>1. Init => ReplayInv
    BY BirthAgrees DEF Init, ReplayInv
  <1>2. ReplayInv /\ [Next]_vars => ReplayInv'
    <2> SUFFICES ASSUME Agrees(m), [Next]_vars
                 PROVE  Agrees(m')
      BY DEF ReplayInv
    <2>1. CASE \E l \in LockIds : (\E known \in BOOLEAN : WriteRequest(l, known)) \/ TruncateRequest(l)
      BY <2>1, RequestsAgree
    <2>2. CASE \/ LockExpires \/ matocl_before_disconnect \/ chunk_add_file \/ chunk_delete_file
               \/ \E l \in LockIds : \/ WriteEnd(l) \/ ClientCrash(l)
                                     \/ \E s \in Servers, outcome \in {"open", "ok", "untold"} :
                                          WriteData(l, s, outcome)
      BY <2>2, ClientsAgree
    <2>3. CASE doChunkJobs \/ chunk_clean_zombie_servers_a_bit
      BY <2>3, LoopAgrees, SMTT(30)
    <2>4. CASE \E s \in Servers : MaReceive(s)
      BY <2>4, ReceiveAgrees, SMTT(30)
    <2>5. CASE \E s \in Servers : \/ CsReceive(s) \/ CsExecute(s) \/ endChunkLock(s)
                                  \/ Disconnect(s) \/ Reconnect(s) \/ Restart(s) \/ DamagePart(s)
      BY <2>5, ServersAgree, SMTT(30)
    <2>6. CASE UNCHANGED vars
      BY <2>6 DEF vars
    <2> QED
      BY <2>1, <2>2, <2>3, <2>4, <2>5, <2>6, SMTT(30) DEF Next, Step
  <1>3. ReplayInv => ReplayAgrees
    BY DEF ReplayInv, Agrees, ReplayAgrees
  <1> QED
    BY <1>1, <1>2, <1>3, PTL DEF Spec
=============================================================================
