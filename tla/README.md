# A verification project for SaunaFS / LeilFS

TLA+ models of the parts of this repository whose correctness depends on the
order of events: the high-availability daemon (`src/src/uraft`), the chunk
manager of the master (`src/src/master/chunks.cc`) with what the chunkservers do
for it (`src/src/chunkserver`), the replication of metadata to shadow masters and
its files, advisory file locks (`src/src/master`), and the write cache of the
mount (`src/src/mount/writedata.cc`). TLC checks the models on small instances; TLAPS
proves some of the properties for every instance. `PROJECT.json` is the index:
components, runs, the source lines of every definition, hazards, theorems.

Paths below are relative to the repository's `src/src`.

## 1. The system

A **master** holds all metadata in memory and talks to everybody from one event
loop. **Shadows** replay its changelog and can take over. **Chunkservers** store
the parts of chunks (copies, or parts of an erasure code) and run the master's
requests on a pool of threads. **Clients** (mounts) ask the master for a chunk and
then talk to the chunkservers. On each metadata node **leil-uraft** takes part in
an election, promotes or demotes the local metadata server through a helper
script, and holds a floating IP. **Electors** are nodes that only vote.

| Part | Source | Module | State of the work |
|---|---|---|---|
| Leader election | `uraft/uraft.cc` | `URaft` | modelled but for a cluster of one node; one leader, one president proved |
| Node controller, helper script, floating IP | `uraft/uraftcontroller.cc`, `uraft/floating-ip-manager.cc`, `uraft/leil-uraft-helper.in` | `UraftController` | modelled, safety proved |
| Chunk manager | `master/chunks.cc`, `master/matocsserv.cc`, `master/chunkserver_db.cc` | `Chunks` | operations, versions, locks, lost servers, chunk loop; versions proved |
| Client requests on chunks | `master/matoclserv.cc`, `master/filesystem_operations.cc` | `Chunks` | write, write end, truncate, disconnection |
| Chunkserver: master's requests, write locks | `chunkserver/masterconn.cc`, `chunkserver/bgjobs.cc`, `chunkserver/master_connection.cc` | `Chunks` | jobs, locks, reconnection, restart |
| Changelog, its files, dumps, shadows | `master/changelog.cc`, `master/matomlserv.cc`, `master/masterconn.cc`, `master/restore.cc`, `master/metadata_backend_file.cc`, `metarestore/main.cc` | `Shadow` | two servers; rotation, dumps, deaths within them, recovery, download, replay, change of personality |
| Advisory file locks | `master/locks.cc`, `master/filesystem_operations.cc`, `master/matoclserv.cc` | `FileLocks`, `ByteLocks` | one file; shown to implement a table of bytes |
| Mount write cache, chunk writer | `mount/writedata.cc`, `mount/chunk_writer.cc`, `mount/write_cache_block.cc` | `WriteCache` | one file; queues, workers, retries, flush, close |
| Task manager, id detainer, trash containers | `master/task_manager.cc`, `master/id_pool_detainer.h` | – | containers and jobs of one event loop |
| Namespace, sessions, quotas, exports, topology | `master/filesystem_*.cc`, ... | – | sequential, covered by unit tests |
| Disks, replicator, read plans, erasure codes | `chunkserver/hddspacemgr.cc`, `common/reed_solomon.h`, ... | – | I/O and arithmetic; one step of `Chunks` where it matters |
| Placement, goals, labels | `master/get_servers_for_new_chunk.cc`, `common/chunk_copies_calculator.cc` | – | numeric optimisation; `Chunks` leaves the choice open |
| Key-value backend | `fdb`, `kv` | – | an external database |
| Admin, CGI, NFS gateway, tools | `admin`, `cgi`, `nfs-ganesha`, `tools` | – | front ends without state of their own |

All of these, with reasons, are under `components` in `PROJECT.json`; what can go
wrong in them, with file and line, is under `hazards`. A hazard without a property
has a note.

## 2. Modules

An object of the code (a `Chunk`, a `uRaft`, a `uRaftController`) is a record; its
methods are operators from the record to the next record (or the set of possible
ones); a handler is an action that composes the methods in the order the code
calls them. Operators named `Faulty...` are plausible mistakes in the definition
that follows; no action uses them. They serve to show that a property can fail:
every property of every passing run is violated when one definition is replaced
by its faulty form (`mutants` in `PROJECT.json`).

### UraftController: one metadata node

`u` is the `uRaftController` object with the part of its `uRaft` base it can see,
`mds` the personality of the local metadata server, `vip` whether the floating IP
is on the interface. Everything in the daemon runs on one `io_context`, so a
handler is one step. The helper script is a process of its own and takes several
steps (`Helper...`), as does the listener thread of the floating IP manager
(`HandleIpLoss`). The election is left open: `ElectionTimeout`, `WinElection`,
`BecomePresident`, `StepDown` and `FollowLeader` happen when the node's state
allows, without any assumption on other nodes. A cluster of one node is left out.

Constants say what may fail: `fork`, what the script tries, and whether a command
may be cut off by its timeout. A script that fails may have ended before it did
anything (`HelperLoadConfigFails`), and its `ip` commands may have failed: an
assignment that fails leaves the address off, a removal that fails leaves it on and
the demotion goes on with a warning (`leil-uraft-helper.in:343`). So an address may
be left after a demotion, and the property about it, `DroppedVipStaysAway`, speaks of
one that was removed. What a script that was killed had started is taken to end with
it. Stopping the manager waits for its thread (`std::jthread`), which is why
`HandleIpLoss` is one step. `FollowLeader` is for candidates: `rpcAppend` asserts that
it does not happen to a leader (`uraft/uraft.cc:317`), and all builds but Release have
assertions. `URaft` covers both kinds of build; in a Release build a president that is
made a follower steps down at the end of its grace (section 4).

### URaft: the election

`node[n]` is the `uRaft` object of node n, `net` the set of UDP packets in flight.
Time is discrete. `Tick` is the passing of `1` unit: agreements and election timers
run down and the nodes whose heartbeat timer expires run `heartbeat()`. Between
ticks packets arrive and election timers expire in any order. The counter
`local_time` enters the code only in differences, so the model keeps ages:
`heartbeat[j]` is the number of own heartbeats since the request that j last
acknowledged. A packet may be lost when it is sent, delayed and reordered.

Bounds: `MaxTerm` terms, `MaxInFlight` packets, `maxAge` heartbeats for a request
and its response. Ages stop at the length of an agreement, since older packets are
all alike; with `maxAge` above it, delays are unbounded, and the age of a vote, which
only the bound reads, is not counted.

Assumptions: heartbeat timers are on time (a helper call may in fact block the
thread for 100 ms, see the hazards), and packets to and from a node that restarts
are lost.

### Chunks: one chunk, its master, its servers, its clients

`m` is the master: the `Chunk` object (`version`, `operation`, `interrupted`,
`needVersionIncrease`, the lock, the file counter, one part per server), the
delayed operation of a client, what the clients were granted, the requests sent to
the servers (`toCs`), and two history fields: `acked`, the writes and truncations
that were acknowledged, and `replayed`, the version a shadow arrives at when it
replays the changelog. `conn` and `toMa` are the connections, `cs[s]` is the
chunkserver: version and content of the part on disk, its lock, its jobs.

- Requests to one server arrive in order. `LOCK` and `UNLOCK` are executed at
  once; the others become jobs, which workers run in any order (`CsExecute`), and
  jobs that meet a lock in use wait for its end.
- The content of a part is the set of writes it holds. A write is acknowledged when
  it has reached all the parts the client was given.
- `chunk_find` at the start of a handler drops the parts of lost servers, with all
  that follows from it (`chunk_handle_disconnected_copies`).
- Faults: lost connections, restarts, disk errors (also after the file has been
  renamed to the new version), data that was acknowledged early and could not be
  stored, damaged parts. `faultKinds` of the set-up names those that may happen and `maxFaults`
  how many.
- `uses` says what else goes on: truncation, sharing by a snapshot, removal of
  files, clients that go away, the chunk loop.

Timing assumptions: a client that holds a lock writes within `LOCKTIMEOUT` (unless
`"slow"`); the master has dropped the parts of a lost server before it registers
again (unless `"fast"`); the chunk loop returns to a chunk when its last requests
to the servers are done (`LastRoundDone`).

Left out: parts marked for removal from a disk (`TDVALID`, `TDBUSY`),
`chunk_repair`, the parity path of truncation, the redundancy level for new
chunks, goals and labels, the list of clients notified of an unlock, the removal
of the Chunk object.

### FileLocks and ByteLocks: the locks of one file

`active` and `pending` are the two vectors of `FileLocks` for one inode; a range is
a record with its type, bounds and set of owners. `insert` is the loop of
`LockRanges::insert` as a fold over the ranges that the binary searches delimit
(`Window`), one `Visit` per range: merged, split or shared. An action is a request
of a client with all the master does for it: a request that frees something retries
the candidates from the queue (`RetryPending`), the end of a session gathers them
without trying them (`LocksClearSession`), a restart writes and reads the table
(`StoreLoad`). A behaviour is about the flock table, where there is one range, or
the POSIX table. One owner may have several requests waiting, also equal ones. A record
of `Tables` bounds the requests that wait (`waiting`) and the bytes (`bytes`).

`ByteLocks` is what is promised: a mode for each byte and owner, a writer is alone,
a request is granted whole, waits (in a bag) or is refused. `FileLocks` implements it under the
mapping `Held`, `Waiting` (`ImplementsByteLocks`). The step `EndSession` of
`ByteLocks` lets others stop waiting unserved: that is what the code does, and what
`WokenHoldsLock` is about.

### Shadow: two metadata servers

One server is the `master`. Metadata is the sequence of changes it results from; a
change is a version and the term of the master that made it. `disk[s]` is the data
directory: whether there are a `metadata.sfs.tmp` (`tmp`) and a `metadata.sfs`
(`present`), the newest image there is under any name, three changelog files, and the
changes of older changelogs that the image lacks (`older`). `serv` has the master's
remembered changes and dumping child, `conn` the shadow's `MasterConn` with the state of
`restore()`, `link` the connection with the master's entry for it. The rounds of a
download are one request and one answer per file: the master fixes what it sends at the
first request.

The master writes changes, starts dumps by itself or for a shadow, and a dump ends or
fails, in the child (`DumpFails`) or in the last rename (`CommitFails`, after
`metadata.sfs` has become `metadata.sfs.1`). The shadow registers, downloads the image
and two changelogs, loads them with its own, replays what arrives, asks for a new image
when something does not fit. The connection breaks, the shadow restarts (in order or
killed), and the shadow takes over.

A master may die between any two renames of a rotation or a commit: `MasterDies` leaves
one of the directories that `RotateSteps`, `CommitSteps` and `StoreSteps` go through,
while it runs, while it stops, and in the dump at the end of its start (`MasterStarts`).
`init()` refuses a directory with a `metadata.sfs.tmp` or without a `metadata.sfs`
(`InitAccepts`); then the file is removed (`CleanUp`, which the helper does) or an
administrator runs `sfsmetarestore -a` (`Metarestore`). `Budgets` says how often each
fault may happen.

Assumed: `BACK_META_KEEP_PREVIOUS` is at least 1, what was flushed survives a death, and
a dumping child dies with its master. Left out: what a change does to the tree (a
replayed change always succeeds), checksums, metaloggers, the sessions file, options
that defer a dump, a failing dump of a stop or a start, a death within `sfsmetarestore`,
the emergency copies of an image, and the shadow's periodic dumps of its own.

### WriteCache: one file of a mount

`inode` is the `inodedata`, `chunk[c]` the `ChunkData` with its data chain, `pending`,
`jobs` and `delayed` the three queues, `th[t]` where a thread of the file system is in
`write_data`, `write_data_flush` or `write_data_end`, `wk[w]` a worker with its chunk
and journal. An action is what the code does under one holding of the inode's lock or
of the global lock; between two of them everybody else may run. `server[p]` is the
newest write of a place that reached the chunkservers.

- A worker takes blocks (`Take`), sends those that do not collide with earlier ones
  and gets their status in any order (`Confirm`), stops taking (`StopTaking`), returns
  what it did not send (`Finish`), unlocks the chunk, and decides what becomes of it
  (`Decide`, then `HandBack` under the other lock).
- `Fail` is an exception: any of the operations under way may have been carried out by
  then. The journal goes back and the chunk is tried again (`Retry`) or given up. An
  operation that timed out (`mount/chunk_writer.cc:258`) and that a chunkserver carries
  out only after the retry is not followed: the chunkservers are taken to end a session
  before the next one writes, and `NewestStays` depends on it.
- The code moves a block and counts it among the free ones in two holdings of two locks
  (`mount/writedata.cc:865`, `mount/writedata.cc:922`), the model in one action:
  `BlocksAccountedFor` is about the states between such pairs.
- Time is abstracted: a chunk may be old enough to be written, or a slice of time
  over, at any moment. A notice that a chunk was unlocked is one of the ways in which
  `Retry` and `Tick` put it among the jobs at once.
- Use of freed memory: a worker that has decided about the last chunk still calls the
  `inodedata` after it released its lock, and the last closer may delete it in between
  (`Stray`). It does no harm or ends the process; both are followed.

Left out: truncation, the length of the file, stripes and parity, the write window,
the pipes that wake workers, several files that share the cache.

## 3. Runs

| Run | Instance | Checks |
|---|---|---|
| `controller` | nothing fails; forks and commands fail; also commands time out | the backoff and the handler of a dead server never swallow a promotion request (a failed fork or a demotion that times out drops a pending one); the floating IP manager never fights a demotion; an address that a demotion has removed stays away until it ends. Where commands start and end: deferred requests are carried out, a lasting president's server becomes master, a dead server is restarted |
| `controller_stepdown` | nothing fails | **violation**: `MasterModeReverted` |
| `chunks` | two copies without locks, two copies with locks, two parts that are both needed (2 faults), two copies on three servers with the chunk loop | a reader never sees a part that misses an acknowledged write, and one that has it survives; a writer is given every part of the chunk's version; operations, BUSY parts and waiting clients have somebody to end them; no part is ahead of the master; shadows agree on the version |
| `chunks_damage` | 1 damaged part | **violation**: `InvalidPartForcesVersion` |
| `uraft_lease` | 3 nodes, 2 terms, 2 packets, delays of up to 2 heartbeats, grace 1 | one president; its quorum is bound by agreements; one leader per term |
| `uraft_failures` | 2 metadata nodes and 1 elector: nodes restart, assertions compiled in; one node behind and leaders that give up; one node behind and late packets | the president's quorum is still bound; a leader is not older than those who voted for it |
| `uraft_grace` | grace 5, the default | **violation**: `OnePresident` |
| `locks` | flock table with 3 owners and 3 waiting requests; POSIX tables of 2 owners, with 1 waiting request on 3 bytes and with 2 on 2 bytes | the vectors stay in order and implement `ByteLocks`; whoever waits for a flock has to (with one exception, section 4) |
| `locks_session` | POSIX table of 2 bytes, 3 owners | **violation**: `WokenHoldsLock` |
| `shadow_sync` | 3 versions; two dumps of which one fails; a restart of the shadow; a lost connection in a dump or around a death of the master; two deaths of the master; a failed commit and a death; two changes of personality | a synchronised shadow has a beginning of the master's changes; wherever the master dies, its files hold every change and `sfsmetarestore -a` finds it, as does the master when it starts; a request for an image is answered; a connected shadow catches up |
| `shadow_stuck` | 2 versions, one lost connection | **violation**: `ShadowCatchesUp` |
| `write_cache` | six set-ups of 1 block of cache, up to 2 workers, 2 threads, 2 chunks, 3 writes, 1 fault | one job per chunk; the limit of parallel chunks; no block lost or gained; older data never replaces newer; a flush that returns OK has written what was answered before; deletion leaves nothing queued; calls return |

Why the bounds are enough to be interesting. Two servers make the smallest chunk
in which one part survives and one does not; a third is needed for a part to move.
Two lock ids give a writer, and a second one that overtakes it or retries. Three
versions are the creation, an increase and an emergency increase in the middle of
it. In the election an agreement lasts two heartbeats, so it can be alive, about to
end and ended; three nodes are the smallest cluster with a quorum that excludes a
president, and two terms are a president and its successor. Longer delays, more nodes,
terms and packets are left to the proofs. `LeaderHasNewestVersion`, which is not proved,
was also checked with leaders that give up and late packets at once (0.9 million
states). Servers, lock ids and
(with equal versions) nodes are interchangeable, hence the symmetry.

Three bytes are the fewest in which a range is split in the middle; three owners of a
flock are a holder and two who wait, and three requests in the queue are the fewest in
which one owner's surround another's. The POSIX table with 2 requests on 3 bytes
was checked once (15 minutes). Two deaths are one in a stop and one in the start that
follows. Three versions of metadata span an image, a
rotated changelog and the current one. One block of cache makes every second write
wait; with it two writes to one place (one sent, one behind it) and two chunks under a
limit of one meet in all orders, and one fault is enough for a journal to come back in
the middle of them.

A constant such as `Configurations`, `Setups`, `Tables`, `Budgets` or `SetUps` is a set of
configurations; a behaviour picks one at the start and keeps it, so that one run covers
several.

Deadlock is checked for the controller. It is off for `Chunks`, `FileLocks` and
`WriteCache`, where things at rest may stay so for ever, and for `URaft` and `Shadow`,
where the bounds on terms, versions and faults end every behaviour.

**Fairness** is assumed in three modules.

- `UraftController`. Timers that are re-armed fire and ready handlers run (weak
  fairness), helper commands end (weak), and the status poll, which skips its turn
  while a command runs, meets a moment without a command again and again (strong: the
  poll's period of 250 ms is not in step with the commands). Nothing is assumed of the
  election or of failures.
- `Shadow`. Both event loops go on serving their sockets and timers while the master is
  up, a dumping child ends, and the time between two save requests passes. Nothing is
  assumed of starts after a death.
- `WriteCache`. Workers, the thread of the delayed queue and threads inside a call keep
  running (weak). Blocks are taken and their statuses arrive when there is a chance
  again and again (strong): a job that meets a block while somebody flushes, or one that
  is 5 seconds old, takes it and sends it (`requiresFlushing`); without this a worker
  could pick the chunk up and leave it for ever. Faults are bounded. Nothing is assumed
  about which calls are made.

## 4. What the violations show

1. `controller_stepdown`. A node whose promotion is still running loses and regains
   leadership; as leader it drops the pending demotion; it then steps down before it
   is president again, and `stepDownToFollower` demotes presidents only
   (`uraft/uraft.cc:120`). Its metadata server stays in master mode, against
   `uraft/uraft.h:63`.
2. `chunks_damage`. A part is reported damaged while an operation runs;
   `chunk_operation_status` clears `needVersionIncrease` when the operation ends
   (`master/chunks.cc:2132`), and the next write goes on at the version the damaged
   part has, against `master/chunks.cc:1465`.
3. `uraft_grace`. A president that has lost its quorum goes on for the rest of the
   grace (`uraft/uraft.cc:280`), longer than the agreements of its followers last;
   they elect another one, against `uraft/uraft.h:15`.
4. `locks_session`. When a session ends, the requests that waited for its locks are taken
   out of the queue and answered OK, without being given the lock and without a look at
   whether they fit (`master/filesystem_operations.cc:2528`), against
   `master/locks.h:289`.
5. `shadow_stuck`. A connection breaks while the shadow downloads and after it received a
   change; `lastLogVersion` is then not 0, and the next connection neither starts the
   download nor asks for a dump (`master/masterconn.cc:392`). The shadow stays in
   `kDownloading` until it happens to miss a change or is restarted, against
   `doc/sfsmaster.8.adoc:42`.

Seen while modelling, and reproduced by changing the constants of a run or lifting the
condition of a property:

- `PendingHasCommand` is stated for configurations without `"timeout"`; a promotion that
  times out leaves its pending demotion pending (`uraft/uraftcontroller.cc:372`).
- `OnePresident` fails with `"restart"` among the `uses`: term and vote are not saved. It
  holds with `"demote"` and unbounded delay (3.4 million states).
- With unbounded delay a president may be made a follower by a heartbeat of its own
  term, since a leader that stepped down forgets its vote (`uraft/uraft.cc:115`) and
  may vote again in that term; the assertion in `heartbeat()`
  (`uraft/uraft.cc:271`) fails, and a build without assertions steps down at the end
  of its grace. The assertion at `uraft/uraft.cc:317` fails on a late heartbeat of
  an older leader.
- `LeaderHasNewestVersion` fails with `"hung"`: a voter whose metadata server does
  not answer in time takes its own version for 0 (`uraft/uraftcontroller.cc:148`).
- `OperationWillEnd` fails with `"fast"`: a server that registers again before its
  parts were dropped leaves them BUSY (`master/chunks.cc:1992`,
  `master/chunkserver_db.cc:79`).
- `OperationWillEnd` is stated for set-ups in which parts are not purged while connections
  break (`PartsPurged`): after a failed write and two lost connections `chunk_lost` removes
  a BUSY part without a look at the operation it takes part in
  (`master/chunks.cc:1971`), and nobody ends the operation.
- `WriteEndWillCome` is stated for set-ups whose connections hold; otherwise a lock that outlived its
  connection is taken over by the next lock request and no longer reports
  (`chunkserver/bgjobs.h:324`, `chunkserver/masterconn.cc:268`).
- `AcknowledgedDataIsRead` fails with `"slow"` clients and the chunk loop, as the
  comment at `master/chunks.cc:1090` expects, and with two faults, a lost connection
  and a failed store (`chunkserver/masterconn.cc:171`).
- Truncation is not part of the copies with locks: a `WRITE_END` may start an emergency
  increase while a truncation waits for answers, and late answers are then taken
  for those of the increase (`master/chunks.cc:2160`).
- A deletion that has started when the connection breaks finishes after the part was
  registered again (`chunkserver/masterconn.cc:239`); the master learns of it from the
  next read or test of the part.
- `NoWaiterFits` fails on a POSIX table of two bytes and three owners: of the requests that
  start before the freed range `gatherCandidates` considers one (`master/locks.cc:247`),
  and another that fits waits on.
- `SynchronizedIsPrefix` fails with `unsent` changes: a master that died before it sent its
  last changes comes back as a shadow and replays them from its old `changelog.sfs` on
  top of the new master's image (`master/changelog.cc:303`), against
  `master/masterconn.cc:119`.
- The second half of `NothingIsLost`, about a master that recovers by itself, is stated
  for `older = {}`. After three rotations without a new image (failed dumps, deaths in
  the dumps of a stop and a start whose `metadata.sfs.tmp` was removed) the first changes
  are in `changelog.sfs.3`, which `load_changelogs` does not read, against its comment
  "We need to load 3 changelog files in extreme case" (`master/changelog.cc:291`). If the
  three files it reads hold no change there is no hole to notice, and a start with
  `AUTO_RECOVERY` loads the old image as it is. The status of a failed dump is not looked
  at where it was asked for. `sfsmetarestore -a` recovers all of it.
- `AUTO_RECOVERY` does not recover from a death during a dump (`metadata.sfs.tmp` is
  there, `master/metadata_backend_file.cc:1419`) or between the two renames of a commit
  (no `metadata.sfs`): such a start is refused. A shadow's download uses the same name,
  so a shadow killed in one needs the clean-up too.
- `ConnectedShadowCatchesUp` is stated for configurations without failed renames: without
  a `metadata.sfs` the master answers a download with an error, which the shadow only
  logs, and it stays in `kDownloading`.
- `WaiterHasToWait` has one exception: an owner's exclusive request and, behind another
  owner's shared one, the same owner's shared request are granted in one pass over the
  queue (`master/filesystem_operations.cc:2455`), and the one between them waits on
  although it fits.
- `OneJobPerChunk` without the condition `inode.ok` fails after an error: a flush takes the
  other chunks out of the delayed queue and drops them (`mount/writedata.cc:1226`), with
  `inQueue` set, against the comment at `mount/writedata.cc:231`. Their blocks and the
  `inodedata` with its error are kept for ever, and a writer that waits for a block may
  wait for ever.
- One closer's `almostDone` may be out of date when it becomes the last one, if another
  closer's flush returned early because of an error: the `inodedata` is then deleted with
  chunks in it (two threads that open, a fatal error).
- `write_data_flush_inode` uses an `inodedata` that is not kept alive for it (`crashed`
  becomes true with a thread that may `"visit"`).

Read in the code and not part of a model:

- An error in the middle of `hddInternalTruncate` leaves an untruncated part at the new
  version (`chunkserver/hddspacemgr.cc:1597`), which registers as valid if the connection
  is lost too.
- A lock request that is granted while its session has no connection loses its wake-up
  (`master/matoclserv.cc:4503`). A shadow replays a refused non-blocking request as a
  blocking one, since `FLCK` does not say which it was (`master/restore.cc:488`).
- A shadow's own periodic dump and a download use the same `metadata.sfs.tmp`
  (`master/masterconn.cc:643`).
- With `BACK_META_KEEP_PREVIOUS` of 2 or more a failed commit and a further one move the
  newest image to `metadata.sfs.2`, where `sfsmetarestore -a` does not look.
- Requests that wait are loaded after a restart without the id by which an interrupted
  call takes them back.
- A writer's share of the cache is computed from a number of blocks read once, before the
  wait (`mount/writedata.cc:375`); with a small `sfscacheperinodepercentage` it may go on
  waiting when the blocks are gone. The runs have the default, 100.
- A write that has passed the check of `flushwaiting` (`mount/writedata.cc:1152`) is not
  kept out by a truncation that begins then, against the comment at
  `mount/writedata.cc:1283`; the assertion at `mount/writedata.cc:1346` relies on it.

## 5. Proofs

Each theorem is `Spec => []P` (or `Spec => [](H => P)` with a hypothesis H on the
set-up) for every value of the constants that the module's `ASSUME` allows. Invariants
were first checked by TLC as invariants of the runs.

| Module | Theorems | Hypotheses |
|---|---|---|
| `UraftControllerProofs` | `PromotionNeverSkippedThm`, `ManagerNeverFightsDemotionThm`, `DroppedVipStaysAwayThm`, `PendingHasCommandThm`, `TypeOKThm` | – |
| `ChunksProofs` | `TypeOKThm`, `NoFutureVersionThm`, `ClientAwaitsThm`, `ReplayAgreesThm` | – |
| `URaftProofs` | `TypeOKThm` | – |
| `URaftLoyaltyProofs` | `LoyalQuorumThm` | `Patient` |
| `URaftElectionProofs` | `OneLeaderThm`, `OnePresidentThm` | `Patient`, `Lasting`; the second also `use.grace <= 1` |

### UraftController

Three of the invariants are inductive together (`IInv`). A removed address stays away
during a demotion (`DroppedVipStaysAwayThm`, an action property, whether or not helper
commands fail) because the manager, which puts addresses back, is stopped, and the
manager is stopped because commands and processes go together. The part of the invariant about the
controller object is `Sound`; one lemma per method says that it leaves a sound
object, and the proof for an action cites those of the methods it calls.
`PendingHasCommand` needs one more step from `IInv`.

### Chunks

`ReplayAgrees`: a server that replays `WRITE`, `TRUNC` and `INCVERSION` arrives at the
master's version of the chunk. The property speaks of two fields and every handler
touches them through nested calls, so the work is in the lemmas: each operator on the
Chunk object leaves both versions alone (`Same`), or keeps them equal (`Agrees`). The
interesting ones are `ModifyAgrees`, where the version moves exactly when
`should_increase_chunk_version_on_modification` says so, and `DisconnectedAgrees`,
`OperationStatusAgrees` and `WriteEndAgrees`, where an emergency increase starts in
the middle of something else. No assumption on the constants is used.

`NoFutureVersion` cannot be proved of the disks alone: a version gets there through a
request, a queue and a job, and back through answers. The invariant types all of them
*relative to the master's version* v: `Parts(v)`, `Requests(v)`, `Jobs(v)`,
`Packets(v)`, `Hosts(v)` hold no version above v. Every operator on the Chunk object
gives a well-typed object whose version is not smaller, and what was typed for v is
typed for every later version. `Typed(m)` also says that a client whose answer was put
off has an operation to wait for (`ClientAwaitsOperation`): an operation ends only in
`chunk_operation_status` and in `chunk_handle_disconnected_copies`, and both answer the
client.

### URaft

`URaftProofs` has one lemma per method of `uRaft`: what it does to the fields of the
object and which packets it sends. Every step then is a tick, a packet received, a node
that stands for election, one that gives up or one that starts again.

`LoyalQuorumThm`: while a president sees a quorum, a quorum has agreements that have not
run out. The president counts its own heartbeats (`heartbeat[j]`), the node j counts
down ticks (`loyalty`); `Heard` relates the two clocks: the agreement of j plus the time
since the heartbeat that j answered is at least `ElectionMin`. It is inductive only
together with the same bound for answers in flight (`PacketTiming`) and with
`Requested`: between sending a heartbeat and receiving its late answer the node has not
been a candidate, or the answer would count for a new term. That in turn rests on
`Timers`: a president that was made a follower has given up before its election timer
expires. This is the hypothesis **`Patient`**, `HeartbeatPeriod * grace <= ElectionMin`;
the defaults are 20 ms, 5 and 300 ms.

`OneLeaderThm`, `OnePresidentThm`: a leader has a quorum of votes, and two quorums have a
node in common. A vote in this code is not for ever: `stepDownToFollower` clears
`votedFor` even when the term stays the same, so a node may vote twice in a term. The
invariant `Election` says why this does no harm: who backs a candidate, by a vote counted
or on its way, is bound to it or to a node that cannot stand in this term any more
(`Bound`, `Spent`). While an agreement lasts, its signer backs nobody of a later term
(`Leased`, and `Pledge` for agreements still on their way). So a second president would
need the vote of a node whose agreement with the first has not run out. Hypotheses:
**`Lasting`**, no restarts and no assertions that end the process, since votes are not
saved (`OnePresident` fails otherwise, section 4), and for `OnePresidentThm` a grace of
at most 1; the run `uraft_grace` shows that it fails with the default.

### Only model-checked

- All of `FileLocks`, `Shadow` and `WriteCache`, with the refinement of `ByteLocks`.
- In `Chunks` the properties that relate the parts to the acknowledged data
  (`AcknowledgedDataIsRead` and the like): their invariant would have to follow the
  content of every part through every order of jobs, and they are stated under bounds
  on faults (`maxFaults`) that a proof for all constants cannot have.
- In `URaft`, `LeaderHasNewestVersion`.
- All liveness. Liveness under fairness, `ENABLED` and induction over data are beyond the
  prover's backends, and no module with a theorem uses a `RECURSIVE` operator.

## 6. Not modelled

- The namespace, quotas, sessions, exports and the handlers around them
  (`filesystem_operations.cc`, `filesystem_node.cc`, most of `matoclserv.cc`): one thread,
  one request at a time, and unit or system tests for each. Their interleavings are
  those of the changelog (`Shadow`), the chunks (`Chunks`) and the locks.
- `mastercomm.cc` and `sauna_client.cc`: packing and unpacking of some hundred requests
  around one table of waiting threads; the order of requests is what `Chunks` leaves open.
- Disks (`hddspacemgr.cc`, plugins), the replicator, read plans and erasure codes: I/O and
  arithmetic. `Chunks` has what a master can tell of them.
- Placement, goals and labels; the key-value backend; front ends and tools.

The map covers a few thousand of the repository's lines: those whose order of events is
hard to test.

## 7. Plan

1. **WriteCache proofs.** `NewestStays`: along journal and chain the writes of a place
   ascend and none is older than the server's; it needs that a chunk has one worker.
2. **Shadow proofs.** `SynchronizedIsPrefix`, from the downloaded files and the changes in
   flight being pieces of the master's log.
3. **Composition**: `URaft` with one `UraftController` per node, so that the steps
   left open there are those of the election.
4. **Chunks**: parts marked for removal; the removal of the Chunk object.
5. **WriteCache**: truncation with its passed-on lock, and several files.
