-------------------------------- MODULE WriteCache --------------------------------
(***************************************************************************)
(* The write cache of the mount (mount/writedata.cc) with the writing of   *)
(* one chunk's journal (mount/chunk_writer.cc), for one inode.  Threads of *)
(* the file system write, flush and close through their handles; workers   *)
(* take chunks from a queue of jobs and send their blocks to chunkservers; *)
(* chunks that may wait are in a delayed queue.                            *)
(*                                                                         *)
(* An action is what is done under one holding of the inode's lock or of   *)
(* the global lock; every release of a lock is a point where others run.   *)
(*                                                                         *)
(* A place is a range of bytes inside one block of one chunk.  Places do   *)
(* not touch each other, so a write extends a cached block of its own      *)
(* place only, and operations collide when they are for one place.  A      *)
(* write is known by its number, in the order in which the writes reach    *)
(* the cache; a block of a place holds the newest write that went into it. *)
(* Time is abstracted: data may be old enough to be written at any moment. *)
(***************************************************************************)
EXTENDS Integers, Sequences, SequencesExt, FiniteSets, FiniteSetsExt

CONSTANTS
  Threads,     \* threads of the file system, each with a handle of its own
  Workers,     \* threads that run write_worker
  Chunks,      \* chunks of the inode
  SetUps       \* the configurations

None == 0

Errors == {"locked", "recoverable", "fatal"}

\* A configuration:
\*   workers  the workers that run;
\*   cache    blocks in the cache;
\*   percent  gCachePerInodePercentage;
\*   limit    gMaxChunksWrittenInParallelPerInode, 0 for no limit;
\*   may      what each thread does: open, flush and close; write; flush without a handle;
\*   places   the places that are written;
\*   writes   how many writes are made;
\*   retries  maxretries;
\*   faults   how many times writing a chunk fails, with one of these errors.
ASSUME WriteCacheAssumption ==
  \A s \in SetUps :
    /\ s.workers \in SUBSET Workers \ {{}} /\ s.cache \in Nat \ {0}
    /\ s.percent \in 1..100 /\ s.limit \in Nat
    /\ s.may \in [Threads -> SUBSET {"open", "write", "visit"}]
    /\ s.places \subseteq Chunks \X Nat /\ s.writes \in Nat
    /\ s.retries \in Nat \ {0} /\ s.faults \in Nat /\ s.errors \subseteq Errors

VARIABLES
  use,      \* the configuration
  inode,    \* inodedata: status, lcnt, flushwaiting, parallelChunksBeingWritten
  chunk,    \* chunkDataList: the ChunkData of each chunk that has one
  pending,  \* pendingChunkData
  jobs,     \* jobsQueue
  delayed,  \* delayedQueue
  free,     \* freecacheblocks
  th,       \* where each thread is
  wk,       \* where each worker is, with its chunk and journal
  server,   \* the newest write of each place that is on the chunkservers
  made,     \* number of writes that are in the cache or went through it
  acked,    \* the newest write of each place that was answered with OK
  faults,   \* faults that may still happen
  crashed   \* freed memory was used

vars == <<use, inode, chunk, pending, jobs, delayed, free, th, wk, server, made, acked,
          faults, crashed>>
queues == <<pending, jobs, delayed>>
ghosts == <<server, made, acked>>

----------------------------------------------------------------------------
(* Data *)

Block(p, n) == [place |-> p, write |-> n, writable |-> TRUE]

NoInode == [known |-> FALSE, ok |-> TRUE, lcnt |-> 0, flushing |-> 0, parallel |-> 0]
NewInode == [NoInode EXCEPT !.known = TRUE]

NoChunk == [chain |-> <<>>, inQueue |-> FALSE, tries |-> 0, writers |-> 0, known |-> FALSE]
NewChunk == [NoChunk EXCEPT !.known = TRUE]

Idle == [pc |-> "idle", chunk |-> None, journal |-> <<>>, ok |-> TRUE]

Closed == [pc |-> "closed", call |-> "none", place |-> <<>>, write |-> 0,
           total |-> 0, snapshot |-> <<>>, almostDone |-> FALSE]
Opened == [Closed EXCEPT !.pc = "open"]

\* The number of threads in write_data that wait for flushes to end.
writewaiting == Cardinality({t \in Threads : th[t].pc = "gate"})

totalCachedBlocks == FoldSet(LAMBDA c, n : n + Len(chunk[c].chain), 0, Chunks)

\* A list that counts as empty when nothing is cached, whatever workers have taken.
FaultyEmptyChunkDataList == totalCachedBlocks = 0

emptyChunkDataList == \A c \in Chunks : ~chunk[c].known

----------------------------------------------------------------------------
(* The queue of jobs *)

\* The limit is forgotten.
FaultyStarting(n, q) == Len(q)

\* add_pending_jobs when n chunks are being written and q are pending: how many start.
Starting(n, q) ==
  IF use.limit = 0 THEN Len(q) ELSE Min({Len(q), Max({0, use.limit - n})})

AddPendingJobs(n, q) ==
  LET k == Starting(n, q)
  IN  /\ inode' = [inode EXCEPT !.parallel = n + k]
      /\ pending' = SubSeq(q, k + 1, Len(q))
      /\ jobs' = jobs \o SubSeq(q, 1, k)

----------------------------------------------------------------------------
(* write_worker and ChunkJobWriter *)

Writing == {"work", "drain", "drop"}   \* in processDataChain and ChunkWriter::finish

\* A worker takes the next job.
Get(w) ==
  /\ w \in use.workers /\ wk[w].pc = "idle" /\ jobs # <<>>
  /\ wk' = [wk EXCEPT ![w] = [Idle EXCEPT !.pc = "work", !.chunk = Head(jobs)]]
  /\ jobs' = Tail(jobs)
  /\ UNCHANGED <<use, inode, chunk, pending, delayed, free, th, ghosts, faults, crashed>>

\* The first block of the chain goes into the journal and its place in the cache is
\* free; from now on it is read-only.
Take(w) ==
  LET c == wk[w].chunk IN
  /\ wk[w].pc = "work" /\ chunk[c].chain # <<>>
  /\ wk' = [wk EXCEPT ![w].journal =
              Append(@, [Head(chunk[c].chain) EXCEPT !.writable = FALSE])]
  /\ chunk' = [chunk EXCEPT ![c].chain = Tail(@)]
  /\ free' = free + 1
  /\ UNCHANGED <<use, inode, queues, th, ghosts, faults, crashed>>

\* The worker accepts no new blocks: it writes what it has, or, as long as nobody
\* waits for a flush, leaves the operations that were not started for another job.
StopTaking(w) ==
  /\ wk[w].pc = "work"
  /\ \E mode \in {"drain"} \cup {m \in {"drop"} : inode.flushing = 0} :
       wk' = [wk EXCEPT ![w].pc = mode]
  /\ UNCHANGED <<use, inode, chunk, queues, free, th, ghosts, faults, crashed>>

\* Operations that may be under way together: no earlier one is for the same place.
Startable(journal) ==
  {i \in DOMAIN journal : \A j \in 1..(i - 1) : journal[j].place # journal[i].place}

Applied(journal, done) ==
  [p \in DOMAIN server |->
     LET mine == {i \in done : journal[i].place = p}
     IN  IF mine = {} THEN server[p] ELSE journal[Max(mine)].write]

\* An operation is carried out by the chunkservers and its status arrives.
Confirm(w) ==
  /\ wk[w].pc \in Writing
  /\ \E i \in Startable(wk[w].journal) :
       /\ server' = Applied(wk[w].journal, {i})
       /\ wk' = [wk EXCEPT ![w].journal = RemoveAt(@, i)]
  /\ UNCHANGED <<use, inode, chunk, queues, free, th, made, acked, faults, crashed>>

\* The journal is spliced at the wrong end.
FaultyReturned(journal, chain) == chain \o journal

\* returnJournalToDataChain: the journal goes to the front of the chain.
Returned(journal, chain) == journal \o chain

\* The blocks of the journal are returned without being acquired.
FaultyFinish(w) ==
  LET c == wk[w].chunk IN
  /\ wk[w].pc = "drop" \/ (wk[w].pc = "drain" /\ wk[w].journal = <<>>)
  /\ chunk' = [chunk EXCEPT ![c].chain = Returned(wk[w].journal, @)]
  /\ wk' = [wk EXCEPT ![w].pc = "unlock", ![w].journal = <<>>]
  /\ UNCHANGED <<use, inode, queues, free, th, ghosts, faults, crashed>>

\* All operations that were started are done: what is left of the journal is handed
\* back.
Finish(w) ==
  LET c == wk[w].chunk IN
  /\ wk[w].pc = "drop" \/ (wk[w].pc = "drain" /\ wk[w].journal = <<>>)
  /\ chunk' = [chunk EXCEPT ![c].chain = Returned(wk[w].journal, @)]
  /\ free' = free - Len(wk[w].journal)
  /\ wk' = [wk EXCEPT ![w].pc = "unlock", ![w].journal = <<>>]
  /\ UNCHANGED <<use, inode, queues, th, ghosts, faults, crashed>>

\* The chunk is unlocked (WriteChunkLocator::unlockChunk).
Unlock(w) ==
  /\ wk[w].pc = "unlock"
  /\ wk' = [wk EXCEPT ![w].pc = "decide"]
  /\ UNCHANGED <<use, inode, chunk, queues, free, th, ghosts, faults, crashed>>

\* An exception: some operations that were under way may have been carried out, none
\* of them is confirmed, and none is carried out later.  Locating the chunk, before
\* anything is in the journal, may find it locked; locating it and unlocking it may end
\* the attempts; otherwise the tries are counted.
Fail(w) ==
  LET c == wk[w].chunk
      journal == wk[w].journal
  IN
  /\ wk[w].pc \in Writing \cup {"unlock"} /\ faults > 0
  /\ \E error \in use.errors, done \in SUBSET Startable(journal) :
       LET tries == IF error = "locked" THEN Max({chunk[c].tries, 1}) ELSE chunk[c].tries + 1
           over == error = "fatal" \/ (error = "recoverable" /\ tries >= use.retries)
       IN
       /\ error \in {"locked", "fatal"} => journal = <<>>
       /\ error = "locked" => wk[w].pc = "work"
       /\ server' = Applied(journal, done)
       /\ chunk' = [chunk EXCEPT ![c].tries = tries, ![c].chain = Returned(journal, @)]
       /\ free' = free - Len(journal)
       /\ wk' = [wk EXCEPT ![w].pc = IF over THEN "decide" ELSE "retry",
                           ![w].ok = ~over, ![w].journal = <<>>]
  /\ faults' = faults - 1
  /\ UNCHANGED <<use, inode, queues, th, made, acked, crashed>>

\* The chunk is tried again after a second or more, or at once when a notice says that
\* it was unlocked.
Retry(w) ==
  LET c == wk[w].chunk IN
  /\ wk[w].pc = "retry"
  /\ \/ delayed' = Append(delayed, c) /\ UNCHANGED jobs
     \/ jobs' = Append(jobs, c) /\ UNCHANGED delayed
  /\ wk' = [wk EXCEPT ![w] = Idle]
  /\ UNCHANGED <<use, inode, chunk, pending, free, th, ghosts, faults, crashed>>

\* write_job_delayed_end with the inode locked: the chunk gets another job when
\* somebody writes to it or blocks are left, at once when a flush waits.  Without more
\* work, or after an error, its blocks are given up and it leaves the list unless
\* somebody writes to it.
Decide(w) ==
  LET c == wk[w].chunk
      ok == wk[w].ok /\ inode.ok
      written == chunk[c].writers > 0
      Next_(next) == wk' = [wk EXCEPT ![w].pc = next, ![w].ok = ok]
  IN
  /\ wk[w].pc = "decide"
  /\ inode' = [inode EXCEPT !.ok = ok]
  /\ CASE ok /\ written -> Next_("again") /\ UNCHANGED <<chunk, free>>
       [] ok /\ ~written /\ chunk[c].chain # <<>> ->
            /\ chunk' = [chunk EXCEPT ![c].tries = 0]
            /\ \/ Next_("again")
               \/ inode.flushing = 0 /\ Next_("later")
            /\ UNCHANGED free
       [] OTHER ->
            /\ free' = free + Len(chunk[c].chain)
            /\ chunk' = [chunk EXCEPT ![c] = IF written THEN [@ EXCEPT !.chain = <<>>] ELSE NoChunk]
            /\ Next_("over")
  /\ UNCHANGED <<use, queues, th, ghosts, faults, crashed>>

\* Nobody is woken up.
FaultyNotified == th

\* The threads that wait in write_data_flush are woken up.
Notified == [t \in Threads |-> IF th[t].pc = "await" THEN [th[t] EXCEPT !.pc = "check"] ELSE th[t]]

\* write_job_delayed_end with the global lock: the chunk is queued again, or the
\* flushing threads are told and a pending chunk takes its turn.
HandBack(w) ==
  LET c == wk[w].chunk IN
  /\ \/ /\ wk[w].pc = "again"
        /\ jobs' = Append(jobs, c)
        /\ UNCHANGED <<inode, pending, delayed, th>>
     \/ /\ wk[w].pc = "later"
        /\ delayed' = Append(delayed, c)
        /\ UNCHANGED <<inode, pending, jobs, th>>
     \/ /\ wk[w].pc = "over"
        /\ AddPendingJobs(inode.parallel - 1, pending)
        /\ th' = IF emptyChunkDataList \/ ~wk[w].ok THEN Notified ELSE th
        /\ UNCHANGED delayed
  /\ wk' = [wk EXCEPT ![w] = Idle]
  /\ UNCHANGED <<use, chunk, free, ghosts, faults, crashed>>

\* The inodedata was deleted between the two: what the worker does to the freed memory
\* goes unnoticed or ends the mount.
Stray(w) ==
  /\ wk[w].pc = "stray"
  /\ \/ wk' = [wk EXCEPT ![w] = Idle] /\ UNCHANGED crashed
     \/ crashed' = TRUE /\ UNCHANGED wk
  /\ UNCHANGED <<use, inode, chunk, queues, free, th, ghosts, faults>>

\* delayed_queue_worker: the ticks of an entry are over.
Tick ==
  /\ \E i \in DOMAIN delayed : /\ jobs' = Append(jobs, delayed[i])
                               /\ delayed' = RemoveAt(delayed, i)
  /\ UNCHANGED <<use, inode, chunk, pending, free, th, wk, ghosts, faults, crashed>>

----------------------------------------------------------------------------
(* write_data *)

At(t, pc) == [th EXCEPT ![t].pc = pc]

\* write_data_new
Open(t) ==
  /\ "open" \in use.may[t] /\ th[t].pc = "closed"
  /\ inode' = [IF inode.known THEN inode ELSE NewInode EXCEPT !.lcnt = @ + 1]
  /\ th' = [th EXCEPT ![t] = Opened]
  /\ UNCHANGED <<use, chunk, queues, free, wk, ghosts, faults, crashed>>

\* Writes that are on their way to the cache.
underWay == Cardinality({t \in Threads : th[t].pc \in {"gate", "blocks", "wait", "push"}})

\* write_data: an inode with an error takes no more writes.
Write(t) ==
  /\ "write" \in use.may[t] /\ th[t].pc = "open" /\ inode.ok /\ made + underWay < use.writes
  /\ \E p \in use.places :
       th' = [th EXCEPT ![t].pc = "gate", ![t].place = p]
  /\ UNCHANGED <<use, inode, chunk, queues, free, wk, ghosts, faults, crashed>>

\* Nobody flushes, or the last one that did is done.
PassGate(t) ==
  /\ th[t].pc = "gate" /\ inode.flushing = 0
  /\ th' = At(t, "blocks")
  /\ UNCHANGED <<use, inode, chunk, queues, free, wk, ghosts, faults, crashed>>

\* write_blocks and the first half of write_block: the write is put into the last
\* cached block if it is of the same place and still writable.
Extends(chain, p) == chain # <<>> /\ Last(chain).place = p /\ Last(chain).writable

\* The end of write_blocks: the caller is told about an error of any earlier write.
Answered(p, n) == IF inode.ok THEN [acked EXCEPT ![p] = Max({@, n})] ELSE acked

WriteBlock(t) ==
  LET p == th[t].place
      c == p[1]
      mine == IF chunk[c].known THEN chunk[c] ELSE NewChunk
  IN
  /\ th[t].pc = "blocks"
  /\ IF Extends(mine.chain, p)
     THEN /\ made' = made + 1
          /\ chunk' = [chunk EXCEPT ![c].chain[Len(mine.chain)].write = made + 1]
          /\ acked' = Answered(p, made + 1)
          /\ th' = [th EXCEPT ![t] = Opened]
     ELSE /\ chunk' = [chunk EXCEPT ![c] = [mine EXCEPT !.writers = @ + 1]]
          /\ th' = [th EXCEPT ![t].pc = "wait", ![t].total = totalCachedBlocks]
          /\ UNCHANGED <<made, acked>>
  /\ UNCHANGED <<use, inode, queues, free, wk, server, faults, crashed>>

\* write_cb_wait_for_block: the inode's share is computed from its blocks at the time
\* the wait began.
WaitForBlock(t) ==
  /\ th[t].pc = "wait"
  /\ free > 0 /\ th[t].total * 100 <= (th[t].total + free) * use.percent
  /\ th' = [th EXCEPT ![t].pc = "push", ![t].total = 0]
  /\ UNCHANGED <<use, inode, chunk, queues, free, wk, ghosts, faults, crashed>>

\* The rest of write_block with the inode locked: a new block at the end of the chain.
\* A chunk without a job gets one; one that has a job may be hurried if it is not being
\* retried and more blocks are there than the one just added; otherwise the write is done.
Push(t) ==
  LET p == th[t].place
      mine == [chunk[p[1]] EXCEPT !.chain = Append(@, Block(p, made + 1)), !.inQueue = TRUE]
      Then(pc) == /\ chunk' = [chunk EXCEPT ![p[1]] = mine]
                  /\ th' = [th EXCEPT ![t].pc = pc, ![t].write = made + 1]
                  /\ UNCHANGED acked
  IN
  /\ th[t].pc = "push"
  /\ free' = free - 1
  /\ made' = made + 1
  /\ \/ ~chunk[p[1]].inQueue /\ Then("enqueue")
     \/ chunk[p[1]].inQueue /\ mine.tries = 0 /\ Len(mine.chain) > 1 /\ Then("hurry")
     \/ /\ chunk[p[1]].inQueue
        /\ chunk' = [chunk EXCEPT ![p[1]] = [mine EXCEPT !.writers = @ - 1]]
        /\ acked' = Answered(p, made + 1)
        /\ th' = [th EXCEPT ![t] = Opened]
  /\ UNCHANGED <<use, inode, queues, wk, server, faults, crashed>>

\* add_pending_jobs_after_new_job
Enqueue(t) ==
  /\ th[t].pc = "enqueue"
  /\ AddPendingJobs(inode.parallel, Append(pending, th[t].place[1]))
  /\ th' = At(t, "return")
  /\ UNCHANGED <<use, chunk, delayed, free, wk, ghosts, faults, crashed>>

\* The chunk becomes a job whether it was in the delayed queue or not.
FaultyHurry(t) ==
  LET c == th[t].place[1] IN
  /\ th[t].pc = "hurry"
  /\ delayed' = Remove(delayed, c) /\ jobs' = Append(jobs, c)
  /\ th' = At(t, "return")
  /\ UNCHANGED <<use, inode, chunk, pending, free, wk, ghosts, faults, crashed>>

\* delayed_queue_remove of the chunk, which becomes a job if it was there.
Hurry(t) ==
  LET c == th[t].place[1] IN
  /\ th[t].pc = "hurry"
  /\ IF Contains(delayed, c)
     THEN delayed' = Remove(delayed, c) /\ jobs' = Append(jobs, c)
     ELSE UNCHANGED <<delayed, jobs>>
  /\ th' = At(t, "return")
  /\ UNCHANGED <<use, inode, chunk, pending, free, wk, ghosts, faults, crashed>>

\* The inode is locked again and the write done.
WriteReturns(t) ==
  LET p == th[t].place IN
  /\ th[t].pc = "return"
  /\ chunk' = [chunk EXCEPT ![p[1]].writers = @ - 1]
  /\ acked' = Answered(p, th[t].write)
  /\ th' = [th EXCEPT ![t] = Opened]
  /\ UNCHANGED <<use, inode, queues, free, wk, server, made, faults, crashed>>

----------------------------------------------------------------------------
(* write_data_flush, write_data_flush_inode and write_data_end *)

\* write_data_flush, and write_data_end, which starts with it.
Flush(t) ==
  /\ th[t].pc = "open"
  /\ inode' = [inode EXCEPT !.flushing = @ + 1]
  /\ \E call \in {"flush", "end"} :
       th' = [th EXCEPT ![t].pc = "flush", ![t].call = call, ![t].snapshot = acked]
  /\ UNCHANGED <<use, chunk, queues, free, wk, ghosts, faults, crashed>>

\* write_data_flush_inode: the inodedata is looked up and its lock taken afterwards,
\* without counting as a user of it.
Visit(t) ==
  /\ "visit" \in use.may[t] /\ th[t].pc = "closed" /\ inode.known
  /\ th' = [th EXCEPT ![t].pc = "visit", ![t].call = "visit"]
  /\ UNCHANGED <<use, inode, chunk, queues, free, wk, ghosts, faults, crashed>>

VisitFlush(t) ==
  /\ th[t].pc = "visit"
  /\ inode' = [inode EXCEPT !.flushing = @ + 1]
  /\ th' = [th EXCEPT ![t].pc = "flush", ![t].snapshot = acked]
  /\ UNCHANGED <<use, chunk, queues, free, wk, ghosts, faults, crashed>>

flushed == emptyChunkDataList \/ ~inode.ok

\* The inode's chunks leave the delayed queue, and become jobs unless there was an
\* error; then the thread waits, if it has to.
StartFlush(t) ==
  /\ th[t].pc = "flush"
  /\ delayed' = <<>>
  /\ jobs' = IF inode.ok THEN jobs \o delayed ELSE jobs
  /\ th' = At(t, IF flushed THEN "flushed" ELSE "await")
  /\ UNCHANGED <<use, inode, chunk, pending, free, wk, ghosts, faults, crashed>>

Check(t) ==
  /\ th[t].pc = "check"
  /\ th' = At(t, IF flushed THEN "flushed" ELSE "await")
  /\ UNCHANGED <<use, inode, chunk, queues, free, wk, ghosts, faults, crashed>>

\* The flush stays counted.
FaultyFlushReturns(t) ==
  /\ th[t].pc = "flushed"
  /\ th' = [th EXCEPT ![t] = [Closed EXCEPT !.pc = [flush |-> "open", end |-> "leave",
                                                    visit |-> "closed"][th[t].call]]]
  /\ UNCHANGED <<use, inode, chunk, queues, free, wk, ghosts, faults, crashed>>

\* write_data_flushwaiting_decrease; the status of the inode is the result.
FlushReturns(t) ==
  /\ th[t].pc = "flushed"
  /\ inode' = [inode EXCEPT !.flushing = @ - 1]
  /\ th' = [th EXCEPT ![t] = [Closed EXCEPT !.pc = [flush |-> "open", end |-> "leave",
                                                    visit |-> "closed"][th[t].call]]]
  /\ UNCHANGED <<use, chunk, queues, free, wk, ghosts, faults, crashed>>

\* The rest of write_data_end, first with the inode locked...
AlmostDone(t) ==
  /\ th[t].pc = "leave"
  /\ th' = [th EXCEPT ![t].pc = "end",
                      ![t].almostDone = emptyChunkDataList /\ inode.flushing = 0 /\ writewaiting = 0]
  /\ UNCHANGED <<use, inode, chunk, queues, free, wk, ghosts, faults, crashed>>

\* Other handles are not counted.
FaultyDeletes(t) == th[t].almostDone

\* The last handle is gone, and there was nothing left when this one looked.
Deletes(t) == inode.lcnt = 1 /\ th[t].almostDone

\* ...then with the global lock: the last one deletes the inodedata.  A worker that has
\* decided about its last chunk still uses it; so may a thread that looked it up, and,
\* after an error, the workers of chunks that are left.
Close(t) ==
  LET deleted == Deletes(t)
      visited == \E u \in Threads : th[u].call = "visit"
  IN
  /\ th[t].pc = "end"
  /\ inode' = IF deleted THEN NoInode ELSE [inode EXCEPT !.lcnt = @ - 1]
  /\ wk' = [w \in Workers |-> IF deleted /\ wk[w].pc = "over" THEN [wk[w] EXCEPT !.pc = "stray"]
                                                              ELSE wk[w]]
  /\ crashed' = (deleted /\ (visited \/ ~emptyChunkDataList))
  /\ acked' = IF deleted THEN server ELSE acked
  /\ th' = [th EXCEPT ![t] = Closed]
  /\ UNCHANGED <<use, chunk, queues, free, server, made, faults>>

----------------------------------------------------------------------------

Init ==
  /\ use \in SetUps
  /\ inode = NoInode
  /\ chunk = [c \in Chunks |-> NoChunk]
  /\ pending = <<>> /\ jobs = <<>> /\ delayed = <<>>
  /\ free = use.cache
  /\ th = [t \in Threads |-> Closed]
  /\ wk = [w \in Workers |-> Idle]
  /\ server = [p \in use.places |-> 0]
  /\ acked = [p \in use.places |-> 0]
  /\ made = 0
  /\ faults = use.faults
  /\ crashed = FALSE

WorkerNext(w) ==
  \/ Get(w) \/ Take(w) \/ StopTaking(w) \/ Confirm(w) \/ Finish(w) \/ Unlock(w)
  \/ Fail(w) \/ Retry(w) \/ Decide(w) \/ HandBack(w) \/ Stray(w)

ThreadNext(t) ==
  \/ Open(t) \/ Write(t) \/ PassGate(t) \/ WriteBlock(t) \/ WaitForBlock(t)
  \/ Push(t) \/ Enqueue(t) \/ Hurry(t) \/ WriteReturns(t)
  \/ Flush(t) \/ Visit(t) \/ VisitFlush(t) \/ StartFlush(t) \/ Check(t)
  \/ FlushReturns(t) \/ AlmostDone(t) \/ Close(t)

Next ==
  /\ ~crashed
  /\ \/ \E w \in Workers : WorkerNext(w)
     \/ \E t \in Threads : ThreadNext(t)
     \/ Tick

\* Workers and threads keep running once they have something to do; whether a write
\* fails and which calls are made is left open.  A block is taken again and again
\* given the chance: a job that comes across it while somebody flushes, or when it is
\* old enough, takes it.
Fairness ==
  /\ \A w \in Workers :
       WF_vars(/\ ~crashed
               /\ \/ Get(w) \/ StopTaking(w) \/ Confirm(w) \/ Finish(w) \/ Unlock(w)
                  \/ Retry(w) \/ Decide(w) \/ HandBack(w) \/ Stray(w))
  /\ SF_vars(~crashed /\ \E w \in Workers : Take(w))
  /\ SF_vars(~crashed /\ \E w \in Workers : Confirm(w))
  /\ WF_vars(~crashed /\ Tick)
  /\ \A t \in Threads :
       WF_vars(/\ ~crashed
               /\ \/ PassGate(t) \/ WriteBlock(t) \/ WaitForBlock(t) \/ Push(t)
                  \/ Enqueue(t) \/ Hurry(t) \/ WriteReturns(t) \/ VisitFlush(t)
                  \/ StartFlush(t) \/ Check(t) \/ FlushReturns(t) \/ AlmostDone(t)
                  \/ Close(t))

Spec == Init /\ [][Next]_vars /\ Fairness

----------------------------------------------------------------------------
(* Properties *)

BlockType == [place : use.places, write : 1..use.writes, writable : BOOLEAN]

\* Types of the variables; counters do not become negative, except free, which does
\* when a journal is returned to a cache that was filled in the meantime.
TypeOK ==
  /\ use \in SetUps
  /\ inode \in [known : BOOLEAN, ok : BOOLEAN, lcnt : 0..Cardinality(Threads),
                flushing : 0..Cardinality(Threads), parallel : Nat]
  /\ \A c \in Chunks : /\ chunk[c].chain \in Seq(BlockType) /\ chunk[c].inQueue \in BOOLEAN
                       /\ chunk[c].writers \in 0..Cardinality(Threads)
                       /\ chunk[c].tries \in 0..use.retries
  /\ \A q \in {pending, jobs, delayed} : q \in Seq(Chunks)
  /\ \A w \in Workers : wk[w].journal \in Seq(BlockType) /\ wk[w].ok \in BOOLEAN
  /\ free \in Int /\ free <= use.cache
  /\ {server, acked} \subseteq [use.places -> 0..use.writes] /\ made \in 0..use.writes
  /\ faults \in 0..use.faults /\ crashed \in BOOLEAN

Count(c, q) == Cardinality({i \in DOMAIN q : q[i] = c})

\* Chunks that take part in writing: queued, delayed or with a worker.
Running(c) ==
  Count(c, jobs \o delayed) + Cardinality({w \in Workers : wk[w].chunk = c /\ wk[w].pc # "stray"})

\* As long as no write has failed for good, a chunk whose flag inQueue is set is in
\* exactly one of the queues or with exactly one worker or about to be queued by the
\* thread that set the flag, and a chunk without the flag is nowhere: it is neither
\* forgotten with its data nor written by two workers.
OneJobPerChunk ==
  inode.known /\ inode.ok =>
    \A c \in Chunks :
      Count(c, pending) + Running(c)
        + Cardinality({t \in Threads : th[t].pc = "enqueue" /\ th[t].place[1] = c})
        - Cardinality({w \in Workers : wk[w].chunk = c /\ wk[w].pc = "over"})
      = IF chunk[c].inQueue THEN 1 ELSE 0

\* As long as no write has failed for good, parallelChunksBeingWritten counts the
\* chunks that are queued, delayed or written, is within the limit, and no chunk is
\* pending while the limit leaves room.
ParallelChunksCounted ==
  inode.known /\ inode.ok =>
    /\ inode.parallel = FoldSet(LAMBDA c, n : n + Running(c), 0, Chunks)
    /\ use.limit > 0 => inode.parallel <= use.limit
    /\ pending # <<>> => use.limit > 0 /\ inode.parallel >= use.limit

\* Blocks of the cache are neither lost nor gained, whatever fails: those that are not
\* free are in the chains of chunks (those of a chain that was deleted with its inode
\* would be lost).
BlocksAccountedFor == ~crashed => free + totalCachedBlocks = use.cache

\* What the chunkservers have at a place is never replaced by what was written to it
\* earlier: neither by operations under way together, nor by a journal that is written
\* again after a failure, nor by a write that went into a block already sent.
NewestStays == [][\A p \in use.places : server'[p] >= server[p]]_vars

\* When write_data_flush, write_data_flush_inode or the flush of write_data_end returns
\* OK, every write that was answered with OK before the call is on the chunkservers.
FlushedIsWritten ==
  \A t \in Threads :
    th[t].pc = "flushed" /\ inode.known /\ inode.ok =>
      \A p \in use.places : server[p] >= th[t].snapshot[p]

\* When the last handle is closed and the inodedata deleted, none of its chunks is left
\* in a queue and no worker has more to do for it than to notify: for inodes whose
\* writes did not fail for good and that nobody flushes without a handle.
DeletedIsUnused ==
  (/\ ~inode.known
   /\ \A t \in Threads : "visit" \notin use.may[t]
   /\ use.faults < use.retries /\ "fatal" \notin use.errors)
  => /\ emptyChunkDataList /\ pending = <<>> /\ jobs = <<>> /\ delayed = <<>>
     /\ \A w \in Workers : wk[w].pc \in {"idle", "stray"}

\* A flush ends, and a write that has passed the gate ends: nobody waits for ever for a
\* chunk that is not written, for a notice that was given too early or for a free
\* block.  (A thread gets to the gate from "open" only, so that it is outside such calls
\* again and again exactly if each of them ends.  After an error chunks may keep their
\* blocks, see README, and a write that waits for one then waits on.)
CallsReturn ==
  \A t \in Threads :
    []<>(\/ th[t].pc \in {"closed", "open", "gate"} \/ crashed
         \/ th[t].pc = "wait" /\ ~inode.ok)
============================================================================
