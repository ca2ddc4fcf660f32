---------------------------------- MODULE Shadow ----------------------------------
(***************************************************************************)
(* Replication of the metadata from the master to a shadow master: the     *)
(* changelog and its files (master/changelog.cc, master/restore.cc), the   *)
(* dumps of the metadata image (master/metadata_backend_file.cc,           *)
(* master/filesystem.cc), sfsmetarestore (metarestore/main.cc), the        *)
(* master's end of the connection (master/matomlserv.cc) and the shadow's  *)
(* end (master/masterconn.cc).                                             *)
(*                                                                         *)
(* There are two metadata servers, one of which is the master.  Metadata   *)
(* is the sequence of the changes it results from; a change is known by    *)
(* its version and by the term of the master that made it (a change of     *)
(* personality starts a term), so that two changes of one version made by  *)
(* two masters differ.  The version of metadata is one more than the       *)
(* version of its last change.                                             *)
(*                                                                         *)
(* A download (MLTOMA_DOWNLOAD_START and the rounds of                     *)
(* MLTOMA_DOWNLOAD_DATA) is one request and one answer: the master fixes   *)
(* what is sent when it gets the first request.                            *)
(*                                                                         *)
(* A master may die within a step: it leaves its data directory in one of  *)
(* the states the step takes it through (RotateSteps, CommitSteps,         *)
(* StoreSteps).  What it has flushed survives.                             *)
(***************************************************************************)
EXTENDS Naturals, Sequences, SequencesExt, FiniteSets

CONSTANTS
  Servers,      \* the two metadata servers
  First,        \* the one that is the master at first
  MaxVersion,   \* the last version a change may get
  Budgets       \* how often each fault may happen, and how many changes a
                \* failover may lose: one record per configuration

Faults == {"dumps", "failures", "renames", "drops", "restarts", "deaths", "failovers", "unsent"}

ASSUME ShadowAssumption ==
  /\ Cardinality(Servers) = 2 /\ First \in Servers
  /\ MaxVersion \in Nat
  /\ Budgets \subseteq [Faults -> Nat]

VARIABLES
  budget,   \* the faults that may still happen
  term,     \* number of the master's term
  master,   \* the server with the personality master
  meta,     \* gMetadata of each server: [loaded, log]
  disk,     \* the data directory of each server: is there a metadata.sfs.tmp (tmp) and
            \* a metadata.sfs (present), the newest of metadata.sfs and metadata.sfs.1
            \* (image), changelog.sfs, .1 and .2, the changes of older changelogs that
            \* the image lacks (older)
  serv,     \* the master's process: old changes, dumping child, last save request;
            \* while it is dead, meta has what it had
  conn,     \* the shadow's MasterConn and the state of restore()
  link      \* the connection and the master's MatomlservEntry

vars == <<budget, term, master, meta, disk, serv, conn, link>>

shadow == CHOOSE s \in Servers : s # master

Spend(fault) == budget[fault] > 0 /\ budget' = [budget EXCEPT ![fault] = @ - 1]

----------------------------------------------------------------------------
(* Metadata, changelog files and images *)

Change(v, t) == [version |-> v, term |-> t]
NoMetadata == [loaded |-> FALSE, log |-> <<>>]
Metadata(log) == [loaded |-> TRUE, log |-> log]
Version(log) == Len(log) + 1

NoRestore == [cur |-> 0, next |-> 0]

\* restore(): r is [log, cur, next, ok] before the line.
FaultyRestore(r, c) ==
  IF c.version < Version(r.log) THEN r
  ELSE [r EXCEPT !.log = Append(@, c), !.cur = c.version, !.next = Version(r.log) + 1]

Restore(r, c) ==
  LET first == r.cur = 0 \/ r.next = 0
      next == IF first THEN Version(r.log) ELSE r.next
      cur == IF first THEN next - 1 ELSE r.cur
      s == [r EXCEPT !.cur = cur, !.next = next]
      done == Append(r.log, c)
  IN IF c.version < cur THEN s
     ELSE IF c.version < next \/ c.version = cur THEN [s EXCEPT !.cur = c.version]
     ELSE IF c.version > cur + 1 THEN [s EXCEPT !.ok = FALSE]
     ELSE IF c.version + 1 # Version(done)
       THEN [s EXCEPT !.log = done, !.next = Version(done), !.ok = FALSE]
     ELSE [s EXCEPT !.log = done, !.cur = c.version, !.next = Version(done)]

\* load_changelog(): the lines below the version reached are skipped.
LoadChangelog(r, file) ==
  FoldLeft(LAMBDA s, c : IF ~s.ok \/ c.version < Version(s.log) THEN s ELSE Restore(s, c), r, file)

\* load_changelogs(): the oldest file first, a file below the version skipped.
LoadChangelogs(r, d) ==
  FoldLeft(LAMBDA s, file :
             IF ~s.ok \/ file = <<>> THEN s
             ELSE IF Last(file).version < Head(file).version THEN [s EXCEPT !.ok = FALSE]
             ELSE IF Last(file).version < Version(s.log) THEN s
             ELSE LoadChangelog(s, file),
           r, <<d.old2, d.old1, d.current>>)

\* MetadataBackendFile::init(): a master starts with these files.
InitAccepts(d) == ~d.tmp /\ d.present

\* What fs_loadall() makes of the files of d, restore() being at r.
fs_loadall(d, r) ==
  LoadChangelogs([log |-> d.image, cur |-> r.cur, next |-> r.next, ok |-> TRUE], d)

\* What sfsmetarestore -a makes of them: it merges all changelogs.
Metarestored(d) ==
  LET changes == d.older \cup Range(d.old2) \cup Range(d.old1) \cup Range(d.current)
  IN FoldLeft(LAMBDA s, c : IF s.ok THEN Restore(s, c) ELSE s,
              [log |-> d.image, cur |-> 0, next |-> 0, ok |-> TRUE],
              SetToSortSeq(changes, LAMBDA a, b : a.version < b.version))

Lacking(log, changes) == {c \in changes : c.version >= Version(log)}
Older(d) == d.older \cup Lacking(d.image, Range(d.old2))

\* changelog_rotate(), and what its renames take the directory through.
FaultyRotate(d) == [d EXCEPT !.current = <<>>, !.old1 = d.current, !.older = Older(d)]

changelog_rotate(d) ==
  [d EXCEPT !.current = <<>>, !.old1 = d.current, !.old2 = d.old1, !.older = Older(d)]

RotateSteps(d) ==
  LET older == Older(d)
  IN {d, [d EXCEPT !.older = older, !.old2 = <<>>],
      [d EXCEPT !.older = older, !.old2 = d.old1, !.old1 = <<>>], changelog_rotate(d)}

\* commit_metadata_dump() of the image log: metadata.sfs becomes
\* metadata.sfs.1, then metadata.sfs.tmp becomes metadata.sfs.
Commit(d, log) ==
  [d EXCEPT !.tmp = FALSE, !.present = TRUE, !.image = log, !.older = Lacking(log, @)]
CommitSteps(d, log) == {d, [d EXCEPT !.present = FALSE], Commit(d, log)}

\* fs_storeall(kForegroundDump)
StoreForeground(d, log) == Commit(changelog_rotate(d), log)
StoreSteps(d, log) ==
  RotateSteps(d) \cup CommitSteps([changelog_rotate(d) EXCEPT !.tmp = TRUE], log)

----------------------------------------------------------------------------
(* The connection *)

NoFile == [live |-> FALSE, file |-> <<>>]
Closed == [open |-> FALSE, up |-> <<>>, down |-> <<>>, registered |-> FALSE, waits |-> FALSE,
           chain1 |-> NoFile, chain2 |-> <<>>]
Opened == [Closed EXCEPT !.open = TRUE]

Get(f) == [type |-> "get", file |-> f]
DumpRequest == [type |-> "dump"]
Register(v) == [type |-> "register", version |-> v]
File(f, content) == [type |-> "file", file |-> f, content |-> content]
Log(c) == [type |-> "log", change |-> c]
NoFileError == [type |-> "error"]
Dumped(status) == [type |-> "dumped", status |-> status]

\* A new process of the master's personality, and a new MasterConn.
NewServ == [up |-> TRUE, old |-> 0, dumping |-> FALSE, image |-> <<>>, lately |-> FALSE]
NewConn == [state |-> "None", lastLogVersion |-> 0, restore |-> NoRestore]

----------------------------------------------------------------------------
(* The master *)

mlog == meta[master].log

ToShadow(l, msgs) == [l EXCEPT !.down = @ \o msgs]

\* FilesystemOperationsBase::changeLog(): the change is made, written to
\* changelog.sfs, remembered (the oldest blocks may be forgotten by then) and
\* sent to the registered shadow.
MasterChange ==
  LET c == Change(Version(mlog), term)
  IN /\ serv.up
     /\ c.version <= MaxVersion
     /\ meta' = [meta EXCEPT ![master].log = Append(@, c)]
     /\ disk' = [disk EXCEPT ![master].current = Append(@, c)]
     /\ \E old \in {serv.old, c.version} \ {0} : serv' = [serv EXCEPT !.old = old]
     /\ link' = IF link.registered THEN ToShadow(link, <<Log(c)>>) ELSE link
     /\ UNCHANGED <<budget, term, master, conn>>

\* The open changelog.sfs keeps its content when it is rotated.
Rotated(l) ==
  IF l.chain1.live THEN [l EXCEPT !.chain1 = [live |-> FALSE, file |-> disk[master].current]] ELSE l

\* fs_storeall(kBackgroundDump): nothing while a child is dumping.
StoreBackground(l) ==
  IF serv.dumping THEN UNCHANGED disk /\ serv' = [serv EXCEPT !.lately = TRUE] /\ link' = l
  ELSE /\ disk' = [disk EXCEPT ![master] = [changelog_rotate(@) EXCEPT !.tmp = TRUE]]
       /\ serv' = [serv EXCEPT !.dumping = TRUE, !.image = mlog, !.lately = TRUE]
       /\ link' = Rotated(l)

\* The periodic dump, and the one an administrator asks for.
PeriodicStore ==
  /\ serv.up /\ ~serv.dumping
  /\ Spend("dumps")
  /\ disk' = [disk EXCEPT ![master] = [changelog_rotate(@) EXCEPT !.tmp = TRUE]]
  /\ serv' = [serv EXCEPT !.dumping = TRUE, !.image = mlog]
  /\ link' = Rotated(link)
  /\ UNCHANGED <<term, master, meta, conn>>

\* metadataPollServe() when the child is done: the shadow that asked is told.
FaultyBroadcastSaved(status) == [link EXCEPT !.waits = FALSE]

BroadcastSaved(status) ==
  IF link.waits THEN ToShadow([link EXCEPT !.waits = FALSE], <<Dumped(status)>>) ELSE link

DumpEnds ==
  /\ serv.dumping
  /\ disk' = [disk EXCEPT ![master] = Commit(@, serv.image)]
  /\ link' = BroadcastSaved("OK")
  /\ serv' = [serv EXCEPT !.dumping = FALSE, !.image = <<>>]
  /\ UNCHANGED <<budget, term, master, meta, conn>>

\* The child fails, and what it wrote is removed.
DumpFails ==
  /\ serv.dumping
  /\ Spend("failures")
  /\ disk' = [disk EXCEPT ![master].tmp = FALSE]
  /\ link' = BroadcastSaved("ErrorIO")
  /\ serv' = [serv EXCEPT !.dumping = FALSE, !.image = <<>>]
  /\ UNCHANGED <<term, master, meta, conn>>

\* The rename of metadata.sfs.tmp fails, when metadata.sfs has gone already; the
\* rename to an emergency file works or fails.
CommitFails ==
  /\ serv.dumping
  /\ Spend("renames")
  /\ \E tmp \in BOOLEAN : disk' = [disk EXCEPT ![master].tmp = tmp, ![master].present = FALSE]
  /\ link' = BroadcastSaved("ErrorIO")
  /\ serv' = [serv EXCEPT !.dumping = FALSE, !.image = <<>>]
  /\ UNCHANGED <<term, master, meta, conn>>

\* METADATA_SAVE_REQUEST_MIN_PERIOD seconds pass after a save request.
SavePeriodEnds ==
  /\ serv.lately
  /\ serv' = [serv EXCEPT !.lately = FALSE]
  /\ UNCHANGED <<budget, term, master, meta, disk, conn, link>>

\* matomlserv_send_old_changes()
OldChanges(lastlog) ==
  IF serv.old = 0 THEN <<>>
  ELSE LET kept == SubSeq(mlog, serv.old, Len(mlog))
       IN [i \in 1..Len(SelectSeq(kept, LAMBDA c : c.version > lastlog)) |->
             Log(SelectSeq(kept, LAMBDA c : c.version > lastlog)[i])]

\* matomlserv_register_shadow()
RegisterShadow(l, v) ==
  LET mine == Version(mlog)
      reply == IF mine > v /\ serv.old # 0 /\ serv.old <= v THEN v ELSE mine
  IN ToShadow([l EXCEPT !.registered = TRUE], <<Register(reply)>> \o OldChanges(reply - 1))

\* matomlserv_download_start() and what it sends of the file.
DownloadStart(l, f) ==
  LET d == disk[master]
  IN CASE f = "metadata" ->
            ToShadow([l EXCEPT !.chain1 = [live |-> d.current # <<>>, file |-> <<>>],
                               !.chain2 = d.old1],
                     IF d.present THEN <<File(f, d.image)>> ELSE <<NoFileError>>)
       [] f = "changelog" ->
            ToShadow([l EXCEPT !.chain1 = NoFile],
                     <<File(f, IF l.chain1.live THEN d.current ELSE l.chain1.file)>>)
       [] f = "changelog1" -> ToShadow([l EXCEPT !.chain2 = <<>>], <<File(f, l.chain2)>>)
       [] f = "sessions" -> ToShadow([l EXCEPT !.chain1 = NoFile, !.chain2 = <<>>], <<File(f, <<>>)>>)

\* matomlserv_gotpacket(): the master handles a packet of the shadow.
MasterReceives ==
  /\ link.up # <<>>
  /\ LET msg == Head(link.up)
         l == [link EXCEPT !.up = Tail(@)]
     IN \/ /\ msg.type = "register"
           /\ link' = RegisterShadow(l, msg.version)
           /\ UNCHANGED <<disk, serv>>
        \/ /\ msg.type = "get"
           /\ link' = DownloadStart(l, msg.file)
           /\ UNCHANGED <<disk, serv>>
        \/ /\ msg.type = "dump"
           /\ serv.lately
           /\ link' = ToShadow(l, <<Dumped("Delayed")>>)
           /\ UNCHANGED <<disk, serv>>
        \/ /\ msg.type = "dump"
           /\ ~serv.lately
           /\ StoreBackground([l EXCEPT !.waits = TRUE])
  /\ UNCHANGED <<budget, term, master, meta, conn>>

----------------------------------------------------------------------------
(* The shadow *)

\* MasterConn::sendInitConnectPackets()
FirstPackets ==
  LET v == IF conn.state = "Synchronized" THEN Version(meta[shadow].log) ELSE 0
  IN <<Register(v)>>
     \o (IF conn.lastLogVersion = 0 THEN <<Get("metadata")>>
         ELSE IF conn.state = "DumpRequestPending" THEN <<DumpRequest>> ELSE <<>>)

\* MasterConn::reconnect(), initConnect() and onConnected()
Connect ==
  /\ serv.up /\ ~link.open
  /\ link' = [Opened EXCEPT !.up = FirstPackets]
  /\ conn' = [conn EXCEPT !.state = IF conn.lastLogVersion = 0 THEN "Downloading" ELSE @]
  /\ UNCHANGED <<budget, term, master, meta, disk, serv>>

\* MasterConn::forceMetadataDownload()
ForceMetadataDownload ==
  /\ meta' = [meta EXCEPT ![shadow] = NoMetadata]
  /\ conn' = NewConn
  /\ link' = Closed
  /\ UNCHANGED disk

\* MasterConn::handleChangelogApplyError(), restore() being left at r; the
\* master is never so old that the shadow would not ask it.
HandleApplyError(l, r) ==
  /\ conn' = [conn EXCEPT !.state = "DumpRequestPending", !.restore = r]
  /\ link' = [l EXCEPT !.up = Append(@, DumpRequest)]

\* MasterConn::onRegistered()
OnRegistered(l, v) ==
  IF conn.state = "Synchronized" /\ Version(meta[shadow].log) # v
  THEN ForceMetadataDownload
  ELSE link' = l /\ UNCHANGED <<meta, disk, conn>>

RestoreState(r) == [cur |-> r.cur, next |-> r.next]

\* MasterConn::metachangesLog()
MetachangesLog(l, c) ==
  LET gap == conn.lastLogVersion > 0 /\ c.version # conn.lastLogVersion + 1
      applies == conn.state = "Synchronized"
      r == Restore([log |-> meta[shadow].log, cur |-> conn.restore.cur, next |-> conn.restore.next,
                    ok |-> TRUE], c)
  IN IF gap THEN HandleApplyError(l, conn.restore) /\ UNCHANGED <<meta, disk>>
     ELSE IF applies /\ ~r.ok
       THEN /\ HandleApplyError(l, RestoreState(r))
            /\ meta' = [meta EXCEPT ![shadow].log = r.log]
            /\ UNCHANGED disk
     ELSE /\ meta' = IF applies THEN [meta EXCEPT ![shadow].log = r.log] ELSE meta
          /\ disk' = [disk EXCEPT ![shadow].current = Append(@, c)]
          /\ conn' = [conn EXCEPT !.lastLogVersion = c.version,
                                  !.restore = IF applies THEN RestoreState(r) ELSE @]
          /\ link' = l

\* The end of MasterConn::downloadNext() for the last file: fs_loadall().
LoadDownloaded(l) ==
  LET r == fs_loadall(disk[shadow], conn.restore)
  IN /\ meta' = [meta EXCEPT ![shadow] = Metadata(r.log)]
     /\ IF r.ok
        THEN /\ disk' = [disk EXCEPT ![shadow] = StoreForeground(@, r.log)]
             /\ conn' = [state |-> "Synchronized", lastLogVersion |-> Version(r.log) - 1,
                         restore |-> RestoreState(r)]
             /\ link' = l
        ELSE HandleApplyError(l, RestoreState(r)) /\ UNCHANGED disk

\* MasterConn::downloadNext() at the end of a file.
DownloadNext(l, f, content) ==
  LET next(g) == link' = [l EXCEPT !.up = Append(@, Get(g))] /\ UNCHANGED <<meta, conn>>
  IN CASE f = "metadata" ->
            /\ disk' = [disk EXCEPT ![shadow] = Commit(@, content)]
            /\ next("changelog")
       [] f = "changelog" -> disk' = [disk EXCEPT ![shadow].old1 = content] /\ next("changelog1")
       [] f = "changelog1" -> disk' = [disk EXCEPT ![shadow].old2 = content] /\ next("sessions")
       [] f = "sessions" ->
            IF conn.state = "Downloading" THEN LoadDownloaded(l)
            ELSE link' = l /\ UNCHANGED <<meta, disk, conn>>

\* MasterConn::changelogApplyError()
FaultyChangelogApplyError(l, status) ==
  /\ conn' = [conn EXCEPT !.state = IF status = "OK" THEN "None" ELSE "Limbo"]
  /\ link' = l
  /\ UNCHANGED <<meta, disk>>

ChangelogApplyError(l, status) ==
  IF status = "OK" THEN ForceMetadataDownload
  ELSE conn' = [conn EXCEPT !.state = "Limbo"] /\ link' = l /\ UNCHANGED <<meta, disk>>

\* MasterConn::gotPacket(): the shadow handles a packet of the master.
ShadowReceives ==
  /\ link.down # <<>>
  /\ LET msg == Head(link.down)
         l == [link EXCEPT !.down = Tail(@)]
     IN \/ msg.type = "register" /\ OnRegistered(l, msg.version)
        \/ msg.type = "log" /\ MetachangesLog(l, msg.change)
        \/ msg.type = "file" /\ DownloadNext(l, msg.file, msg.content)
        \/ msg.type = "error" /\ link' = l /\ UNCHANGED <<meta, disk, conn>>
        \/ msg.type = "dumped" /\ ChangelogApplyError(l, msg.status)
  /\ UNCHANGED <<budget, term, master, serv>>

\* MasterConn::reconnect() on an open connection.
AskAgain ==
  /\ link.open
  /\ conn.state = "Limbo"
  /\ HandleApplyError(link, conn.restore)
  /\ UNCHANGED <<budget, term, master, meta, disk, serv>>

----------------------------------------------------------------------------
(* Faults and changes of personality *)

FaultyDrop ==
  /\ link.open
  /\ Spend("drops")
  /\ link' = [link EXCEPT !.open = FALSE]
  /\ UNCHANGED <<term, master, meta, disk, serv, conn>>

\* The connection breaks, or one end gives it up after its timeout.
Drop ==
  /\ link.open
  /\ Spend("drops")
  /\ link' = Closed
  /\ UNCHANGED <<term, master, meta, disk, serv, conn>>

\* The shadow is stopped in order (fs_term()) or killed, and started again
\* without metadata; a metadata.sfs.tmp that init() refuses is removed before.
ShadowRestarts ==
  /\ Spend("restarts")
  /\ \E d \in {disk[shadow]} \cup
               IF meta[shadow].loaded THEN StoreSteps(disk[shadow], meta[shadow].log) ELSE {} :
       disk' = [disk EXCEPT ![shadow] = [d EXCEPT !.tmp = FALSE]]
  /\ meta' = [meta EXCEPT ![shadow] = NoMetadata]
  /\ conn' = NewConn
  /\ link' = Closed
  /\ UNCHANGED <<term, master, serv>>

\* The master is killed: at rest, within the start or the commit of a dump, or
\* while it stops in order (fs_term()); or it has stopped.
MasterDies ==
  /\ serv.up
  /\ Spend("deaths")
  /\ \E d \in StoreSteps(disk[master], mlog) \cup
               IF serv.dumping THEN CommitSteps(disk[master], serv.image) ELSE {} :
       disk' = [disk EXCEPT ![master] = d]
  /\ serv' = [NewServ EXCEPT !.up = FALSE]
  /\ link' = Closed
  /\ UNCHANGED <<term, master, meta, conn>>

\* The master is started with AUTO_RECOVERY: init(), fs_init(), fs_loadall() and
\* the dump that ends it, in which it may be killed again.
MasterStarts ==
  LET d == disk[master]
      r == fs_loadall(d, NoRestore)
  IN /\ ~serv.up
     /\ InitAccepts(d)
     /\ r.ok
     /\ \/ /\ meta' = [meta EXCEPT ![master] = Metadata(r.log)]
           /\ disk' = [disk EXCEPT ![master] = StoreForeground(d, r.log)]
           /\ serv' = NewServ
           /\ UNCHANGED budget
        \/ /\ Spend("deaths")
           /\ \E e \in StoreSteps(d, r.log) : disk' = [disk EXCEPT ![master] = e]
           /\ UNCHANGED <<meta, serv>>
     /\ UNCHANGED <<term, master, conn, link>>

\* saunafs_cleanup_dirty_state() of the helper, or an administrator.
CleanUp ==
  /\ ~serv.up
  /\ disk[master].tmp
  /\ disk' = [disk EXCEPT ![master].tmp = FALSE]
  /\ UNCHANGED <<budget, term, master, meta, serv, conn, link>>

\* An administrator runs sfsmetarestore -a after a refused start.
Metarestore ==
  LET d == disk[master]
      r == Metarestored(d)
  IN /\ ~serv.up
     /\ ~InitAccepts(d) \/ ~fs_loadall(d, NoRestore).ok
     /\ r.ok
     /\ disk' = [disk EXCEPT ![master] = Commit(d, r.log)]
     /\ UNCHANGED <<budget, term, master, meta, serv, conn, link>>

\* The master dies, the shadow is promoted (promoteToMaster(), which
\* fs_become_master() ends without metadata), and what was the master starts
\* as the shadow once its metadata.sfs.tmp is removed.  A number of the changes
\* may not have reached the shadow.
Failover ==
  /\ Spend("failovers")
  /\ meta[shadow].loaded
  /\ Len(mlog) <= Len(meta[shadow].log) + budget.unsent
  /\ term' = term + 1
  /\ master' = shadow
  /\ meta' = [meta EXCEPT ![master] = NoMetadata]
  /\ serv' = NewServ
  /\ conn' = NewConn
  /\ link' = Closed
  /\ disk' = [disk EXCEPT ![master].tmp = FALSE]

----------------------------------------------------------------------------

EmptyDisk == [tmp |-> FALSE, present |-> FALSE, image |-> <<>>, current |-> <<>>,
              old1 |-> <<>>, old2 |-> <<>>, older |-> {}]

Init ==
  /\ budget \in Budgets
  /\ term = 1
  /\ master = First
  /\ meta = [s \in Servers |-> IF s = master THEN Metadata(<<>>) ELSE NoMetadata]
  /\ disk = [s \in Servers |-> [EmptyDisk EXCEPT !.present = s = master]]
  /\ serv = NewServ
  /\ conn = NewConn
  /\ link = Closed

Next ==
  \/ MasterChange
  \/ PeriodicStore
  \/ DumpEnds
  \/ DumpFails
  \/ CommitFails
  \/ SavePeriodEnds
  \/ MasterReceives
  \/ Connect
  \/ ShadowReceives
  \/ AskAgain
  \/ Drop
  \/ ShadowRestarts
  \/ MasterDies
  \/ MasterStarts
  \/ CleanUp
  \/ Metarestore
  \/ Failover

\* Both event loops go on serving their sockets and timers (weak fairness of what
\* they do, with what enables it spelled out), the dumping child ends, and the time
\* between two save requests passes.
EventLoopHasWork ==
  IF link.open THEN link.up # <<>> \/ link.down # <<>> \/ conn.state = "Limbo" ELSE serv.up

Fairness ==
  /\ \/ []<>~EventLoopHasWork
     \/ []<><<MasterReceives \/ ShadowReceives \/ Connect \/ AskAgain>>_vars
  /\ WF_vars(DumpEnds \/ DumpFails \/ CommitFails \/ SavePeriodEnds)

Spec == Init /\ [][Next]_vars /\ Fairness

----------------------------------------------------------------------------
(* Properties *)

\* Every variable of the two servers and of their connection has its type.
TypeOK ==
  /\ budget \in [Faults -> Nat]
  /\ term \in Nat
  /\ master \in Servers
  /\ \A s \in Servers :
       /\ meta[s].loaded \in BOOLEAN
       /\ meta[s].log \in Seq([version : 1..MaxVersion, term : 1..term])
  /\ serv.old \in 0..MaxVersion
  /\ conn.state \in {"None", "Synchronized", "Downloading", "DumpRequestPending", "Limbo"}
  /\ conn.lastLogVersion \in 0..MaxVersion
  /\ link.open \/ link = Closed

\* What a synchronised shadow has in memory is a beginning of what the master
\* has (MasterConn::State::kSynchronized): whatever it downloaded and replayed,
\* whenever the master rotated and dumped, no change is missing, doubled or
\* foreign.
SynchronizedIsPrefix ==
  conn.state = "Synchronized" => meta[shadow].loaded /\ IsPrefix(meta[shadow].log, mlog)

\* Whenever the master dies, within a rotation of the changelogs, between the two
\* renames of a commit, in the dump of its own start, sfsmetarestore -a finds in the
\* data directory every change it ever made.  So does fs_loadall() of a start with
\* AUTO_RECOVERY once a metadata.sfs.tmp is removed, when there is a metadata.sfs and
\* what it lacks is in the three changelogs that load_changelogs() reads.
NothingIsLost ==
  LET d == disk[master]
      restored == Metarestored(d)
      loaded == fs_loadall(d, NoRestore)
  IN /\ restored.ok /\ restored.log = mlog
     /\ d.present /\ d.older = {} => loaded.ok /\ loaded.log = mlog

\* A connected shadow that waits for a new image (kDumpRequestPending) has an
\* answer coming: the request is on its way, the shadow is in gShadowQueue while
\* a child is dumping, or the answer is on its way.
RequestIsAnswered ==
  conn.state = "DumpRequestPending" /\ link.open =>
    \/ \E i \in DOMAIN link.up : link.up[i].type = "dump"
    \/ link.waits /\ serv.dumping
    \/ \E i \in DOMAIN link.down : link.down[i].type = "dumped"

InSync == conn.state = "Synchronized" /\ link.open /\ meta[shadow].log = mlog

\* Once nothing more happens to the system, the shadow has all the master has
\* ("'Master' and 'shadow' are designed to run simultaneously in sync forever").
ShadowCatchesUp == <>[]InSync

\* A shadow whose connection neither breaks nor is closed by a death of the
\* master, and that always finds a metadata.sfs, ends up synchronised: failed
\* dumps, refused save requests and holes in the downloaded changelogs make it ask
\* for a new image, and it gets one.  When no dump failed, it then has all the
\* master has.
ConnectedShadowCatchesUp ==
  /\ budget.drops + budget.deaths + budget.renames = 0 =>
       <>[](conn.state = "Synchronized" /\ link.open)
  /\ budget.drops + budget.deaths + budget.renames + budget.failures = 0 => <>[]InSync

============================================================================
