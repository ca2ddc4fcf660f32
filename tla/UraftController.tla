--------------------------- MODULE UraftController ---------------------------
(***************************************************************************)
(* One metadata node of a high-availability cluster: the uRaftController   *)
(* object of leil-uraft, the helper script it forks, the local metadata    *)
(* server and the floating IP.  Terms, votes and messages are left to the  *)
(* election itself; here uRaft is what the controller can see of it: the   *)
(* node's type, its president flag and the calls of nodePromote and        *)
(* nodeDemote.  All handlers run on one io_context, so each is one step;   *)
(* the helper script and the metadata server run beside it.                *)
(* Operators named Faulty... are plausible mistakes in the definition that *)
(* follows them; no action uses them.                                      *)
(***************************************************************************)

\* What may go wrong around the controller:
\*   "fork"     fork() in runSlowCommand returns -1
\*   "helper"   what the helper script tries fails
\*   "timeout"  cmd_timeout_timer_ fires before the command ends
Troubles == {"fork", "helper", "timeout"}

CONSTANT Configurations   \* the sets of troubles to consider

ASSUME ConfigurationsAssumption == Configurations \subseteq SUBSET Troubles

VARIABLES
    u,     \* the uRaftController object (with its uRaft base)
    mds,   \* the local metadata server: "shadow", "master" or "dead"
    vip,   \* is the floating IP assigned to this node's interface?
    may    \* the troubles that may happen, one of the Configurations

vars == <<u, mds, vip, may>>

Controller ==
    [type           : {"Follower", "Candidate", "Leader"},
     president      : BOOLEAN,
     blocked        : BOOLEAN,   \* block_leader_promotion_
     cmd            : {"None", "Promote", "Demote", "StatusDead"},
     child          : {"none", "running", "halfway", "exit0", "exit1"},
     demotePending  : BOOLEAN,
     promotePending : BOOLEAN,
     nodeAlive      : BOOLEAN,
     backoff        : BOOLEAN,   \* promotion_backoff_active_
     deadRecovery   : BOOLEAN,   \* dead_recovery_pending_, its timer armed
     fip            : BOOLEAN]   \* a floating IP manager thread is running

\* The constructor and init() of a node that has a metadata server.
Init ==
    /\ u = [type |-> "Follower", president |-> FALSE, blocked |-> TRUE,
            cmd |-> "None", child |-> "none", demotePending |-> FALSE,
            promotePending |-> FALSE, nodeAlive |-> FALSE, backoff |-> FALSE,
            deadRecovery |-> FALSE, fip |-> FALSE]
    /\ mds \in {"shadow", "dead"}
    /\ vip = FALSE
    /\ may \in Configurations

-----------------------------------------------------------------------------
(* Methods of the object, as the set of objects a call may leave behind.   *)

\* runSlowCommand and the assignment of command_type_ after it.
RunSlowCommand(c, kind) ==
    {[c EXCEPT !.cmd = kind, !.child = "running"]}
        \cup (IF "fork" \in may THEN {c} ELSE {})

FaultyNodePromoteForgets(c) ==
    IF ~c.backoff /\ c.cmd = "None" THEN RunSlowCommand(c, "Promote") ELSE {c}

NodePromote(c) ==
    IF c.backoff THEN {c}
    ELSE CASE c.cmd = "None"   -> RunSlowCommand(c, "Promote")
           [] c.cmd = "Demote" -> {[c EXCEPT !.promotePending = TRUE]}
           [] OTHER            -> {c}

FaultyNodeDemoteKeepsManager(c) ==
    CASE c.cmd = "None"    -> RunSlowCommand(c, "Demote")
      [] c.cmd = "Promote" -> {[c EXCEPT !.demotePending = TRUE]}
      [] OTHER             -> {c}

NodeDemote(c) ==
    LET s == [c EXCEPT !.fip = FALSE]
    IN  CASE s.cmd = "None"    -> RunSlowCommand(s, "Demote")
          [] s.cmd = "Promote" -> {[s EXCEPT !.demotePending = TRUE]}
          [] OTHER             -> {s}

\* stepDownToFollower under its two policies.
StepDownRaftOnly(c) == [c EXCEPT !.type = "Follower", !.president = FALSE]

StepDownDemoteIfPresident(c) ==
    LET s == StepDownRaftOnly(c) IN IF c.president THEN NodeDemote(s) ELSE {s}

FaultyHandlePromotionFailureUnblocked(c) ==
    [StepDownRaftOnly(c) EXCEPT !.demotePending = TRUE, !.backoff = TRUE]

\* handlePromotionFailure: the cleanup command only removes a temporary file;
\* demoteLeader() and startPromotionBackoff(false) are inlined.
HandlePromotionFailure(c) ==
    [StepDownRaftOnly(c) EXCEPT !.demotePending = TRUE,
                                !.backoff = TRUE, !.blocked = TRUE]

FaultyClearCommandKeepsPid(c) == [c EXCEPT !.cmd = "None"]

ClearCommand(c) == [c EXCEPT !.cmd = "None", !.child = "none"]

-----------------------------------------------------------------------------
(* uRaft, as far as it reaches the controller.                             *)

\* electionTimeout in a cluster of more than one node; a leader has cancelled
\* its election timer.
ElectionTimeout ==
    /\ u.type # "Leader"
    /\ ~u.blocked
    /\ u' = [u EXCEPT !.type = "Candidate"]
    /\ UNCHANGED <<mds, vip, may>>

\* rpcReqVoteResponse completes a quorum of votes.
WinElection ==
    /\ u.type = "Candidate"
    /\ u' = [u EXCEPT !.type = "Leader"]
    /\ UNCHANGED <<mds, vip, may>>

\* heartbeat finds a loyal quorum for the first time.
BecomePresident ==
    /\ u.type = "Leader" /\ ~u.president
    /\ u' \in NodePromote([u EXCEPT !.president = TRUE])
    /\ UNCHANGED <<mds, vip, may>>

\* checkTerm meets a higher term, or a president's heartbeat has missed its
\* loyal quorum for the whole grace period.
StepDown ==
    /\ u' \in StepDownDemoteIfPresident(u)
    /\ UNCHANGED <<mds, vip, may>>

\* rpcAppend accepts a leader of the candidate's own term; it asserts that the
\* node is not a leader itself (all builds but Release have assertions).
FollowLeader ==
    /\ u.type = "Candidate"
    /\ u' = [u EXCEPT !.type = "Follower"]
    /\ UNCHANGED <<mds, vip, may>>

-----------------------------------------------------------------------------
(* Timers of the controller.                                               *)

FaultyDemoteEndedKeepsPending(c) ==
    LET s == ClearCommand(c)
    IN  IF s.promotePending /\ s.type = "Leader"
        THEN {[d EXCEPT !.promotePending = FALSE] : d \in NodePromote(s)}
        ELSE {s}

\* checkCommandStatus, the demote script has ended.
DemoteEnded(c) ==
    LET s == ClearCommand(c)
    IN  IF s.promotePending
        THEN {[d EXCEPT !.promotePending = FALSE] :
                 d \in IF s.type = "Leader" THEN NodePromote(s) ELSE {s}}
        ELSE {s}

\* checkCommandStatus, the promote script has ended: start the floating IP
\* manager or ask for a demotion, or handle the failure; then clear the command
\* and carry out a pending demotion.
PromoteEnded(c) ==
    LET reset   == [c EXCEPT !.backoff = FALSE]
        done    == CASE c.child = "exit1"  -> {HandlePromotionFailure(c)}
                     [] c.child = "exit0" /\ c.type = "Leader" ->
                            {[reset EXCEPT !.fip = TRUE]}
                     [] OTHER              -> NodeDemote(reset)
        pending(s) == IF s.demotePending /\ s.type # "Leader"
                      THEN NodeDemote(s) ELSE {s}
    IN  UNION {{[d EXCEPT !.demotePending = FALSE] : d \in pending(ClearCommand(s))} :
                 s \in done}

CheckCommandStatus ==
    /\ u.child \in {"exit0", "exit1"}
    /\ u' \in CASE u.cmd = "Demote"     -> DemoteEnded(u)
                [] u.cmd = "Promote"    -> PromoteEnded(u)
                [] u.cmd = "StatusDead" -> {ClearCommand(u)}
    /\ UNCHANGED <<mds, vip, may>>

\* startDeadMetadataHandler.
StartDeadMetadataHandler(c) ==
    LET s == [c EXCEPT !.fip = FALSE]
    IN  IF s.cmd = "None" THEN RunSlowCommand(s, "StatusDead") ELSE {s}

\* checkNodeStatus once it knows is_alive.
NodeStatus(c, alive) ==
    LET b == [c EXCEPT !.blocked = ~alive \/ c.backoff, !.nodeAlive = alive]
    IN  CASE alive = c.nodeAlive -> {b}
          [] alive /\ ~c.nodeAlive -> {[b EXCEPT !.deadRecovery = FALSE]}
          [] ~alive /\ c.nodeAlive ->
                 {[d EXCEPT !.deadRecovery = TRUE] :
                     d \in StartDeadMetadataHandler(StepDownRaftOnly(b))}

\* checkNodeStatus gets an answer from "leil-uraft-helper isalive" ...
CheckNodeStatus ==
    /\ u.cmd = "None"
    /\ u' \in NodeStatus(u, mds # "dead")
    /\ UNCHANGED <<mds, vip, may>>

\* ... or keeps the previous status when the helper is late or incoherent.
CheckNodeStatusTimeout ==
    /\ u.cmd = "None"
    /\ u' \in NodeStatus(u, u.nodeAlive)
    /\ UNCHANGED <<mds, vip, may>>

FaultyDeadRecoveryGivesUp ==
    /\ u.deadRecovery
    /\ u' \in IF u.nodeAlive \/ u.cmd # "None"
              THEN {[u EXCEPT !.deadRecovery = FALSE]}
              ELSE NodeDemote([u EXCEPT !.deadRecovery = FALSE])
    /\ UNCHANGED <<mds, vip, may>>

\* The handler armed by scheduleDeadRecovery.
DeadRecoveryTimeout ==
    /\ u.deadRecovery
    /\ u' \in CASE u.nodeAlive -> {[u EXCEPT !.deadRecovery = FALSE]}
                [] ~u.nodeAlive /\ u.cmd # "None" -> {u}
                [] OTHER -> NodeDemote([u EXCEPT !.deadRecovery = FALSE])
    /\ UNCHANGED <<mds, vip, may>>

\* The handler armed by setSlowCommandTimeout, with stopSlowCommand.
CommandTimeout ==
    /\ "timeout" \in may
    /\ u.cmd # "None"
    /\ u' = ClearCommand(IF u.cmd = "Promote" THEN HandlePromotionFailure(u) ELSE u)
    /\ UNCHANGED <<mds, vip, may>>

\* The handler armed by startPromotionBackoff.
BackoffExpires ==
    /\ u.backoff
    /\ u' = [u EXCEPT !.backoff = FALSE]
    /\ UNCHANGED <<mds, vip, may>>

-----------------------------------------------------------------------------
(* The helper script, the metadata server and the floating IP.             *)

\* saunafs_promote up to the new personality: promote-shadow on a server whose
\* metadata is in memory, whose failure the script ignores ...
HelperPromoteShadow ==
    /\ u.cmd = "Promote" /\ u.child = "running"
    /\ mds' \in IF mds = "shadow" /\ "helper" \in may THEN {"shadow", "master"}
                ELSE IF mds = "shadow" THEN {"master"} ELSE {mds}
    /\ u' = [u EXCEPT !.child = "halfway"]
    /\ UNCHANGED <<vip, may>>

\* ... or a restart as master when the metadata is on disk, which may fail.
HelperRestartAsMaster ==
    /\ u.cmd = "Promote" /\ u.child = "running"
    /\ mds = "shadow"
    /\ \/ mds' = "master" /\ u' = [u EXCEPT !.child = "halfway"]
       \/ "helper" \in may /\ mds' = "dead" /\ u' = [u EXCEPT !.child = "exit1"]
    /\ UNCHANGED <<vip, may>>

\* saunafs_assign_ip at the end of saunafs_promote, which goes on when the address
\* cannot be added.
HelperAssignIp ==
    /\ u.cmd = "Promote" /\ u.child = "halfway"
    /\ vip' \in {TRUE} \cup (IF "helper" \in may THEN {vip} ELSE {})
    /\ u' = [u EXCEPT !.child = "exit0"]
    /\ UNCHANGED <<mds, may>>

\* saunafs_drop_ip, which starts saunafs_demote and is all of saunafs_dead; it only
\* warns when the address cannot be deleted.
HelperDropIp ==
    /\ u.cmd \in {"Demote", "StatusDead"} /\ u.child = "running"
    /\ vip' \in {FALSE} \cup (IF "helper" \in may THEN {vip} ELSE {})
    /\ u' = [u EXCEPT !.child = IF u.cmd = "Demote" THEN "halfway" ELSE "exit0"]
    /\ UNCHANGED <<mds, may>>

\* The restart as shadow that ends saunafs_demote.
HelperRestartAsShadow ==
    /\ u.cmd = "Demote" /\ u.child = "halfway"
    /\ \/ mds' = "shadow" /\ u' = [u EXCEPT !.child = "exit0"]
       \/ "helper" \in may /\ mds' = "dead" /\ u' = [u EXCEPT !.child = "exit1"]
    /\ UNCHANGED <<vip, may>>

\* load_config, with which the promote script, saunafs_assign_ip and saunafs_drop_ip
\* begin, ends the script when a file, the address or the password is missing.
HelperLoadConfigFails ==
    /\ "helper" \in may
    /\ \/ u.child = "running"
       \/ u.cmd = "Promote" /\ u.child = "halfway"
    /\ u' = [u EXCEPT !.child = "exit1"]
    /\ UNCHANGED <<mds, vip, may>>

MetadataServerDies ==
    /\ mds # "dead"
    /\ mds' = "dead"
    /\ UNCHANGED <<u, vip, may>>

FloatingIpRemoved ==
    /\ vip
    /\ vip' = FALSE
    /\ UNCHANGED <<u, mds, may>>

\* HAFloatingIPManager::handleIpLoss in the listener thread.
HandleIpLoss ==
    /\ u.fip /\ ~vip
    /\ vip' = TRUE
    /\ UNCHANGED <<u, mds, may>>

-----------------------------------------------------------------------------
Handlers ==
    \/ ElectionTimeout \/ WinElection \/ BecomePresident \/ StepDown \/ FollowLeader
    \/ CheckCommandStatus \/ CheckNodeStatus \/ CheckNodeStatusTimeout
    \/ DeadRecoveryTimeout \/ CommandTimeout \/ BackoffExpires

Surroundings ==
    \/ HelperPromoteShadow \/ HelperRestartAsMaster \/ HelperAssignIp
    \/ HelperDropIp \/ HelperRestartAsShadow \/ HelperLoadConfigFails
    \/ MetadataServerDies \/ FloatingIpRemoved \/ HandleIpLoss

Next == Handlers \/ Surroundings

Spec == Init /\ [][Next]_vars

\* What the process owes: io_context runs ready handlers, periodic timers fire,
\* helper commands end.  The 250 ms status poll is not in step with the commands
\* that make it skip a turn, hence strong fairness.  Nothing is owed by the
\* election or by failures.
Fairness ==
    /\ WF_vars(CheckCommandStatus) /\ SF_vars(CheckNodeStatus)
    /\ WF_vars(DeadRecoveryTimeout) /\ WF_vars(BackoffExpires)
    /\ WF_vars(HelperPromoteShadow) /\ WF_vars(HelperAssignIp)
    /\ WF_vars(HelperDropIp) /\ WF_vars(HelperRestartAsShadow)

FairSpec == Spec /\ Fairness

-----------------------------------------------------------------------------
(* Properties.                                                             *)

\* Every field has its type and a child process exists exactly while a command
\* is recorded (command_pid_ >= 0 iff command_type_ # kCmdNone).
TypeOK ==
    /\ u \in Controller
    /\ mds \in {"shadow", "master", "dead"}
    /\ vip \in BOOLEAN
    /\ (u.cmd = "None") <=> (u.child = "none")

\* nodePromote() returns without a trace when backoff is active or a
\* dead-metadata handler is running.  Neither can be the case when uRaft calls
\* it: such a node is a follower barred from standing for election.
PromotionNeverSkipped ==
    u.backoff \/ u.cmd = "StatusDead" => u.type = "Follower" /\ u.blocked

\* The floating IP manager, whose thread re-assigns a lost address, is never
\* running while a script that drops the address is: nodeDemote and
\* startDeadMetadataHandler stop it first and only the end of a promotion
\* starts it.
ManagerNeverFightsDemotion ==
    u.fip => u.cmd \notin {"Demote", "StatusDead"}

\* A floating IP that is gone while the demote or dead script runs (dropped by the
\* script, or lost before) does not come back before the controller has
\* acknowledged the end of the script: neither the manager's thread nor a promote
\* script assigns it again.  A drop that fails leaves it where it is.
DroppedVipStaysAway ==
    [][u.cmd \in {"Demote", "StatusDead"} /\ ~vip => ~vip']_vars

\* A request that waits for the opposite command waits for a command that is
\* still there: "After the promotion completes, the pending demotion will be
\* executed" (is_demote_pending_) and the same of is_promote_pending_.  A
\* command that times out leaves the request behind.
PendingHasCommand ==
    "timeout" \notin may =>
        /\ u.demotePending => u.cmd = "Promote"
        /\ u.promotePending => u.cmd = "Demote"

\* A node that stays president ends up with its metadata server in master
\* mode: BecomePresident, deferred promotions and dead-metadata handling
\* together never forget the promotion, when commands start and end.
PresidentServes == (u.president /\ may = {}) ~> (mds = "master" \/ ~u.president)

\* A metadata server seen alive and found dead is brought back: the dead
\* handler, scheduleDeadRecovery and the demote path restart it, when
\* commands start and end.
DeadServerRecovers == (mds = "dead" /\ u.nodeAlive /\ may = {}) ~> (mds # "dead")

\* "so the local metadata server is not left in master mode while we are no
\* longer eligible to lead": a server in master mode on a node that is not
\* leader does not stay so.
MasterModeReverted ==
    (mds = "master" /\ u.type # "Leader") ~> (mds # "master" \/ u.type = "Leader")
=============================================================================
