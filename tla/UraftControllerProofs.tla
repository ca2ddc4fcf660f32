------------------------ MODULE UraftControllerProofs ------------------------
(***************************************************************************)
(* The safety invariants of UraftController, for every setting of its      *)
(* flags.  Three of them are inductive together: TypeOK gives the fields   *)
(* their ranges, and the others preserve themselves.  PendingHasCommand    *)
(* follows from these with a step of its own, and DroppedVipStaysAway from *)
(* the manager being stopped.                                              *)
(***************************************************************************)
EXTENDS UraftController, TLAPS

IInv ==
    /\ TypeOK
    /\ PromotionNeverSkipped
    /\ ManagerNeverFightsDemotion

\* The part of the inductive invariant that speaks of the controller object.
Sound(c) ==
    /\ c \in Controller
    /\ (c.cmd = "None") <=> (c.child = "none")
    /\ c.backoff \/ c.cmd = "StatusDead" => c.type = "Follower" /\ c.blocked
    /\ c.fip => c.cmd \notin {"Demote", "StatusDead"}

\* runSlowCommand leaves a sound object when it may start that command.
LEMMA RunSlowCommandSound ==
    ASSUME NEW c, Sound(c), c.cmd = "None",
           NEW kind \in {"Promote", "Demote", "StatusDead"},
           kind \in {"Demote", "StatusDead"} => ~c.fip,
           kind = "StatusDead" => c.type = "Follower" /\ c.blocked,
           NEW d \in RunSlowCommand(c, kind)
    PROVE  Sound(d)
  BY Zenon DEF Sound, Controller, RunSlowCommand

\* nodePromote leaves a sound object.
LEMMA NodePromoteSound ==
    ASSUME NEW c, Sound(c), NEW d \in NodePromote(c)
    PROVE  Sound(d)
  <1>1. CASE ~c.backoff /\ c.cmd = "None"
    <2>1. d \in RunSlowCommand(c, "Promote")
      BY <1>1 DEF NodePromote
    <2> QED
      BY <1>1, <2>1, RunSlowCommandSound
  <1>2. CASE ~(~c.backoff /\ c.cmd = "None")
    BY <1>2, Zenon DEF NodePromote, Sound, Controller
  <1> QED
    BY <1>1, <1>2

\* nodeDemote leaves a sound object.
LEMMA NodeDemoteSound ==
    ASSUME NEW c, Sound(c), NEW d \in NodeDemote(c)
    PROVE  Sound(d)
  <1> DEFINE s == [c EXCEPT !.fip = FALSE]
  <1>1. Sound(s) /\ ~s.fip /\ s.cmd = c.cmd
    BY Zenon DEF Sound, Controller
  <1>2. CASE c.cmd = "None"
    <2>1. d \in RunSlowCommand(s, "Demote")
      BY <1>1, <1>2 DEF NodeDemote
    <2> QED
      BY <1>1, <1>2, <2>1, RunSlowCommandSound, Zenon
  <1>3. CASE c.cmd # "None"
    BY <1>3, ZenonT(90) DEF NodeDemote, Sound, Controller
  <1> QED
    BY <1>2, <1>3

\* What CheckCommandStatus does at the end of a demotion.
LEMMA DemoteEndedSound ==
    ASSUME NEW c, Sound(c), c.cmd = "Demote", NEW d \in DemoteEnded(c)
    PROVE  Sound(d)
  <1> DEFINE s == ClearCommand(c)
  <1>1. Sound(s) /\ s.cmd = "None"
    BY Zenon DEF Sound, Controller, ClearCommand
  <1>2. CASE s.promotePending /\ s.type = "Leader"
    <2>1. PICK e \in NodePromote(s) : d = [e EXCEPT !.promotePending = FALSE]
      BY <1>2 DEF DemoteEnded
    <2>2. Sound(e)
      BY <1>1, NodePromoteSound
    <2> QED
      BY <2>1, <2>2, Zenon DEF Sound, Controller
  <1>3. CASE ~(s.promotePending /\ s.type = "Leader")
    <2>1. d = s \/ d = [s EXCEPT !.promotePending = FALSE]
      BY <1>3 DEF DemoteEnded
    <2> QED
      BY <1>1, <2>1, ZenonT(90) DEF Sound, Controller
  <1> QED
    BY <1>2, <1>3

\* What CheckCommandStatus does at the end of a promotion.
LEMMA PromoteEndedSound ==
    ASSUME NEW c, Sound(c), c.cmd = "Promote", c.child \in {"exit0", "exit1"},
           NEW d \in PromoteEnded(c)
    PROVE  Sound(d)
  <1> DEFINE reset == [c EXCEPT !.backoff = FALSE]
             done == CASE c.child = "exit1" -> {HandlePromotionFailure(c)}
                       [] c.child = "exit0" /\ c.type = "Leader" ->
                              {[reset EXCEPT !.fip = TRUE]}
                       [] OTHER -> NodeDemote(reset)
             pending(s) == IF s.demotePending /\ s.type # "Leader"
                           THEN NodeDemote(s) ELSE {s}
  <1>1. PICK s \in done : d \in {[e EXCEPT !.demotePending = FALSE] :
                                   e \in pending(ClearCommand(s))}
    BY Zenon DEF PromoteEnded
  <1>2. Sound(s) /\ s.cmd = "Promote"
    <2>1. CASE c.child = "exit1"
      <3>1. s = HandlePromotionFailure(c)
        BY <2>1, <1>1
      <3> QED
        BY <3>1, Zenon DEF HandlePromotionFailure, StepDownRaftOnly, Sound, Controller
    <2>2. CASE c.child = "exit0" /\ c.type = "Leader"
      <3>1. s = [reset EXCEPT !.fip = TRUE]
        BY <2>2, <1>1
      <3> QED
        BY <3>1, Zenon DEF Sound, Controller
    <2>3. CASE c.child = "exit0" /\ c.type # "Leader"
      <3>1. s \in NodeDemote(reset)
        BY <2>3, <1>1
      <3>2. Sound(reset) /\ reset.cmd = "Promote"
        BY Zenon DEF Sound, Controller
      <3>3. Sound(s)
        BY <3>1, <3>2, NodeDemoteSound
      <3>4. s.cmd = "Promote"
        BY <3>1, <3>2, Zenon DEF NodeDemote, Sound, Controller
      <3> QED
        BY <3>3, <3>4
    <2> QED
      BY <2>1, <2>2, <2>3
  <1>3. Sound(ClearCommand(s)) /\ ClearCommand(s).cmd = "None"
    BY <1>2, Zenon DEF ClearCommand, Sound, Controller
  <1>4. PICK e \in pending(ClearCommand(s)) : d = [e EXCEPT !.demotePending = FALSE]
    BY <1>1
  <1>5. Sound(e)
    <2>1. CASE e \in NodeDemote(ClearCommand(s))
      BY <2>1, <1>3, NodeDemoteSound
    <2>2. CASE e = ClearCommand(s)
      BY <2>2, <1>3
    <2> QED
      BY <1>4, <2>1, <2>2
  <1> QED
    BY <1>4, <1>5, ZenonT(90) DEF Sound, Controller

\* The constructor establishes the invariant.
LEMMA InitIInv == Init => IInv
  <1> SUFFICES ASSUME Init PROVE IInv
    OBVIOUS
  <1>1. u \in Controller /\ mds \in {"shadow", "master", "dead"}
    BY DEF Init, Controller
  <1>2. vip \in BOOLEAN /\ ~vip
    BY Zenon DEF Init
  <1>3. u.cmd = "None" /\ u.child = "none" /\ u.type = "Follower" /\ ~u.backoff
    BY DEF Init
  <1> QED
    BY <1>1, <1>2, <1>3 DEF IInv, TypeOK, PromotionNeverSkipped,
                            ManagerNeverFightsDemotion

\* A handler that leaves a sound object keeps the invariant.
LEMMA SoundStep ==
    ASSUME IInv, UNCHANGED <<mds, vip>>, Sound(u')
    PROVE  IInv'
  BY DEF IInv, TypeOK, Sound, PromotionNeverSkipped, ManagerNeverFightsDemotion

\* Every handler of the controller keeps the invariant.
LEMMA HandlersKeepIInv == ASSUME IInv, Handlers PROVE IInv'
  <1> USE DEF Sound, Controller
  <1>0. Sound(u)
    BY DEF IInv, TypeOK, PromotionNeverSkipped, ManagerNeverFightsDemotion
  <1>1. CASE ElectionTimeout
    BY <1>0, <1>1, SoundStep DEF ElectionTimeout
  <1>2. CASE WinElection
    BY <1>0, <1>2, SoundStep DEF WinElection
  <1>3. CASE BecomePresident
    <2>1. Sound([u EXCEPT !.president = TRUE])
      BY <1>0, Zenon
    <2>2. Sound(u')
      BY <1>0, <1>3, <2>1, NodePromoteSound DEF BecomePresident
    <2> QED
      BY <1>3, <2>2, SoundStep DEF BecomePresident
  <1>4. CASE StepDown
    <2>1. Sound(StepDownRaftOnly(u))
      BY <1>0, ZenonT(90) DEF StepDownRaftOnly
    <2>2. u' \in NodeDemote(StepDownRaftOnly(u)) \/ u' = StepDownRaftOnly(u)
      BY <1>4 DEF StepDown, StepDownDemoteIfPresident
    <2>3. Sound(u')
      BY <2>1, <2>2, NodeDemoteSound
    <2> QED
      BY <1>4, <2>3, SoundStep DEF StepDown
  <1>5. CASE FollowLeader
    BY <1>0, <1>5, SoundStep DEF FollowLeader
  <1>6. CASE CheckCommandStatus
    <2>1. u.cmd # "None"
      BY <1>0, <1>6 DEF CheckCommandStatus
    <2>2. CASE u.cmd = "Demote"
      BY <1>0, <1>6, <2>2, DemoteEndedSound, SoundStep DEF CheckCommandStatus
    <2>3. CASE u.cmd = "Promote"
      BY <1>0, <1>6, <2>3, PromoteEndedSound, SoundStep DEF CheckCommandStatus
    <2>4. CASE u.cmd = "StatusDead"
      BY <1>0, <1>6, <2>4, SoundStep, ZenonT(90) DEF CheckCommandStatus, ClearCommand
    <2> QED
      BY <1>0, <2>1, <2>2, <2>3, <2>4
  <1>7. ASSUME NEW alive \in BOOLEAN, u.cmd = "None", u' \in NodeStatus(u, alive),
               UNCHANGED <<mds, vip>>
        PROVE  IInv'
    <2> DEFINE x == ~alive \/ u.backoff
               b == [u EXCEPT !.blocked = x, !.nodeAlive = alive]
               t == [StepDownRaftOnly(b) EXCEPT !.fip = FALSE]
    <2>0. x \in BOOLEAN /\ (u.backoff => x) /\ (~alive => x)
      BY Zenon
    <2>1. /\ Sound(b) /\ b.cmd = "None" /\ b.nodeAlive = alive
          /\ ~alive => b.blocked
      <3> HIDE DEF x
      <3> QED
        BY <1>0, <1>7, <2>0, ZenonT(90)
    <2>2. CASE alive = u.nodeAlive \/ alive
      <3>1. u' = b \/ u' = [b EXCEPT !.deadRecovery = FALSE]
        BY <1>0, <1>7, <2>2, Zenon DEF NodeStatus
      <3> HIDE DEF b
      <3>2. Sound(u') /\ u'.cmd = "None"
        BY <2>1, <3>1, ZenonT(90)
      <3> QED
        BY <1>7, <3>2, SoundStep
    <2>3. CASE ~alive /\ u.nodeAlive
      <3>0. u' \in {[d EXCEPT !.deadRecovery = TRUE] :
                        d \in StartDeadMetadataHandler(StepDownRaftOnly(b))}
        BY <1>0, <1>7, <2>3, Zenon DEF NodeStatus
      <3> HIDE DEF b
      <3>1. /\ Sound(t) /\ t.cmd = "None" /\ ~t.fip
            /\ t.type = "Follower" /\ t.blocked
        BY <2>1, <2>3, <1>0, ZenonT(90) DEF StepDownRaftOnly
      <3>2. PICK d \in RunSlowCommand(t, "StatusDead") :
                   u' = [d EXCEPT !.deadRecovery = TRUE]
        BY <3>0, <3>1, Zenon DEF StartDeadMetadataHandler
      <3>3. Sound(d)
        BY <3>1, RunSlowCommandSound
      <3> QED
        BY <1>7, <3>2, <3>3, SoundStep, Zenon
    <2> QED
      BY <1>0, <2>2, <2>3
  <1>8. CASE CheckNodeStatus
    BY <1>8, <1>7, Zenon DEF CheckNodeStatus
  <1>9. CASE CheckNodeStatusTimeout
    BY <1>9, <1>7, <1>0 DEF CheckNodeStatusTimeout
  <1>10. CASE DeadRecoveryTimeout
    <2> DEFINE r == [u EXCEPT !.deadRecovery = FALSE]
    <2>1. Sound(r)
      BY <1>0, ZenonT(90)
    <2>2. u' = r \/ u' = u \/ u' \in NodeDemote(r)
      BY <1>10 DEF DeadRecoveryTimeout
    <2>3. CASE u' = r \/ u' = u
      BY <1>0, <1>10, <2>1, <2>3, SoundStep, ZenonT(90) DEF DeadRecoveryTimeout
    <2>4. CASE u' \in NodeDemote(r)
      <3> HIDE DEF Sound, Controller, r
      <3>1. Sound(u')
        BY <2>1, <2>4, NodeDemoteSound
      <3> QED
        BY <1>10, <3>1, SoundStep DEF DeadRecoveryTimeout
    <2> QED
      BY <2>2, <2>3, <2>4
  <1>11. CASE CommandTimeout
    BY <1>0, <1>11, SoundStep, ZenonT(90)
       DEF CommandTimeout, ClearCommand, HandlePromotionFailure, StepDownRaftOnly
  <1>12. CASE BackoffExpires
    BY <1>0, <1>12, SoundStep, Zenon DEF BackoffExpires
  <1> QED
    BY <1>1, <1>2, <1>3, <1>4, <1>5, <1>6, <1>8, <1>9, <1>10, <1>11, <1>12
       DEF Handlers

\* So does every step of the helper, the server and the address.
LEMMA SurroundingsKeepIInv == ASSUME IInv, Surroundings PROVE IInv'
  <1> USE DEF IInv, TypeOK, Controller, PromotionNeverSkipped,
              ManagerNeverFightsDemotion
  <1>1. CASE HelperPromoteShadow
    BY <1>1 DEF HelperPromoteShadow
  <1>2. CASE HelperRestartAsMaster
    BY <1>2 DEF HelperRestartAsMaster
  <1>3. CASE HelperAssignIp
    BY <1>3, Zenon DEF HelperAssignIp
  <1>4. CASE HelperDropIp
    BY <1>4, Zenon DEF HelperDropIp
  <1>5. CASE HelperRestartAsShadow
    BY <1>5 DEF HelperRestartAsShadow
  <1>6. CASE MetadataServerDies
    BY <1>6 DEF MetadataServerDies
  <1>7. CASE FloatingIpRemoved
    <2>1. vip' \in BOOLEAN /\ ~vip'
      BY <1>7, Zenon DEF FloatingIpRemoved
    <2>2. u' = u /\ mds' = mds
      BY <1>7 DEF FloatingIpRemoved
    <2> QED
      BY <2>1, <2>2
  <1>8. CASE HandleIpLoss
    BY <1>8 DEF HandleIpLoss
  <1>9. CASE HelperLoadConfigFails
    BY <1>9 DEF HelperLoadConfigFails
  <1> QED
    BY <1>1, <1>2, <1>3, <1>4, <1>5, <1>6, <1>7, <1>8, <1>9 DEF Surroundings

\* The inductive invariant holds in every state.
LEMMA Invariance == Spec => []IInv
  <1>1. IInv /\ [Next]_vars => IInv'
    <2> SUFFICES ASSUME IInv, [Next]_vars PROVE IInv'
      OBVIOUS
    <2>1. CASE Next
      BY <2>1, HandlersKeepIInv, SurroundingsKeepIInv DEF Next
    <2>2. CASE UNCHANGED vars
      BY <2>2 DEF vars, IInv, TypeOK, PromotionNeverSkipped,
                  ManagerNeverFightsDemotion
    <2> QED
      BY <2>1, <2>2
  <1> QED
    BY InitIInv, <1>1, PTL DEF Spec

-----------------------------------------------------------------------------
(* Requests that wait for the opposite command.  The argument only needs    *)
(* that the object keeps its shape, which TypeOK says.                       *)

\* PendingHasCommand, of a controller object.
Queued(c) ==
    /\ c.demotePending => c.cmd = "Promote"
    /\ c.promotePending => c.cmd = "Demote"

\* runSlowCommand leaves both requests as they are.
LEMMA RunSlowCommandPending ==
    ASSUME NEW c \in Controller, NEW kind \in {"Promote", "Demote", "StatusDead"},
           NEW d \in RunSlowCommand(c, kind)
    PROVE  /\ d \in Controller
           /\ d.demotePending = c.demotePending /\ d.promotePending = c.promotePending
  BY ZenonT(60) DEF RunSlowCommand, Controller

\* nodePromote leaves a waiting demotion alone and records a request only
\* behind a demotion.
LEMMA NodePromoteQueued ==
    ASSUME NEW c \in Controller, NEW d \in NodePromote(c)
    PROVE  /\ d \in Controller
           /\ d.demotePending = c.demotePending /\ (Queued(c) => Queued(d))
  <1>1. CASE d = c
    BY <1>1
  <1>2. CASE c.cmd = "None" /\ d \in RunSlowCommand(c, "Promote")
    BY <1>2, RunSlowCommandPending DEF Queued
  <1>3. CASE c.cmd = "Demote" /\ d = [c EXCEPT !.promotePending = TRUE]
    BY <1>3, Zenon DEF Queued, Controller
  <1> QED
    BY <1>1, <1>2, <1>3 DEF NodePromote

\* nodeDemote leaves a waiting promotion alone and records a request only
\* behind a promotion.
LEMMA NodeDemoteQueued ==
    ASSUME NEW c \in Controller, NEW d \in NodeDemote(c)
    PROVE  /\ d \in Controller
           /\ d.promotePending = c.promotePending /\ (Queued(c) => Queued(d))
  <1> DEFINE s == [c EXCEPT !.fip = FALSE]
  <1>1. /\ s \in Controller /\ s.cmd = c.cmd
        /\ s.demotePending = c.demotePending /\ s.promotePending = c.promotePending
    BY Zenon DEF Controller
  <1>2. \/ s.cmd = "None" /\ d \in RunSlowCommand(s, "Demote")
        \/ s.cmd = "Promote" /\ d = [s EXCEPT !.demotePending = TRUE]
        \/ d = s
    BY DEF NodeDemote
  <1> HIDE DEF s
  <1>3. CASE s.cmd = "None" /\ d \in RunSlowCommand(s, "Demote")
    BY <1>1, <1>3, RunSlowCommandPending DEF Queued
  <1>4. CASE s.cmd = "Promote" /\ d = [s EXCEPT !.demotePending = TRUE]
    BY <1>1, <1>4, Zenon DEF Queued, Controller
  <1>5. CASE d = s
    BY <1>1, <1>5 DEF Queued
  <1> QED
    BY <1>2, <1>3, <1>4, <1>5

\* checkCommandStatus at the end of a demotion takes the waiting promotion off.
LEMMA DemoteEndedQueued ==
    ASSUME NEW c \in Controller, Queued(c), c.cmd = "Demote", NEW d \in DemoteEnded(c)
    PROVE  Queued(d)
  <1> DEFINE s == ClearCommand(c)
  <1>1. s \in Controller /\ ~s.demotePending
    BY Zenon DEF ClearCommand, Controller, Queued
  <1>2. CASE ~s.promotePending /\ d = s
    BY <1>1, <1>2 DEF Queued
  <1>3. ASSUME NEW e \in NodePromote(s) \cup {s}, d = [e EXCEPT !.promotePending = FALSE]
        PROVE  Queued(d)
    <2> HIDE DEF s
    <2>1. e \in Controller /\ ~e.demotePending
      BY <1>1, <1>3, NodePromoteQueued
    <2> QED
      BY <1>3, <2>1, Zenon DEF Queued, Controller
  <1> QED
    BY <1>2, <1>3, Zenon DEF DemoteEnded

\* checkCommandStatus at the end of a promotion takes the waiting demotion off.
LEMMA PromoteEndedQueued ==
    ASSUME NEW c \in Controller, Queued(c), c.cmd = "Promote", NEW d \in PromoteEnded(c)
    PROVE  Queued(d)
  <1> DEFINE reset == [c EXCEPT !.backoff = FALSE]
  <1>1. /\ c \in Controller /\ ~c.promotePending
        /\ reset \in Controller /\ ~reset.promotePending
    BY Zenon DEF Controller, Queued
  <1>2. ASSUME NEW s \in Controller, ~s.promotePending,
               NEW e \in NodeDemote(ClearCommand(s)) \cup {ClearCommand(s)},
               d = [e EXCEPT !.demotePending = FALSE]
        PROVE  Queued(d)
    <2>1. ClearCommand(s) \in Controller /\ ~ClearCommand(s).promotePending
      BY <1>2, Zenon DEF ClearCommand, Controller
    <2>2. e \in Controller /\ ~e.promotePending
      BY <1>2, <2>1, NodeDemoteQueued
    <2> QED
      BY <1>2, <2>2, Zenon DEF Queued, Controller
  <1>3. PICK s \in {HandlePromotionFailure(c), [reset EXCEPT !.fip = TRUE]}
                     \cup NodeDemote(reset) :
          d \in {[e EXCEPT !.demotePending = FALSE] :
                   e \in NodeDemote(ClearCommand(s)) \cup {ClearCommand(s)}}
    <2> DEFINE done == CASE c.child = "exit1" -> {HandlePromotionFailure(c)}
                         [] c.child = "exit0" /\ c.type = "Leader" ->
                                {[reset EXCEPT !.fip = TRUE]}
                         [] OTHER -> NodeDemote(reset)
               pending(s) == IF s.demotePending /\ s.type # "Leader"
                             THEN NodeDemote(s) ELSE {s}
               Ended(s) == {[e EXCEPT !.demotePending = FALSE] :
                               e \in pending(ClearCommand(s))}
    <2>1. d \in UNION {Ended(s) : s \in done}
      BY Zenon DEF PromoteEnded
    <2>2. PICK s \in done : d \in Ended(s)
      <3> HIDE DEF done, Ended
      <3> QED
        BY <2>1
    <2>3. s \in {HandlePromotionFailure(c), [reset EXCEPT !.fip = TRUE]} \cup NodeDemote(reset)
      <3> HIDE DEF reset
      <3> QED
        BY <2>2
    <2>4. pending(ClearCommand(s)) \subseteq NodeDemote(ClearCommand(s)) \cup {ClearCommand(s)}
      OBVIOUS
    <2> HIDE DEF pending, done, reset
    <2> QED
      BY <2>2, <2>3, <2>4
  <1>4. s \in Controller /\ ~s.promotePending
    <2>1. CASE s = HandlePromotionFailure(c)
      BY <1>1, <2>1, ZenonT(60) DEF HandlePromotionFailure, StepDownRaftOnly, Controller
    <2>2. CASE s = [reset EXCEPT !.fip = TRUE]
      <3> HIDE DEF reset
      <3> QED
        BY <1>1, <2>2, ZenonT(60) DEF Controller
    <2>3. CASE s \in NodeDemote(reset)
      <3> HIDE DEF reset
      <3> QED
        BY <1>1, <2>3, NodeDemoteQueued
    <2> QED
      BY <1>3, <2>1, <2>2, <2>3
  <1> QED
    BY <1>2, <1>3, <1>4

\* No step but a command's timeout leaves a request behind.
LEMMA PendingStep ==
    ASSUME IInv, PendingHasCommand, [Next]_vars PROVE PendingHasCommand'
  <1> SUFFICES ASSUME "timeout" \notin may, may' = may PROVE Queued(u')
    BY DEF PendingHasCommand, Queued, vars, Next, Handlers, Surroundings,
           ElectionTimeout, WinElection, BecomePresident, StepDown, FollowLeader,
           CheckCommandStatus, CheckNodeStatus, CheckNodeStatusTimeout,
           DeadRecoveryTimeout, CommandTimeout, BackoffExpires, HelperPromoteShadow,
           HelperRestartAsMaster, HelperAssignIp, HelperDropIp, HelperRestartAsShadow,
           HelperLoadConfigFails, MetadataServerDies, FloatingIpRemoved, HandleIpLoss
  <1>0. u \in Controller /\ Queued(u)
    BY DEF IInv, TypeOK, PendingHasCommand, Queued
  <1>1. CASE UNCHANGED u
    BY <1>0, <1>1
  <1>2. CASE ElectionTimeout \/ WinElection \/ FollowLeader \/ BackoffExpires
    BY <1>0, <1>2, ZenonT(60) DEF ElectionTimeout, WinElection, FollowLeader,
       BackoffExpires, Queued, Controller
  <1>3. CASE BecomePresident
    <2>1. /\ [u EXCEPT !.president = TRUE] \in Controller
          /\ Queued([u EXCEPT !.president = TRUE])
      BY <1>0, ZenonT(60) DEF Queued, Controller
    <2> QED
      BY <1>3, <2>1, NodePromoteQueued DEF BecomePresident
  <1>4. CASE StepDown
    <2>1. StepDownRaftOnly(u) \in Controller /\ Queued(StepDownRaftOnly(u))
      BY <1>0, ZenonT(60) DEF StepDownRaftOnly, Queued, Controller
    <2> QED
      BY <1>4, <2>1, NodeDemoteQueued DEF StepDown, StepDownDemoteIfPresident
  <1>5. CASE CheckCommandStatus
    <2>0. u.cmd # "None"
      BY <1>5 DEF CheckCommandStatus, IInv, TypeOK
    <2>1. CASE u.cmd = "Demote"
      BY <1>0, <1>5, <2>1, DemoteEndedQueued DEF CheckCommandStatus
    <2>2. CASE u.cmd = "Promote"
      BY <1>0, <1>5, <2>2, PromoteEndedQueued DEF CheckCommandStatus
    <2>3. CASE u.cmd = "StatusDead"
      BY <1>0, <1>5, <2>3, ZenonT(60)
         DEF CheckCommandStatus, ClearCommand, Queued, Controller
    <2> QED
      BY <1>0, <2>0, <2>1, <2>2, <2>3 DEF Controller
  <1>6. CASE CheckNodeStatus \/ CheckNodeStatusTimeout
    <2>1. PICK alive \in BOOLEAN : u.cmd = "None" /\ u' \in NodeStatus(u, alive)
      BY <1>0, <1>6, Zenon DEF CheckNodeStatus, CheckNodeStatusTimeout, Controller
    <2> DEFINE x == ~alive \/ u.backoff
               b == [u EXCEPT !.blocked = x, !.nodeAlive = alive]
               t == [StepDownRaftOnly(b) EXCEPT !.fip = FALSE]
    <2>0. x \in BOOLEAN
      BY Zenon
    <2>2. b \in Controller /\ ~b.demotePending /\ ~b.promotePending
      <3> HIDE DEF x
      <3> QED
        BY <1>0, <2>0, <2>1, ZenonT(60) DEF Queued, Controller
    <2>3. \/ u' = b \/ u' = [b EXCEPT !.deadRecovery = FALSE]
          \/ u' \in {[d EXCEPT !.deadRecovery = TRUE] :
                        d \in StartDeadMetadataHandler(StepDownRaftOnly(b))}
      BY <1>0, <2>1, Zenon DEF NodeStatus, Controller
    <2> HIDE DEF b
    <2>4. CASE u' = b \/ u' = [b EXCEPT !.deadRecovery = FALSE]
      BY <2>2, <2>4, ZenonT(60) DEF Queued, Controller
    <2>5. CASE u' \in {[d EXCEPT !.deadRecovery = TRUE] :
                          d \in StartDeadMetadataHandler(StepDownRaftOnly(b))}
      <3>1. t \in Controller /\ ~t.demotePending /\ ~t.promotePending
        BY <2>2, ZenonT(60) DEF StepDownRaftOnly, Controller
      <3>2. PICK d \in RunSlowCommand(t, "StatusDead") \cup {t} :
                    u' = [d EXCEPT !.deadRecovery = TRUE]
        BY <2>5, Zenon DEF StartDeadMetadataHandler
      <3> HIDE DEF t
      <3>3. d \in Controller /\ ~d.demotePending /\ ~d.promotePending
        BY <3>1, <3>2, RunSlowCommandPending
      <3> QED
        BY <3>2, <3>3, ZenonT(60) DEF Queued, Controller
    <2> QED
      BY <2>3, <2>4, <2>5
  <1>7. CASE DeadRecoveryTimeout
    <2> DEFINE r == [u EXCEPT !.deadRecovery = FALSE]
    <2>1. r \in Controller /\ Queued(r)
      BY <1>0, ZenonT(60) DEF Queued, Controller
    <2>2. u' = r \/ u' = u \/ u' \in NodeDemote(r)
      BY <1>7 DEF DeadRecoveryTimeout
    <2> HIDE DEF r
    <2> QED
      BY <1>0, <2>1, <2>2, NodeDemoteQueued
  <1>8. CASE Surroundings
    BY <1>0, <1>8, ZenonT(60) DEF Queued, Controller, Surroundings,
       HelperPromoteShadow, HelperRestartAsMaster, HelperAssignIp, HelperDropIp,
       HelperRestartAsShadow, HelperLoadConfigFails, MetadataServerDies, FloatingIpRemoved, HandleIpLoss
  <1>9. ~CommandTimeout
    BY DEF CommandTimeout
  <1> QED
    BY <1>1, <1>2, <1>3, <1>4, <1>5, <1>6, <1>7, <1>8, <1>9 DEF Next, Handlers, vars

\* uRaft's call of nodePromote() is never silently dropped because of backoff
\* or a running dead-metadata handler.
THEOREM PromotionNeverSkippedThm == Spec => []PromotionNeverSkipped
  BY Invariance, PTL DEF IInv

\* The floating IP manager never runs beside a script that drops the address.
THEOREM ManagerNeverFightsDemotionThm == Spec => []ManagerNeverFightsDemotion
  BY Invariance, PTL DEF IInv

\* An address that is gone while the demote or dead script runs does not come back
\* before the controller has seen the script end: the promote script does not run
\* then, and stopFloatingIpManager() has been called.
THEOREM DroppedVipStaysAwayThm == Spec => DroppedVipStaysAway
  <1>1. ASSUME IInv, [Next]_vars, u.cmd \in {"Demote", "StatusDead"}, ~vip
        PROVE  ~vip'
    <2>1. CASE vip' = vip
      BY <1>1, <2>1
    <2>2. CASE HelperAssignIp
      BY <1>1, <2>2 DEF HelperAssignIp
    <2>3. CASE HelperDropIp
      BY <1>1, <2>3, Zenon DEF HelperDropIp
    <2>4. CASE FloatingIpRemoved
      BY <1>1, <2>4 DEF FloatingIpRemoved
    <2>5. CASE HandleIpLoss
      BY <1>1, <2>5 DEF HandleIpLoss, IInv, ManagerNeverFightsDemotion
    <2> QED
      BY <1>1, <2>1, <2>2, <2>3, <2>4, <2>5
         DEF vars, Next, Handlers, Surroundings, ElectionTimeout, WinElection,
             BecomePresident, StepDown, FollowLeader, CheckCommandStatus,
             CheckNodeStatus, CheckNodeStatusTimeout, DeadRecoveryTimeout,
             CommandTimeout, BackoffExpires, HelperPromoteShadow,
             HelperRestartAsMaster, HelperRestartAsShadow, HelperLoadConfigFails,
             MetadataServerDies
  <1> QED
    BY <1>1, Invariance, PTL DEF Spec, DroppedVipStaysAway

\* Unless commands time out, a request deferred behind the opposite command is
\* never left without the command whose end carries it out.
THEOREM PendingHasCommandThm == Spec => []PendingHasCommand
  <1>1. Init => PendingHasCommand
    BY DEF Init, PendingHasCommand
  <1> QED
    BY Invariance, PendingStep, <1>1, PTL DEF Spec

\* The object keeps its shape, and command_pid_ and command_type_ agree.
THEOREM TypeOKThm == Spec => []TypeOK
  BY Invariance, PTL DEF IInv
=============================================================================
