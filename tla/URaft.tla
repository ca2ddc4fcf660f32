-------------------------------- MODULE URaft --------------------------------
(***************************************************************************)
(* The election of leil-uraft (src/src/uraft/uraft.cc) between all nodes   *)
(* of a cluster.  Nodes exchange UDP packets that may be lost, delayed and *)
(* reordered; every handler runs on the io_context of its node and is one  *)
(* step.                                                                   *)
(*                                                                         *)
(* Time is discrete.  Heartbeat timers are exact and expire at the tick;   *)
(* packets and election timeouts happen between ticks, in any order, so an *)
(* agreement signed after the tick t has expired after the tick            *)
(* t + ElectionMin, as in the code it lasts until then at least.  An       *)
(* election timer may expire at any time from ElectionMin on (the random   *)
(* part and a late timer alike).                                           *)
(*                                                                         *)
(* local_time, the count of heartbeats, only enters through differences:   *)
(* heartbeat[j] is local_time minus node_[j].heartbeat, and a packet       *)
(* carries local_time minus its request's time.                            *)
(***************************************************************************)
EXTENDS Integers, FiniteSets

CONSTANTS
  Nodes, NoNode,
  HeartbeatPeriod,   \* opt_.heartbeat_period, in ticks
  ElectionMin,       \* opt_.election_timeout_min, in ticks
  Setups,            \* the set-ups to consider
  MaxTerm,           \* bound: terms
  MaxInFlight        \* bound: packets in flight

\* A set-up is a record of
\*   electors    nodes without a metadata server
\*   version     the version of each node's metadata
\*   grace       opt_.quorum_loss_grace_heartbeats
\*   assertions  is the program built with assertions?
\*   uses        what may happen: "restart", "demote", "hung" (nodeGetVersion
\*               times out)
\*   maxAge      bound: heartbeats a request and its response take (no bound
\*               if it is above the length of an agreement)
ASSUME URaftAssumption ==
  /\ IsFiniteSet(Nodes) /\ Nodes # {} /\ NoNode \notin Nodes
  /\ HeartbeatPeriod \in Nat \ {0} /\ ElectionMin \in Nat /\ ElectionMin >= HeartbeatPeriod
  /\ MaxTerm \in Nat /\ MaxInFlight \in Nat
  /\ \A setup \in Setups :
       /\ setup.electors \subseteq Nodes /\ setup.version \in [Nodes -> Nat]
       /\ setup.grace \in Nat /\ setup.assertions \in BOOLEAN /\ setup.maxAge \in Nat

VARIABLES
  node,   \* the uRaft object of each node
  net,    \* packets in flight
  use     \* one of the set-ups

vars == <<node, net, use>>

quorum == Cardinality(Nodes) \div 2 + 1

\* A heartbeat this old or older is the same as none.
Stale == ElectionMin \div HeartbeatPeriod

-----------------------------------------------------------------------------
(* The uRaft object. *)

Object(beatIn, loyalty) ==
  [type |-> "Follower", term |-> 0, votedFor |-> NoNode, leader |-> NoNode,
   president |-> FALSE, streak |-> 0, version |-> 0,
   loyalty |-> loyalty,          \* ticks left of loyalty_agreement, 0: none
   electionIn |-> ElectionMin,   \* ticks before the election timer may expire
   beatIn |-> beatIn,            \* ticks before the tick of the heartbeat timer
   granted |-> {}, recv |-> {},  \* vote_granted and recv of the nodes
   heartbeat |-> [j \in Nodes |-> Stale]]

\* Mutant: a node that starts has no agreement to wait for.
FaultyNewNode(beatIn) == Object(beatIn, 0)

\* The constructor and init(); the heartbeat timer has a phase of its own.
NewNode(beatIn) == Object(beatIn, ElectionMin)

startElectionTimer(r) == [r EXCEPT !.electionIn = ElectionMin]

signLoyaltyAgreement(r) == [r EXCEPT !.loyalty = ElectionMin]

\* Mutant: the heartbeat period in which the agreement ends counts as loyal.
FaultyLoyal(r) == {j \in Nodes : HeartbeatPeriod * r.heartbeat[j] <= ElectionMin}

\* voteCount(true) counts these.
Loyal(r) == {j \in Nodes : HeartbeatPeriod * (r.heartbeat[j] + 1) <= ElectionMin}

\* What nodeGetVersion may return.
nodeGetVersion(n) ==
  IF n \in use.electors THEN {0}
  ELSE {use.version[n]} \cup (IF "hung" \in use.uses THEN {0} ELSE {})

\* vote_granted and recv are read of a candidate only; those of a president are
\* kept, as the code does.
ForgetVotes(r) == [r EXCEPT !.granted = {}, !.recv = {}]

\* Mutant: the node stays president and goes on counting.
FaultyStepDown(r, term) ==
  ForgetVotes(startElectionTimer(
    [r EXCEPT !.term = term, !.type = "Follower", !.votedFor = NoNode, !.leader = NoNode]))

stepDownToFollower(r, term) ==
  ForgetVotes(startElectionTimer(
    [r EXCEPT !.term = term, !.type = "Follower", !.president = FALSE,
              !.votedFor = NoNode, !.leader = NoNode, !.streak = 0]))

checkTerm(r, p) == IF p.term > r.term THEN stepDownToFollower(r, p.term) ELSE r

-----------------------------------------------------------------------------
(* Packets. *)

Packet(type, r, n, j, age, result) ==
  [type |-> type, from |-> n, to |-> j, term |-> r.term, age |-> age,
   version |-> r.version, result |-> result]

sendHeartbeat(r, n) == {Packet("Append", r, n, j, 0, FALSE) : j \in Nodes \ {n}}

sendRequestForVotes(r, n) == {Packet("ReqVote", r, n, j, 0, FALSE) : j \in Nodes \ r.recv}

\* Some of the packets are lost at once.
Carry(old, sent) == {old \cup S : S \in {T \in SUBSET sent :
                                           Cardinality(old \cup T) <= MaxInFlight}}

-----------------------------------------------------------------------------
(* Timers. *)

\* heartbeat(): the object it leaves and the packets it sends.
heartbeat(r0, n) ==
  LET r == [r0 EXCEPT !.heartbeat = [j \in Nodes |->
                         IF j = n THEN 0 ELSE IF @[j] < Stale THEN @[j] + 1 ELSE Stale]]
      hasQuorum == r.type = "Leader" /\ Cardinality(Loyal(r)) >= quorum
      missed == [r EXCEPT !.streak = @ + 1]
  IN CASE r.president /\ ~hasQuorum /\ r.streak + 1 < use.grace ->
            [node |-> missed, sent |-> sendHeartbeat(missed, n)]
       [] r.president /\ ~hasQuorum /\ r.streak + 1 >= use.grace ->
            [node |-> stepDownToFollower(missed, r.term), sent |-> {}]
       [] OTHER ->
            [node |-> [r EXCEPT !.president = hasQuorum,
                                !.streak = IF r.president THEN 0 ELSE @],
             sent |-> CASE r.type = "Candidate" -> sendRequestForVotes(r, n)
                        [] r.type = "Leader" -> sendHeartbeat(r, n)
                        [] r.type = "Follower" -> {}]

\* A tick: agreements and election timers run on, and the nodes whose heartbeat
\* timer expires call heartbeat().  Packets that are too old are lost.
Tick ==
  LET Earlier(k) == IF k > 0 THEN k - 1 ELSE 0
      due == {n \in Nodes : node[n].beatIn = 0}
      ran == [n \in Nodes |->
                [node[n] EXCEPT !.loyalty = Earlier(@),
                                !.electionIn = IF node[n].type = "Leader" THEN @ ELSE Earlier(@),
                                !.beatIn = IF n \in due THEN HeartbeatPeriod - 1 ELSE @ - 1]]
      \* the node whose local_time a packet's age is about
      Clock(p) == IF p.type \in {"Append", "ReqVote"} THEN p.from ELSE p.to
      \* without a bound the age of a vote is of no use
      Ages(p) == use.maxAge <= Stale \/ p.type \in {"Append", "AppendResponse"}
      Aged(p) == [p EXCEPT !.age = IF Clock(p) \in due /\ Ages(p) /\ @ < Stale THEN @ + 1 ELSE @]
      sent == UNION {heartbeat(ran[n], n).sent : n \in due}
  IN /\ node' = [n \in Nodes |-> IF n \in due THEN heartbeat(ran[n], n).node ELSE ran[n]]
     /\ net' \in Carry({p \in {Aged(q) : q \in net} : p.age < use.maxAge}, sent)

\* electionTimeout() in a cluster of several nodes.  The controller blocks the
\* candidacy of an elector, and of a node whose metadata server is not well:
\* such a timer is started again, as if it had not expired.
electionTimeout(n) ==
  /\ node[n].type # "Leader" /\ node[n].electionIn = 0
  /\ n \notin use.electors /\ node[n].term < MaxTerm
  /\ \E version \in nodeGetVersion(n) :
       LET r == [node[n] EXCEPT
                   !.type = "Candidate", !.term = @ + 1, !.votedFor = n,
                   !.granted = {n}, !.recv = {n}, !.heartbeat[n] = 0,
                   !.version = version]
       IN /\ node' = [node EXCEPT ![n] = startElectionTimer(r)]
          /\ net' \in Carry(net, sendRequestForVotes(r, n))

-----------------------------------------------------------------------------
(* Packets are received; checkTerm(r, p) has been called. *)

\* The object after the abort of a failed assertion: the process starts again.
Aborted == NewNode(HeartbeatPeriod - 1)

\* rpcAppend() when nodeGetVersion() returns version.
rpcAppend(r, p, version) ==
  LET n == p.to
      followed == [r EXCEPT
        !.version = IF n \in use.electors THEN IF p.version > @ THEN p.version ELSE @
                    ELSE IF p.from # r.leader THEN version ELSE @,
        !.leader = p.from, !.type = "Follower"]
  IN CASE use.assertions /\ r.type = "Leader" -> [node |-> Aborted, sent |-> {}]
       [] p.term < r.term /\ ~(use.assertions /\ r.type = "Leader") ->
            [node |-> r, sent |-> {Packet("AppendResponse", r, n, p.from, p.age, FALSE)}]
       [] p.term >= r.term /\ ~(use.assertions /\ r.type = "Leader") ->
            [node |-> startElectionTimer(signLoyaltyAgreement(
                        IF r.president THEN followed ELSE ForgetVotes(followed))),
             sent |-> {Packet("AppendResponse", followed, n, p.from, p.age, TRUE)}]

rpcAppendResponse(r, p) ==
  LET counts == p.term >= r.term /\ r.type = "Leader"
  IN [node |-> IF counts /\ p.age < r.heartbeat[p.from]
               THEN [r EXCEPT !.heartbeat[p.from] = p.age] ELSE r,
      sent |-> {}]

\* Mutant: a second candidate of the term gets the vote as well.
FaultyVote(r, p) ==
  /\ r.type = "Follower" /\ p.term >= r.term /\ p.version >= r.version
  /\ r.loyalty > 0 => r.leader = p.from

\* Mutant: the candidate's version is not compared.
FaultyVoteVersion(r, p) ==
  /\ r.type = "Follower" /\ p.term >= r.term
  /\ IF r.loyalty > 0 THEN r.leader = p.from ELSE r.votedFor \in {NoNode, p.from}

\* Mutant: a node that is loyal to a leader votes for another candidate.
FaultyVoteLoyalty(r, p) ==
  /\ r.type = "Follower" /\ p.term >= r.term /\ p.version >= r.version
  /\ r.votedFor \in {NoNode, p.from}

\* The result of rpcReqVote().
Vote(r, p) ==
  /\ r.type = "Follower" /\ p.term >= r.term /\ p.version >= r.version
  /\ IF r.loyalty > 0 THEN r.leader = p.from ELSE r.votedFor \in {NoNode, p.from}

rpcReqVote(r, p, version) ==
  LET n == p.to
      asked == [r EXCEPT !.version = IF r.votedFor = NoNode /\ n \notin use.electors THEN version ELSE @]
      vote == Vote(asked, p)
  IN [node |-> IF vote THEN startElectionTimer([asked EXCEPT !.votedFor = p.from]) ELSE asked,
      sent |-> {Packet("VoteResponse", asked, n, p.from, p.age, vote)}]

rpcReqVoteResponse(r, p) ==
  LET n == p.to
      told == [r EXCEPT !.granted = IF p.result THEN @ \cup {p.from} ELSE @ \ {p.from},
                        !.recv = @ \cup {p.from}]
      won == startElectionTimer([told EXCEPT !.type = "Leader", !.leader = n, !.recv = {}])
  IN IF p.term < r.term \/ r.type # "Candidate" THEN [node |-> r, sent |-> {}]
     ELSE IF Cardinality(told.granted) < quorum THEN [node |-> told, sent |-> {}]
     ELSE [node |-> won, sent |-> sendHeartbeat(won, n)]

receivePacket(p) ==
  \E version \in nodeGetVersion(p.to) :
    LET r == checkTerm(node[p.to], p)
        handled == CASE p.type = "Append" -> rpcAppend(r, p, version)
                     [] p.type = "ReqVote" -> rpcReqVote(r, p, version)
                     [] p.type = "AppendResponse" -> rpcAppendResponse(r, p)
                     [] p.type = "VoteResponse" -> rpcReqVoteResponse(r, p)
    IN /\ node' = [node EXCEPT ![p.to] = handled.node]
       /\ net' \in Carry(net \ {p}, handled.sent)

-----------------------------------------------------------------------------
(* What else happens to a node. *)

\* The controller gives up leadership: the promotion failed or the metadata
\* server is dead.
demoteLeader(n) ==
  /\ "demote" \in use.uses /\ node[n].type # "Follower"
  /\ node' = [node EXCEPT ![n] = stepDownToFollower(@, node[n].term)]
  /\ UNCHANGED net

\* The process starts again; nothing was saved, and the packets of its old
\* socket are lost.
Restart(n) ==
  /\ "restart" \in use.uses
  /\ node' = [node EXCEPT ![n] = NewNode(HeartbeatPeriod - 1)]
  /\ net' = {p \in net : n \notin {p.from, p.to}}

-----------------------------------------------------------------------------

Init ==
  /\ \E phase \in [Nodes -> 0 .. HeartbeatPeriod - 1] :
       node = [n \in Nodes |-> NewNode(phase[n])]
  /\ net = {}
  /\ use \in Setups

Step ==
  \/ Tick
  \/ \E n \in Nodes : electionTimeout(n)
  \/ \E p \in net : receivePacket(p)
  \/ \E n \in Nodes : demoteLeader(n) \/ Restart(n)

Next == Step /\ UNCHANGED use

Spec == Init /\ [][Next]_vars

-----------------------------------------------------------------------------

\* The objects keep their types; the streak of missed quorums in heartbeat() ends
\* with the grace.
TypeOK ==
  /\ \A n \in Nodes :
       /\ node[n].type \in {"Follower", "Candidate", "Leader"}
       /\ node[n].term \in 0 .. MaxTerm
       /\ node[n].votedFor \in Nodes \cup {NoNode} /\ node[n].leader \in Nodes \cup {NoNode}
       /\ node[n].streak \in 0 .. use.grace
       /\ node[n].loyalty \in 0 .. ElectionMin /\ node[n].electionIn \in 0 .. ElectionMin
       /\ node[n].beatIn \in 0 .. HeartbeatPeriod - 1
       /\ node[n].heartbeat \in [Nodes -> 0 .. Stale]
  /\ Cardinality(net) <= MaxInFlight

\* "there can be only one President at the time" (uraft.h): the promise of the
\* whole protocol, votes, agreements and the president's count of loyal nodes
\* in heartbeat() together.
OnePresident == Cardinality({n \in Nodes : node[n].president}) <= 1

\* While a node is president and has not missed a heartbeat's quorum, the nodes
\* that signed a loyalty agreement which has not run out, with the president,
\* make a quorum: no other candidate can be elected meanwhile.
PresidentHasLoyalQuorum ==
  \A n \in Nodes :
    node[n].president /\ node[n].streak = 0 =>
      Cardinality({j \in Nodes : j = n \/ node[j].loyalty > 0}) >= quorum

\* A term has at most one leader: rpcReqVote() gives one vote in a term.
OneLeaderPerTerm ==
  \A a, b \in Nodes :
    a # b /\ node[a].type = "Leader" /\ node[b].type = "Leader" => node[a].term # node[b].term

\* "selected President has greater or equal value of version variable than all
\* other nodes making quorum" (uraft.h): the metadata of a leader is not older
\* than that of a node that voted for it, nor than the newest an elector that
\* voted for it has heard of.
LeaderHasNewestVersion ==
  LET Known(j, term) == IF j \notin use.electors THEN use.version[j]
                        ELSE IF node[j].term = term THEN node[j].version ELSE 0
  IN \A n \in Nodes :
       node[n].type = "Leader" =>
         \A j \in node[n].granted : use.version[n] >= Known(j, node[n].term)

=============================================================================
