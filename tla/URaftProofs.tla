----------------------------- MODULE URaftProofs -----------------------------
(***************************************************************************)
(* The steps of URaft in terms of the fields of the objects and packets    *)
(* they change, and from this that the objects keep their types, for any   *)
(* set of nodes.  Each method of uRaft has a lemma that says what it does  *)
(* to the fields of an object; each step then is one of five: a tick, a    *)
(* packet received, a node that stands for election, one that gives up,    *)
(* and one that starts again.                                              *)
(***************************************************************************)
EXTENDS URaft, FiniteSetTheorems, TLAPS

\* The uRaft object ...
Objects ==
  [type : {"Follower", "Candidate", "Leader"}, term : 0 .. MaxTerm,
   votedFor : Nodes \cup {NoNode}, leader : Nodes \cup {NoNode},
   president : BOOLEAN, streak : 0 .. use.grace, version : Nat,
   loyalty : 0 .. ElectionMin, electionIn : 0 .. ElectionMin,
   beatIn : 0 .. HeartbeatPeriod - 1,
   granted : SUBSET Nodes, recv : SUBSET Nodes,
   heartbeat : [Nodes -> 0 .. Stale]]

\* ... and a packet.
Packets ==
  [type : {"Append", "AppendResponse", "ReqVote", "VoteResponse"},
   from : Nodes, to : Nodes, term : 0 .. MaxTerm, age : 0 .. Stale,
   version : Nat, result : BOOLEAN]

-----------------------------------------------------------------------------
(* What the methods of the object do to its fields. *)

\* Beats of a clock with HeartbeatPeriod ticks each.
LEMMA StaleFacts ==
  /\ Stale \in Nat /\ Stale >= 1
  /\ \A h \in Nat : HeartbeatPeriod * h \in Nat
  /\ \A h \in Nat : HeartbeatPeriod * (h + 1) = HeartbeatPeriod * h + HeartbeatPeriod
  /\ \A h, g \in Nat : h <= g => HeartbeatPeriod * h <= HeartbeatPeriod * g
  /\ \A h \in Nat : h < Stale <=> HeartbeatPeriod * (h + 1) <= ElectionMin
  <1>1. Stale \in Nat /\ Stale >= 1
    BY URaftAssumption DEF Stale
  <1>2. HeartbeatPeriod * Stale <= ElectionMin /\ ElectionMin < HeartbeatPeriod * (Stale + 1)
    BY URaftAssumption DEF Stale
  <1>3. ASSUME NEW h \in Nat
        PROVE  /\ HeartbeatPeriod * h \in Nat
               /\ HeartbeatPeriod * (h + 1) = HeartbeatPeriod * h + HeartbeatPeriod
    BY URaftAssumption
  <1>4. ASSUME NEW h \in Nat, NEW g \in Nat, h <= g
        PROVE  HeartbeatPeriod * h <= HeartbeatPeriod * g
    <2>1. /\ HeartbeatPeriod * (g - h) >= 0
          /\ HeartbeatPeriod * (g - h) = HeartbeatPeriod * g - HeartbeatPeriod * h
      BY <1>4, URaftAssumption
    <2> QED
      BY <1>3, <2>1
  <1>5. ASSUME NEW h \in Nat, h < Stale PROVE HeartbeatPeriod * (h + 1) <= ElectionMin
    <2>1. HeartbeatPeriod * (h + 1) <= HeartbeatPeriod * Stale
      BY <1>1, <1>4, <1>5
    <2> QED
      BY <1>1, <1>2, <1>3, <2>1, URaftAssumption
  <1>6. ASSUME NEW h \in Nat, ~(h < Stale) PROVE ~(HeartbeatPeriod * (h + 1) <= ElectionMin)
    <2>1. HeartbeatPeriod * (Stale + 1) <= HeartbeatPeriod * (h + 1)
      BY <1>1, <1>4, <1>6
    <2> QED
      BY <1>1, <1>2, <1>3, <2>1, URaftAssumption
  <1> QED
    BY <1>1, <1>3, <1>4, <1>5, <1>6

\* Boundary values of the fields are in their ranges.
LEMMA UseFacts ==
  ASSUME use \in Setups
  PROVE  /\ use.grace \in Nat /\ 0 \in 0 .. use.grace
         /\ 0 \in 0 .. MaxTerm /\ 0 \in 0 .. Stale /\ Stale \in 0 .. Stale
         /\ ElectionMin \in 0 .. ElectionMin
         /\ HeartbeatPeriod - 1 \in 0 .. HeartbeatPeriod - 1
         /\ \A n \in Nodes : nodeGetVersion(n) \subseteq Nat
  BY URaftAssumption, StaleFacts DEF nodeGetVersion

\* The constructor and init(), also after an abort.
LEMMA NewNodeEffect ==
  ASSUME use \in Setups, NEW b \in 0 .. HeartbeatPeriod - 1, NEW s, s = NewNode(b)
  PROVE  /\ s \in Objects
         /\ s.type = "Follower" /\ s.term = 0 /\ ~s.president /\ s.streak = 0
         /\ s.votedFor = NoNode /\ s.leader = NoNode /\ s.granted = {} /\ s.recv = {}
         /\ s.loyalty = ElectionMin /\ s.electionIn = ElectionMin /\ s.beatIn = b
         /\ s.heartbeat = [j \in Nodes |-> Stale]
  <1>1. [j \in Nodes |-> Stale] \in [Nodes -> 0 .. Stale] /\ 0 \in Nat
    BY UseFacts
  <1> HIDE DEF Stale
  <1> QED
    BY <1>1, UseFacts, ZenonT(60) DEF NewNode, Object, Objects

\* stepDownToFollower.
LEMMA StepDownEffect ==
  ASSUME use \in Setups, NEW r \in Objects, NEW t \in 0 .. MaxTerm,
         NEW s, s = stepDownToFollower(r, t)
  PROVE  /\ s \in Objects
         /\ s.type = "Follower" /\ s.term = t /\ ~s.president /\ s.streak = 0
         /\ s.votedFor = NoNode /\ s.leader = NoNode /\ s.granted = {} /\ s.recv = {}
         /\ s.version = r.version /\ s.loyalty = r.loyalty /\ s.heartbeat = r.heartbeat
         /\ s.electionIn = ElectionMin /\ s.beatIn = r.beatIn
  BY UseFacts, ZenonT(60) DEF stepDownToFollower, startElectionTimer, ForgetVotes, Objects

\* rpcAppend when the request is accepted.
HeardVersion(r, p, version) ==
  IF p.to \in use.electors THEN IF p.version > r.version THEN p.version ELSE r.version
  ELSE IF p.from # r.leader THEN version ELSE r.version

Accepted(r, p, version) ==
  LET followed == [r EXCEPT !.version = HeardVersion(r, p, version),
                            !.leader = p.from, !.type = "Follower"]
  IN startElectionTimer(signLoyaltyAgreement(
       IF r.president THEN followed ELSE ForgetVotes(followed)))

\* An accepted append makes a follower that has just signed an agreement with the sender.
LEMMA AcceptedEffect ==
  ASSUME use \in Setups, NEW r \in Objects, NEW p \in Packets, NEW version \in Nat,
         NEW s, s = Accepted(r, p, version)
  PROVE  /\ s \in Objects
         /\ s.type = "Follower" /\ s.term = r.term /\ s.president = r.president
         /\ s.streak = r.streak /\ s.votedFor = r.votedFor /\ s.leader = p.from
         /\ r.president => s.granted = r.granted
         /\ ~r.president => s.granted = {}
         /\ s.version = HeardVersion(r, p, version)
         /\ s.loyalty = ElectionMin /\ s.electionIn = ElectionMin
         /\ s.beatIn = r.beatIn /\ s.heartbeat = r.heartbeat
  <1> DEFINE v == HeardVersion(r, p, version)
             followed == [r EXCEPT !.version = v, !.leader = p.from, !.type = "Follower"]
  <1>1. v \in Nat /\ p.from \in Nodes
    BY DEF Objects, Packets, HeardVersion
  <1>3. CASE r.president
    <2>1. s = startElectionTimer(signLoyaltyAgreement(followed))
      BY <1>3, Zenon DEF Accepted
    <2> HIDE DEF v
    <2>2. /\ s \in Objects
          /\ s.type = "Follower" /\ s.term = r.term /\ s.president = r.president
          /\ s.streak = r.streak /\ s.votedFor = r.votedFor /\ s.leader = p.from
          /\ s.granted = r.granted
          /\ s.version = v
          /\ s.loyalty = ElectionMin /\ s.electionIn = ElectionMin
          /\ s.beatIn = r.beatIn /\ s.heartbeat = r.heartbeat
      BY <1>1, <2>1, UseFacts, ZenonT(60)
         DEF startElectionTimer, signLoyaltyAgreement, Objects
    <2> QED
      BY <1>3, <2>2 DEF v
  <1>4. CASE ~r.president
    <2>1. s = startElectionTimer(signLoyaltyAgreement(ForgetVotes(followed)))
      BY <1>4, Zenon DEF Accepted
    <2> HIDE DEF v
    <2>2. /\ s \in Objects
          /\ s.type = "Follower" /\ s.term = r.term /\ s.president = r.president
          /\ s.streak = r.streak /\ s.votedFor = r.votedFor /\ s.leader = p.from
          /\ s.granted = {}
          /\ s.version = v
          /\ s.loyalty = ElectionMin /\ s.electionIn = ElectionMin
          /\ s.beatIn = r.beatIn /\ s.heartbeat = r.heartbeat
      BY <1>1, <2>1, UseFacts, ZenonT(60)
         DEF startElectionTimer, signLoyaltyAgreement, ForgetVotes, Objects
    <2> QED
      BY <1>4, <2>2 DEF v
  <1> QED
    BY <1>3, <1>4

\* rpcReqVote asks for the version of the metadata ...
Asked(r, n, version) ==
  [r EXCEPT !.version = IF r.votedFor = NoNode /\ n \notin use.electors THEN version ELSE @]

\* Only the version may change.
LEMMA AskedEffect ==
  ASSUME NEW r \in Objects, NEW n \in Nodes, NEW version \in Nat,
         NEW s, s = Asked(r, n, version)
  PROVE  /\ s \in Objects
         /\ s.type = r.type /\ s.term = r.term /\ s.president = r.president
         /\ s.streak = r.streak /\ s.votedFor = r.votedFor /\ s.leader = r.leader
         /\ s.granted = r.granted /\ s.recv = r.recv
         /\ s.loyalty = r.loyalty /\ s.electionIn = r.electionIn
         /\ s.beatIn = r.beatIn /\ s.heartbeat = r.heartbeat
  <1> DEFINE v == IF r.votedFor = NoNode /\ n \notin use.electors
                  THEN version ELSE r.version
  <1>1. v \in Nat
    BY DEF Objects
  <1>2. s = [r EXCEPT !.version = v]
    BY Zenon DEF Asked
  <1> HIDE DEF v
  <1>3. s \in Objects
    BY <1>1, <1>2, ZenonT(60) DEF Objects
  <1>4. /\ s.type = r.type /\ s.term = r.term /\ s.president = r.president
        /\ s.streak = r.streak /\ s.votedFor = r.votedFor /\ s.leader = r.leader
        /\ s.granted = r.granted /\ s.recv = r.recv
        /\ s.loyalty = r.loyalty /\ s.electionIn = r.electionIn
        /\ s.beatIn = r.beatIn /\ s.heartbeat = r.heartbeat
    BY <1>2, ZenonT(60) DEF Objects
  <1> QED
    BY <1>3, <1>4

\* ... and may grant the vote.
Granted(r, j) == startElectionTimer([r EXCEPT !.votedFor = j])

\* A vote starts the election timer again.
LEMMA GrantedEffect ==
  ASSUME use \in Setups, NEW r \in Objects, NEW j \in Nodes, NEW s, s = Granted(r, j)
  PROVE  /\ s \in Objects
         /\ s.type = r.type /\ s.term = r.term /\ s.president = r.president
         /\ s.streak = r.streak /\ s.votedFor = j /\ s.leader = r.leader
         /\ s.granted = r.granted /\ s.recv = r.recv
         /\ s.loyalty = r.loyalty /\ s.electionIn = ElectionMin
         /\ s.beatIn = r.beatIn /\ s.heartbeat = r.heartbeat /\ s.version = r.version
  BY UseFacts, ZenonT(60) DEF Granted, startElectionTimer, Objects

\* rpcReqVoteResponse records a vote ...
Told(r, p) ==
  [r EXCEPT !.granted = IF p.result THEN @ \cup {p.from} ELSE @ \ {p.from},
            !.recv = @ \cup {p.from}]

\* The voter has answered.
LEMMA ToldEffect ==
  ASSUME NEW r \in Objects, NEW p \in Packets, NEW s, s = Told(r, p)
  PROVE  /\ s \in Objects
         /\ s.type = r.type /\ s.term = r.term /\ s.president = r.president
         /\ s.streak = r.streak /\ s.votedFor = r.votedFor /\ s.leader = r.leader
         /\ s.recv = r.recv \cup {p.from}
         /\ p.result => s.granted = r.granted \cup {p.from}
         /\ ~p.result => s.granted = r.granted \ {p.from}
         /\ s.loyalty = r.loyalty /\ s.electionIn = r.electionIn
         /\ s.beatIn = r.beatIn /\ s.heartbeat = r.heartbeat /\ s.version = r.version
  <1> DEFINE g == IF p.result THEN r.granted \cup {p.from} ELSE r.granted \ {p.from}
             v == r.recv \cup {p.from}
  <1>1. g \subseteq Nodes /\ v \subseteq Nodes
    BY DEF Objects, Packets
  <1>2. s = [r EXCEPT !.granted = g, !.recv = v]
    BY Zenon DEF Told, Objects
  <1> HIDE DEF g, v
  <1>3. /\ s \in Objects /\ s.granted = g /\ s.recv = v
    BY <1>1, <1>2, ZenonT(60) DEF Objects
  <1>4. /\ s.type = r.type /\ s.term = r.term /\ s.president = r.president
        /\ s.streak = r.streak /\ s.votedFor = r.votedFor /\ s.leader = r.leader
        /\ s.loyalty = r.loyalty /\ s.electionIn = r.electionIn
        /\ s.beatIn = r.beatIn /\ s.heartbeat = r.heartbeat /\ s.version = r.version
    BY <1>2, ZenonT(60) DEF Objects
  <1> QED
    BY <1>3, <1>4 DEF g, v

\* ... and may complete a quorum.
Won(r, n) == startElectionTimer([r EXCEPT !.type = "Leader", !.leader = n, !.recv = {}])

\* A candidate becomes the leader of its term, and keeps its votes.
LEMMA WonEffect ==
  ASSUME use \in Setups, NEW r \in Objects, NEW n \in Nodes, NEW s, s = Won(r, n)
  PROVE  /\ s \in Objects
         /\ s.type = "Leader" /\ s.term = r.term /\ s.president = r.president
         /\ s.streak = r.streak /\ s.votedFor = r.votedFor /\ s.leader = n
         /\ s.granted = r.granted
         /\ s.loyalty = r.loyalty /\ s.electionIn = ElectionMin
         /\ s.beatIn = r.beatIn /\ s.heartbeat = r.heartbeat /\ s.version = r.version
  BY UseFacts, ZenonT(60) DEF Won, startElectionTimer, Objects

\* rpcAppendResponse notes the age of a response.
Noted(r, p) == [r EXCEPT !.heartbeat[p.from] = p.age]

\* One age changes.
LEMMA NotedEffect ==
  ASSUME NEW r \in Objects, NEW p \in Packets, NEW s, s = Noted(r, p)
  PROVE  /\ s \in Objects
         /\ s.type = r.type /\ s.term = r.term /\ s.president = r.president
         /\ s.streak = r.streak /\ s.votedFor = r.votedFor /\ s.leader = r.leader
         /\ s.granted = r.granted /\ s.recv = r.recv
         /\ s.loyalty = r.loyalty /\ s.electionIn = r.electionIn
         /\ s.beatIn = r.beatIn /\ s.version = r.version
         /\ \A j \in Nodes : s.heartbeat[j] = IF j = p.from THEN p.age ELSE r.heartbeat[j]
  <1> DEFINE hb == [r.heartbeat EXCEPT ![p.from] = p.age]
  <1>1. hb \in [Nodes -> 0 .. Stale]
    BY DEF Objects, Packets
  <1>2. s = [r EXCEPT !.heartbeat = hb]
    BY Zenon DEF Noted
  <1> HIDE DEF hb
  <1>3. /\ s \in Objects /\ s.heartbeat = hb
        /\ s.type = r.type /\ s.term = r.term /\ s.president = r.president
        /\ s.streak = r.streak /\ s.votedFor = r.votedFor /\ s.leader = r.leader
        /\ s.granted = r.granted /\ s.recv = r.recv
        /\ s.loyalty = r.loyalty /\ s.electionIn = r.electionIn
        /\ s.beatIn = r.beatIn /\ s.version = r.version
    BY <1>1, <1>2, ZenonT(60) DEF Objects
  <1> QED
    BY <1>3 DEF hb, Objects

\* electionTimeout makes the node a candidate.
Standing(r, n, version) ==
  startElectionTimer(
    [r EXCEPT !.type = "Candidate", !.term = @ + 1, !.votedFor = n,
              !.granted = {n}, !.recv = {n}, !.heartbeat[n] = 0, !.version = version])

\* The candidate of the next term votes for itself.
LEMMA StandingEffect ==
  ASSUME use \in Setups, NEW r \in Objects, NEW n \in Nodes, NEW version \in Nat,
         r.term + 1 \in 0 .. MaxTerm, NEW s, s = Standing(r, n, version)
  PROVE  /\ s \in Objects
         /\ s.type = "Candidate" /\ s.term = r.term + 1 /\ s.president = r.president
         /\ s.streak = r.streak /\ s.votedFor = n /\ s.leader = r.leader
         /\ s.granted = {n} /\ s.recv = {n}
         /\ s.loyalty = r.loyalty /\ s.electionIn = ElectionMin
         /\ s.beatIn = r.beatIn /\ s.version = version
         /\ \A j \in Nodes : s.heartbeat[j] = IF j = n THEN 0 ELSE r.heartbeat[j]
  <1> DEFINE hb == [r.heartbeat EXCEPT ![n] = 0]
             t == r.term + 1
  <1>1. hb \in [Nodes -> 0 .. Stale] /\ t \in 0 .. MaxTerm /\ {n} \in SUBSET Nodes
    BY UseFacts, URaftAssumption DEF Objects
  <1>2. s = startElectionTimer(
              [r EXCEPT !.type = "Candidate", !.term = t, !.votedFor = n,
                        !.granted = {n}, !.recv = {n}, !.heartbeat = hb, !.version = version])
    BY Zenon DEF Standing, Objects
  <1> HIDE DEF hb, t
  <1>3. s \in Objects
    BY <1>1, <1>2, UseFacts, ZenonT(60) DEF startElectionTimer, Objects
  <1>4. /\ s.type = "Candidate" /\ s.term = t /\ s.president = r.president
        /\ s.streak = r.streak /\ s.votedFor = n /\ s.leader = r.leader
        /\ s.granted = {n} /\ s.recv = {n}
        /\ s.loyalty = r.loyalty /\ s.electionIn = ElectionMin
        /\ s.beatIn = r.beatIn /\ s.version = version /\ s.heartbeat = hb
    BY <1>1, <1>2, ZenonT(60) DEF startElectionTimer, Objects
  <1> QED
    BY <1>3, <1>4 DEF hb, t, Objects

\* The packets of sendHeartbeat and sendRequestForVotes.
LEMMA SentEffect ==
  ASSUME use \in Setups, NEW r \in Objects, NEW n \in Nodes
  PROVE  /\ \A p \in sendHeartbeat(r, n) :
              /\ p \in Packets /\ p.type = "Append" /\ p.from = n /\ p.to # n
              /\ p.term = r.term /\ p.age = 0 /\ p.version = r.version
         /\ n \in r.recv => \A p \in sendRequestForVotes(r, n) :
              /\ p \in Packets /\ p.type = "ReqVote" /\ p.from = n /\ p.to # n
              /\ p.term = r.term /\ p.age = 0 /\ p.version = r.version
         /\ IsFiniteSet(sendHeartbeat(r, n)) /\ IsFiniteSet(sendRequestForVotes(r, n))
  <1>2. ASSUME NEW p \in sendHeartbeat(r, n)
        PROVE  /\ p \in Packets /\ p.type = "Append" /\ p.from = n /\ p.to # n
               /\ p.term = r.term /\ p.age = 0 /\ p.version = r.version
    <2>1. PICK j \in Nodes \ {n} : p = Packet("Append", r, n, j, 0, FALSE)
      BY <1>2, Zenon DEF sendHeartbeat
    <2>2. j # n /\ j \in Nodes
      OBVIOUS
    <2> QED
      BY <2>1, <2>2, UseFacts, ZenonT(60) DEF Packet, Packets, Objects
  <1>3. ASSUME n \in r.recv, NEW p \in sendRequestForVotes(r, n)
        PROVE  /\ p \in Packets /\ p.type = "ReqVote" /\ p.from = n /\ p.to # n
               /\ p.term = r.term /\ p.age = 0 /\ p.version = r.version
    <2>1. PICK j \in Nodes \ r.recv : p = Packet("ReqVote", r, n, j, 0, FALSE)
      BY <1>3, Zenon DEF sendRequestForVotes
    <2>2. j # n /\ j \in Nodes
      BY <1>3
    <2> QED
      BY <2>1, <2>2, UseFacts, ZenonT(60) DEF Packet, Packets, Objects
  <1>4. ASSUME NEW type, NEW S \in SUBSET Nodes
        PROVE  IsFiniteSet({Packet(type, r, n, j, 0, FALSE) : j \in S})
    <2> DEFINE T == {Packet(type, r, n, j, 0, FALSE) : j \in S}
               f == [j \in S |-> Packet(type, r, n, j, 0, FALSE)]
    <2>1. f \in Surjection(S, T)
      BY Zenon DEF Surjection
    <2>2. IsFiniteSet(S)
      BY URaftAssumption, FS_Subset
    <2> HIDE DEF T, f
    <2>3. IsFiniteSet(T)
      BY <2>1, <2>2, FS_Surjection
    <2> QED
      BY <2>3 DEF T
  <1>5. IsFiniteSet(sendHeartbeat(r, n)) /\ IsFiniteSet(sendRequestForVotes(r, n))
    BY <1>4, Zenon DEF sendHeartbeat, sendRequestForVotes
  <1> QED
    BY <1>2, <1>3, <1>5

\* What heartbeat() does with the ages of the nodes' heartbeats.
Older(hb, n) ==
  [j \in Nodes |-> IF j = n THEN 0 ELSE IF hb[j] < Stale THEN hb[j] + 1 ELSE Stale]

\* heartbeat() finds a loyal quorum.
HasQuorum(r, n) ==
  r.type = "Leader" /\ Cardinality({j \in Nodes : Older(r.heartbeat, n)[j] < Stale}) >= quorum

\* What heartbeat() makes of the object r when its election timer is at e: a
\* president that misses its quorum waits ...
MissedBeat(r, s, n, e) ==
  /\ r.president /\ ~HasQuorum(r, n) /\ r.streak + 1 < use.grace
  /\ s.type = r.type /\ s.president /\ s.streak = r.streak + 1
  /\ s.votedFor = r.votedFor /\ s.leader = r.leader
  /\ s.granted = r.granted /\ s.recv = r.recv /\ s.electionIn = e

\* ... or steps down, ...
LostBeat(r, s, n) ==
  /\ r.president /\ ~HasQuorum(r, n) /\ r.streak + 1 >= use.grace
  /\ s.type = "Follower" /\ ~s.president
  /\ s.streak = 0 /\ s.votedFor = NoNode /\ s.leader = NoNode
  /\ s.granted = {} /\ s.recv = {} /\ s.electionIn = ElectionMin

\* ... and any other node is president iff it has a quorum.
PlainBeat(r, s, n, e) ==
  /\ ~r.president \/ HasQuorum(r, n)
  /\ s.type = r.type /\ (s.president <=> HasQuorum(r, n))
  /\ r.president => s.streak = 0
  /\ ~r.president => s.streak = r.streak
  /\ s.votedFor = r.votedFor /\ s.leader = r.leader
  /\ s.granted = r.granted /\ s.recv = r.recv /\ s.electionIn = e

\* A packet that the heartbeat of the node n, then s, sends.
BeatPacket(s, n, p) ==
  /\ p \in Packets /\ p.from = n /\ p.to # n
  /\ p.term = s.term /\ p.age = 0 /\ p.version = s.version
  /\ \/ p.type = "Append" /\ (s.type = "Leader" \/ s.president)
     \/ p.type = "ReqVote" /\ s.type = "Candidate"

\* heartbeat().
LEMMA HeartbeatEffect ==
  ASSUME use \in Setups, NEW r \in Objects, NEW n \in Nodes,
         r.type = "Candidate" => n \in r.recv,
         NEW s, s = heartbeat(r, n).node, NEW sent, sent = heartbeat(r, n).sent
  PROVE  /\ s \in Objects
         /\ s.loyalty = r.loyalty /\ s.beatIn = r.beatIn /\ s.version = r.version
         /\ s.heartbeat = Older(r.heartbeat, n) /\ s.term = r.term
         /\ \/ MissedBeat(r, s, n, r.electionIn)
            \/ LostBeat(r, s, n)
            \/ PlainBeat(r, s, n, r.electionIn)
         /\ IsFiniteSet(sent) /\ \A p \in sent : BeatPacket(s, n, p)
  <1> DEFINE o == [r EXCEPT !.heartbeat = Older(r.heartbeat, n)]
             has == o.type = "Leader" /\ Cardinality(Loyal(o)) >= quorum
             k == o.streak + 1
             missed == [o EXCEPT !.streak = k]
             z == IF o.president THEN 0 ELSE o.streak
             kept == [o EXCEPT !.president = has, !.streak = z]
  <1>0. Stale \in Nat
    BY StaleFacts
  <1>1. Older(r.heartbeat, n) \in [Nodes -> 0 .. Stale]
    BY <1>0 DEF Older, Objects
  <1>2. /\ o \in Objects /\ o.heartbeat = Older(r.heartbeat, n)
        /\ o.type = r.type /\ o.term = r.term /\ o.president = r.president
        /\ o.streak = r.streak /\ o.votedFor = r.votedFor /\ o.leader = r.leader
        /\ o.granted = r.granted /\ o.recv = r.recv
        /\ o.loyalty = r.loyalty /\ o.electionIn = r.electionIn
        /\ o.beatIn = r.beatIn /\ o.version = r.version
    BY <1>1, ZenonT(60) DEF Objects
  <1>3. Loyal(o) = {j \in Nodes : Older(r.heartbeat, n)[j] < Stale}
    <2>1. \A j \in Nodes : Older(r.heartbeat, n)[j] \in Nat
      BY <1>1, StaleFacts
    <2> QED
      BY <1>2, <2>1, StaleFacts DEF Loyal
  <1>4. has = HasQuorum(r, n) /\ has \in BOOLEAN
    BY <1>2, <1>3, Zenon DEF HasQuorum
  <1>5. heartbeat(r, n) =
          CASE o.president /\ ~has /\ k < use.grace ->
                 [node |-> missed, sent |-> sendHeartbeat(missed, n)]
            [] o.president /\ ~has /\ k >= use.grace ->
                 [node |-> stepDownToFollower(missed, o.term), sent |-> {}]
            [] OTHER ->
                 [node |-> kept,
                  sent |-> CASE o.type = "Candidate" -> sendRequestForVotes(o, n)
                             [] o.type = "Leader" -> sendHeartbeat(o, n)
                             [] o.type = "Follower" -> {}]
    BY DEF heartbeat, Older
  <1>6. o.streak \in Nat /\ k \in Nat /\ use.grace \in Nat /\ o.president \in BOOLEAN
    BY <1>2, UseFacts DEF Objects
  <1> HIDE DEF o, has
  <1>7. CASE r.president /\ ~HasQuorum(r, n) /\ r.streak + 1 < use.grace
    <2>1. s = missed /\ sent = sendHeartbeat(missed, n)
      <3>1. o.president /\ ~has /\ k < use.grace
        BY <1>2, <1>4, <1>7, Zenon
      <3>2. heartbeat(r, n) = [node |-> missed, sent |-> sendHeartbeat(missed, n)]
        <4> HIDE DEF missed, kept, k
        <4> QED
          BY <1>5, <1>6, <3>1
      <3> QED
        BY <3>2
    <2>2. k = r.streak + 1 /\ k \in 0 .. use.grace
      BY <1>2, <1>6, <1>7
    <2> HIDE DEF k
    <2>3. /\ s \in Objects /\ s.streak = k
          /\ s.loyalty = o.loyalty /\ s.beatIn = o.beatIn /\ s.version = o.version
          /\ s.heartbeat = o.heartbeat /\ s.term = o.term
          /\ s.type = o.type /\ s.president = o.president
          /\ s.votedFor = o.votedFor /\ s.leader = o.leader
          /\ s.granted = o.granted /\ s.recv = o.recv
          /\ s.electionIn = o.electionIn
      BY <1>2, <2>1, <2>2, ZenonT(60) DEF Objects
    <2>4. sent = sendHeartbeat(s, n)
      BY <2>1
    <2> HIDE DEF missed
    <2>5. /\ \A p \in sent :
                /\ p \in Packets /\ p.from = n /\ p.to # n
                /\ p.term = s.term /\ p.age = 0 /\ p.version = s.version
                /\ p.type = "Append" /\ s.president
          /\ IsFiniteSet(sent)
      <3>1. o.president
        BY <1>2, <1>7, Zenon
      <3> QED
        BY <2>3, <2>4, <3>1, SentEffect
    <2>6. MissedBeat(r, s, n, r.electionIn)
      BY <1>2, <1>7, <2>2, <2>3, Zenon DEF MissedBeat
    <2> QED
      BY <1>2, <2>3, <2>5, <2>6, Zenon DEF BeatPacket
  <1>8. CASE r.president /\ ~HasQuorum(r, n) /\ r.streak + 1 >= use.grace
    <2>1. s = stepDownToFollower(missed, o.term) /\ sent = {}
      <3>1. o.president /\ ~has /\ k >= use.grace
        BY <1>2, <1>4, <1>8, Zenon
      <3>2. ~(k < use.grace)
        BY <1>6, <3>1
      <3>3. heartbeat(r, n) = [node |-> stepDownToFollower(missed, o.term), sent |-> {}]
        <4> HIDE DEF missed, kept, k
        <4> QED
          BY <1>5, <3>1, <3>2
      <3> QED
        BY <3>3
    <2> DEFINE t == stepDownToFollower(o, o.term)
    <2>2. s = t
      BY <2>1, <1>2, ZenonT(60)
         DEF stepDownToFollower, startElectionTimer, ForgetVotes, Objects
    <2>3. o.term \in 0 .. MaxTerm
      BY <1>2 DEF Objects
    <2> HIDE DEF missed
    <2>4. /\ s \in Objects
          /\ s.type = "Follower" /\ s.term = o.term /\ ~s.president /\ s.streak = 0
          /\ s.votedFor = NoNode /\ s.leader = NoNode /\ s.granted = {} /\ s.recv = {}
          /\ s.version = o.version /\ s.loyalty = o.loyalty /\ s.heartbeat = o.heartbeat
          /\ s.electionIn = ElectionMin /\ s.beatIn = o.beatIn
      BY <1>2, <2>2, <2>3, StepDownEffect
    <2>5. LostBeat(r, s, n)
      BY <1>8, <2>4, Zenon DEF LostBeat
    <2> QED
      BY <1>2, <2>1, <2>4, <2>5, FS_EmptySet
  <1>9. CASE ~r.president \/ HasQuorum(r, n)
    <2>1. /\ s = kept
          /\ sent = CASE o.type = "Candidate" -> sendRequestForVotes(o, n)
                      [] o.type = "Leader" -> sendHeartbeat(o, n)
                      [] o.type = "Follower" -> {}
      <3>1. ~(o.president /\ ~has)
        BY <1>2, <1>4, <1>9, Zenon
      <3> HIDE DEF missed, kept, k
      <3> DEFINE w == CASE o.type = "Candidate" -> sendRequestForVotes(o, n)
                        [] o.type = "Leader" -> sendHeartbeat(o, n)
                        [] o.type = "Follower" -> {}
      <3>2. heartbeat(r, n) = [node |-> kept, sent |-> w]
        BY <1>5, <3>1, Zenon
      <3>3. s = kept /\ sent = w
        <4> HIDE DEF w
        <4> QED
          BY <3>2
      <3> QED
        BY <3>3
    <2>2. z \in 0 .. use.grace
      BY <1>2, UseFacts DEF Objects
    <2> HIDE DEF z
    <2>3. /\ s \in Objects /\ s.streak = z /\ s.president = has
          /\ s.loyalty = o.loyalty /\ s.beatIn = o.beatIn /\ s.version = o.version
          /\ s.heartbeat = o.heartbeat /\ s.term = o.term
          /\ s.type = o.type
          /\ s.votedFor = o.votedFor /\ s.leader = o.leader
          /\ s.granted = o.granted /\ s.recv = o.recv
          /\ s.electionIn = o.electionIn
      BY <1>2, <1>4, <2>1, <2>2, ZenonT(60) DEF Objects
    <2>4. (r.president => z = 0) /\ (~r.president => z = r.streak)
      BY <1>2, Zenon DEF z
    <2>5. /\ \A p \in sent :
                /\ p \in Packets /\ p.from = n /\ p.to # n
                /\ p.term = s.term /\ p.age = 0 /\ p.version = s.version
                /\ \/ p.type = "Append" /\ s.type = "Leader"
                   \/ p.type = "ReqVote" /\ s.type = "Candidate"
          /\ IsFiniteSet(sent)
      <3>1. CASE o.type = "Candidate"
        <4>1. n \in o.recv /\ sent = sendRequestForVotes(o, n)
          BY <1>2, <2>1, <3>1
        <4> QED
          BY <1>2, <2>3, <3>1, <4>1, SentEffect
      <3>2. CASE o.type = "Leader"
        <4>1. sent = sendHeartbeat(o, n)
          BY <2>1, <3>2
        <4> QED
          BY <1>2, <2>3, <3>2, <4>1, SentEffect
      <3>3. CASE o.type = "Follower"
        BY <2>1, <3>3, FS_EmptySet
      <3> QED
        BY <1>2, <3>1, <3>2, <3>3 DEF Objects
    <2> HIDE DEF kept
    <2>6. PlainBeat(r, s, n, r.electionIn)
      BY <1>2, <1>4, <1>9, <2>3, <2>4, Zenon DEF PlainBeat
    <2> QED
      BY <1>2, <2>3, <2>5, <2>6, Zenon DEF BeatPacket
  <1> QED
    BY <1>2, <1>6, <1>7, <1>8, <1>9

-----------------------------------------------------------------------------
(* The steps, in terms of fields.  nd and nt stand for the objects and the  *)
(* packets, nd2 and nt2 for those after the step.                           *)

Typed(nd, nt) ==
  /\ nd \in [Nodes -> Objects]
  /\ \A n \in Nodes : nd[n].type = "Candidate" => n \in nd[n].recv
  /\ nt \subseteq Packets /\ IsFiniteSet(nt)
  /\ \A p \in nt : p.from # p.to

Earlier(k) == IF k > 0 THEN k - 1 ELSE 0

\* What a tick does to the object o of the node n.
TickedNode(o, s, n) ==
  LET e == IF o.type = "Leader" THEN o.electionIn ELSE Earlier(o.electionIn)
  IN /\ s.term = o.term /\ s.version = o.version /\ s.loyalty = Earlier(o.loyalty)
     /\ \/ /\ o.beatIn = 0 /\ s.beatIn = HeartbeatPeriod - 1
           /\ s.heartbeat = Older(o.heartbeat, n)
           /\ MissedBeat(o, s, n, e) \/ LostBeat(o, s, n) \/ PlainBeat(o, s, n, e)
        \/ /\ o.beatIn # 0 /\ s.beatIn = o.beatIn - 1 /\ s.heartbeat = o.heartbeat
           /\ s.type = o.type /\ (s.president <=> o.president) /\ s.streak = o.streak
           /\ s.votedFor = o.votedFor /\ s.leader = o.leader
           /\ s.granted = o.granted /\ s.recv = o.recv /\ s.electionIn = e

\* A packet that was in flight before the tick: appends and their responses grow
\* older with the clock of the node that asked.
OldPacket(nd, nt, q) ==
  \E p \in nt :
    /\ q.type = p.type /\ q.from = p.from /\ q.to = p.to /\ q.term = p.term
    /\ q.version = p.version /\ q.result = p.result
    /\ p.type \in {"Append", "AppendResponse"} =>
         LET clock == IF p.type = "Append" THEN p.from ELSE p.to
         IN q.age = IF nd[clock].beatIn = 0 /\ p.age < Stale THEN p.age + 1 ELSE p.age

Ticked(nd, nt, nd2, nt2) ==
  /\ \A n \in Nodes : TickedNode(nd[n], nd2[n], n)
  /\ \A q \in nt2 : \/ OldPacket(nd, nt, q)
                    \/ nd[q.from].beatIn = 0 /\ BeatPacket(nd2[q.from], q.from, q)

\* The objects' part of Tick.
LEMMA TickNodes ==
  ASSUME use \in Setups, NEW o \in Objects, NEW n \in Nodes,
         o.type = "Candidate" => n \in o.recv,
         NEW ran,
         ran = [o EXCEPT !.loyalty = Earlier(@),
                         !.electionIn = IF o.type = "Leader" THEN @ ELSE Earlier(@),
                         !.beatIn = IF o.beatIn = 0 THEN HeartbeatPeriod - 1 ELSE @ - 1],
         NEW s, s = IF o.beatIn = 0 THEN heartbeat(ran, n).node ELSE ran
  PROVE  /\ s \in Objects /\ TickedNode(o, s, n)
         /\ s.type = "Candidate" => n \in s.recv
         /\ o.beatIn = 0 =>
              /\ IsFiniteSet(heartbeat(ran, n).sent)
              /\ \A p \in heartbeat(ran, n).sent : BeatPacket(s, n, p)
  <1> DEFINE l == Earlier(o.loyalty)
             e == IF o.type = "Leader" THEN o.electionIn ELSE Earlier(o.electionIn)
             b == IF o.beatIn = 0 THEN HeartbeatPeriod - 1 ELSE o.beatIn - 1
  <1>1. l \in 0 .. ElectionMin /\ e \in 0 .. ElectionMin /\ b \in 0 .. HeartbeatPeriod - 1
    BY URaftAssumption DEF Objects, Earlier
  <1>2. ran = [o EXCEPT !.loyalty = l, !.electionIn = e, !.beatIn = b]
    BY Zenon DEF Objects
  <1> HIDE DEF l, e, b
  <1>3. /\ ran \in Objects /\ ran.loyalty = l /\ ran.electionIn = e /\ ran.beatIn = b
        /\ ran.type = o.type /\ ran.term = o.term /\ ran.president = o.president
        /\ ran.streak = o.streak /\ ran.votedFor = o.votedFor /\ ran.leader = o.leader
        /\ ran.granted = o.granted /\ ran.recv = o.recv
        /\ ran.heartbeat = o.heartbeat /\ ran.version = o.version
    BY <1>1, <1>2, ZenonT(60) DEF Objects
  <1>4. CASE o.beatIn # 0
    <2>1. s = ran /\ b = o.beatIn - 1
      BY <1>4 DEF b
    <2>2. TickedNode(o, ran, n)
      BY <1>3, <1>4, <2>1, Zenon DEF TickedNode, l, e
    <2> QED
      BY <1>3, <1>4, <2>1, <2>2
  <1>5. CASE o.beatIn = 0
    <2> DEFINE sent == heartbeat(ran, n).sent
    <2>1. s = heartbeat(ran, n).node /\ b = HeartbeatPeriod - 1
      BY <1>5 DEF b
    <2>2. HasQuorum(ran, n) <=> HasQuorum(o, n)
      BY <1>3, Zenon DEF HasQuorum
    <2>3. ran.type = "Candidate" => n \in ran.recv
      BY <1>3
    <2> HIDE DEF sent
    <2>4. /\ s \in Objects
          /\ s.loyalty = ran.loyalty /\ s.beatIn = ran.beatIn /\ s.version = ran.version
          /\ s.heartbeat = Older(ran.heartbeat, n) /\ s.term = ran.term
          /\ \/ MissedBeat(ran, s, n, ran.electionIn)
             \/ LostBeat(ran, s, n)
             \/ PlainBeat(ran, s, n, ran.electionIn)
          /\ IsFiniteSet(sent) /\ \A p \in sent : BeatPacket(s, n, p)
      BY <1>3, <2>1, <2>3, HeartbeatEffect, Zenon DEF sent
    <2>5. s.type = "Candidate" => n \in s.recv
      BY <2>3, <2>4, Zenon DEF MissedBeat, LostBeat, PlainBeat
    <2>6. MissedBeat(ran, s, n, ran.electionIn) => MissedBeat(o, s, n, e)
      BY <1>3, <2>2, Zenon DEF MissedBeat
    <2>7. LostBeat(ran, s, n) => LostBeat(o, s, n)
      BY <1>3, <2>2, Zenon DEF LostBeat
    <2>8. PlainBeat(ran, s, n, ran.electionIn) => PlainBeat(o, s, n, e)
      BY <1>3, <2>2, Zenon DEF PlainBeat
    <2>9. TickedNode(o, s, n)
      BY <1>3, <1>5, <2>1, <2>4, <2>6, <2>7, <2>8 DEF TickedNode, l, e
    <2> QED
      BY <2>4, <2>5, <2>9 DEF sent
  <1> QED
    BY <1>4, <1>5

\* Some of the packets sent are carried.
LEMMA CarryEffect ==
  ASSUME NEW old, NEW sent, IsFiniteSet(old), IsFiniteSet(sent), NEW new \in Carry(old, sent)
  PROVE  /\ new \subseteq old \cup sent /\ IsFiniteSet(new)
         /\ Cardinality(new) <= MaxInFlight
  <1>1. PICK S \in SUBSET sent : new = old \cup S /\ Cardinality(old \cup S) <= MaxInFlight
    BY DEF Carry
  <1>2. IsFiniteSet(S)
    BY FS_Subset
  <1> QED
    BY <1>1, <1>2, FS_Union, Zenon

\* The image of a finite set is finite (here: of packets that grow older).
LEMMA FiniteImage ==
  ASSUME NEW S, IsFiniteSet(S), NEW f
  PROVE  IsFiniteSet({f[x] : x \in S})
  <1> DEFINE g == [x \in S |-> f[x]]
             T == {f[x] : x \in S}
  <1>1. g \in Surjection(S, T)
    BY DEF Surjection
  <1> HIDE DEF g, T
  <1>2. IsFiniteSet(T)
    BY <1>1, FS_Surjection
  <1> QED
    BY <1>2 DEF T

\* A tick.
LEMMA TickEffect ==
  ASSUME use \in Setups, Typed(node, net), Tick
  PROVE  /\ Typed(node', net') /\ Ticked(node, net, node', net')
         /\ Cardinality(net') <= MaxInFlight
  <1> DEFINE due == {n \in Nodes : node[n].beatIn = 0}
             ran == [n \in Nodes |->
                [node[n] EXCEPT !.loyalty = Earlier(@),
                                !.electionIn = IF node[n].type = "Leader" THEN @ ELSE Earlier(@),
                                !.beatIn = IF n \in due THEN HeartbeatPeriod - 1 ELSE @ - 1]]
             Clock(p) == IF p.type \in {"Append", "ReqVote"} THEN p.from ELSE p.to
             Ages(p) == use.maxAge <= Stale \/ p.type \in {"Append", "AppendResponse"}
             Aged(p) == [p EXCEPT !.age = IF Clock(p) \in due /\ Ages(p) /\ @ < Stale
                                          THEN @ + 1 ELSE @]
             sent == UNION {heartbeat(ran[n], n).sent : n \in due}
             old == {p \in {Aged(q) : q \in net} : p.age < use.maxAge}
  <1>1. /\ node' = [n \in Nodes |-> IF n \in due THEN heartbeat(ran[n], n).node ELSE ran[n]]
        /\ net' \in Carry(old, sent)
    BY Zenon DEF Tick, Earlier
  <1>2. ASSUME NEW n \in Nodes
        PROVE  /\ node'[n] \in Objects /\ TickedNode(node[n], node'[n], n)
               /\ node'[n].type = "Candidate" => n \in node'[n].recv
               /\ n \in due => /\ IsFiniteSet(heartbeat(ran[n], n).sent)
                               /\ \A p \in heartbeat(ran[n], n).sent : BeatPacket(node'[n], n, p)
    <2>1. node[n] \in Objects /\ (node[n].type = "Candidate" => n \in node[n].recv)
      BY DEF Typed
    <2>2. n \in due <=> node[n].beatIn = 0
      OBVIOUS
    <2>3. ran[n] = [node[n] EXCEPT !.loyalty = Earlier(@),
                      !.electionIn = IF node[n].type = "Leader" THEN @ ELSE Earlier(@),
                      !.beatIn = IF node[n].beatIn = 0 THEN HeartbeatPeriod - 1 ELSE @ - 1]
      BY <2>2
    <2>4. node'[n] = IF node[n].beatIn = 0 THEN heartbeat(ran[n], n).node ELSE ran[n]
      <3> HIDE DEF due, ran
      <3> QED
        BY <1>1, <2>2
    <2> HIDE DEF due, ran
    <2> QED
      BY <2>1, <2>2, <2>3, <2>4, TickNodes, Zenon
  <1>3. ASSUME NEW p \in net
        PROVE  /\ Aged(p) \in Packets /\ Aged(p).from # Aged(p).to
               /\ OldPacket(node, net, Aged(p))
    <2> DEFINE a == IF Clock(p) \in due /\ Ages(p) /\ p.age < Stale THEN p.age + 1 ELSE p.age
    <2>1. p \in Packets /\ p.from # p.to
      BY DEF Typed
    <2>2. a \in 0 .. Stale
      <3>1. p.age \in 0 .. Stale /\ Stale \in Nat
        BY <2>1, StaleFacts DEF Packets
      <3> HIDE DEF Clock, Ages, due
      <3> QED
        BY <3>1
    <2>3. Aged(p) = [p EXCEPT !.age = a]
      BY Zenon
    <2>4. p.type \in {"Append", "AppendResponse"} =>
            LET clock == IF p.type = "Append" THEN p.from ELSE p.to
            IN a = IF node[clock].beatIn = 0 /\ p.age < Stale THEN p.age + 1 ELSE p.age
      BY <2>1 DEF Packets
    <2> DEFINE q == Aged(p)
    <2> HIDE DEF a
    <2>5. /\ q \in Packets /\ q.age = a
          /\ q.type = p.type /\ q.from = p.from /\ q.to = p.to /\ q.term = p.term
          /\ q.version = p.version /\ q.result = p.result
      BY <2>1, <2>2, <2>3, Zenon DEF Packets
    <2> HIDE DEF Aged, q
    <2>6. OldPacket(node, net, q)
      BY <2>4, <2>5, Zenon DEF OldPacket
    <2> QED
      BY <2>1, <2>5, <2>6 DEF q
  <1>4. IsFiniteSet(old)
    <2> DEFINE f == [p \in net |-> Aged(p)]
    <2>1. IsFiniteSet({f[p] : p \in net})
      <3> HIDE DEF f
      <3> QED
        BY FiniteImage DEF Typed
    <2>2. old \subseteq {f[p] : p \in net}
      <3> HIDE DEF Aged
      <3> QED
        OBVIOUS
    <2> HIDE DEF f, old
    <2> QED
      BY <2>1, <2>2, FS_Subset
  <1>5. IsFiniteSet(sent)
    <2> DEFINE f == [n \in due |-> heartbeat(ran[n], n).sent]
    <2>1. IsFiniteSet(due)
      BY URaftAssumption, FS_Subset
    <2> HIDE DEF due, ran
    <2>2. IsFiniteSet({f[n] : n \in due})
      <3> HIDE DEF f
      <3> QED
        BY <2>1, FiniteImage
    <2>3. {f[n] : n \in due} = {heartbeat(ran[n], n).sent : n \in due}
      OBVIOUS
    <2>4. \A T \in {heartbeat(ran[n], n).sent : n \in due} : IsFiniteSet(T)
      BY <1>2 DEF due
    <2> QED
      BY <2>2, <2>3, <2>4, FS_UNION
  <1> HIDE DEF old, sent
  <1>6. net' \subseteq old \cup sent /\ IsFiniteSet(net') /\ Cardinality(net') <= MaxInFlight
    BY <1>1, <1>4, <1>5, CarryEffect, Zenon
  <1>7. ASSUME NEW q \in net'
        PROVE  /\ q \in Packets /\ q.from # q.to
               /\ \/ OldPacket(node, net, q)
                  \/ node[q.from].beatIn = 0 /\ BeatPacket(node'[q.from], q.from, q)
    <2>1. CASE q \in old
      <3>1. PICK p \in net : q = Aged(p)
        <4> HIDE DEF Aged
        <4> QED
          BY <2>1 DEF old
      <3> HIDE DEF Aged
      <3> QED
        BY <1>3, <3>1
    <2>2. CASE q \in sent
      <3> HIDE DEF ran
      <3>1. PICK n \in due : q \in heartbeat(ran[n], n).sent
        BY <2>2 DEF sent
      <3>2. n \in Nodes /\ node[n].beatIn = 0
        OBVIOUS
      <3>3. BeatPacket(node'[n], n, q)
        BY <1>2, <3>1, <3>2
      <3>4. q \in Packets /\ q.from = n /\ q.to # n
        BY <3>3 DEF BeatPacket
      <3> QED
        BY <3>2, <3>3, <3>4
    <2> QED
      BY <1>6, <2>1, <2>2
  <1>8. node' \in [Nodes -> Objects]
    <2> HIDE DEF due, ran
    <2>1. node' = [n \in Nodes |-> node'[n]]
      BY <1>1
    <2> QED
      BY <1>2, <2>1
  <1>9. Typed(node', net')
    BY <1>2, <1>6, <1>7, <1>8, Zenon DEF Typed
  <1>10. Ticked(node, net, node', net')
    BY <1>2, <1>7, Zenon DEF Ticked
  <1> QED
    BY <1>6, <1>9, <1>10

\* The packets sent respond to p, from the object s.
Replied(sent, s, p, type, result) ==
  /\ IsFiniteSet(sent)
  /\ \A q \in sent : /\ q \in Packets /\ q.type = type /\ q.from = p.to /\ q.to = p.from
                     /\ q.term = s.term /\ q.age = p.age /\ q.version = s.version
                     /\ q.result <=> result

\* What a handler makes of the object r, whose term is not below the packet's.
AbortCase(r, p, s, sent) ==
  /\ p.type = "Append" /\ use.assertions /\ r.type = "Leader"
  /\ s = Aborted /\ sent = {}

RejectCase(r, p, s, sent) ==
  /\ p.type = "Append" /\ p.term < r.term
  /\ s = r /\ Replied(sent, s, p, "AppendResponse", FALSE)

AcceptCase(r, p, version, s, sent) ==
  /\ p.type = "Append" /\ p.term = r.term
  /\ s = Accepted(r, p, version) /\ Replied(sent, s, p, "AppendResponse", TRUE)

NoteCase(r, p, s, sent) ==
  /\ p.type = "AppendResponse" /\ p.term = r.term /\ r.type = "Leader"
  /\ p.age < r.heartbeat[p.from] /\ s = Noted(r, p) /\ sent = {}

GrantCase(r, p, version, s, sent) ==
  LET asked == Asked(r, p.to, version)
  IN /\ p.type = "ReqVote" /\ Vote(asked, p)
     /\ s = Granted(asked, p.from) /\ Replied(sent, s, p, "VoteResponse", TRUE)

RefuseCase(r, p, version, s, sent) ==
  LET asked == Asked(r, p.to, version)
  IN /\ p.type = "ReqVote" /\ ~Vote(asked, p)
     /\ s = asked /\ Replied(sent, s, p, "VoteResponse", FALSE)

CountCase(r, p, s, sent) ==
  /\ p.type = "VoteResponse" /\ p.term = r.term /\ r.type = "Candidate"
  /\ \/ s = Told(r, p) /\ sent = {}
     \/ /\ Cardinality(Told(r, p).granted) >= quorum
        /\ s = Won(Told(r, p), p.to) /\ sent = sendHeartbeat(s, p.to)

HandledCase(r, p, version, s, sent) ==
  \/ s = r /\ sent = {}
  \/ AbortCase(r, p, s, sent) \/ RejectCase(r, p, s, sent)
  \/ AcceptCase(r, p, version, s, sent) \/ NoteCase(r, p, s, sent)
  \/ GrantCase(r, p, version, s, sent) \/ RefuseCase(r, p, version, s, sent)
  \/ CountCase(r, p, s, sent)

\* rpcAppend().
LEMMA RpcAppendEffect ==
  ASSUME use \in Setups, NEW r \in Objects, NEW p \in Packets, p.type = "Append",
         p.term <= r.term, NEW version \in Nat,
         NEW s, s = rpcAppend(r, p, version).node,
         NEW sent, sent = rpcAppend(r, p, version).sent
  PROVE  HandledCase(r, p, version, s, sent)
  <1> DEFINE followed == [r EXCEPT
               !.version = IF p.to \in use.electors THEN IF p.version > @ THEN p.version ELSE @
                           ELSE IF p.from # r.leader THEN version ELSE @,
               !.leader = p.from, !.type = "Follower"]
             no == {Packet("AppendResponse", r, p.to, p.from, p.age, FALSE)}
             yes == {Packet("AppendResponse", followed, p.to, p.from, p.age, TRUE)}
             x == use.assertions /\ r.type = "Leader"
             acc == startElectionTimer(signLoyaltyAgreement(
                      IF r.president THEN followed ELSE ForgetVotes(followed)))
  <1>0. p.term \in Int /\ r.term \in Int
    BY DEF Packets, Objects
  <1>1. rpcAppend(r, p, version) =
          CASE x -> [node |-> Aborted, sent |-> {}]
            [] p.term < r.term /\ ~x -> [node |-> r, sent |-> no]
            [] p.term >= r.term /\ ~x -> [node |-> acc, sent |-> yes]
    BY Zenon DEF rpcAppend
  <1>2. acc = Accepted(r, p, version)
    BY Zenon DEF Accepted, HeardVersion, Objects
  <1>3. CASE x
    <2>1. rpcAppend(r, p, version) = [node |-> Aborted, sent |-> {}]
      <3> HIDE DEF x, acc, yes, no
      <3> QED
        BY <1>1, <1>3
    <2> QED
      BY <1>3, <2>1 DEF HandledCase, AbortCase
  <1>4. CASE p.term < r.term /\ ~x
    <2>1. rpcAppend(r, p, version) = [node |-> r, sent |-> no]
      <3> HIDE DEF x, acc, yes, no
      <3> QED
        BY <1>0, <1>1, <1>4
    <2>2. s = r /\ sent = no
      <3> HIDE DEF no
      <3> QED
        BY <2>1
    <2>3. IsFiniteSet(sent)
      BY <2>2, FS_Singleton, Zenon
    <2>4. ASSUME NEW q \in sent
          PROVE  /\ q \in Packets /\ q.type = "AppendResponse" /\ q.from = p.to /\ q.to = p.from
                 /\ q.term = s.term /\ q.age = p.age /\ q.version = s.version
                 /\ ~q.result
      <3>1. q = Packet("AppendResponse", r, p.to, p.from, p.age, FALSE)
        BY <2>2
      <3> QED
        BY <2>2, <3>1, ZenonT(60) DEF Packet, Packets, Objects
    <2>5. RejectCase(r, p, s, sent)
      BY <1>4, <2>2, <2>3, <2>4, Zenon DEF RejectCase, Replied
    <2> QED
      BY <2>5 DEF HandledCase
  <1>5. CASE p.term >= r.term /\ ~x
    <2>1. rpcAppend(r, p, version) = [node |-> acc, sent |-> yes]
      <3> HIDE DEF x, acc, yes, no
      <3> QED
        BY <1>0, <1>1, <1>5
    <2>2. s = acc /\ sent = yes
      <3> HIDE DEF yes, acc
      <3> QED
        BY <2>1
    <2>3. IsFiniteSet(sent)
      BY <2>2, FS_Singleton, Zenon
    <2>4. s = Accepted(r, p, version)
      BY <1>2, <2>2
    <2>5. s \in Objects /\ s.term = r.term /\ s.version = HeardVersion(r, p, version)
      BY <2>4, AcceptedEffect
    <2>6. ASSUME NEW q \in sent
          PROVE  /\ q \in Packets /\ q.type = "AppendResponse" /\ q.from = p.to /\ q.to = p.from
                 /\ q.term = s.term /\ q.age = p.age /\ q.version = s.version
                 /\ q.result
      <3>1. q = Packet("AppendResponse", followed, p.to, p.from, p.age, TRUE)
        BY <2>2
      <3>2. followed.term = r.term /\ followed.version = HeardVersion(r, p, version)
        BY ZenonT(60) DEF HeardVersion, Objects
      <3>3. s.term \in 0 .. MaxTerm /\ s.version \in Nat
        BY <2>5 DEF Objects
      <3> HIDE DEF followed
      <3> QED
        BY <2>5, <3>1, <3>2, <3>3, ZenonT(60) DEF Packet, Packets
    <2>7. p.term = r.term
      BY <1>0, <1>5
    <2>8. AcceptCase(r, p, version, s, sent)
      <3> HIDE DEF acc, yes
      <3> QED
        BY <2>3, <2>4, <2>6, <2>7, Zenon DEF AcceptCase, Replied
    <2> QED
      BY <2>8 DEF HandledCase
  <1> QED
    BY <1>0, <1>3, <1>4, <1>5

\* rpcReqVote().
LEMMA RpcReqVoteEffect ==
  ASSUME use \in Setups, NEW r \in Objects, NEW p \in Packets, p.type = "ReqVote",
         NEW version \in Nat,
         NEW s, s = rpcReqVote(r, p, version).node,
         NEW sent, sent = rpcReqVote(r, p, version).sent
  PROVE  HandledCase(r, p, version, s, sent)
  <1> DEFINE asked == Asked(r, p.to, version)
             vote == Vote(asked, p)
             replies == {Packet("VoteResponse", asked, p.to, p.from, p.age, vote)}
  <1>0. p.to \in Nodes /\ p.from \in Nodes
    BY DEF Packets
  <1>1. asked \in Objects
    BY <1>0, AskedEffect
  <1>2. /\ s = IF vote THEN Granted(asked, p.from) ELSE asked
        /\ sent = replies
    BY Zenon DEF rpcReqVote, Asked, Granted
  <1>3. vote \in BOOLEAN
    BY Zenon DEF Vote
  <1> HIDE DEF asked, vote
  <1>4. s \in Objects /\ s.term = asked.term /\ s.version = asked.version
    BY <1>0, <1>1, <1>2, GrantedEffect
  <1>5. IsFiniteSet(sent)
    BY <1>2, FS_Singleton, Zenon
  <1>6. ASSUME NEW q \in sent
        PROVE  /\ q \in Packets /\ q.type = "VoteResponse" /\ q.from = p.to /\ q.to = p.from
               /\ q.term = s.term /\ q.age = p.age /\ q.version = s.version
               /\ q.result = vote
    <2>1. q = Packet("VoteResponse", asked, p.to, p.from, p.age, vote)
      BY <1>2
    <2>2. s.term \in 0 .. MaxTerm /\ s.version \in Nat
      BY <1>4 DEF Objects
    <2> QED
      BY <1>3, <1>4, <2>1, <2>2, ZenonT(60) DEF Packet, Packets
  <1>7. CASE vote
    <2>1. s = Granted(asked, p.from)
      BY <1>2, <1>7
    <2>2. Replied(sent, s, p, "VoteResponse", TRUE)
      BY <1>5, <1>6, <1>7, Zenon DEF Replied
    <2> QED
      BY <1>7, <2>1, <2>2, Zenon DEF HandledCase, GrantCase, asked, vote
  <1>8. CASE ~vote
    <2>1. s = asked
      BY <1>2, <1>8
    <2>2. Replied(sent, s, p, "VoteResponse", FALSE)
      BY <1>5, <1>6, <1>8, Zenon DEF Replied
    <2> QED
      BY <1>8, <2>1, <2>2, Zenon DEF HandledCase, RefuseCase, asked, vote
  <1> QED
    BY <1>7, <1>8

\* rpcAppendResponse() and rpcReqVoteResponse().
LEMMA ResponsesEffect ==
  ASSUME use \in Setups, NEW r \in Objects, NEW p \in Packets, p.term <= r.term, NEW version
  PROVE  /\ p.type = "AppendResponse" =>
              HandledCase(r, p, version, rpcAppendResponse(r, p).node, rpcAppendResponse(r, p).sent)
         /\ p.type = "VoteResponse" =>
              HandledCase(r, p, version, rpcReqVoteResponse(r, p).node,
                          rpcReqVoteResponse(r, p).sent)
  <1>0. p.term \in Int /\ r.term \in Int
    BY DEF Packets, Objects
  <1>1. ASSUME p.type = "AppendResponse"
        PROVE  HandledCase(r, p, version, rpcAppendResponse(r, p).node,
                           rpcAppendResponse(r, p).sent)
    <2> DEFINE s == rpcAppendResponse(r, p).node
               counts == p.term >= r.term /\ r.type = "Leader"
    <2>1. /\ s = IF counts /\ p.age < r.heartbeat[p.from] THEN Noted(r, p) ELSE r
          /\ rpcAppendResponse(r, p).sent = {}
      BY Zenon DEF rpcAppendResponse, Noted
    <2>2. CASE counts /\ p.age < r.heartbeat[p.from]
      BY <1>0, <1>1, <2>1, <2>2 DEF HandledCase, NoteCase
    <2>3. CASE ~(counts /\ p.age < r.heartbeat[p.from])
      BY <2>1, <2>3 DEF HandledCase
    <2> QED
      BY <2>2, <2>3
  <1>2. ASSUME p.type = "VoteResponse"
        PROVE  HandledCase(r, p, version, rpcReqVoteResponse(r, p).node,
                           rpcReqVoteResponse(r, p).sent)
    <2> DEFINE told == Told(r, p)
               won == Won(told, p.to)
               h == rpcReqVoteResponse(r, p)
    <2>1. h = IF p.term < r.term \/ r.type # "Candidate" THEN [node |-> r, sent |-> {}]
              ELSE IF Cardinality(told.granted) < quorum THEN [node |-> told, sent |-> {}]
              ELSE [node |-> won, sent |-> sendHeartbeat(won, p.to)]
      BY Zenon DEF rpcReqVoteResponse, Told, Won
    <2>2. Cardinality(told.granted) \in Nat /\ quorum \in Nat
      <3>1. told.granted \subseteq Nodes
        BY ToldEffect DEF Objects
      <3>2. Cardinality(Nodes) \in Nat
        BY URaftAssumption, FS_CardinalityType
      <3> QED
        BY <3>1, <3>2, URaftAssumption, FS_CardinalityType, FS_Subset DEF quorum
    <2> HIDE DEF h, told, won
    <2>3. CASE h = [node |-> r, sent |-> {}]
      BY <2>3 DEF HandledCase, h
    <2>4. CASE ~(p.term < r.term \/ r.type # "Candidate") /\ h = [node |-> told, sent |-> {}]
      BY <1>0, <1>2, <2>4 DEF HandledCase, CountCase, told, h
    <2>5. CASE /\ ~(p.term < r.term \/ r.type # "Candidate")
               /\ ~(Cardinality(told.granted) < quorum)
               /\ h = [node |-> won, sent |-> sendHeartbeat(won, p.to)]
      BY <1>0, <1>2, <2>2, <2>5 DEF HandledCase, CountCase, told, won, h
    <2> QED
      BY <2>1, <2>3, <2>4, <2>5
  <1> QED
    BY <1>1, <1>2

\* rpcReqVote() when it refuses the vote ...
LEMMA RefuseEffect ==
  ASSUME NEW r \in Objects, NEW p \in Packets, NEW version \in Nat, NEW s, NEW sent,
         RefuseCase(r, p, version, s, sent)
  PROVE  /\ s \in Objects
         /\ s.type = r.type /\ s.term = r.term /\ s.president = r.president
         /\ s.streak = r.streak /\ s.votedFor = r.votedFor /\ s.leader = r.leader
         /\ s.granted = r.granted /\ s.recv = r.recv
         /\ s.loyalty = r.loyalty /\ s.electionIn = r.electionIn
         /\ s.beatIn = r.beatIn /\ s.heartbeat = r.heartbeat
  <1>1. s = Asked(r, p.to, version)
    BY DEF RefuseCase
  <1>2. PICK n \in Nodes : n = p.to
    BY DEF Packets
  <1>3. s = Asked(r, n, version)
    BY <1>1, <1>2
  <1> QED
    BY <1>3, AskedEffect

\* ... and when it grants it.
LEMMA GrantEffect ==
  ASSUME use \in Setups, NEW r \in Objects, NEW p \in Packets, NEW version \in Nat,
         NEW s, NEW sent, GrantCase(r, p, version, s, sent)
  PROVE  /\ s \in Objects /\ r.type = "Follower" /\ p.term >= r.term
         /\ r.loyalty > 0 => r.leader = p.from
         /\ ~(r.loyalty > 0) => r.votedFor \in {NoNode, p.from}
         /\ s.type = "Follower" /\ s.term = r.term /\ s.president = r.president
         /\ s.streak = r.streak /\ s.votedFor = p.from /\ s.leader = r.leader
         /\ s.granted = r.granted /\ s.recv = r.recv
         /\ s.loyalty = r.loyalty /\ s.electionIn = ElectionMin
         /\ s.beatIn = r.beatIn /\ s.heartbeat = r.heartbeat
  <1>0. PICK n \in Nodes : n = p.to
    BY DEF Packets
  <1> DEFINE asked == Asked(r, n, version)
  <1>1. /\ asked \in Objects
        /\ asked.type = r.type /\ asked.term = r.term /\ asked.president = r.president
        /\ asked.streak = r.streak /\ asked.votedFor = r.votedFor /\ asked.leader = r.leader
        /\ asked.granted = r.granted /\ asked.recv = r.recv
        /\ asked.loyalty = r.loyalty /\ asked.electionIn = r.electionIn
        /\ asked.beatIn = r.beatIn /\ asked.heartbeat = r.heartbeat
    BY AskedEffect
  <1>2. Vote(asked, p) /\ s = Granted(asked, p.from) /\ p.from \in Nodes
    BY <1>0 DEF GrantCase, Packets
  <1> HIDE DEF asked
  <1>3. /\ s \in Objects
        /\ s.type = asked.type /\ s.term = asked.term /\ s.president = asked.president
        /\ s.streak = asked.streak /\ s.votedFor = p.from /\ s.leader = asked.leader
        /\ s.granted = asked.granted /\ s.recv = asked.recv
        /\ s.loyalty = asked.loyalty /\ s.electionIn = ElectionMin
        /\ s.beatIn = asked.beatIn /\ s.heartbeat = asked.heartbeat
    BY <1>1, <1>2, GrantedEffect
  <1>4. /\ r.type = "Follower" /\ p.term >= r.term
        /\ r.loyalty > 0 => r.leader = p.from
        /\ ~(r.loyalty > 0) => r.votedFor \in {NoNode, p.from}
    BY <1>1, <1>2 DEF Vote
  <1> QED
    BY <1>1, <1>3, <1>4

\* The object that a handler leaves and the packets it sends have their types.
LEMMA HandledTyped ==
  ASSUME use \in Setups, NEW r \in Objects, NEW p \in Packets, p.from # p.to,
         r.type = "Candidate" => p.to \in r.recv,
         NEW version \in Nat, NEW s, NEW sent, HandledCase(r, p, version, s, sent)
  PROVE  /\ s \in Objects /\ (s.type = "Candidate" => p.to \in s.recv)
         /\ IsFiniteSet(sent) /\ sent \subseteq Packets
         /\ \A q \in sent : q.from # q.to
  <1>0. p.from \in Nodes /\ p.to \in Nodes
    BY DEF Packets
  <1>1. CASE s = r /\ sent = {}
    BY <1>1, FS_EmptySet
  <1>2. CASE AbortCase(r, p, s, sent)
    <2>1. HeartbeatPeriod - 1 \in 0 .. HeartbeatPeriod - 1
      BY UseFacts
    <2>2. s \in Objects /\ s.type = "Follower"
      BY <1>2, <2>1, NewNodeEffect DEF AbortCase, Aborted
    <2> QED
      BY <1>2, <2>2, FS_EmptySet DEF AbortCase
  <1>3. CASE RejectCase(r, p, s, sent)
    BY <1>3 DEF RejectCase, Replied
  <1>4. CASE AcceptCase(r, p, version, s, sent)
    <2>1. s \in Objects /\ s.type = "Follower"
      BY <1>4, AcceptedEffect DEF AcceptCase
    <2> QED
      BY <1>4, <2>1 DEF AcceptCase, Replied
  <1>5. CASE NoteCase(r, p, s, sent)
    <2>1. s \in Objects /\ s.type = "Leader"
      BY <1>5, NotedEffect DEF NoteCase
    <2> QED
      BY <1>5, <2>1, FS_EmptySet DEF NoteCase
  <1>6. CASE GrantCase(r, p, version, s, sent)
    <2>1. s \in Objects /\ s.type = "Follower"
      BY <1>6, GrantEffect
    <2> QED
      BY <1>6, <2>1 DEF GrantCase, Replied
  <1>7. CASE RefuseCase(r, p, version, s, sent)
    <2>1. s \in Objects /\ s.type = r.type /\ s.recv = r.recv
      BY <1>7, RefuseEffect
    <2> QED
      BY <1>7, <2>1 DEF RefuseCase, Replied
  <1>8. CASE CountCase(r, p, s, sent)
    <2>1. Told(r, p) \in Objects /\ Told(r, p).recv = r.recv \cup {p.from}
      BY ToldEffect
    <2>2. CASE s = Told(r, p) /\ sent = {}
      BY <1>8, <2>1, <2>2, FS_EmptySet DEF CountCase
    <2>3. CASE s = Won(Told(r, p), p.to) /\ sent = sendHeartbeat(s, p.to)
      <3>1. s \in Objects /\ s.type = "Leader"
        BY <1>0, <2>1, <2>3, WonEffect
      <3> QED
        BY <1>0, <2>3, <3>1, SentEffect
    <2> QED
      BY <1>8, <2>2, <2>3 DEF CountCase
  <1> QED
    BY <1>1, <1>2, <1>3, <1>4, <1>5, <1>6, <1>7, <1>8 DEF HandledCase

\* checkTerm(), which every handler calls first.
LEMMA CheckTermEffect ==
  ASSUME use \in Setups, NEW o \in Objects, NEW p \in Packets, NEW r, r = checkTerm(o, p)
  PROVE  /\ r \in Objects /\ p.term <= r.term
         /\ \/ r = o
            \/ p.term > o.term /\ r = stepDownToFollower(o, p.term)
  <1>1. p.term \in 0 .. MaxTerm /\ o.term \in 0 .. MaxTerm
    BY DEF Packets, Objects
  <1>2. CASE p.term > o.term
    <2>1. r = stepDownToFollower(o, p.term)
      BY <1>2 DEF checkTerm
    <2> QED
      BY <1>1, <1>2, <2>1, StepDownEffect
  <1>3. CASE ~(p.term > o.term)
    BY <1>1, <1>3 DEF checkTerm
  <1> QED
    BY <1>2, <1>3

\* receivePacket().
LEMMA ReceiveEffect ==
  ASSUME use \in Setups, Typed(node, net), NEW p \in net, receivePacket(p)
  PROVE  \E version, s, sent :
           /\ version \in nodeGetVersion(p.to)
           /\ HandledCase(checkTerm(node[p.to], p), p, version, s, sent)
           /\ node' = [node EXCEPT ![p.to] = s]
           /\ net' \subseteq net \cup sent /\ IsFiniteSet(net')
           /\ Cardinality(net') <= MaxInFlight
  <1> DEFINE r == checkTerm(node[p.to], p)
             Handled(version) == CASE p.type = "Append" -> rpcAppend(r, p, version)
                                   [] p.type = "ReqVote" -> rpcReqVote(r, p, version)
                                   [] p.type = "AppendResponse" -> rpcAppendResponse(r, p)
                                   [] p.type = "VoteResponse" -> rpcReqVoteResponse(r, p)
  <1>1. PICK version \in nodeGetVersion(p.to) :
          /\ node' = [node EXCEPT ![p.to] = Handled(version).node]
          /\ net' \in Carry(net \ {p}, Handled(version).sent)
    BY Zenon DEF receivePacket
  <1> DEFINE s == Handled(version).node
             sent == Handled(version).sent
  <1>2. /\ p \in Packets /\ p.from # p.to /\ p.to \in Nodes /\ node[p.to] \in Objects
        /\ node[p.to].type = "Candidate" => p.to \in node[p.to].recv
        /\ IsFiniteSet(net \ {p})
    BY FS_Subset DEF Typed, Packets
  <1>3. r \in Objects /\ p.term <= r.term
    BY <1>2, CheckTermEffect
  <1>4. r.type = "Candidate" => p.to \in r.recv
    <2>1. CASE r = node[p.to]
      BY <1>2, <2>1
    <2>2. CASE r = stepDownToFollower(node[p.to], p.term)
      <3>1. p.term \in 0 .. MaxTerm
        BY <1>2 DEF Packets
      <3> QED
        BY <1>2, <2>2, <3>1, StepDownEffect
    <2> QED
      BY <1>2, <2>1, <2>2, CheckTermEffect
  <1>5. version \in Nat
    BY <1>2, UseFacts
  <1>6. HandledCase(r, p, version, s, sent)
    <2> HIDE DEF r
    <2>1. CASE p.type = "Append"
      <3>1. Handled(version) = rpcAppend(r, p, version)
        BY <2>1
      <3> HIDE DEF Handled
      <3> QED
        BY <1>2, <1>3, <1>5, <2>1, <3>1, RpcAppendEffect
    <2>2. CASE p.type = "ReqVote"
      <3>1. Handled(version) = rpcReqVote(r, p, version)
        BY <2>2
      <3> HIDE DEF Handled
      <3> QED
        BY <1>2, <1>3, <1>5, <2>2, <3>1, RpcReqVoteEffect
    <2>3. CASE p.type = "AppendResponse"
      <3>1. Handled(version) = rpcAppendResponse(r, p)
        BY <2>3
      <3> HIDE DEF Handled
      <3> QED
        BY <1>2, <1>3, <2>3, <3>1, ResponsesEffect
    <2>4. CASE p.type = "VoteResponse"
      <3>1. Handled(version) = rpcReqVoteResponse(r, p)
        BY <2>4
      <3> HIDE DEF Handled
      <3> QED
        BY <1>2, <1>3, <2>4, <3>1, ResponsesEffect
    <2> QED
      BY <1>2, <2>1, <2>2, <2>3, <2>4 DEF Packets
  <1> HIDE DEF s, sent, Handled, r
  <1>7. IsFiniteSet(sent)
    BY <1>2, <1>3, <1>4, <1>5, <1>6, HandledTyped
  <1>8. net' \in Carry(net \ {p}, sent)
    BY <1>1 DEF sent
  <1>9. /\ net' \subseteq net \cup sent /\ IsFiniteSet(net')
        /\ Cardinality(net') <= MaxInFlight
    BY <1>2, <1>7, <1>8, CarryEffect
  <1> QED
    BY <1>1, <1>6, <1>9, Zenon DEF s, r

\* electionTimeout().
LEMMA TimeoutEffect ==
  ASSUME use \in Setups, Typed(node, net), NEW n \in Nodes, electionTimeout(n)
  PROVE  \E version, sent :
           /\ version \in nodeGetVersion(n)
           /\ node' = [node EXCEPT ![n] = Standing(node[n], n, version)]
           /\ \A p \in sent : /\ p \in Packets /\ p.type = "ReqVote" /\ p.from = n /\ p.to # n
                              /\ p.term = Standing(node[n], n, version).term
                              /\ p.version = Standing(node[n], n, version).version
           /\ net' \subseteq net \cup sent /\ IsFiniteSet(net')
           /\ Cardinality(net') <= MaxInFlight
  <1> DEFINE Candidate(version) ==
        [node[n] EXCEPT !.type = "Candidate", !.term = @ + 1, !.votedFor = n,
                        !.granted = {n}, !.recv = {n}, !.heartbeat[n] = 0,
                        !.version = version]
  <1>1. PICK version \in nodeGetVersion(n) :
          /\ node' = [node EXCEPT ![n] = startElectionTimer(Candidate(version))]
          /\ net' \in Carry(net, sendRequestForVotes(Candidate(version), n))
    BY Zenon DEF electionTimeout
  <1> DEFINE c == Candidate(version)
             s == Standing(node[n], n, version)
             sent == sendRequestForVotes(c, n)
  <1>2. node[n] \in Objects /\ node[n].term < MaxTerm /\ version \in Nat /\ IsFiniteSet(net)
    BY UseFacts DEF Typed, electionTimeout
  <1>3. s = startElectionTimer(c)
    BY Zenon DEF Standing
  <1>4. s \in Objects /\ s.recv = {n}
    <2>1. node[n].term + 1 \in 0 .. MaxTerm
      BY <1>2, URaftAssumption DEF Objects
    <2> QED
      BY <1>2, <2>1, StandingEffect
  <1>5. sent = sendRequestForVotes(s, n)
    <2>1. c.term = s.term /\ c.version = s.version /\ c.recv = s.recv
      BY <1>2, <1>3, ZenonT(60) DEF startElectionTimer, Objects
    <2> QED
      BY <2>1 DEF sendRequestForVotes, Packet
  <1> HIDE DEF s, sent
  <1>6. /\ IsFiniteSet(sent)
        /\ \A p \in sent : /\ p \in Packets /\ p.type = "ReqVote" /\ p.from = n /\ p.to # n
                           /\ p.term = s.term /\ p.version = s.version
    BY <1>4, <1>5, SentEffect
  <1>7. net' \in Carry(net, sent) /\ node' = [node EXCEPT ![n] = s]
    BY <1>1, <1>3 DEF sent
  <1>8. /\ net' \subseteq net \cup sent /\ IsFiniteSet(net')
        /\ Cardinality(net') <= MaxInFlight
    BY <1>2, <1>6, <1>7, CarryEffect
  <1> QED
    BY <1>6, <1>7, <1>8, Zenon DEF s

\* The steps other than a tick: a packet is received, ...
Received(nd, nt, nd2, nt2) ==
  \E p \in nt : \E version, s, sent :
    /\ version \in nodeGetVersion(p.to)
    /\ HandledCase(checkTerm(nd[p.to], p), p, version, s, sent)
    /\ nd2 = [nd EXCEPT ![p.to] = s]
    /\ nt2 \subseteq nt \cup sent

\* ... an election timer expires, ...
Stood(nd, nt, nd2, nt2) ==
  \E n \in Nodes : \E version, sent :
    /\ version \in nodeGetVersion(n)
    /\ nd[n].type # "Leader" /\ nd[n].electionIn = 0
    /\ n \notin use.electors /\ nd[n].term < MaxTerm
    /\ nd2 = [nd EXCEPT ![n] = Standing(nd[n], n, version)]
    /\ \A p \in sent : /\ p \in Packets /\ p.type = "ReqVote" /\ p.from = n /\ p.to # n
                       /\ p.term = Standing(nd[n], n, version).term
                       /\ p.version = Standing(nd[n], n, version).version
    /\ nt2 \subseteq nt \cup sent

\* ... the controller gives up leadership, ...
Demoted(nd, nt, nd2, nt2) ==
  \E n \in Nodes : /\ nd[n].type # "Follower"
                   /\ nd2 = [nd EXCEPT ![n] = stepDownToFollower(nd[n], nd[n].term)]
                   /\ nt2 = nt

\* ... and a process starts again.
Restarted(nd, nt, nd2, nt2) ==
  /\ "restart" \in use.uses
  /\ \E n \in Nodes : /\ nd2 = [nd EXCEPT ![n] = NewNode(HeartbeatPeriod - 1)]
                      /\ nt2 = {p \in nt : n \notin {p.from, p.to}}

\* One object is replaced by another one of its type.
LEMMA TypedReplace ==
  ASSUME NEW nd, NEW nt, Typed(nd, nt), NEW n \in Nodes, NEW s \in Objects,
         s.type = "Candidate" => n \in s.recv,
         NEW sent \in SUBSET Packets, \A q \in sent : q.from # q.to,
         NEW nt2, nt2 \subseteq nt \cup sent, IsFiniteSet(nt2)
  PROVE  Typed([nd EXCEPT ![n] = s], nt2)
  BY DEF Typed

\* Every step is one of these, keeps the objects and the packets of their types
\* and the packets few.
LEMMA StepCases ==
  ASSUME use \in Setups, Typed(node, net), Cardinality(net) <= MaxInFlight, Step
  PROVE  /\ \/ Ticked(node, net, node', net')
            \/ Received(node, net, node', net')
            \/ Stood(node, net, node', net')
            \/ Demoted(node, net, node', net')
            \/ Restarted(node, net, node', net')
         /\ Typed(node', net') /\ Cardinality(net') <= MaxInFlight
  <1>1. CASE Tick
    BY <1>1, TickEffect
  <1>2. ASSUME NEW n \in Nodes, electionTimeout(n)
        PROVE  /\ Stood(node, net, node', net')
               /\ Typed(node', net') /\ Cardinality(net') <= MaxInFlight
    <2>1. PICK version, sent :
            /\ version \in nodeGetVersion(n)
            /\ node' = [node EXCEPT ![n] = Standing(node[n], n, version)]
            /\ \A p \in sent : /\ p \in Packets /\ p.type = "ReqVote" /\ p.from = n /\ p.to # n
                               /\ p.term = Standing(node[n], n, version).term
                               /\ p.version = Standing(node[n], n, version).version
            /\ net' \subseteq net \cup sent /\ IsFiniteSet(net')
            /\ Cardinality(net') <= MaxInFlight
      BY <1>2, TimeoutEffect
    <2>2. /\ node[n].type # "Leader" /\ node[n].electionIn = 0
          /\ n \notin use.electors /\ node[n].term < MaxTerm
      BY <1>2 DEF electionTimeout
    <2>3. Stood(node, net, node', net')
      BY <2>1, <2>2, Zenon DEF Stood
    <2> DEFINE s == Standing(node[n], n, version)
    <2>4. node[n] \in Objects /\ version \in Nat /\ node[n].term + 1 \in 0 .. MaxTerm
      BY <2>1, <2>2, UseFacts, URaftAssumption DEF Typed, Objects
    <2>5. s \in Objects /\ s.recv = {n}
      BY <2>4, StandingEffect
    <2> HIDE DEF s
    <2>6. sent \in SUBSET Packets /\ \A q \in sent : q.from # q.to
      BY <2>1
    <2>7. Typed([node EXCEPT ![n] = s], net')
      BY <2>1, <2>5, <2>6, TypedReplace, Zenon
    <2> QED
      BY <2>1, <2>3, <2>7 DEF s
  <1>3. ASSUME NEW p \in net, receivePacket(p)
        PROVE  /\ Received(node, net, node', net')
               /\ Typed(node', net') /\ Cardinality(net') <= MaxInFlight
    <2> DEFINE r == checkTerm(node[p.to], p)
    <2>1. PICK version, s, sent :
            /\ version \in nodeGetVersion(p.to)
            /\ HandledCase(r, p, version, s, sent)
            /\ node' = [node EXCEPT ![p.to] = s]
            /\ net' \subseteq net \cup sent /\ IsFiniteSet(net')
            /\ Cardinality(net') <= MaxInFlight
      BY <1>3, ReceiveEffect
    <2>2. Received(node, net, node', net')
      BY <2>1, Zenon DEF Received
    <2>3. /\ p \in Packets /\ p.from # p.to /\ p.to \in Nodes /\ node[p.to] \in Objects
          /\ p.term \in 0 .. MaxTerm /\ version \in Nat
          /\ node[p.to].type = "Candidate" => p.to \in node[p.to].recv
      BY <2>1, UseFacts DEF Typed, Packets
    <2>4. /\ r \in Objects
          /\ r = node[p.to] \/ r = stepDownToFollower(node[p.to], p.term)
      BY <2>3, CheckTermEffect
    <2>5. r.type = "Candidate" => p.to \in r.recv
      BY <2>3, <2>4, StepDownEffect
    <2> HIDE DEF r
    <2>6. /\ s \in Objects /\ (s.type = "Candidate" => p.to \in s.recv)
          /\ sent \in SUBSET Packets /\ \A q \in sent : q.from # q.to
      BY <2>1, <2>3, <2>4, <2>5, HandledTyped
    <2>7. Typed(node', net')
      BY <2>1, <2>3, <2>6, TypedReplace, Zenon
    <2> QED
      BY <2>1, <2>2, <2>7
  <1>4. ASSUME NEW n \in Nodes, demoteLeader(n)
        PROVE  /\ Demoted(node, net, node', net')
               /\ Typed(node', net') /\ Cardinality(net') <= MaxInFlight
    <2> DEFINE s == stepDownToFollower(node[n], node[n].term)
    <2>1. node[n].type # "Follower" /\ node' = [node EXCEPT ![n] = s] /\ net' = net
      BY <1>4 DEF demoteLeader
    <2>2. Demoted(node, net, node', net')
      BY <2>1, Zenon DEF Demoted
    <2>3. node[n] \in Objects /\ node[n].term \in 0 .. MaxTerm
      BY DEF Typed, Objects
    <2>4. s \in Objects /\ s.type = "Follower"
      BY <2>3, StepDownEffect
    <2> HIDE DEF s
    <2>5. Typed([node EXCEPT ![n] = s], net)
      BY <2>4 DEF Typed
    <2> QED
      BY <2>1, <2>2, <2>5
  <1>5. ASSUME NEW n \in Nodes, Restart(n)
        PROVE  /\ Restarted(node, net, node', net')
               /\ Typed(node', net') /\ Cardinality(net') <= MaxInFlight
    <2> DEFINE s == NewNode(HeartbeatPeriod - 1)
    <2>1. node' = [node EXCEPT ![n] = s] /\ net' = {p \in net : n \notin {p.from, p.to}}
      BY <1>5 DEF Restart
    <2>2. Restarted(node, net, node', net')
      BY <1>5, <2>1, Zenon DEF Restarted, Restart
    <2>3. s \in Objects /\ s.type = "Follower"
      BY UseFacts, NewNodeEffect
    <2> HIDE DEF s
    <2>4. IsFiniteSet(net) /\ net' \subseteq net
      BY <2>1 DEF Typed
    <2>5. /\ IsFiniteSet(net') /\ Cardinality(net') <= Cardinality(net)
          /\ Cardinality(net) \in Nat /\ Cardinality(net') \in Nat
      BY <2>4, FS_Subset, FS_CardinalityType
    <2>6. Typed([node EXCEPT ![n] = s], net')
      BY <2>3, <2>4, <2>5 DEF Typed
    <2> QED
      BY <2>1, <2>2, <2>5, <2>6, URaftAssumption
  <1> QED
    BY <1>1, <1>2, <1>3, <1>4, <1>5 DEF Step

\* A handler, after checkTerm().
Handled(nd, nt, p, version, nd2, nt2) ==
  \E s, sent : /\ HandledCase(nd[p.to], p, version, s, sent)
               /\ nd2 = [nd EXCEPT ![p.to] = s] /\ nt2 \subseteq nt \cup sent

\* receivePacket() in two stages: checkTerm() makes mid of the objects, then comes the
\* handler.
LEMMA ReceivedStages ==
  ASSUME use \in Setups, NEW nd, NEW nt, Typed(nd, nt), NEW nd2, NEW nt2,
         Received(nd, nt, nd2, nt2)
  PROVE  \E p, version, mid :
           /\ p \in nt /\ version \in Nat
           /\ p.to \in Nodes /\ p.term \in 0 .. MaxTerm /\ version \in nodeGetVersion(p.to)
           /\ \/ mid = nd
              \/ /\ p.term > nd[p.to].term
                 /\ mid = [nd EXCEPT ![p.to] = stepDownToFollower(nd[p.to], p.term)]
           /\ Typed(mid, nt) /\ p.term <= mid[p.to].term
           /\ Handled(mid, nt, p, version, nd2, nt2)
  <1>0. PICK p \in nt : \E version, s, sent :
          /\ version \in nodeGetVersion(p.to)
          /\ HandledCase(checkTerm(nd[p.to], p), p, version, s, sent)
          /\ nd2 = [nd EXCEPT ![p.to] = s] /\ nt2 \subseteq nt \cup sent
    BY Zenon DEF Received
  <1>1. PICK version, s, sent :
          /\ version \in nodeGetVersion(p.to)
          /\ HandledCase(checkTerm(nd[p.to], p), p, version, s, sent)
          /\ nd2 = [nd EXCEPT ![p.to] = s] /\ nt2 \subseteq nt \cup sent
    BY <1>0, Zenon
  <1>2. /\ p \in Packets /\ p.to \in Nodes /\ nd[p.to] \in Objects /\ p.term \in 0 .. MaxTerm
        /\ version \in Nat
    BY <1>1, UseFacts DEF Typed, Packets
  <1> DEFINE r == checkTerm(nd[p.to], p)
             mid == [nd EXCEPT ![p.to] = r]
  <1>3. /\ r \in Objects /\ p.term <= r.term
        /\ \/ r = nd[p.to]
           \/ p.term > nd[p.to].term /\ r = stepDownToFollower(nd[p.to], p.term)
    BY <1>2, CheckTermEffect
  <1>4. /\ Typed(mid, nt)
        /\ \/ mid = nd
           \/ /\ p.term > nd[p.to].term
              /\ mid = [nd EXCEPT ![p.to] = stepDownToFollower(nd[p.to], p.term)]
    <2>1. CASE r = nd[p.to]
      <3>1. mid = nd
        BY <1>2, <2>1 DEF Typed
      <3> QED
        BY <3>1, Zenon
    <2>2. CASE p.term > nd[p.to].term /\ r = stepDownToFollower(nd[p.to], p.term)
      <3>1. r.type = "Follower"
        BY <1>2, <2>2, StepDownEffect
      <3> HIDE DEF r
      <3>2. Typed(mid, nt)
        BY <1>2, <1>3, <3>1 DEF Typed
      <3> QED
        BY <2>2, <3>2
    <2> QED
      BY <1>3, <2>1, <2>2
  <1>5. HandledCase(r, p, version, s, sent)
    BY <1>1
  <1>6. mid[p.to] = r /\ nd2 = [mid EXCEPT ![p.to] = s]
    <2> HIDE DEF r
    <2> QED
      BY <1>1, <1>2, Zenon DEF Typed
  <1>7. p.term <= mid[p.to].term
    BY <1>3, <1>6
  <1> HIDE DEF mid, r
  <1>8. Handled(mid, nt, p, version, nd2, nt2)
    BY <1>1, <1>5, <1>6, Zenon DEF Handled
  <1> QED
    BY <1>1, <1>2, <1>4, <1>7, <1>8, Zenon DEF mid, r

-----------------------------------------------------------------------------
(* Types. *)

\* The set-up, the objects and the packets.
WellTyped == use \in Setups /\ Typed(node, net) /\ Cardinality(net) <= MaxInFlight

\* init() leaves objects of their types, and no packet has been sent.
LEMMA InitTyped == ASSUME Init PROVE WellTyped
  <1>1. PICK phase \in [Nodes -> 0 .. HeartbeatPeriod - 1] :
          node = [n \in Nodes |-> NewNode(phase[n])]
    BY DEF Init
  <1>2. use \in Setups /\ net = {}
    BY DEF Init
  <1>3. ASSUME NEW n \in Nodes PROVE node[n] \in Objects /\ node[n].type = "Follower"
    BY <1>1, <1>2, NewNodeEffect
  <1>4. node \in [Nodes -> Objects]
    BY <1>1, <1>3
  <1>5. IsFiniteSet(net) /\ Cardinality(net) = 0
    BY <1>2, FS_EmptySet
  <1> QED
    BY <1>2, <1>3, <1>4, <1>5, URaftAssumption DEF WellTyped, Typed

\* The types are inductive.
LEMMA WellTypedInvariant == Spec => []WellTyped
  <1>1. WellTyped /\ [Next]_vars => WellTyped'
    <2> SUFFICES ASSUME WellTyped, [Next]_vars PROVE WellTyped'
      OBVIOUS
    <2>1. CASE Next
      <3>1. Typed(node', net') /\ Cardinality(net') <= MaxInFlight /\ use' = use
        BY <2>1, StepCases DEF Next, WellTyped
      <3> QED
        BY <3>1 DEF WellTyped, Typed, Objects
    <2>2. CASE UNCHANGED vars
      BY <2>2 DEF vars, WellTyped, Typed, Objects
    <2> QED
      BY <2>1, <2>2
  <1> QED
    BY InitTyped, <1>1, PTL DEF Spec

\* Every method of the object keeps its fields in their ranges: the streak of
\* missed quorums ends with the grace, no age of a heartbeat exceeds the length of
\* an agreement.
THEOREM TypeOKThm == Spec => []TypeOK
  <1>1. WellTyped => TypeOK
    BY DEF WellTyped, Typed, Objects, TypeOK
  <1> QED
    BY WellTypedInvariant, <1>1, PTL
=============================================================================
