------------------------- MODULE URaftLoyaltyProofs -------------------------
(***************************************************************************)
(* A president has a loyal quorum.  The president counts heartbeats, the   *)
(* nodes that agreed with it count ticks; the invariant relates the two    *)
(* clocks, also for the answers that are still on their way, so that no    *)
(* agreement ends before the president has stopped to count on it.         *)
(***************************************************************************)
EXTENDS URaftProofs

\* A president that misses its quorum steps down before the election timer of a
\* follower could expire (20 ms * 5 and 300 ms by default).
Patient == HeartbeatPeriod * use.grace <= ElectionMin

\* The heartbeats without a quorum after which a president steps down.
Grace == IF use.grace = 0 THEN 1 ELSE use.grace

\* Ticks since the heartbeat of the node r that is age heartbeats ago.
Since(r, age) == HeartbeatPeriod * age + HeartbeatPeriod - 1 - r.beatIn

\* A node's own timers.  A president that has accepted another node's append
\* steps down before its election timer expires.
Timers(r) ==
  /\ r.loyalty <= r.electionIn
  /\ r.president \/ r.streak = 0
  /\ r.president => /\ r.streak < Grace /\ r.type # "Candidate"
                    /\ r.type = "Follower" =>
                         r.electionIn > r.beatIn + HeartbeatPeriod * (Grace - 1 - r.streak)

\* An agreement lasts at least as long as the president counts on it.
Heard(nd, n, j) ==
  j # n /\ nd[n].heartbeat[j] < Stale =>
    nd[j].loyalty + Since(nd[n], nd[n].heartbeat[j]) >= ElectionMin

\* A president counts a quorum.
Counted(r, n) ==
  r.president /\ r.streak = 0 =>
    Cardinality({j \in Nodes : j = n \/ r.heartbeat[j] < Stale}) >= quorum

\* The node r sent the request of the packet p, and has not been able to stand
\* for election since.
Requested(r, p) ==
  /\ r.type # "Candidate"
  /\ r.type = "Follower" /\ ~r.president => Since(r, p.age) + r.electionIn >= ElectionMin

PacketTiming(nd, p) ==
  /\ p.type = "Append" /\ p.age < Stale =>
       /\ Requested(nd[p.from], p)
       /\ nd[p.from].type = "Leader" => p.term >= nd[p.from].term
  /\ p.type = "AppendResponse" /\ p.age < Stale =>
       /\ Requested(nd[p.to], p)
       /\ nd[p.to].type = "Leader" =>
            /\ p.result => nd[p.from].loyalty + Since(nd[p.to], p.age) >= ElectionMin
            /\ ~p.result => p.term > nd[p.to].term

Timing(nd, nt) ==
  /\ \A n \in Nodes : Timers(nd[n]) /\ Counted(nd[n], n)
  /\ \A n, j \in Nodes : Heard(nd, n, j)
  /\ \A p \in nt : PacketTiming(nd, p)

-----------------------------------------------------------------------------

\* What a node counts on lies less than an agreement back.
LEMMA SinceFacts ==
  ASSUME NEW r \in Objects, NEW age \in 0 .. Stale
  PROVE  /\ Since(r, age) \in Nat
         /\ age < Stale => Since(r, age) < ElectionMin
  <1>1. /\ HeartbeatPeriod * age \in Nat
        /\ HeartbeatPeriod * (age + 1) = HeartbeatPeriod * age + HeartbeatPeriod
        /\ age < Stale <=> HeartbeatPeriod * (age + 1) <= ElectionMin
    BY StaleFacts
  <1>2. r.beatIn \in 0 .. HeartbeatPeriod - 1
    BY DEF Objects
  <1> QED
    BY <1>1, <1>2, URaftAssumption DEF Since

\* The grace is short.
LEMMA GraceFacts ==
  ASSUME use \in Setups, Patient
  PROVE  /\ Grace \in Nat /\ Grace >= 1
         /\ \A k \in Nat : k < use.grace => k < Grace
         /\ \A k \in Nat : k < Grace => /\ HeartbeatPeriod * (Grace - 1 - k) \in Nat
                                        /\ HeartbeatPeriod * (Grace - 1 - k)
                                             <= ElectionMin - HeartbeatPeriod
  <1>1. use.grace \in Nat
    BY UseFacts
  <1>2. Grace \in Nat /\ Grace >= 1 /\ \A k \in Nat : k < use.grace => k < Grace
    BY <1>1 DEF Grace
  <1>3. HeartbeatPeriod * Grace <= ElectionMin
    BY <1>1, URaftAssumption DEF Grace, Patient
  <1>4. ASSUME NEW k \in Nat, k < Grace
        PROVE  /\ HeartbeatPeriod * (Grace - 1 - k) \in Nat
               /\ HeartbeatPeriod * (Grace - 1 - k) <= ElectionMin - HeartbeatPeriod
    <2> DEFINE g == Grace - 1
               h == g - k
    <2>1. g \in Nat /\ h \in Nat /\ h <= g /\ g + 1 = Grace
      BY <1>2, <1>4
    <2> HIDE DEF g, h
    <2>2. /\ HeartbeatPeriod * h \in Nat /\ HeartbeatPeriod * g \in Nat
          /\ HeartbeatPeriod * h <= HeartbeatPeriod * g
          /\ HeartbeatPeriod * (g + 1) = HeartbeatPeriod * g + HeartbeatPeriod
      BY <2>1, StaleFacts
    <2>3. HeartbeatPeriod * h <= ElectionMin - HeartbeatPeriod
      BY <1>3, <2>1, <2>2, URaftAssumption
    <2> QED
      BY <2>2, <2>3 DEF g, h
  <1> QED
    BY <1>2, <1>4

\* Packets may be lost, and others sent.
LEMMA TimingPackets ==
  ASSUME NEW nd, NEW nt, NEW nt2, NEW sent, Timing(nd, nt),
         nt2 \subseteq nt \cup sent, \A q \in sent : PacketTiming(nd, q)
  PROVE  Timing(nd, nt2)
  BY DEF Timing

\* What the packets of a node say stays true when its object o becomes s: it follows
\* another node from now on, it is what it was, or there are no packets.
Kept(o, s) ==
  \/ s.type = "Follower" /\ s.electionIn = ElectionMin
  \/ /\ s.type = o.type /\ s.president = o.president /\ s.term = o.term
     /\ s.electionIn >= o.electionIn /\ s.beatIn = o.beatIn
  \/ o.type = "Candidate"
  \/ o.type = "Follower" /\ ~o.president /\ o.electionIn = 0

\* The request of a packet in flight stays one that the node made in its present role.
LEMMA RequestedKept ==
  ASSUME NEW o \in Objects, NEW s \in Objects, Kept(o, s), s.loyalty >= o.loyalty,
         NEW p \in Packets, p.age < Stale, Requested(o, p)
  PROVE  /\ Requested(s, p)
         /\ s.type = "Leader" => /\ o.type = "Leader" /\ o.term = s.term
                                 /\ Since(s, p.age) = Since(o, p.age)
  <1>1. p.age \in 0 .. Stale
    BY DEF Packets
  <1>2. /\ Since(o, p.age) \in Nat /\ Since(o, p.age) < ElectionMin /\ Since(s, p.age) \in Nat
    BY <1>1, SinceFacts
  <1>3. /\ o.electionIn \in 0 .. ElectionMin /\ s.electionIn \in 0 .. ElectionMin
        /\ ElectionMin \in Nat
    BY URaftAssumption DEF Objects
  <1>4. CASE s.type = "Follower" /\ s.electionIn = ElectionMin
    BY <1>2, <1>3, <1>4 DEF Requested
  <1>5. CASE /\ s.type = o.type /\ s.president = o.president /\ s.term = o.term
             /\ s.electionIn >= o.electionIn /\ s.beatIn = o.beatIn
    <2>1. Since(s, p.age) = Since(o, p.age)
      BY <1>5 DEF Since
    <2> HIDE DEF Since
    <2> QED
      BY <1>2, <1>3, <1>5, <2>1 DEF Requested
  <1>6. CASE o.type = "Candidate"
    BY <1>6 DEF Requested
  <1>7. CASE o.type = "Follower" /\ ~o.president /\ o.electionIn = 0
    BY <1>2, <1>3, <1>7 DEF Requested
  <1> QED
    BY <1>4, <1>5, <1>6, <1>7 DEF Kept

\* One object is replaced.
LEMMA TimingFrame ==
  ASSUME NEW nd, NEW nt, Typed(nd, nt), Timing(nd, nt), NEW n \in Nodes,
         NEW s \in Objects, Timers(s), Counted(s, n), Kept(nd[n], s),
         s.loyalty >= nd[n].loyalty,
         \A j \in Nodes \ {n} : s.heartbeat[j] < Stale =>
           nd[j].loyalty + Since(s, s.heartbeat[j]) >= ElectionMin,
         NEW nd2, nd2 = [nd EXCEPT ![n] = s]
  PROVE  Timing(nd2, nt)
  <1>1. /\ \A k \in Nodes : nd[k] \in Objects
        /\ nd2[n] = s /\ \A k \in Nodes \ {n} : nd2[k] = nd[k]
    BY DEF Typed
  <1>2. ASSUME NEW k \in Nodes PROVE Timers(nd2[k]) /\ Counted(nd2[k], k)
    BY <1>1 DEF Timing
  <1>3. ASSUME NEW m \in Nodes, NEW j \in Nodes, j # m, nd2[m].heartbeat[j] < Stale
        PROVE  nd2[j].loyalty + Since(nd2[m], nd2[m].heartbeat[j]) >= ElectionMin
    <2>1. CASE m = n
      BY <1>1, <1>3, <2>1
    <2>2. CASE m # n
      <3>1. nd2[m] = nd[m] /\ nd[j].loyalty + Since(nd[m], nd[m].heartbeat[j]) >= ElectionMin
        BY <1>1, <1>3, <2>2 DEF Timing, Heard
      <3>2. nd2[j].loyalty >= nd[j].loyalty
        BY <1>1 DEF Objects
      <3>3. /\ Since(nd[m], nd[m].heartbeat[j]) \in Nat
            /\ nd2[j].loyalty \in Nat /\ nd[j].loyalty \in Nat /\ ElectionMin \in Nat
        BY <1>1, SinceFacts, URaftAssumption DEF Objects
      <3> QED
        BY <3>1, <3>2, <3>3
    <2> QED
      BY <2>1, <2>2
  <1>4. ASSUME NEW p \in nt PROVE PacketTiming(nd2, p)
    <2>1. /\ p \in Packets /\ p.from # p.to /\ p.from \in Nodes /\ p.to \in Nodes
          /\ PacketTiming(nd, p)
      BY DEF Typed, Packets, Timing
    <2>2. ASSUME p.type = "Append", p.age < Stale
          PROVE  /\ Requested(nd2[p.from], p)
                 /\ nd2[p.from].type = "Leader" => p.term >= nd2[p.from].term
      <3>1. /\ Requested(nd[p.from], p)
            /\ nd[p.from].type = "Leader" => p.term >= nd[p.from].term
        BY <2>1, <2>2 DEF PacketTiming
      <3>2. CASE p.from = n
        BY <1>1, <2>1, <2>2, <3>1, <3>2, RequestedKept
      <3>3. CASE p.from # n
        BY <1>1, <2>1, <3>1, <3>3
      <3> QED
        BY <3>2, <3>3
    <2>3. ASSUME p.type = "AppendResponse", p.age < Stale
          PROVE  /\ Requested(nd2[p.to], p)
                 /\ nd2[p.to].type = "Leader" =>
                     /\ p.result => nd2[p.from].loyalty + Since(nd2[p.to], p.age) >= ElectionMin
                     /\ ~p.result => p.term > nd2[p.to].term
      <3>1. /\ Requested(nd[p.to], p)
            /\ nd[p.to].type = "Leader" =>
                 /\ p.result => nd[p.from].loyalty + Since(nd[p.to], p.age) >= ElectionMin
                 /\ ~p.result => p.term > nd[p.to].term
        BY <2>1, <2>3 DEF PacketTiming
      <3>2. CASE p.to = n
        <4>1. nd2[p.from] = nd[p.from] /\ nd2[p.to] = s
          BY <1>1, <2>1, <3>2
        <4>2. /\ Requested(s, p)
              /\ s.type = "Leader" => /\ nd[n].type = "Leader" /\ nd[n].term = s.term
                                      /\ Since(s, p.age) = Since(nd[n], p.age)
          BY <1>1, <2>1, <2>3, <3>1, <3>2, RequestedKept
        <4> QED
          BY <3>1, <3>2, <4>1, <4>2
      <3>3. CASE p.to # n
        <4>1. nd2[p.to] = nd[p.to] /\ nd2[p.from].loyalty >= nd[p.from].loyalty
          BY <1>1, <2>1, <3>3 DEF Objects
        <4>2. /\ nd2[p.from].loyalty \in Nat /\ nd[p.from].loyalty \in Nat
              /\ Since(nd[p.to], p.age) \in Nat /\ ElectionMin \in Nat
          BY <1>1, <2>1, SinceFacts, URaftAssumption DEF Objects, Packets
        <4> QED
          BY <3>1, <4>1, <4>2
      <3> QED
        BY <3>2, <3>3
    <2> QED
      BY <2>2, <2>3 DEF PacketTiming
  <1> QED
    BY <1>2, <1>3, <1>4, Zenon DEF Timing, Heard

-----------------------------------------------------------------------------
(* The steps. *)

\* The ages of the other nodes' heartbeats are kept.
SameAges(o, s, n) ==
  s.beatIn = o.beatIn /\ \A j \in Nodes \ {n} : s.heartbeat[j] = o.heartbeat[j]

\* One object is replaced; the ages of the other nodes' heartbeats are kept, and no
\* node becomes president.
LEMMA TimingSameAges ==
  ASSUME NEW nd, NEW nt, Typed(nd, nt), Timing(nd, nt), NEW n \in Nodes,
         NEW s \in Objects, Timers(s), Kept(nd[n], s), s.loyalty >= nd[n].loyalty,
         SameAges(nd[n], s, n),
         s.president /\ s.streak = 0 => nd[n].president /\ nd[n].streak = 0,
         NEW nd2, nd2 = [nd EXCEPT ![n] = s]
  PROVE  Timing(nd2, nt)
  <1>1. ASSUME NEW j \in Nodes \ {n}, s.heartbeat[j] < Stale
        PROVE  nd[j].loyalty + Since(s, s.heartbeat[j]) >= ElectionMin
    <2>1. /\ s.heartbeat[j] = nd[n].heartbeat[j]
          /\ Since(s, s.heartbeat[j]) = Since(nd[n], nd[n].heartbeat[j])
      BY DEF SameAges, Since
    <2> QED
      BY <1>1, <2>1 DEF Timing, Heard
  <1>2. Counted(s, n)
    <2> SUFFICES ASSUME s.president, s.streak = 0
                 PROVE  Cardinality({j \in Nodes : j = n \/ s.heartbeat[j] < Stale}) >= quorum
      BY DEF Counted
    <2>1. {j \in Nodes : j = n \/ s.heartbeat[j] < Stale}
            = {j \in Nodes : j = n \/ nd[n].heartbeat[j] < Stale}
      BY DEF SameAges
    <2> QED
      BY <2>1 DEF Timing, Counted
  <1> QED
    BY <1>1, <1>2, TimingFrame, Zenon

\* stepDownToFollower() keeps the agreements and gives other nodes time.
LEMMA TimingDown ==
  ASSUME use \in Setups, Patient, NEW nd, NEW nt, Typed(nd, nt), Timing(nd, nt),
         NEW n \in Nodes, NEW t \in 0 .. MaxTerm,
         NEW nd2, nd2 = [nd EXCEPT ![n] = stepDownToFollower(nd[n], t)]
  PROVE  Timing(nd2, nt)
  <1> DEFINE s == stepDownToFollower(nd[n], t)
  <1>1. nd[n] \in Objects
    BY DEF Typed
  <1>2. /\ s \in Objects
        /\ s.type = "Follower" /\ ~s.president /\ s.streak = 0
        /\ s.loyalty = nd[n].loyalty /\ s.heartbeat = nd[n].heartbeat
        /\ s.electionIn = ElectionMin /\ s.beatIn = nd[n].beatIn
    BY <1>1, StepDownEffect
  <1> HIDE DEF s
  <1>3. s.loyalty \in 0 .. ElectionMin
    BY <1>2 DEF Objects
  <1>4. /\ Timers(s) /\ Kept(nd[n], s) /\ SameAges(nd[n], s, n) /\ s.loyalty >= nd[n].loyalty
    BY <1>2, <1>3, URaftAssumption DEF Timers, Kept, SameAges
  <1> QED
    BY <1>2, <1>4, TimingSameAges, Zenon DEF s

\* A node that starts waits for the longest agreement.
LEMMA TimingNew ==
  ASSUME use \in Setups, Patient, NEW nd, NEW nt, Typed(nd, nt), Timing(nd, nt),
         NEW n \in Nodes,
         NEW nd2, nd2 = [nd EXCEPT ![n] = NewNode(HeartbeatPeriod - 1)]
  PROVE  Timing(nd2, nt)
  <1> DEFINE s == NewNode(HeartbeatPeriod - 1)
  <1>1. /\ s \in Objects
        /\ s.type = "Follower" /\ ~s.president /\ s.streak = 0
        /\ s.loyalty = ElectionMin /\ s.electionIn = ElectionMin
        /\ s.heartbeat = [j \in Nodes |-> Stale]
    BY UseFacts, NewNodeEffect
  <1> HIDE DEF s
  <1>2. nd[n].loyalty \in 0 .. ElectionMin
    BY DEF Typed, Objects
  <1>3. Timers(s) /\ Counted(s, n) /\ Kept(nd[n], s) /\ s.loyalty >= nd[n].loyalty
    BY <1>1, <1>2, URaftAssumption DEF Timers, Counted, Kept
  <1>4. \A j \in Nodes : ~(s.heartbeat[j] < Stale)
    BY <1>1, StaleFacts
  <1> QED
    BY <1>1, <1>3, <1>4, TimingFrame, Zenon DEF s

\* An election timer expires: the node has no agreement left, and those who made
\* one with it have none left either.
LEMMA TimingStood ==
  ASSUME use \in Setups, Patient, NEW nd, NEW nt, Typed(nd, nt), Timing(nd, nt),
         NEW nd2, NEW nt2, Stood(nd, nt, nd2, nt2)
  PROVE  Timing(nd2, nt2)
  <1>0. PICK n \in Nodes : \E version, sent :
          /\ version \in nodeGetVersion(n)
          /\ nd[n].type # "Leader" /\ nd[n].electionIn = 0 /\ nd[n].term < MaxTerm
          /\ nd2 = [nd EXCEPT ![n] = Standing(nd[n], n, version)]
          /\ \A p \in sent : p \in Packets /\ p.type = "ReqVote"
          /\ nt2 \subseteq nt \cup sent
    BY Zenon DEF Stood
  <1>1. PICK version, sent :
          /\ version \in nodeGetVersion(n)
          /\ nd[n].type # "Leader" /\ nd[n].electionIn = 0 /\ nd[n].term < MaxTerm
          /\ nd2 = [nd EXCEPT ![n] = Standing(nd[n], n, version)]
          /\ \A p \in sent : p \in Packets /\ p.type = "ReqVote"
          /\ nt2 \subseteq nt \cup sent
    BY <1>0, Zenon
  <1> DEFINE o == nd[n]
             s == Standing(nd[n], n, version)
  <1>2. o \in Objects /\ version \in Nat /\ o.term + 1 \in 0 .. MaxTerm
    BY <1>1, UseFacts, URaftAssumption DEF Typed, Objects
  <1>3. /\ s \in Objects
        /\ s.type = "Candidate" /\ s.president = o.president /\ s.streak = o.streak
        /\ s.loyalty = o.loyalty /\ s.electionIn = ElectionMin /\ s.beatIn = o.beatIn
        /\ \A j \in Nodes : s.heartbeat[j] = IF j = n THEN 0 ELSE o.heartbeat[j]
    BY <1>2, StandingEffect
  <1> HIDE DEF s
  <1>4. Timers(o)
    BY DEF Timing
  <1>5. ~o.president
    <2>1. o.streak \in Nat /\ o.beatIn \in Nat /\ (o.streak < Grace =>
            HeartbeatPeriod * (Grace - 1 - o.streak) \in Nat)
      BY <1>2, GraceFacts DEF Objects
    <2>2. o.type \in {"Follower", "Candidate"}
      BY <1>1, <1>2 DEF Objects
    <2> QED
      BY <1>1, <1>4, <2>1, <2>2 DEF Timers
  <1>6. Timers(s) /\ Kept(o, s) /\ SameAges(o, s, n) /\ s.loyalty >= o.loyalty
    <2>1. o.loyalty \in 0 .. ElectionMin
      BY <1>2 DEF Objects
    <2>2. o.type \in {"Follower", "Candidate"}
      BY <1>1, <1>2 DEF Objects
    <2>3. Timers(s) /\ SameAges(o, s, n) /\ s.loyalty >= o.loyalty
      BY <1>3, <1>4, <1>5, <2>1, URaftAssumption DEF Timers, SameAges
    <2>4. Kept(o, s)
      BY <1>1, <1>5, <2>2 DEF Kept
    <2> QED
      BY <2>3, <2>4
  <1>7. Timing(nd2, nt)
    BY <1>1, <1>3, <1>5, <1>6, TimingSameAges, Zenon DEF s
  <1>8. \A p \in sent : PacketTiming(nd2, p)
    BY <1>1 DEF PacketTiming
  <1> QED
    BY <1>1, <1>7, <1>8, TimingPackets, Zenon

\* A handler, after checkTerm().  A positive response says that an agreement was
\* signed after the request was sent; a negative one that the term is over.
LEMMA TimingHandled ==
  ASSUME use \in Setups, Patient, NEW nd, NEW nt, Typed(nd, nt), Timing(nd, nt),
         NEW p \in nt, NEW version \in Nat, NEW nd2, NEW nt2,
         Handled(nd, nt, p, version, nd2, nt2)
  PROVE  Timing(nd2, nt2)
  <1> DEFINE r == nd[p.to]
  <1>0. PICK s, sent : /\ HandledCase(r, p, version, s, sent)
                       /\ nd2 = [nd EXCEPT ![p.to] = s] /\ nt2 \subseteq nt \cup sent
    BY Zenon DEF Handled
  <1>1. /\ p \in Packets /\ p.from # p.to /\ p.from \in Nodes /\ p.to \in Nodes
        /\ r \in Objects /\ Timers(r) /\ PacketTiming(nd, p)
        /\ p.age \in 0 .. Stale
    BY DEF Typed, Packets, Timing
  <1>2. /\ r.loyalty \in 0 .. ElectionMin /\ r.electionIn \in 0 .. ElectionMin
        /\ r.beatIn \in 0 .. HeartbeatPeriod - 1 /\ r.streak \in Nat
        /\ r.type \in {"Follower", "Candidate", "Leader"} /\ ElectionMin \in Nat
        /\ HeartbeatPeriod \in Nat /\ HeartbeatPeriod >= 1
    BY <1>1, URaftAssumption DEF Objects
  <1>3. nd2[p.to] = s /\ \A k \in Nodes \ {p.to} : nd2[k] = nd[k]
    BY <1>0, <1>1 DEF Typed
  <1>4. CASE s = r /\ sent = {}
    <2>1. nd2 = nd
      BY <1>0, <1>1, <1>4 DEF Typed
    <2> QED
      BY <1>0, <1>4, <2>1, TimingPackets
  <1>5. CASE AbortCase(r, p, s, sent)
    <2>1. Timing(nd2, nt)
      BY <1>0, <1>1, <1>5, TimingNew, Zenon DEF AbortCase, Aborted
    <2> QED
      BY <1>0, <1>5, <2>1, TimingPackets, SMTT(30) DEF AbortCase
  <1>6. CASE RejectCase(r, p, s, sent)
    <2>1. nd2 = nd
      BY <1>0, <1>1, <1>6 DEF Typed, RejectCase
    <2>2. ASSUME NEW q \in sent PROVE PacketTiming(nd, q)
      <3>1. /\ q.type = "AppendResponse" /\ q.to = p.from /\ q.term = r.term
            /\ q.age = p.age /\ ~q.result /\ p.term < r.term /\ p.type = "Append"
        BY <1>6 DEF RejectCase, Replied
      <3>2. ASSUME q.age < Stale
            PROVE  /\ Requested(nd[q.to], q)
                   /\ nd[q.to].type = "Leader" => q.term > nd[q.to].term
        <4>1. /\ Requested(nd[p.from], p)
              /\ nd[p.from].type = "Leader" => p.term >= nd[p.from].term
          BY <1>1, <3>1, <3>2 DEF PacketTiming
        <4>2. Requested(nd[p.from], q)
          BY <3>1, <4>1 DEF Requested
        <4>3. p.term \in Int /\ r.term \in Int /\ nd[p.from].term \in Int
          BY <1>1 DEF Packets, Objects, Typed
        <4> QED
          BY <3>1, <4>1, <4>2, <4>3
      <3> QED
        BY <3>1, <3>2 DEF PacketTiming
    <2> QED
      BY <1>0, <2>1, <2>2, TimingPackets
  <1>7. CASE AcceptCase(r, p, version, s, sent)
    <2>1. /\ s \in Objects
          /\ s.type = "Follower" /\ s.president = r.president /\ s.streak = r.streak
          /\ s.loyalty = ElectionMin /\ s.electionIn = ElectionMin
          /\ s.beatIn = r.beatIn /\ s.heartbeat = r.heartbeat
      BY <1>1, <1>7, AcceptedEffect, SMTT(30) DEF AcceptCase
    <2>2. Timers(s)
      <3>1. r.streak < Grace =>
              /\ HeartbeatPeriod * (Grace - 1 - r.streak) \in Nat
              /\ HeartbeatPeriod * (Grace - 1 - r.streak) <= ElectionMin - HeartbeatPeriod
        BY <1>2, GraceFacts
      <3> QED
        BY <1>1, <1>2, <2>1, <3>1, SMTT(30) DEF Timers
    <2>3. Kept(r, s) /\ SameAges(r, s, p.to) /\ s.loyalty >= r.loyalty
      BY <1>2, <2>1 DEF Kept, SameAges
    <2>4. Timing(nd2, nt)
      BY <1>0, <1>1, <2>1, <2>2, <2>3, TimingSameAges, Zenon
    <2>5. ASSUME NEW q \in sent PROVE PacketTiming(nd2, q)
      <3>1. /\ q.type = "AppendResponse" /\ q.to = p.from /\ q.from = p.to
            /\ q.age = p.age /\ q.result /\ p.type = "Append"
        BY <1>7 DEF AcceptCase, Replied
      <3>2. nd2[q.to] = nd[p.from] /\ nd2[q.from] = s
        BY <1>1, <1>3, <3>1
      <3>3. ASSUME q.age < Stale
            PROVE  /\ Requested(nd[p.from], q)
                   /\ s.loyalty + Since(nd[p.from], q.age) >= ElectionMin
        <4>1. Requested(nd[p.from], p)
          BY <1>1, <3>1, <3>3 DEF PacketTiming
        <4>2. Requested(nd[p.from], q)
          BY <3>1, <4>1 DEF Requested
        <4>3. Since(nd[p.from], q.age) \in Nat
          BY <1>1, <3>1, SinceFacts DEF Typed
        <4> QED
          BY <1>2, <2>1, <4>2, <4>3, SMTT(30)
      <3> QED
        BY <3>1, <3>2, <3>3, Zenon DEF PacketTiming
    <2> QED
      BY <1>0, <2>4, <2>5, TimingPackets, Zenon
  <1>8. CASE NoteCase(r, p, s, sent)
    <2>1. /\ p.type = "AppendResponse" /\ p.term = r.term /\ r.type = "Leader"
          /\ p.age < r.heartbeat[p.from] /\ sent = {}
      BY <1>8, SMTT(30) DEF NoteCase
    <2>2. /\ s \in Objects
          /\ s.type = r.type /\ s.term = r.term /\ s.president = r.president
          /\ s.streak = r.streak /\ s.loyalty = r.loyalty /\ s.electionIn = r.electionIn
          /\ s.beatIn = r.beatIn
          /\ \A j \in Nodes : s.heartbeat[j] = IF j = p.from THEN p.age ELSE r.heartbeat[j]
      BY <1>1, <1>8, NotedEffect DEF NoteCase
    <2>3. r.heartbeat \in [Nodes -> 0 .. Stale] /\ Stale \in Nat
      BY <1>1, StaleFacts, Zenon DEF Objects
    <2>4. p.age < Stale
      BY <1>1, <2>1, <2>3, SMTT(30)
    <2>5. nd[p.from].loyalty + Since(s, p.age) >= ElectionMin
      <3>1. Since(s, p.age) = Since(r, p.age)
        BY <2>2 DEF Since
      <3>2. p.term \in Int /\ r.term \in Int
        BY <1>1 DEF Packets, Objects
      <3> QED
        BY <1>1, <2>1, <2>4, <3>1, <3>2, SMTT(30) DEF PacketTiming
    <2>6. ASSUME NEW j \in Nodes \ {p.to}, s.heartbeat[j] < Stale
          PROVE  nd[j].loyalty + Since(s, s.heartbeat[j]) >= ElectionMin
      <3>1. CASE j = p.from
        BY <2>2, <2>5, <3>1, SMTT(30)
      <3>2. CASE j # p.from
        <4>1. /\ s.heartbeat[j] = r.heartbeat[j]
              /\ Since(s, s.heartbeat[j]) = Since(r, r.heartbeat[j])
          BY <2>2, <3>2 DEF Since
        <4> QED
          BY <1>1, <2>6, <4>1, SMTT(30) DEF Timing, Heard
      <3> QED
        BY <3>1, <3>2
    <2>7. Counted(s, p.to)
      <3> SUFFICES ASSUME s.president, s.streak = 0
                   PROVE  Cardinality({j \in Nodes : j = p.to \/ s.heartbeat[j] < Stale}) >= quorum
        BY DEF Counted
      <3> DEFINE A == {j \in Nodes : j = p.to \/ r.heartbeat[j] < Stale}
                 B == {j \in Nodes : j = p.to \/ s.heartbeat[j] < Stale}
      <3>1. Cardinality(A) >= quorum
        BY <1>1, <2>2 DEF Timing, Counted
      <3>2. A \subseteq B /\ B \subseteq Nodes
        BY <2>2, <2>4
      <3>3. IsFiniteSet(B) /\ IsFiniteSet(Nodes)
        BY <3>2, FS_Subset, URaftAssumption
      <3>4. /\ Cardinality(A) <= Cardinality(B)
            /\ Cardinality(A) \in Nat /\ Cardinality(B) \in Nat /\ quorum \in Nat
        BY <3>2, <3>3, FS_Subset, FS_CardinalityType DEF quorum
      <3> HIDE DEF A, B
      <3>5. Cardinality(B) >= quorum
        BY <3>1, <3>4, SMTT(30)
      <3> QED
        BY <3>5 DEF B
    <2>8. Timers(s) /\ Kept(r, s) /\ s.loyalty >= r.loyalty
      BY <1>1, <1>2, <2>2 DEF Timers, Kept
    <2>9. Timing(nd2, nt)
      BY <1>0, <1>1, <2>2, <2>6, <2>7, <2>8, TimingFrame, Zenon
    <2> QED
      BY <1>0, <2>1, <2>9, TimingPackets
  <1>9. CASE GrantCase(r, p, version, s, sent)
    <2>1. /\ s \in Objects
          /\ s.type = "Follower" /\ s.president = r.president /\ s.term = r.term
          /\ s.streak = r.streak /\ s.loyalty = r.loyalty /\ s.electionIn = ElectionMin
          /\ s.beatIn = r.beatIn /\ s.heartbeat = r.heartbeat
          /\ r.type = "Follower"
      BY <1>1, <1>9, GrantEffect, SMTT(30)
    <2>2. Timers(s)
      <3>1. r.streak < Grace =>
              /\ HeartbeatPeriod * (Grace - 1 - r.streak) \in Nat
              /\ HeartbeatPeriod * (Grace - 1 - r.streak) <= ElectionMin - HeartbeatPeriod
        BY <1>2, GraceFacts
      <3> QED
        BY <1>1, <1>2, <2>1, <3>1, SMTT(30) DEF Timers
    <2>3. Kept(r, s) /\ SameAges(r, s, p.to) /\ s.loyalty >= r.loyalty
      BY <1>2, <2>1 DEF Kept, SameAges
    <2>4. Timing(nd2, nt)
      BY <1>0, <1>1, <2>1, <2>2, <2>3, TimingSameAges, Zenon
    <2>5. \A q \in sent : PacketTiming(nd2, q)
      BY <1>9, SMTT(30) DEF GrantCase, Replied, PacketTiming
    <2> QED
      BY <1>0, <2>4, <2>5, TimingPackets, Zenon
  <1>10. CASE RefuseCase(r, p, version, s, sent)
    <2>1. /\ s \in Objects
          /\ s.type = r.type /\ s.president = r.president /\ s.term = r.term
          /\ s.streak = r.streak /\ s.loyalty = r.loyalty /\ s.electionIn = r.electionIn
          /\ s.beatIn = r.beatIn /\ s.heartbeat = r.heartbeat
      BY <1>1, <1>10, RefuseEffect, SMTT(30)
    <2>2. Timers(s) /\ Kept(r, s) /\ SameAges(r, s, p.to) /\ s.loyalty >= r.loyalty
      BY <1>1, <1>2, <2>1 DEF Timers, Kept, SameAges
    <2>3. Timing(nd2, nt)
      BY <1>0, <1>1, <2>1, <2>2, TimingSameAges, Zenon
    <2>4. \A q \in sent : PacketTiming(nd2, q)
      BY <1>10, SMTT(30) DEF RefuseCase, Replied, PacketTiming
    <2> QED
      BY <1>0, <2>3, <2>4, TimingPackets, Zenon
  <1>11. CASE CountCase(r, p, s, sent)
    <2> DEFINE told == Told(r, p)
    <2>1. /\ told \in Objects
          /\ told.type = r.type /\ told.president = r.president
          /\ told.streak = r.streak /\ told.loyalty = r.loyalty
          /\ told.electionIn = r.electionIn
          /\ told.beatIn = r.beatIn /\ told.heartbeat = r.heartbeat
      BY <1>1, ToldEffect
    <2>2. /\ r.type = "Candidate"
          /\ \/ s = told /\ sent = {}
             \/ s = Won(told, p.to) /\ sent = sendHeartbeat(s, p.to)
      BY <1>11, Zenon DEF CountCase
    <2> HIDE DEF told
    <2>3. /\ s \in Objects
          /\ s.type \in {"Candidate", "Leader"} /\ s.president = r.president
          /\ s.streak = r.streak /\ s.loyalty = r.loyalty
          /\ s.electionIn \in {r.electionIn, ElectionMin}
          /\ s.beatIn = r.beatIn /\ s.heartbeat = r.heartbeat
          /\ sent = {} \/ (s.type = "Leader" /\ sent = sendHeartbeat(s, p.to))
      BY <1>1, <2>1, <2>2, WonEffect, SMTT(30)
    <2>4. Timers(s) /\ Kept(r, s) /\ SameAges(r, s, p.to) /\ s.loyalty >= r.loyalty
      BY <1>1, <1>2, <2>2, <2>3 DEF Timers, Kept, SameAges
    <2>5. Timing(nd2, nt)
      BY <1>0, <1>1, <2>3, <2>4, TimingSameAges, Zenon
    <2>6. ASSUME NEW q \in sent PROVE PacketTiming(nd2, q)
      <3>1. q.type = "Append" /\ q.from = p.to /\ q.term = s.term /\ s.type = "Leader"
        BY <1>1, <2>3, SentEffect, SMTT(30)
      <3>2. s.term \in Int
        BY <2>3 DEF Objects
      <3> QED
        BY <1>3, <3>1, <3>2, SMTT(30) DEF PacketTiming, Requested
    <2> QED
      BY <1>0, <2>5, <2>6, TimingPackets, Zenon
  <1> QED
    BY <1>0, <1>4, <1>5, <1>6, <1>7, <1>8, <1>9, <1>10, <1>11, SMTT(30) DEF HandledCase

\* receivePacket(): checkTerm() and the handler.
LEMMA TimingReceived ==
  ASSUME use \in Setups, Patient, NEW nd, NEW nt, Typed(nd, nt), Timing(nd, nt),
         NEW nd2, NEW nt2, Received(nd, nt, nd2, nt2)
  PROVE  Timing(nd2, nt2)
  <1>1. PICK p, version, mid :
          /\ p \in nt /\ version \in Nat
          /\ p.to \in Nodes /\ p.term \in 0 .. MaxTerm
          /\ \/ mid = nd
             \/ mid = [nd EXCEPT ![p.to] = stepDownToFollower(nd[p.to], p.term)]
          /\ Typed(mid, nt)
          /\ Handled(mid, nt, p, version, nd2, nt2)
    BY ReceivedStages
  <1>2. Timing(mid, nt)
    BY <1>1, TimingDown
  <1> QED
    BY <1>1, <1>2, TimingHandled

\* The grace of a president without a quorum runs out with its election timer.
LEMMA TickTimers ==
  ASSUME use \in Setups, Patient, NEW o \in Objects, NEW s \in Objects, NEW n \in Nodes,
         Timers(o), TickedNode(o, s, n)
  PROVE  Timers(s)
  <1> DEFINE e == IF o.type = "Leader" THEN o.electionIn ELSE Earlier(o.electionIn)
  <1>1. /\ o.loyalty \in 0 .. ElectionMin /\ o.electionIn \in 0 .. ElectionMin
        /\ o.beatIn \in 0 .. HeartbeatPeriod - 1 /\ o.streak \in Nat /\ s.streak \in Nat
        /\ ElectionMin \in Nat /\ HeartbeatPeriod \in Nat /\ use.grace \in Nat
    BY URaftAssumption DEF Objects
  <1>2. /\ e \in 0 .. ElectionMin /\ Earlier(o.loyalty) <= e
        /\ Earlier(o.loyalty) \in 0 .. ElectionMin
        /\ o.type = "Follower" => e = Earlier(o.electionIn)
    BY <1>1 DEF Earlier, Timers
  <1> HIDE DEF e
  <1>3. s.loyalty = Earlier(o.loyalty)
    BY DEF TickedNode
  <1>4. Grace \in Nat /\ Grace >= 1 /\ (\A k \in Nat : k < use.grace => k < Grace)
    BY GraceFacts
  <1>5. CASE o.beatIn = 0
    <2>1. MissedBeat(o, s, n, e) \/ LostBeat(o, s, n) \/ PlainBeat(o, s, n, e)
      BY <1>5 DEF TickedNode, e
    <2>2. s.beatIn = HeartbeatPeriod - 1
      BY <1>5 DEF TickedNode
    <2>3. CASE MissedBeat(o, s, n, e)
      <3>1. /\ o.president /\ o.streak + 1 < use.grace /\ s.type = o.type /\ s.president
            /\ s.streak = o.streak + 1 /\ s.electionIn = e
        BY <2>3 DEF MissedBeat
      <3>2. s.streak < Grace
        BY <1>1, <1>4, <3>1
      <3>3. ASSUME o.type = "Follower"
            PROVE  e > s.beatIn + HeartbeatPeriod * (Grace - 1 - s.streak)
        <4>1. o.electionIn > HeartbeatPeriod * (Grace - 1 - o.streak)
          BY <1>1, <1>5, <3>1, <3>3, <1>4, GraceFacts DEF Timers
        <4> DEFINE h == Grace - 1 - s.streak
        <4>2. h \in Nat /\ h + 1 = Grace - 1 - o.streak
          BY <1>1, <1>4, <3>1, <3>2
        <4> HIDE DEF h
        <4>3. /\ HeartbeatPeriod * h \in Nat
              /\ HeartbeatPeriod * (h + 1) = HeartbeatPeriod * h + HeartbeatPeriod
          BY <4>2, StaleFacts
        <4>4. o.electionIn > HeartbeatPeriod * h + HeartbeatPeriod
          BY <4>1, <4>2, <4>3
        <4>5. e = Earlier(o.electionIn)
          BY <1>2, <3>3
        <4>6. e > s.beatIn + HeartbeatPeriod * h
          BY <1>1, <2>2, <4>3, <4>4, <4>5, SMTT(30) DEF Earlier
        <4> QED
          BY <4>6 DEF h
      <3> QED
        BY <1>2, <1>3, <3>1, <3>2, <3>3, SMTT(30) DEF Timers
    <2>4. CASE LostBeat(o, s, n)
      BY <1>1, <1>2, <1>3, <2>4 DEF LostBeat, Timers
    <2>5. CASE PlainBeat(o, s, n, e)
      <3>1. /\ s.president => s.type = "Leader"
            /\ s.streak = 0 /\ s.electionIn = e
        BY <2>5 DEF PlainBeat, HasQuorum, Timers
      <3> QED
        BY <1>2, <1>3, <1>4, <3>1 DEF Timers
    <2> QED
      BY <2>1, <2>3, <2>4, <2>5
  <1>6. CASE o.beatIn # 0
    <2>1. /\ s.beatIn = o.beatIn - 1 /\ s.type = o.type /\ (s.president <=> o.president)
          /\ s.streak = o.streak /\ s.electionIn = e
      BY <1>6 DEF TickedNode, e
    <2>2. o.streak < Grace => HeartbeatPeriod * (Grace - 1 - o.streak) \in Nat
      BY <1>1, GraceFacts
    <2> QED
      BY <1>1, <1>2, <1>3, <2>1, <2>2, SMTT(30) DEF Timers, Earlier
  <1> QED
    BY <1>5, <1>6

\* A tick counts for the ages of heartbeats and of packets.
LEMMA TickSince ==
  ASSUME NEW o \in Objects, NEW s \in Objects, NEW n \in Nodes, TickedNode(o, s, n),
         NEW age \in 0 .. Stale, age < Stale
  PROVE  /\ o.beatIn = 0 => Since(s, age + 1) = Since(o, age) + 1
         /\ o.beatIn # 0 => Since(s, age) = Since(o, age) + 1
  <1>1. /\ HeartbeatPeriod * age \in Nat
        /\ HeartbeatPeriod * (age + 1) = HeartbeatPeriod * age + HeartbeatPeriod
    BY StaleFacts
  <1>2. o.beatIn \in 0 .. HeartbeatPeriod - 1 /\ HeartbeatPeriod \in Nat
    BY URaftAssumption DEF Objects
  <1> QED
    BY <1>1, <1>2 DEF TickedNode, Since

\* A tick: agreements get shorter by as much as the heartbeats they are about get
\* older, and heartbeat() makes no president without a loyal quorum.
LEMMA TimingTick ==
  ASSUME use \in Setups, Patient, NEW nd, NEW nt, Typed(nd, nt), Timing(nd, nt),
         NEW nd2, NEW nt2, Typed(nd2, nt2), Ticked(nd, nt, nd2, nt2)
  PROVE  Timing(nd2, nt2)
  <1>1. \A n \in Nodes : nd[n] \in Objects /\ nd2[n] \in Objects /\ TickedNode(nd[n], nd2[n], n)
    BY SMTT(30) DEF Typed, Ticked
  <1>2. /\ Stale \in Nat /\ ElectionMin \in Nat
        /\ \A n \in Nodes : /\ nd[n].loyalty \in Nat /\ nd2[n].loyalty \in Nat
                            /\ nd2[n].loyalty >= nd[n].loyalty - 1
    <2>1. Stale \in Nat
      BY StaleFacts
    <2> QED
      BY <1>1, <2>1, URaftAssumption DEF Objects, TickedNode, Earlier
  <1>3. ASSUME NEW n \in Nodes PROVE Timers(nd2[n])
    BY <1>1, TickTimers DEF Timing
  <1>4. ASSUME NEW n \in Nodes, nd2[n].president, nd2[n].streak = 0
        PROVE  Cardinality({j \in Nodes : j = n \/ nd2[n].heartbeat[j] < Stale}) >= quorum
    <2> DEFINE o == nd[n]
               s == nd2[n]
               e == IF o.type = "Leader" THEN o.electionIn ELSE Earlier(o.electionIn)
    <2>1. TickedNode(o, s, n) /\ o.streak \in Nat
      BY <1>1 DEF Objects
    <2>2. CASE o.beatIn = 0
      <3>1. /\ s.heartbeat = Older(o.heartbeat, n)
            /\ MissedBeat(o, s, n, e) \/ LostBeat(o, s, n) \/ PlainBeat(o, s, n, e)
        BY <2>1, <2>2, Zenon DEF TickedNode
      <3>2. HasQuorum(o, n)
        BY <1>4, <2>1, <3>1, SMTT(30) DEF MissedBeat, LostBeat, PlainBeat
      <3>3. {j \in Nodes : j = n \/ s.heartbeat[j] < Stale}
              = {j \in Nodes : Older(o.heartbeat, n)[j] < Stale}
        <4>1. Older(o.heartbeat, n)[n] = 0 /\ 0 < Stale
          BY StaleFacts DEF Older
        <4> QED
          BY <3>1, <4>1
      <3> QED
        BY <3>2, <3>3, SMTT(30) DEF HasQuorum
    <2>3. CASE o.beatIn # 0
      <3>1. s.heartbeat = o.heartbeat /\ o.president /\ o.streak = 0
        BY <1>4, <2>1, <2>3 DEF TickedNode
      <3> QED
        BY <3>1, SMTT(30) DEF Timing, Counted
    <2> QED
      BY <2>2, <2>3
  <1>5. ASSUME NEW n \in Nodes, NEW j \in Nodes, j # n, nd2[n].heartbeat[j] < Stale
        PROVE  nd2[j].loyalty + Since(nd2[n], nd2[n].heartbeat[j]) >= ElectionMin
    <2> DEFINE h == nd[n].heartbeat[j]
               h2 == nd2[n].heartbeat[j]
    <2>1. h \in 0 .. Stale /\ h2 \in 0 .. Stale
      BY <1>1 DEF Objects
    <2>2. /\ h < Stale
          /\ nd[n].beatIn = 0 => h2 = h + 1
          /\ nd[n].beatIn # 0 => h2 = h
      <3>1. /\ nd[n].beatIn = 0 => nd2[n].heartbeat = Older(nd[n].heartbeat, n)
            /\ nd[n].beatIn # 0 => nd2[n].heartbeat = nd[n].heartbeat
        BY <1>1 DEF TickedNode
      <3>2. Older(nd[n].heartbeat, n)[j] = IF h < Stale THEN h + 1 ELSE Stale
        BY <1>5 DEF Older
      <3> QED
        BY <1>2, <1>5, <2>1, <3>1, <3>2, SMTT(30)
    <2>3. Since(nd2[n], h2) = Since(nd[n], h) + 1
      <3> HIDE DEF h, h2
      <3> QED
        BY <1>1, <2>1, <2>2, TickSince, SMTT(30)
    <2>4. Since(nd[n], h) \in Nat
      BY <1>1, <2>1, SinceFacts, SMTT(30)
    <2>5. nd[j].loyalty + Since(nd[n], h) >= ElectionMin
      BY <1>5, <2>2 DEF Timing, Heard
    <2> HIDE DEF h, h2
    <2>6. nd2[j].loyalty + Since(nd2[n], h2) >= ElectionMin
      BY <1>2, <2>3, <2>4, <2>5, SMTT(30)
    <2> QED
      BY <2>6 DEF h2
  <1>6. ASSUME NEW c \in Nodes, NEW p \in Packets, NEW q \in Packets, q.age < Stale,
               q.age = IF nd[c].beatIn = 0 /\ p.age < Stale THEN p.age + 1 ELSE p.age,
               p.age < Stale => Requested(nd[c], p)
        PROVE  /\ p.age < Stale /\ Since(nd2[c], q.age) = Since(nd[c], p.age) + 1
               /\ Since(nd[c], p.age) \in Nat
               /\ Requested(nd2[c], q)
               /\ nd2[c].type = "Leader" => nd[c].type = "Leader"
    <2> DEFINE o == nd[c]
               s == nd2[c]
               e == IF o.type = "Leader" THEN o.electionIn ELSE Earlier(o.electionIn)
    <2>1. p.age \in 0 .. Stale /\ q.age \in 0 .. Stale
      BY DEF Packets
    <2>2. /\ p.age < Stale
          /\ o.beatIn = 0 => q.age = p.age + 1
          /\ o.beatIn # 0 => q.age = p.age
      BY <1>2, <1>6, <2>1, Zenon
    <2>3. Since(s, q.age) = Since(o, p.age) + 1
      BY <1>1, <2>1, <2>2, TickSince
    <2>4. Since(o, p.age) \in Nat
      BY <1>1, <2>1, SinceFacts
    <2>5. o.electionIn \in 0 .. ElectionMin /\ TickedNode(o, s, c)
      BY <1>1, SMTT(30) DEF Objects
    <2>6. \/ s.type = "Follower" /\ s.electionIn = ElectionMin
          \/ /\ s.type = o.type /\ s.electionIn = e
             /\ (s.president <=> o.president) \/ s.type = "Leader" \/ ~o.president
      BY <2>5, Zenon DEF TickedNode, MissedBeat, LostBeat, PlainBeat, HasQuorum
    <2>7. /\ s.type # "Candidate" /\ (s.type = "Leader" => o.type = "Leader")
      BY <1>6, <2>2, <2>6, SMTT(30) DEF Requested
    <2>8. ASSUME s.type = "Follower", ~s.president
          PROVE  Since(s, q.age) + s.electionIn >= ElectionMin
      <3>1. CASE s.electionIn = ElectionMin
        BY <1>2, <2>3, <2>4, <3>1
      <3>2. CASE o.type = "Follower" /\ s.electionIn = e /\ ~o.president
        <4>1. Since(o, p.age) + o.electionIn >= ElectionMin
          BY <1>6, <2>2, <3>2 DEF Requested
        <4>2. s.electionIn >= o.electionIn - 1 /\ s.electionIn \in Nat
          BY <2>5, <3>2 DEF Earlier
        <4> QED
          BY <1>2, <2>3, <2>4, <2>5, <4>1, <4>2, SMTT(30)
      <3> QED
        BY <2>6, <2>8, <3>1, <3>2
    <2> QED
      BY <2>2, <2>3, <2>4, <2>7, <2>8 DEF Requested
  <1>7. ASSUME NEW q \in nt2, OldPacket(nd, nt, q) PROVE PacketTiming(nd2, q)
    <2>1. PICK p \in nt :
            /\ q.type = p.type /\ q.from = p.from /\ q.to = p.to /\ q.term = p.term
            /\ q.result = p.result
            /\ p.type = "Append" => q.age = IF nd[p.from].beatIn = 0 /\ p.age < Stale
                                            THEN p.age + 1 ELSE p.age
            /\ p.type = "AppendResponse" => q.age = IF nd[p.to].beatIn = 0 /\ p.age < Stale
                                                    THEN p.age + 1 ELSE p.age
      BY <1>7 DEF OldPacket
    <2>2. /\ p \in Packets /\ q \in Packets /\ p.from \in Nodes /\ p.to \in Nodes
          /\ PacketTiming(nd, p)
      BY DEF Typed, Packets, Timing
    <2>3. \A n \in Nodes : nd2[n].term = nd[n].term
      BY <1>1 DEF TickedNode
    <2>4. ASSUME q.type = "Append", q.age < Stale
          PROVE  /\ Requested(nd2[q.from], q)
                 /\ nd2[q.from].type = "Leader" => q.term >= nd2[q.from].term
      <3>1. p.age < Stale =>
              /\ Requested(nd[p.from], p)
              /\ nd[p.from].type = "Leader" => p.term >= nd[p.from].term
        BY <2>1, <2>2, <2>4, SMTT(30) DEF PacketTiming
      <3>2. /\ p.age < Stale /\ Requested(nd2[p.from], q)
            /\ nd2[p.from].type = "Leader" => nd[p.from].type = "Leader"
        BY <1>6, <2>1, <2>2, <2>4, <3>1, SMTT(30)
      <3> QED
        BY <2>1, <2>2, <2>3, <3>1, <3>2, SMTT(30)
    <2>5. ASSUME q.type = "AppendResponse", q.age < Stale
          PROVE  /\ Requested(nd2[q.to], q)
                 /\ nd2[q.to].type = "Leader" =>
                     /\ q.result => nd2[q.from].loyalty + Since(nd2[q.to], q.age) >= ElectionMin
                     /\ ~q.result => q.term > nd2[q.to].term
      <3>1. p.age < Stale =>
              /\ Requested(nd[p.to], p)
              /\ nd[p.to].type = "Leader" =>
                   /\ p.result => nd[p.from].loyalty + Since(nd[p.to], p.age) >= ElectionMin
                   /\ ~p.result => p.term > nd[p.to].term
        BY <2>1, <2>2, <2>5, SMTT(30) DEF PacketTiming
      <3>2. /\ p.age < Stale /\ Since(nd2[p.to], q.age) = Since(nd[p.to], p.age) + 1
            /\ Since(nd[p.to], p.age) \in Nat
            /\ Requested(nd2[p.to], q)
            /\ nd2[p.to].type = "Leader" => nd[p.to].type = "Leader"
        BY <1>6, <2>1, <2>2, <2>5, <3>1, SMTT(30)
      <3>3. ASSUME nd2[p.to].type = "Leader", p.result
            PROVE  nd2[p.from].loyalty + Since(nd2[p.to], q.age) >= ElectionMin
        BY <1>2, <2>2, <3>1, <3>2, <3>3, SMTT(30)
      <3> QED
        BY <2>1, <2>2, <2>3, <3>1, <3>2, <3>3, SMTT(30)
    <2> QED
      BY <2>4, <2>5 DEF PacketTiming
  <1>8. ASSUME NEW q \in nt2, BeatPacket(nd2[q.from], q.from, q) PROVE PacketTiming(nd2, q)
    <2>1. q.from \in Nodes /\ q.term = nd2[q.from].term
      BY <1>8 DEF BeatPacket, Packets
    <2>2. nd2[q.from].term \in Int
      BY <1>1, <2>1, SMTT(30) DEF Objects
    <2>3. q.type = "Append" => nd2[q.from].type # "Candidate"
                               /\ (nd2[q.from].type = "Follower" => nd2[q.from].president)
      BY <1>3, <1>8, <2>1, SMTT(30) DEF BeatPacket, Timers
    <2>4. q.type # "AppendResponse"
      BY <1>8 DEF BeatPacket
    <2> QED
      BY <2>1, <2>2, <2>3, <2>4, SMTT(30) DEF PacketTiming, Requested
  <1>9. \A q \in nt2 : PacketTiming(nd2, q)
    BY <1>7, <1>8 DEF Ticked
  <1> QED
    BY <1>3, <1>4, <1>5, <1>9, SMTT(30) DEF Timing, Heard, Counted

-----------------------------------------------------------------------------

\* The inductive invariant: agreements outlast what is known of them.
Lasts == WellTyped /\ (Patient => Timing(node, net))

\* Nobody has heard from anybody when the nodes start.
LEMMA InitTiming == ASSUME Init PROVE Timing(node, net)
  <1>1. PICK phase \in [Nodes -> 0 .. HeartbeatPeriod - 1] :
          node = [n \in Nodes |-> NewNode(phase[n])]
    BY DEF Init
  <1>2. use \in Setups /\ net = {}
    BY DEF Init
  <1>3. ASSUME NEW n \in Nodes
        PROVE  /\ node[n].type = "Follower" /\ ~node[n].president /\ node[n].streak = 0
               /\ node[n].loyalty = ElectionMin /\ node[n].electionIn = ElectionMin
               /\ node[n].heartbeat = [j \in Nodes |-> Stale]
    BY <1>1, <1>2, NewNodeEffect
  <1>4. Stale \in Nat /\ ElectionMin \in Nat
    BY StaleFacts, URaftAssumption
  <1>5. \A n \in Nodes : Timers(node[n]) /\ Counted(node[n], n)
    BY <1>3, <1>4 DEF Timers, Counted
  <1>6. \A n, j \in Nodes : Heard(node, n, j)
    BY <1>3, <1>4 DEF Heard
  <1> QED
    BY <1>2, <1>5, <1>6 DEF Timing

\* Every step keeps it.
LEMMA LastsStep == Lasts /\ [Next]_vars => Lasts'
  <1> SUFFICES ASSUME Lasts, [Next]_vars PROVE Lasts'
    OBVIOUS
  <1>1. CASE Next
    <2>1. use' = use /\ use \in Setups /\ Typed(node, net) /\ Cardinality(net) <= MaxInFlight
      BY <1>1 DEF Next, Lasts, WellTyped
    <2>2. /\ \/ Ticked(node, net, node', net')
             \/ Received(node, net, node', net')
             \/ Stood(node, net, node', net')
             \/ Demoted(node, net, node', net')
             \/ Restarted(node, net, node', net')
          /\ Typed(node', net') /\ Cardinality(net') <= MaxInFlight
      BY <1>1, <2>1, StepCases, SMTT(30) DEF Next
    <2>3. WellTyped'
      BY <2>1, <2>2 DEF WellTyped, Typed, Objects
    <2>4. ASSUME Patient PROVE Timing(node', net')
      <3>1. Timing(node, net)
        BY <2>4 DEF Lasts
      <3>2. CASE Ticked(node, net, node', net')
        BY <2>1, <2>2, <2>4, <3>1, <3>2, TimingTick, SMTT(30)
      <3>3. CASE Received(node, net, node', net')
        BY <2>1, <2>4, <3>1, <3>3, TimingReceived
      <3>4. CASE Stood(node, net, node', net')
        BY <2>1, <2>4, <3>1, <3>4, TimingStood
      <3>5. CASE Demoted(node, net, node', net')
        <4>1. PICK n \in Nodes :
                node' = [node EXCEPT ![n] = stepDownToFollower(node[n], node[n].term)]
          BY <3>5, Zenon DEF Demoted
        <4>2. net' = net /\ node[n].term \in 0 .. MaxTerm
          BY <2>1, <3>5 DEF Demoted, Typed, Objects
        <4> QED
          BY <2>1, <2>4, <3>1, <4>1, <4>2, TimingDown, Zenon
      <3>6. CASE Restarted(node, net, node', net')
        <4>1. PICK n \in Nodes : node' = [node EXCEPT ![n] = NewNode(HeartbeatPeriod - 1)]
          BY <3>6, Zenon DEF Restarted
        <4>2. net' \subseteq net
          BY <3>6 DEF Restarted
        <4>3. Timing(node', net)
          BY <2>1, <2>4, <3>1, <4>1, TimingNew, Zenon
        <4> QED
          BY <4>2, <4>3 DEF Timing
      <3> QED
        BY <2>2, <3>2, <3>3, <3>4, <3>5, <3>6
    <2>5. Patient' => Patient
      BY <2>1 DEF Patient
    <2>6. (Patient => Timing(node, net))'
      <3>1. ASSUME Timing(node', net') PROVE Timing(node, net)'
        BY <2>1, <3>1 DEF Timing, Timers, Counted, Heard, PacketTiming, Requested, Since, Grace
      <3> QED
        BY <2>4, <2>5, <3>1, SMTT(30)
    <2> QED
      BY <2>3, <2>6 DEF Lasts
  <1>2. CASE UNCHANGED vars
    BY <1>2, Zenon DEF vars, Lasts, WellTyped, Typed, Objects, Patient,
                Timing, Timers, Counted, Heard, PacketTiming, Requested, Since, Grace
  <1> QED
    BY <1>1, <1>2

\* It holds in every state.
LEMMA LastsInvariant == Spec => []Lasts
  <1>1. Init => Lasts
    BY InitTyped, InitTiming DEF Lasts
  <1> QED
    BY <1>1, LastsStep, PTL DEF Spec

\* While heartbeat() keeps a node president, a quorum has agreements with it that have
\* not run out: the president's count of heartbeats never outlasts the agreements
\* that rpcAppend() signs, whatever is lost, late or out of order.
THEOREM LoyalQuorumThm == Spec => [](Patient => PresidentHasLoyalQuorum)
  <1>1. ASSUME Lasts, Patient, NEW n \in Nodes, node[n].president, node[n].streak = 0
        PROVE  Cardinality({j \in Nodes : j = n \/ node[j].loyalty > 0}) >= quorum
    <2> DEFINE A == {j \in Nodes : j = n \/ node[n].heartbeat[j] < Stale}
               B == {j \in Nodes : j = n \/ node[j].loyalty > 0}
    <2>1. Typed(node, net) /\ Timing(node, net)
      BY <1>1 DEF Lasts, WellTyped
    <2>2. Cardinality(A) >= quorum
      BY <1>1, <2>1 DEF Timing, Counted
    <2>3. ASSUME NEW j \in Nodes, j # n, node[n].heartbeat[j] < Stale
          PROVE  node[j].loyalty > 0
      <3>1. node[j].loyalty + Since(node[n], node[n].heartbeat[j]) >= ElectionMin
        BY <2>1, <2>3 DEF Timing, Heard
      <3>2. node[n] \in Objects /\ node[n].heartbeat[j] \in 0 .. Stale /\ node[j].loyalty \in Nat
        BY <2>1 DEF Typed, Objects
      <3>3. /\ Since(node[n], node[n].heartbeat[j]) \in Nat
            /\ Since(node[n], node[n].heartbeat[j]) < ElectionMin
        BY <2>3, <3>2, SinceFacts
      <3> QED
        BY <3>1, <3>2, <3>3, URaftAssumption, SMTT(30)
    <2>4. A \subseteq B /\ B \subseteq Nodes
      BY <2>3
    <2>5. IsFiniteSet(B)
      BY <2>4, FS_Subset, URaftAssumption, SMTT(30)
    <2>6. /\ Cardinality(A) <= Cardinality(B)
          /\ Cardinality(A) \in Nat /\ Cardinality(B) \in Nat /\ quorum \in Nat
      BY <2>4, <2>5, FS_Subset, FS_CardinalityType, URaftAssumption DEF quorum
    <2> HIDE DEF A, B
    <2>7. Cardinality(B) >= quorum
      BY <2>2, <2>6
    <2> QED
      BY <2>7 DEF B
  <1>2. Lasts => (Patient => PresidentHasLoyalQuorum)
    BY <1>1 DEF PresidentHasLoyalQuorum
  <1> QED
    BY <1>2, LastsInvariant, PTL

-----------------------------------------------------------------------------
(* Votes: what the proofs about elections need of agreements.  The invariant says   *)
(* who has which votes, counted or on their way.                                    *)

\* No process starts again, also not after a failed assertion: votes are not saved.
Lasting == "restart" \notin use.uses /\ ~use.assertions

\* Nodes that will not be candidates in the term any more.
Spent(nd, term) ==
  {x \in Nodes : nd[x].term > term \/ (nd[x].term = term /\ nd[x].type # "Candidate")}

Elected(r) == r.type = "Leader" \/ r.president

\* The vote of k for n in the term is on its way.
Ballot(nt, k, n, term) ==
  \E p \in nt : /\ p.type = "VoteResponse" /\ p.result
                /\ p.from = k /\ p.to = n /\ p.term = term

\* n counts, or will count, the vote of k.
Backs(nd, nt, k, n) ==
  \/ k \in nd[n].granted /\ (nd[n].type = "Candidate" \/ Elected(nd[n]))
  \/ nd[n].type = "Candidate" /\ Ballot(nt, k, n, nd[n].term)

\* A packet was sent in a term its sender has reached, votes to a candidate of the
\* term, and appends by a node that was elected in the term.
Sent(nd, p) ==
  /\ p.term <= nd[p.from].term
  /\ p.type = "VoteResponse" /\ p.result => p.term <= nd[p.to].term
  /\ p.type = "Append" => p.from \in Spent(nd, p.term)

\* A follower's leader was elected in the term; a candidate has its own vote.
Chosen(nd, k) ==
  /\ nd[k].type = "Follower" =>
       /\ nd[k].leader # NoNode => nd[k].leader \in Spent(nd, nd[k].term)
       /\ nd[k].president => nd[k].votedFor \in Spent(nd, nd[k].term)
  /\ nd[k].type # "Follower" => nd[k].votedFor = k /\ k \in nd[k].granted
  /\ Elected(nd[k]) => Cardinality(nd[k].granted) >= quorum

\* Who has voted in a term follows no other candidate of it ...
Bound(nd, nt, k, n) ==
  k # n /\ Backs(nd, nt, k, n) =>
    /\ nd[k].term >= nd[n].term
    /\ nd[k].term = nd[n].term =>
         /\ nd[k].type = "Follower" /\ ~nd[k].president
         /\ nd[k].votedFor \in {n} \cup Spent(nd, nd[n].term)

\* ... and has voted once.
OneVote(nd, nt, k) ==
  \A a, b \in Nodes :
    Backs(nd, nt, k, a) /\ Backs(nd, nt, k, b) /\ nd[a].term = nd[b].term => a = b

\* k backs no node other than n of a later term.
BacksUpTo(nd, nt, k, n, term) ==
  \A b \in Nodes : b # n /\ Backs(nd, nt, k, b) => nd[b].term <= term

\* As long as the agreement of k with n lasts, k backs nobody of a later term.
Leased(nd, nt, n, k) ==
  k # n /\ nd[n].heartbeat[k] < Stale => BacksUpTo(nd, nt, k, n, nd[n].term)

\* The same for an agreement of which n has not heard yet.
Pledge(nd, p) ==
  p.type = "AppendResponse" /\ p.age < Stale /\ p.result /\ nd[p.to].type = "Leader"

Election(nd, nt) ==
  /\ \A p \in nt : Sent(nd, p)
  /\ \A k \in Nodes : Chosen(nd, k) /\ OneVote(nd, nt, k)
  /\ \A k, n \in Nodes : Bound(nd, nt, k, n) /\ Leased(nd, nt, n, k)
  /\ \A p \in nt : Pledge(nd, p) => BacksUpTo(nd, nt, p.from, p.to, p.term)

-----------------------------------------------------------------------------
(* Steps in which nobody gets a vote. *)

\* Terms only grow, and a term has no new candidates.
Later(nd, nd2) ==
  \A n \in Nodes : /\ nd2[n].term >= nd[n].term
                   /\ nd2[n].term = nd[n].term /\ nd2[n].type = "Candidate" =>
                        nd[n].type = "Candidate"

\* A follower that may have voted keeps to its vote.
Faithful(o, s) ==
  \/ s.term > o.term
  \/ o.type # "Follower" \/ o.president
  \/ s.type = "Follower" /\ ~s.president /\ s.votedFor = o.votedFor

NoNewVotes(nd, nt, nd2, nt2) ==
  \A k, n \in Nodes :
    Backs(nd2, nt2, k, n) => Backs(nd, nt, k, n) /\ nd2[n].term = nd[n].term

\* A node that has heard from another one, or is about to, has before, or it makes no
\* difference.
NoNewAgreements(nd, nt, nd2, nt2) ==
  /\ \A n, k \in Nodes : k # n /\ nd2[n].heartbeat[k] < Stale =>
       nd[n].heartbeat[k] < Stale \/ BacksUpTo(nd, nt, k, n, nd[n].term)
  /\ \A q \in nt2 : Pledge(nd2, q) =>
       \/ BacksUpTo(nd, nt, q.from, q.to, q.term)
       \/ \E p \in nt : /\ Pledge(nd, p)
                        /\ p.from = q.from /\ p.to = q.to /\ p.term = q.term

\* A node that will not be a candidate in a term never will.
LEMMA SpentGrows ==
  ASSUME NEW nd, NEW nd2, nd \in [Nodes -> Objects], nd2 \in [Nodes -> Objects],
         Later(nd, nd2), NEW term \in Int
  PROVE  Spent(nd, term) \subseteq Spent(nd2, term)
  <1>1. \A n \in Nodes : nd[n].term \in Int /\ nd2[n].term \in Int
    BY DEF Objects
  <1> QED
    BY <1>1, SMTT(30) DEF Spent, Later

\* Votes stay what they are.
LEMMA QuietVotes ==
  ASSUME NEW nd, NEW nt, NEW nd2, NEW nt2, Typed(nd, nt), Typed(nd2, nt2), Election(nd, nt),
         Later(nd, nd2), NoNewVotes(nd, nt, nd2, nt2),
         \A k \in Nodes : Faithful(nd[k], nd2[k])
  PROVE  /\ \A k \in Nodes : OneVote(nd2, nt2, k)
         /\ \A k, n \in Nodes : Bound(nd2, nt2, k, n)
  <1>1. /\ nd \in [Nodes -> Objects] /\ nd2 \in [Nodes -> Objects]
        /\ \A n \in Nodes : nd[n].term \in Int /\ nd2[n].term \in Int
    BY DEF Typed, Objects
  <1>2. ASSUME NEW k \in Nodes PROVE OneVote(nd2, nt2, k)
    BY DEF OneVote, NoNewVotes, Election
  <1>3. ASSUME NEW k \in Nodes, NEW n \in Nodes, k # n, Backs(nd2, nt2, k, n)
        PROVE  /\ nd2[k].term >= nd2[n].term
               /\ nd2[k].term = nd2[n].term =>
                    /\ nd2[k].type = "Follower" /\ ~nd2[k].president
                    /\ nd2[k].votedFor \in {n} \cup Spent(nd2, nd2[n].term)
    <2>1. Backs(nd, nt, k, n) /\ nd2[n].term = nd[n].term
      BY <1>3 DEF NoNewVotes
    <2>2. /\ nd[k].term >= nd[n].term
          /\ nd[k].term = nd[n].term =>
               /\ nd[k].type = "Follower" /\ ~nd[k].president
               /\ nd[k].votedFor \in {n} \cup Spent(nd, nd[n].term)
      BY <1>3, <2>1 DEF Election, Bound
    <2>3. nd2[k].term >= nd[k].term /\ Faithful(nd[k], nd2[k])
      BY DEF Later
    <2>4. Spent(nd, nd[n].term) \subseteq Spent(nd2, nd[n].term)
      BY <1>1, SpentGrows
    <2>5. ASSUME nd2[k].term = nd2[n].term
          PROVE  /\ nd2[k].type = "Follower" /\ ~nd2[k].president
                 /\ nd2[k].votedFor \in {n} \cup Spent(nd2, nd2[n].term)
      <3>1. nd[k].term = nd[n].term /\ ~(nd2[k].term > nd[k].term)
        BY <1>1, <2>1, <2>2, <2>3, <2>5
      <3> QED
        BY <2>1, <2>2, <2>3, <2>4, <3>1 DEF Faithful
    <2> QED
      BY <1>1, <2>1, <2>2, <2>3, <2>5
  <1> QED
    BY <1>2, <1>3 DEF Bound

\* Agreements stay what they are.
LEMMA QuietLease ==
  ASSUME NEW nd, NEW nt, NEW nd2, NEW nt2, Typed(nd, nt), Typed(nd2, nt2), Election(nd, nt),
         Later(nd, nd2), NoNewVotes(nd, nt, nd2, nt2), NoNewAgreements(nd, nt, nd2, nt2)
  PROVE  /\ \A n, k \in Nodes : Leased(nd2, nt2, n, k)
         /\ \A q \in nt2 : Pledge(nd2, q) => BacksUpTo(nd2, nt2, q.from, q.to, q.term)
  <1>1. \A n \in Nodes : nd[n].term \in Int /\ nd2[n].term \in Int
    BY DEF Typed, Objects
  <1>2. ASSUME NEW n \in Nodes, NEW k \in Nodes, k # n, nd2[n].heartbeat[k] < Stale
        PROVE  BacksUpTo(nd2, nt2, k, n, nd2[n].term)
    <2>1. BacksUpTo(nd, nt, k, n, nd[n].term)
      BY <1>2 DEF Election, Leased, NoNewAgreements
    <2>2. nd2[n].term >= nd[n].term
      BY DEF Later
    <2> QED
      BY <1>1, <2>1, <2>2 DEF BacksUpTo, NoNewVotes
  <1>3. ASSUME NEW q \in nt2, Pledge(nd2, q)
        PROVE  BacksUpTo(nd2, nt2, q.from, q.to, q.term)
    <2>1. BacksUpTo(nd, nt, q.from, q.to, q.term)
      BY <1>3 DEF Election, NoNewAgreements
    <2>2. q.from \in Nodes
      BY DEF Typed, Packets
    <2> QED
      BY <2>1, <2>2 DEF BacksUpTo, NoNewVotes
  <1> QED
    BY <1>2, <1>3 DEF Leased

\* So do the packets.
LEMMA QuietPackets ==
  ASSUME NEW nd, NEW nt, NEW nd2, NEW nt2, Typed(nd, nt), Typed(nd2, nt2), Election(nd, nt),
         Later(nd, nd2),
         \A q \in nt2 : \/ Sent(nd2, q)
                        \/ \E p \in nt : /\ p.type = q.type /\ p.from = q.from /\ p.to = q.to
                                         /\ p.term = q.term /\ p.result = q.result
  PROVE  \A q \in nt2 : Sent(nd2, q)
  <1> SUFFICES ASSUME NEW q \in nt2,
                      NEW p \in nt, p.type = q.type, p.from = q.from, p.to = q.to,
                      p.term = q.term, p.result = q.result
               PROVE  Sent(nd2, q)
    OBVIOUS
  <1>1. /\ nd \in [Nodes -> Objects] /\ nd2 \in [Nodes -> Objects]
        /\ \A n \in Nodes : nd[n].term \in Int /\ nd2[n].term \in Int
        /\ q.from \in Nodes /\ q.to \in Nodes /\ q.term \in Int
    BY DEF Typed, Objects, Packets
  <1>2. Sent(nd, p)
    BY DEF Election
  <1>3. Spent(nd, q.term) \subseteq Spent(nd2, q.term)
    BY <1>1, SpentGrows
  <1>4. nd2[q.from].term >= nd[q.from].term /\ nd2[q.to].term >= nd[q.to].term
    BY <1>1 DEF Later
  <1> QED
    BY <1>1, <1>2, <1>3, <1>4 DEF Sent

\* So does a node whose object is kept.
LEMMA QuietChosen ==
  ASSUME NEW nd, NEW nd2, nd \in [Nodes -> Objects], nd2 \in [Nodes -> Objects],
         Later(nd, nd2), NEW k \in Nodes, Chosen(nd, k), nd2[k] = nd[k]
  PROVE  Chosen(nd2, k)
  <1>1. nd[k].term \in Int
    BY DEF Objects
  <1>2. Spent(nd, nd[k].term) \subseteq Spent(nd2, nd[k].term)
    BY <1>1, SpentGrows
  <1> QED
    BY <1>2 DEF Chosen

\* Terms are in their bounds.
LEMMA TermTyped ==
  ASSUME NEW o \in Objects
  PROVE  o.term \in 0 .. MaxTerm
  BY DEF Objects

\* One object is replaced: its term does not decrease, and it is no new candidate.
LEMMA ReplacedLater ==
  ASSUME NEW nd, NEW nd2, NEW x \in Nodes, NEW s, nd2[x] = s,
         \A n \in Nodes \ {x} : nd2[n] = nd[n],
         \A n \in Nodes : nd[n].term \in 0 .. MaxTerm /\ nd2[n].term \in 0 .. MaxTerm,
         s.term >= nd[x].term, s.type = "Candidate" => nd[x].type = "Candidate"
  PROVE  Later(nd, nd2)
  <1> SUFFICES ASSUME NEW n \in Nodes
               PROVE  /\ nd2[n].term >= nd[n].term
                      /\ nd2[n].type = "Candidate" => nd[n].type = "Candidate"
    BY Zenon DEF Later
  <1>1. CASE n = x
    BY <1>1
  <1>2. CASE n # x
    <2>1. nd2[n] = nd[n]
      BY <1>2, Zenon
    <2>2. nd[n].term \in Nat
      BY URaftAssumption
    <2> QED
      BY <2>1, <2>2
  <1> QED
    BY <1>1, <1>2, Zenon

\* It counts votes that it had, counted or on their way.
LEMMA ReplacedVotes ==
  ASSUME NEW nd, NEW nt, NEW nd2, NEW nt2, NEW x \in Nodes, NEW s, nd2[x] = s,
         \A n \in Nodes \ {x} : nd2[n] = nd[n],
         \A n \in Nodes : nd[n].term \in 0 .. MaxTerm /\ nd2[n].term \in 0 .. MaxTerm,
         s.type = "Candidate" => nd[x].type = "Candidate",
         s.type = "Candidate" \/ Elected(s) =>
           s.term = nd[x].term /\ \A k \in s.granted : Backs(nd, nt, k, x),
         \A k, n \in Nodes : \A t \in 0 .. MaxTerm : Ballot(nt2, k, n, t) => Ballot(nt, k, n, t)
  PROVE  NoNewVotes(nd, nt, nd2, nt2)
  <1> SUFFICES ASSUME NEW k \in Nodes, NEW n \in Nodes, Backs(nd2, nt2, k, n)
               PROVE  Backs(nd, nt, k, n) /\ nd2[n].term = nd[n].term
    BY Zenon DEF NoNewVotes
  <1>1. CASE n = x
    <2>1. CASE k \in s.granted /\ (s.type = "Candidate" \/ Elected(s))
      BY <1>1, <2>1, Zenon
    <2>2. CASE s.type = "Candidate" /\ Ballot(nt2, k, n, s.term)
      <3>1. nd[n].type = "Candidate" /\ s.term = nd[n].term
        BY <1>1, <2>2, Zenon
      <3>2. Ballot(nt, k, n, nd[n].term)
        BY <2>2, <3>1, Zenon
      <3> QED
        BY <1>1, <3>1, <3>2, Zenon DEF Backs
    <2>3. \/ k \in s.granted /\ (s.type = "Candidate" \/ Elected(s))
          \/ s.type = "Candidate" /\ Ballot(nt2, k, n, s.term)
      BY <1>1, Zenon DEF Backs
    <2> QED
      BY <2>1, <2>2, <2>3, Zenon
  <1>2. CASE n # x
    <2>1. nd2[n] = nd[n]
      BY <1>2, Zenon
    <2>2. Ballot(nt2, k, n, nd[n].term) => Ballot(nt, k, n, nd[n].term)
      BY Zenon
    <2> QED
      BY <2>1, <2>2, Zenon DEF Backs
  <1> QED
    BY <1>1, <1>2, Zenon

\* It has heard from nobody new.
LEMMA ReplacedAgreements ==
  ASSUME NEW nd, NEW nt, NEW nd2, NEW nt2, NEW x \in Nodes, NEW s, nd2[x] = s,
         \A n \in Nodes \ {x} : nd2[n] = nd[n],
         \A p \in nt : p.to \in Nodes,
         \A k \in Nodes \ {x} : s.heartbeat[k] < Stale =>
           nd[x].heartbeat[k] < Stale \/ BacksUpTo(nd, nt, k, x, nd[x].term),
         s.type = "Leader" =>
           \/ nd[x].type = "Leader"
           \/ \A p \in nt : p.type = "AppendResponse" /\ p.to = x => ~(p.age < Stale),
         \A q \in nt2 : \/ q \in nt
                        \/ Pledge(nd2, q) => BacksUpTo(nd, nt, q.from, q.to, q.term)
  PROVE  NoNewAgreements(nd, nt, nd2, nt2)
  <1>1. ASSUME NEW n \in Nodes, NEW k \in Nodes, k # n, nd2[n].heartbeat[k] < Stale
        PROVE  nd[n].heartbeat[k] < Stale \/ BacksUpTo(nd, nt, k, n, nd[n].term)
    <2>1. CASE n = x
      <3>1. k \in Nodes \ {x} /\ s.heartbeat[k] < Stale
        BY <1>1, <2>1, Zenon
      <3> QED
        BY <2>1, <3>1, Zenon
    <2>2. CASE n # x
      <3>1. nd2[n] = nd[n]
        BY <2>2, Zenon
      <3> QED
        BY <1>1, <3>1, Zenon
    <2> QED
      BY <2>1, <2>2, Zenon
  <1>2. ASSUME NEW q \in nt2, Pledge(nd2, q)
        PROVE  \/ BacksUpTo(nd, nt, q.from, q.to, q.term)
               \/ \E p \in nt : /\ Pledge(nd, p)
                                /\ p.from = q.from /\ p.to = q.to /\ p.term = q.term
    <2>1. CASE q \in nt
      <3>1. CASE q.to = x
        BY <1>2, <2>1, <3>1, Zenon DEF Pledge
      <3>2. CASE q.to # x
        <4>1. nd2[q.to] = nd[q.to]
          BY <2>1, <3>2, Zenon
        <4> QED
          BY <1>2, <2>1, <4>1, Zenon DEF Pledge
      <3> QED
        BY <3>1, <3>2, Zenon
    <2>2. CASE q \notin nt
      BY <1>2, <2>2, Zenon
    <2> QED
      BY <2>1, <2>2, Zenon
  <1> QED
    BY <1>1, <1>2, Zenon DEF NoNewAgreements

\* One object is replaced, and no vote is cast.
LEMMA QuietReplace ==
  ASSUME NEW nd, NEW nt, NEW nd2, NEW nt2, Typed(nd, nt), Typed(nd2, nt2), Election(nd, nt),
         NEW x \in Nodes, NEW s \in Objects, nd2 = [nd EXCEPT ![x] = s],
         s.term >= nd[x].term, Faithful(nd[x], s), Chosen(nd2, x),
         s.type = "Candidate" => nd[x].type = "Candidate",
         s.type = "Candidate" \/ Elected(s) =>
           s.term = nd[x].term /\ \A k \in s.granted : Backs(nd, nt, k, x),
         \A k, n \in Nodes : \A t \in 0 .. MaxTerm : Ballot(nt2, k, n, t) => Ballot(nt, k, n, t),
         \A k \in Nodes \ {x} : s.heartbeat[k] < Stale =>
           nd[x].heartbeat[k] < Stale \/ BacksUpTo(nd, nt, k, x, nd[x].term),
         s.type = "Leader" =>
           \/ nd[x].type = "Leader"
           \/ \A p \in nt : p.type = "AppendResponse" /\ p.to = x => ~(p.age < Stale),
         \A q \in nt2 : \/ q \in nt
                        \/ /\ Sent(nd2, q)
                           /\ Pledge(nd2, q) => BacksUpTo(nd, nt, q.from, q.to, q.term)
  PROVE  Election(nd2, nt2)
  <1>1. /\ nd \in [Nodes -> Objects] /\ nd2 \in [Nodes -> Objects]
        /\ nd2[x] = s /\ \A n \in Nodes \ {x} : nd2[n] = nd[n]
        /\ \A n \in Nodes : nd[n].term \in 0 .. MaxTerm /\ nd2[n].term \in 0 .. MaxTerm
    <2>1. nd \in [Nodes -> Objects] /\ nd2 \in [Nodes -> Objects]
      BY Zenon DEF Typed
    <2>2. nd2[x] = s /\ \A n \in Nodes \ {x} : nd2[n] = nd[n]
      BY <2>1, Zenon
    <2>3. \A n \in Nodes : nd[n] \in Objects /\ nd2[n] \in Objects
      BY <2>1, Zenon
    <2> QED
      BY <2>1, <2>2, <2>3, TermTyped, Zenon
  <1>2. Later(nd, nd2)
    BY <1>1, ReplacedLater, Zenon
  <1>3. \A k \in Nodes : Faithful(nd[k], nd2[k])
    <2>1. ASSUME NEW k \in Nodes PROVE Faithful(nd[k], nd[k])
      BY Zenon DEF Faithful
    <2> QED
      BY <1>1, <2>1, Zenon
  <1>4. NoNewVotes(nd, nt, nd2, nt2)
    BY <1>1, ReplacedVotes, Zenon
  <1>5. ASSUME NEW k \in Nodes PROVE Chosen(nd2, k)
    <2>1. CASE k = x
      BY <2>1
    <2>2. CASE k # x
      BY <1>1, <1>2, <2>2, QuietChosen, Zenon DEF Election
    <2> QED
      BY <2>1, <2>2
  <1>6. /\ \A k \in Nodes : OneVote(nd2, nt2, k)
        /\ \A k, n \in Nodes : Bound(nd2, nt2, k, n)
    BY <1>2, <1>3, <1>4, QuietVotes, Zenon
  <1>7. \A q \in nt2 : Sent(nd2, q)
    <2>1. \A q \in nt2 : \/ Sent(nd2, q)
                         \/ \E p \in nt : /\ p.type = q.type /\ p.from = q.from /\ p.to = q.to
                                          /\ p.term = q.term /\ p.result = q.result
      BY Zenon
    <2> QED
      BY <1>2, <2>1, QuietPackets, Zenon
  <1>8. \A p \in nt : p.to \in Nodes
    <2>1. nt \subseteq Packets
      BY Zenon DEF Typed
    <2>2. ASSUME NEW p \in Packets PROVE p.to \in Nodes
      BY DEF Packets
    <2> QED
      BY <2>1, <2>2, Zenon
  <1>9. NoNewAgreements(nd, nt, nd2, nt2)
    BY <1>1, <1>8, ReplacedAgreements, Zenon
  <1>10. /\ \A n, k \in Nodes : Leased(nd2, nt2, n, k)
         /\ \A q \in nt2 : Pledge(nd2, q) => BacksUpTo(nd2, nt2, q.from, q.to, q.term)
    BY <1>2, <1>4, <1>9, QuietLease, Zenon
  <1> QED
    BY <1>5, <1>6, <1>7, <1>10, Zenon DEF Election

\* stepDownToFollower(), in checkTerm() and demoteLeader().
LEMMA ElectionDown ==
  ASSUME use \in Setups, NEW nd, NEW nt, Typed(nd, nt), Election(nd, nt), NEW x \in Nodes,
         NEW t \in 0 .. MaxTerm, t >= nd[x].term,
         t > nd[x].term \/ nd[x].type # "Follower" \/ nd[x].president,
         NEW nd2, nd2 = [nd EXCEPT ![x] = stepDownToFollower(nd[x], t)], Typed(nd2, nt)
  PROVE  Election(nd2, nt)
  <1> DEFINE s == stepDownToFollower(nd[x], t)
  <1>1. nd[x] \in Objects
    BY DEF Typed
  <1>2. /\ s \in Objects
        /\ s.type = "Follower" /\ s.term = t /\ ~s.president /\ s.leader = NoNode
        /\ s.heartbeat = nd[x].heartbeat
    BY <1>1, StepDownEffect
  <1>3. nd2[x] = s /\ nd2 = [nd EXCEPT ![x] = s]
    BY DEF Typed
  <1> HIDE DEF s
  <1>4. Chosen(nd2, x) /\ ~Elected(s)
    BY <1>2, <1>3 DEF Chosen, Elected
  <1>5. Faithful(nd[x], s)
    BY <1>2 DEF Faithful
  <1> QED
    BY <1>2, <1>3, <1>4, <1>5, QuietReplace, Zenon

\* Fresh heartbeats and responses come from nodes whose agreements last.
LEMMA LoyalNode ==
  ASSUME NEW nd, NEW nt, Typed(nd, nt), Timing(nd, nt), NEW k \in Nodes,
         \/ \E n \in Nodes : k # n /\ nd[n].heartbeat[k] < Stale
         \/ \E p \in nt : Pledge(nd, p) /\ p.from = k
  PROVE  nd[k].loyalty > 0
  <1>1. ASSUME NEW n \in Nodes, NEW age \in 0 .. Stale, age < Stale,
               nd[k].loyalty + Since(nd[n], age) >= ElectionMin
        PROVE  nd[k].loyalty > 0
    <2>1. nd[n] \in Objects /\ nd[k].loyalty \in Nat
      BY DEF Typed, Objects
    <2>2. Since(nd[n], age) \in Nat /\ Since(nd[n], age) < ElectionMin
      BY <1>1, <2>1, SinceFacts
    <2> QED
      BY <1>1, <2>1, <2>2, URaftAssumption, SMTT(30)
  <1>2. ASSUME NEW n \in Nodes, k # n, nd[n].heartbeat[k] < Stale PROVE nd[k].loyalty > 0
    <2>1. nd[n].heartbeat[k] \in 0 .. Stale
      BY DEF Typed, Objects
    <2>2. nd[k].loyalty + Since(nd[n], nd[n].heartbeat[k]) >= ElectionMin
      BY <1>2 DEF Timing, Heard
    <2> QED
      BY <1>1, <1>2, <2>1, <2>2, SMTT(30)
  <1>3. ASSUME NEW p \in nt, Pledge(nd, p), p.from = k PROVE nd[k].loyalty > 0
    <2>1. p.to \in Nodes /\ p.age \in 0 .. Stale
      BY DEF Typed, Packets
    <2>2. PacketTiming(nd, p)
      BY DEF Timing
    <2>3. p.age < Stale /\ nd[k].loyalty + Since(nd[p.to], p.age) >= ElectionMin
      BY <1>3, <2>2 DEF PacketTiming, Pledge
    <2> QED
      BY <1>1, <2>1, <2>3, SMTT(30)
  <1> QED
    BY <1>2, <1>3

\* The same for the handler of a packet and the packets that it sends.
LEMMA QuietHandler ==
  ASSUME NEW nd, NEW nt, NEW nd2, NEW nt2, Typed(nd, nt), Typed(nd2, nt2), Election(nd, nt),
         NEW x \in Nodes, NEW s \in Objects, NEW sent,
         nd2 = [nd EXCEPT ![x] = s], nt2 \subseteq nt \cup sent,
         s.term = nd[x].term, Faithful(nd[x], s), Chosen(nd2, x),
         s.type = "Candidate" => nd[x].type = "Candidate",
         s.type = "Candidate" \/ Elected(s) => \A k \in s.granted : Backs(nd, nt, k, x),
         \A k \in Nodes \ {x} : s.heartbeat[k] < Stale =>
           nd[x].heartbeat[k] < Stale \/ BacksUpTo(nd, nt, k, x, nd[x].term),
         s.type = "Leader" =>
           \/ nd[x].type = "Leader"
           \/ \A p \in nt : p.type = "AppendResponse" /\ p.to = x => ~(p.age < Stale),
         \A q \in sent : /\ Sent(nd2, q)
                         /\ ~(q.type = "VoteResponse" /\ q.result)
                         /\ Pledge(nd2, q) => BacksUpTo(nd, nt, q.from, q.to, q.term)
  PROVE  Election(nd2, nt2)
  <1>1. \A k, n \in Nodes : \A t \in 0 .. MaxTerm : Ballot(nt2, k, n, t) => Ballot(nt, k, n, t)
    BY DEF Ballot
  <1>2. \A q \in nt2 : \/ q \in nt
                       \/ /\ Sent(nd2, q)
                          /\ Pledge(nd2, q) => BacksUpTo(nd, nt, q.from, q.to, q.term)
    BY Zenon
  <1>3. s.term >= nd[x].term
    BY DEF Objects
  <1> QED
    BY <1>1, <1>2, <1>3, QuietReplace, Zenon

\* What rpcAppend() leaves of an object that accepts an append.
LEMMA AcceptEffect ==
  ASSUME use \in Setups, NEW r \in Objects, NEW p \in Packets, NEW version \in Nat,
         NEW s, NEW sent, AcceptCase(r, p, version, s, sent)
  PROVE  /\ s \in Objects
         /\ s.type = "Follower" /\ s.term = r.term /\ s.president = r.president
         /\ s.votedFor = r.votedFor /\ s.leader = p.from /\ s.heartbeat = r.heartbeat
         /\ r.president => s.granted = r.granted
  <1>1. s = Accepted(r, p, version)
    BY Zenon DEF AcceptCase
  <1> QED
    BY <1>1, AcceptedEffect
=============================================================================
