------------------------ MODULE URaftElectionProofs -------------------------
(***************************************************************************)
(* One leader in a term, and one president.  The invariant says who has    *)
(* which votes, counted or on their way: a voter of a candidate is in the  *)
(* candidate's term bound to it or to a node that will not stand in this   *)
(* term any more, and while its agreement with a leader lasts it backs     *)
(* nobody of a later term.  Two quorums then meet in a node that would     *)
(* have voted twice, or against its agreement.                             *)
(***************************************************************************)
EXTENDS URaftLoyaltyProofs
-----------------------------------------------------------------------------
(* Handlers that give nobody a vote, a vote given, and a vote counted. *)

\* A handler in which nobody gets a vote, after checkTerm().
LEMMA ElectionQuiet ==
  ASSUME use \in Setups, Patient, Lasting, NEW nd, NEW nt, NEW nd2, NEW nt2,
         Typed(nd, nt), Timing(nd, nt), Election(nd, nt), Typed(nd2, nt2),
         NEW p \in nt, NEW version \in Nat, NEW s, NEW sent,
         HandledCase(nd[p.to], p, version, s, sent),
         ~GrantCase(nd[p.to], p, version, s, sent),
         nd2 = [nd EXCEPT ![p.to] = s], nt2 \subseteq nt \cup sent
  PROVE  Election(nd2, nt2)
  <1> DEFINE x == p.to
             r == nd[p.to]
  <1>1. /\ p \in Packets /\ p.from # x /\ p.from \in Nodes /\ x \in Nodes /\ r \in Objects
        /\ Timers(r) /\ PacketTiming(nd, p) /\ Sent(nd, p) /\ Chosen(nd, x)
        /\ p.age \in 0 .. Stale /\ p.term \in 0 .. MaxTerm /\ r.term \in 0 .. MaxTerm
        /\ r.granted \subseteq Nodes
        /\ \A n \in Nodes : nd[n].term \in 0 .. MaxTerm
    BY DEF Typed, Packets, Objects, Timing, Election
  <1>2. nd2[x] = s /\ \A n \in Nodes \ {x} : nd2[n] = nd[n]
    BY <1>1 DEF Typed
  <1>3. ASSUME Later(nd, nd2) PROVE Spent(nd, r.term) \subseteq Spent(nd2, r.term)
    <2>1. nd \in [Nodes -> Objects] /\ nd2 \in [Nodes -> Objects] /\ r.term \in Int
      BY <1>1 DEF Typed
    <2> HIDE DEF r
    <2> QED
      BY <1>3, <2>1, SpentGrows, ZenonT(30)
  <1>4. r.type = "Candidate" \/ Elected(r) => \A k \in r.granted : Backs(nd, nt, k, x)
    BY SMTT(30) DEF Backs
  <1>5. ASSUME s \in Objects, s.type = r.type, s.term = r.term, s.president = r.president,
               s.votedFor = r.votedFor, s.leader = r.leader, s.granted = r.granted
        PROVE  /\ Faithful(r, s) /\ Chosen(nd2, x)
               /\ s.type = "Candidate" => r.type = "Candidate"
               /\ s.type = "Candidate" \/ Elected(s) => \A k \in s.granted : Backs(nd, nt, k, x)
    <2>1. Faithful(r, s)
      BY <1>5, SMTT(30) DEF Faithful
    <2>2. Later(nd, nd2)
      BY <1>1, <1>2, <1>5, SMTT(30) DEF Later
    <2>3. Spent(nd, r.term) \subseteq Spent(nd2, r.term)
      BY <1>3, <2>2, Zenon
    <2>4. Elected(s) <=> Elected(r)
      BY <1>5 DEF Elected
    <2>5. Chosen(nd2, x)
      BY <1>1, <1>2, <1>5, <2>3, <2>4, Zenon DEF Chosen
    <2> QED
      BY <1>1, <1>4, <1>5, <2>1, <2>4, <2>5, SMTT(30)
  <1>6. CASE s = r /\ sent = {}
    <2>1. /\ s \in Objects /\ s.type = r.type /\ s.term = r.term /\ s.president = r.president
          /\ s.votedFor = r.votedFor /\ s.leader = r.leader /\ s.granted = r.granted
          /\ s.heartbeat = r.heartbeat
      BY <1>1, <1>6
    <2>2. \A q \in sent : Sent(nd2, q) /\ ~(q.type = "VoteResponse" /\ q.result) /\ ~Pledge(nd2, q)
      BY <1>6, SMTT(30)
    <2>3. Faithful(r, s) /\ Chosen(nd2, x)
      BY <1>5, <2>1, SMTT(30)
    <2>4. s.type = "Candidate" \/ Elected(s) => \A k \in s.granted : Backs(nd, nt, k, x)
      BY <1>5, <2>1, SMTT(30)
    <2> HIDE DEF x, r
    <2> QED
      BY <1>1, <2>1, <2>2, <2>3, <2>4, QuietHandler, Zenon DEF x, r
  <1>7. CASE AbortCase(r, p, s, sent)
    BY <1>7 DEF AbortCase, Lasting
  <1>8. CASE RejectCase(r, p, s, sent)
    <2>1. s = r /\ s \in Objects
      BY <1>1, <1>8, SMTT(30) DEF RejectCase
    <2>2. ASSUME NEW q \in sent
          PROVE  q.type = "AppendResponse" /\ ~q.result /\ Sent(nd2, q)
      <3>1. q.type = "AppendResponse" /\ ~q.result /\ q.from = x /\ q.term = s.term
        BY <1>8 DEF RejectCase, Replied
      <3> QED
        BY <1>1, <1>2, <2>1, <3>1, SMTT(30) DEF Sent
    <2>3. \A q \in sent : Sent(nd2, q) /\ ~Pledge(nd2, q)
      BY <2>2, Zenon DEF Pledge
    <2> HIDE DEF x, r
    <2> QED
      BY <1>1, <1>5, <2>1, <2>2, <2>3, QuietHandler, Zenon DEF x, r
  <1>9. CASE AcceptCase(r, p, version, s, sent)
    <2>1. p.type = "Append" /\ p.term = r.term
      BY <1>9, SMTT(30) DEF AcceptCase
    <2>2. /\ s \in Objects
          /\ s.type = "Follower" /\ s.term = r.term /\ s.president = r.president
          /\ s.votedFor = r.votedFor /\ s.leader = p.from /\ s.heartbeat = r.heartbeat
          /\ r.president => s.granted = r.granted
      <3> HIDE DEF x, r
      <3> QED
        BY <1>1, <1>9, AcceptEffect, SMTT(30)
    <2>3. Faithful(r, s)
      BY <2>2, SMTT(30) DEF Faithful
    <2>4. Later(nd, nd2)
      BY <1>1, <1>2, <2>2, SMTT(30) DEF Later
    <2>5. Spent(nd, r.term) \subseteq Spent(nd2, r.term) /\ x \in Spent(nd2, r.term)
      <3>1. Spent(nd, r.term) \subseteq Spent(nd2, r.term)
        BY <1>3, <2>4, Zenon
      <3>2. x \in Spent(nd2, r.term)
        BY <1>1, <1>2, <2>2, SMTT(30) DEF Spent
      <3> QED
        BY <3>1, <3>2, Zenon
    <2>6. Chosen(nd2, x)
      <3>1. p.from \in Spent(nd2, s.term)
        BY <1>1, <2>1, <2>2, <2>5, Zenon DEF Sent
      <3>2. s.president => /\ s.votedFor \in Spent(nd2, s.term)
                           /\ Cardinality(s.granted) >= quorum
        <4>1. CASE r.type = "Follower"
          BY <1>1, <2>2, <2>5, <4>1, ZenonT(30) DEF Chosen, Elected
        <4>2. CASE r.type # "Follower"
          BY <1>1, <2>2, <2>5, <4>2, SMTT(30) DEF Chosen, Elected
        <4> QED
          BY <4>1, <4>2
      <3> QED
        BY <1>2, <2>2, <3>1, <3>2, SMTT(30) DEF Chosen, Elected
    <2>7. s.type = "Candidate" \/ Elected(s) =>
            \A k \in s.granted : Backs(nd, nt, k, x)
      BY <1>4, <2>2, SMTT(30) DEF Elected
    <2>8. ASSUME NEW q \in sent
          PROVE  /\ q.type = "AppendResponse" /\ Sent(nd2, q)
                 /\ BacksUpTo(nd, nt, q.from, q.to, q.term)
      <3>1. /\ q.type = "AppendResponse" /\ q.from = x /\ q.to = p.from /\ q.term = s.term
        BY <1>9, SMTT(30) DEF AcceptCase, Replied
      <3>2. Sent(nd2, q)
        BY <1>1, <1>2, <2>2, <3>1, SMTT(30) DEF Sent
      <3>3. ASSUME NEW b \in Nodes, Backs(nd, nt, x, b) PROVE nd[b].term <= r.term
        <4>1. CASE b = x
          <5>1. r.term <= r.term
            BY <1>1
          <5> QED
            BY <4>1, <5>1, Zenon
        <4>2. CASE b # x
          <5>1. Bound(nd, nt, x, b)
            BY <1>1, Zenon DEF Election
          <5>2. r.term >= nd[b].term
            BY <3>3, <4>2, <5>1, Zenon DEF Bound
          <5> QED
            BY <1>1, <5>2
        <4> QED
          BY <4>1, <4>2, Zenon
      <3>4. BacksUpTo(nd, nt, q.from, q.to, q.term)
        BY <2>2, <3>1, <3>3, SMTT(30) DEF BacksUpTo
      <3> QED
        BY <3>1, <3>2, <3>4, SMTT(30)
    <2> HIDE DEF x, r
    <2> QED
      BY <1>1, <2>2, <2>3, <2>6, <2>7, <2>8, QuietHandler, Zenon DEF x, r
  <1>10. CASE NoteCase(r, p, s, sent)
    <2>1. /\ p.type = "AppendResponse" /\ p.term = r.term /\ r.type = "Leader"
          /\ p.age < r.heartbeat[p.from] /\ sent = {}
      BY <1>10, SMTT(30) DEF NoteCase
    <2>2. /\ s \in Objects
          /\ s.type = r.type /\ s.term = r.term /\ s.president = r.president
          /\ s.votedFor = r.votedFor /\ s.leader = r.leader
          /\ s.granted = r.granted
          /\ \A j \in Nodes : s.heartbeat[j] = IF j = p.from THEN p.age ELSE r.heartbeat[j]
      BY <1>1, <1>10, NotedEffect, SMTT(30) DEF NoteCase
    <2>3. p.age < Stale
      <3>1. r.heartbeat[p.from] \in 0 .. Stale /\ Stale \in Nat
        BY <1>1, StaleFacts, ZenonT(30) DEF Objects
      <3> QED
        BY <1>1, <2>1, <3>1, SMTT(30)
    <2>4. p.result
      BY <1>1, <2>1, <2>3, SMTT(30) DEF PacketTiming
    <2>5. BacksUpTo(nd, nt, p.from, x, r.term)
      <3>1. Pledge(nd, p)
        BY <2>1, <2>3, <2>4, SMTT(30) DEF Pledge
      <3> QED
        BY <2>1, <3>1, SMTT(30) DEF Election
    <2>6. \A k \in Nodes \ {x} : s.heartbeat[k] < Stale =>
            r.heartbeat[k] < Stale \/ BacksUpTo(nd, nt, k, x, r.term)
      BY <2>2, <2>5, SMTT(30)
    <2>7. Faithful(r, s) /\ Chosen(nd2, x)
      BY <1>5, <2>2, SMTT(30)
    <2>8. s.type = "Candidate" \/ Elected(s) => \A k \in s.granted : Backs(nd, nt, k, x)
      BY <1>5, <2>2, SMTT(30)
    <2>9. \A q \in sent : Sent(nd2, q) /\ ~(q.type = "VoteResponse" /\ q.result) /\ ~Pledge(nd2, q)
      BY <2>1, SMTT(30)
    <2>10. s \in Objects /\ s.type = r.type /\ s.term = r.term
      BY <2>2
    <2> HIDE DEF x, r
    <2> QED
      BY <1>1, <2>6, <2>7, <2>8, <2>9, <2>10, QuietHandler, Zenon DEF x, r
  <1>11. CASE RefuseCase(r, p, version, s, sent)
    <2>1. /\ s \in Objects
          /\ s.type = r.type /\ s.term = r.term /\ s.president = r.president
          /\ s.votedFor = r.votedFor /\ s.leader = r.leader
          /\ s.granted = r.granted /\ s.heartbeat = r.heartbeat
      BY <1>1, <1>11, RefuseEffect
    <2>2. ASSUME NEW q \in sent
          PROVE  q.type = "VoteResponse" /\ ~q.result /\ Sent(nd2, q) /\ ~Pledge(nd2, q)
      <3>1. q.type = "VoteResponse" /\ ~q.result /\ q.from = x /\ q.term = s.term
        BY <1>11 DEF RefuseCase, Replied
      <3> QED
        BY <1>1, <1>2, <2>1, <3>1, SMTT(30) DEF Sent, Pledge
    <2> HIDE DEF x, r
    <2> QED
      BY <1>1, <1>5, <2>1, <2>2, QuietHandler, ZenonT(30) DEF x, r
  <1>12. CASE CountCase(r, p, s, sent)
    <2> DEFINE told == Told(r, p)
    <2>1. /\ told \in Objects
          /\ told.type = r.type /\ told.term = r.term /\ told.president = r.president
          /\ told.votedFor = r.votedFor /\ told.heartbeat = r.heartbeat
          /\ p.result => told.granted = r.granted \cup {p.from}
          /\ ~p.result => told.granted = r.granted \ {p.from}
      <3>1. r \in Objects /\ p \in Packets
        BY <1>1, Zenon
      <3> HIDE DEF r
      <3> QED
        BY <3>1, ToldEffect, SMTT(30)
    <2>2. /\ p.type = "VoteResponse" /\ p.term = r.term /\ r.type = "Candidate"
          /\ \/ s = told /\ sent = {}
             \/ /\ Cardinality(told.granted) >= quorum
                /\ s = Won(told, x) /\ sent = sendHeartbeat(s, x)
      BY <1>12, ZenonT(30) DEF CountCase
    <2> HIDE DEF told
    <2>3. /\ s \in Objects /\ s.term = r.term /\ s.president = r.president
          /\ s.votedFor = r.votedFor /\ s.heartbeat = r.heartbeat /\ s.granted = told.granted
          /\ \/ s.type = "Candidate" /\ sent = {}
             \/ /\ s.type = "Leader" /\ Cardinality(s.granted) >= quorum
                /\ sent = sendHeartbeat(s, x)
      <3> HIDE DEF x, r
      <3> QED
        BY <1>1, <2>1, <2>2, WonEffect, SMTT(30)
    <2>4. ~r.president
      BY <1>1, <2>2, SMTT(30) DEF Timers
    <2>5. ASSUME NEW k \in s.granted PROVE Backs(nd, nt, k, x)
      <3>1. CASE k \in r.granted
        BY <1>4, <2>2, <3>1, SMTT(30)
      <3>2. CASE k \notin r.granted
        <4>1. k = p.from /\ p.result
          BY <2>1, <2>3, <3>2, SMTT(30)
        <4>2. Ballot(nt, k, x, r.term)
          BY <2>2, <4>1, SMTT(30) DEF Ballot
        <4> QED
          BY <2>2, <4>2, SMTT(30) DEF Backs
      <3> QED
        BY <3>1, <3>2, SMTT(30)
    <2>6. x \in s.granted
      BY <1>1, <2>1, <2>2, <2>3, SMTT(30) DEF Chosen
    <2>7. Chosen(nd2, x)
      BY <1>1, <1>2, <2>2, <2>3, <2>4, <2>6, SMTT(30) DEF Chosen, Elected
    <2>8. Faithful(r, s)
      BY <2>2, SMTT(30) DEF Faithful
    <2>9. ASSUME NEW q \in nt, q.type = "AppendResponse", q.to = x PROVE ~(q.age < Stale)
      <3>1. PacketTiming(nd, q)
        BY SMTT(30) DEF Timing
      <3> QED
        BY <2>2, <2>9, <3>1, SMTT(30) DEF PacketTiming, Requested
    <2>10. ASSUME NEW q \in sent PROVE q.type = "Append" /\ Sent(nd2, q) /\ ~Pledge(nd2, q)
      <3>1. s.type = "Leader" /\ sent = sendHeartbeat(s, x)
        BY <2>3, SMTT(30)
      <3>2. q.type = "Append" /\ q.from = x /\ q.term = s.term
        <4> HIDE DEF x
        <4> QED
          BY <1>1, <2>3, <3>1, SentEffect, SMTT(30)
      <3>3. x \in Spent(nd2, s.term)
        BY <1>1, <1>2, <2>3, <3>1, SMTT(30) DEF Spent
      <3> QED
        BY <1>1, <1>2, <2>3, <3>2, <3>3, SMTT(30) DEF Sent, Pledge
    <2> HIDE DEF x, r
    <2> QED
      BY <1>1, <2>2, <2>3, <2>5, <2>7, <2>8, <2>9, <2>10, QuietHandler, Zenon DEF x, r
  <1> QED
    BY <1>6, <1>7, <1>8, <1>9, <1>10, <1>11, <1>12, SMTT(30) DEF HandledCase

\* rpcReqVote() grants a vote: to a candidate of the term only if no other one of it, and
\* no president, has the vote.
LEMMA ElectionGrant ==
  ASSUME use \in Setups, Patient, NEW nd, NEW nt, NEW nd2, NEW nt2,
         Typed(nd, nt), Timing(nd, nt), Election(nd, nt), Typed(nd2, nt2),
         NEW p \in nt, p.term <= nd[p.to].term, NEW version \in Nat, NEW s, NEW sent,
         GrantCase(nd[p.to], p, version, s, sent),
         nd2 = [nd EXCEPT ![p.to] = s], nt2 \subseteq nt \cup sent
  PROVE  Election(nd2, nt2)
  <1> DEFINE x == p.to
             r == nd[p.to]
             c == p.from
             New == nd[c].type = "Candidate" /\ nd[c].term = r.term
  <1>1. /\ p \in Packets /\ c # x /\ c \in Nodes /\ x \in Nodes /\ r \in Objects
        /\ Sent(nd, p) /\ Chosen(nd, x)
        /\ r.term \in 0 .. MaxTerm /\ p.term \in 0 .. MaxTerm
        /\ \A n \in Nodes : nd[n].term \in 0 .. MaxTerm
        /\ NoNode \notin Nodes
    BY URaftAssumption, ZenonT(30) DEF Typed, Packets, Objects, Election
  <1>2. /\ r.type = "Follower" /\ p.term = r.term
        /\ r.loyalty > 0 => r.leader = c
        /\ ~(r.loyalty > 0) => r.votedFor \in {NoNode, c}
        /\ s.type = "Follower" /\ s.term = r.term /\ s.president = r.president
        /\ s.votedFor = c /\ s.leader = r.leader
        /\ s.granted = r.granted /\ s.heartbeat = r.heartbeat
    <2>1. /\ r.type = "Follower" /\ p.term >= r.term
          /\ r.loyalty > 0 => r.leader = c
          /\ ~(r.loyalty > 0) => r.votedFor \in {NoNode, c}
          /\ s.type = "Follower" /\ s.term = r.term /\ s.president = r.president
          /\ s.votedFor = c /\ s.leader = r.leader
          /\ s.granted = r.granted /\ s.heartbeat = r.heartbeat
      <3> HIDE DEF r
      <3> QED
        BY <1>1, GrantEffect, SMTT(30) DEF r
    <2> QED
      BY <1>1, <2>1, SMTT(30)
  <1>3. /\ nd2[x] = s
        /\ \A n \in Nodes \ {x} : nd2[n] = nd[n]
        /\ \A n \in Nodes : /\ nd2[n].type = nd[n].type /\ nd2[n].term = nd[n].term
                            /\ nd2[n].president = nd[n].president
                            /\ nd2[n].leader = nd[n].leader
                            /\ nd2[n].granted = nd[n].granted
                            /\ nd2[n].heartbeat = nd[n].heartbeat
    <2>1. nd2[x] = s /\ \A n \in Nodes \ {x} : nd2[n] = nd[n]
      BY <1>1, SMTT(30) DEF Typed
    <2> QED
      BY <1>2, <2>1, SMTT(30)
  <1>4. /\ \A n \in Nodes : Elected(nd2[n]) <=> Elected(nd[n])
        /\ \A t : Spent(nd2, t) = Spent(nd, t)
    BY <1>3, SMTT(30) DEF Elected, Spent
  <1>5. ASSUME NEW q \in sent
        PROVE  q.type = "VoteResponse" /\ q.from = x /\ q.to = c /\ q.term = r.term
    BY <1>2 DEF GrantCase, Replied
  <1>6. ASSUME NEW q \in nt2 PROVE Sent(nd2, q)
    <2>1. CASE q \in nt
      <3>1. Sent(nd, q) /\ q.from \in Nodes /\ q.to \in Nodes
        BY <2>1, SMTT(30) DEF Election, Typed, Packets
      <3> QED
        BY <1>3, <1>4, <3>1, ZenonT(30) DEF Sent
    <2>2. CASE q \in sent
      <3>1. nd[c].term >= p.term
        BY <1>1 DEF Sent
      <3> QED
        BY <1>1, <1>2, <1>3, <1>5, <2>2, <3>1, SMTT(30) DEF Sent
    <2> QED
      BY <2>1, <2>2
  <1>7. ASSUME NEW k \in Nodes, NEW n \in Nodes, Backs(nd2, nt2, k, n)
        PROVE  Backs(nd, nt, k, n) \/ (k = x /\ n = c /\ New)
    <2>1. CASE k \in nd2[n].granted /\ (nd2[n].type = "Candidate" \/ Elected(nd2[n]))
      BY <1>3, <1>4, <2>1, SMTT(30) DEF Backs
    <2>2. CASE nd2[n].type = "Candidate" /\ Ballot(nt2, k, n, nd2[n].term)
      <3>1. PICK q \in nt2 : /\ q.type = "VoteResponse" /\ q.result
                             /\ q.from = k /\ q.to = n /\ q.term = nd2[n].term
        BY <2>2, SMTT(30) DEF Ballot
      <3>2. CASE q \in nt
        BY <1>3, <2>2, <3>1, <3>2, SMTT(30) DEF Backs, Ballot
      <3>3. CASE q \in sent
        BY <1>3, <1>5, <2>2, <3>1, <3>3, SMTT(30)
      <3> QED
        BY <3>2, <3>3, SMTT(30)
    <2> QED
      BY <1>7, <2>1, <2>2, ZenonT(30) DEF Backs
  <1>8. New => /\ ~(r.loyalty > 0) /\ ~r.president /\ r.votedFor \in {NoNode, c}
               /\ c \notin Spent(nd, r.term)
    <2>1. New => c \notin Spent(nd, r.term)
      BY <1>1 DEF Spent
    <2> QED
      BY <1>1, <1>2, <2>1, ZenonT(30) DEF Chosen, Spent
  <1>9. r.president => c \in Spent(nd, r.term)
    BY <1>1, <1>2, Zenon DEF Chosen, Spent
  <1>10. ASSUME NEW k \in Nodes PROVE Chosen(nd2, k)
    <2>1. Chosen(nd, k)
      BY DEF Election
    <2>2. CASE k # x
      BY <1>3, <1>4, <2>1, <2>2, ZenonT(30) DEF Chosen
    <2>3. CASE k = x
      <3>1. nd2[x].votedFor = c /\ nd2[x].type = "Follower"
        BY <1>2, <1>3, Zenon
      <3>2. nd2[x].president => c \in Spent(nd2, nd2[x].term)
        BY <1>1, <1>3, <1>4, <1>9, Zenon
      <3> QED
        BY <1>1, <1>3, <1>4, <2>1, <2>3, <3>1, <3>2, ZenonT(30) DEF Chosen
    <2> QED
      BY <2>2, <2>3, SMTT(30)
  <1>11. ASSUME NEW b \in Nodes, New, Backs(nd, nt, x, b), nd[b].term = r.term PROVE b = c
    <2>1. b # x
      BY <1>2, <1>8, <1>11, Zenon DEF Backs, Elected
    <2>2. r.votedFor \in {b} \cup Spent(nd, r.term)
      BY <1>1, <1>11, <2>1, ZenonT(30) DEF Election, Bound
    <2>3. r.votedFor \in Nodes
      BY <2>2 DEF Spent
    <2> QED
      BY <1>1, <1>8, <1>11, <2>2, <2>3, Zenon
  <1>12. ASSUME NEW k \in Nodes PROVE OneVote(nd2, nt2, k)
    <2>1. ASSUME NEW a \in Nodes, NEW b \in Nodes, Backs(nd2, nt2, k, a), Backs(nd2, nt2, k, b),
                 nd2[a].term = nd2[b].term
          PROVE  a = b
      <3>1. nd[a].term = nd[b].term
        BY <1>3, <2>1
      <3>2. Backs(nd, nt, k, a) \/ (k = x /\ a = c /\ New)
        BY <1>7, <2>1, Zenon
      <3>3. Backs(nd, nt, k, b) \/ (k = x /\ b = c /\ New)
        BY <1>7, <2>1, Zenon
      <3>4. CASE Backs(nd, nt, k, a) /\ Backs(nd, nt, k, b)
        BY <3>1, <3>4, SMTT(30) DEF Election, OneVote
      <3>5. CASE k = x /\ New /\ a = c
        BY <1>11, <3>1, <3>3, <3>5, SMTT(30)
      <3>6. CASE k = x /\ New /\ b = c
        BY <1>11, <3>1, <3>2, <3>6, SMTT(30)
      <3> QED
        BY <3>2, <3>3, <3>4, <3>5, <3>6, SMTT(30)
    <2> QED
      BY <2>1, Zenon DEF OneVote
  <1>13. ASSUME NEW k \in Nodes, NEW n \in Nodes, k # n, Backs(nd2, nt2, k, n)
         PROVE  /\ nd2[k].term >= nd2[n].term
                /\ nd2[k].term = nd2[n].term =>
                     /\ nd2[k].type = "Follower" /\ ~nd2[k].president
                     /\ nd2[k].votedFor \in {n} \cup Spent(nd2, nd2[n].term)
    <2>1. CASE Backs(nd, nt, k, n)
      <3>1. /\ nd[k].term >= nd[n].term
            /\ nd[k].term = nd[n].term =>
                 /\ nd[k].type = "Follower" /\ ~nd[k].president
                 /\ nd[k].votedFor \in {n} \cup Spent(nd, nd[n].term)
        BY <1>13, <2>1, Zenon DEF Election, Bound
      <3>2. CASE k # x
        BY <1>3, <1>4, <3>1, <3>2, Zenon
      <3>3. CASE k = x
        <4>1. ASSUME nd[x].term = nd[n].term PROVE c \in {n} \cup Spent(nd, nd[n].term)
          <5>1. CASE r.loyalty > 0
            BY <1>1, <1>2, <4>1, <5>1, Zenon DEF Chosen
          <5>2. CASE ~(r.loyalty > 0)
            <6>1. r.votedFor \in {n} \cup Spent(nd, nd[n].term)
              BY <3>1, <3>3, <4>1, SMTT(30)
            <6>2. r.votedFor \in Nodes
              BY <6>1, SMTT(30) DEF Spent
            <6> QED
              BY <1>1, <1>2, <5>2, <6>1, <6>2, ZenonT(30)
          <5> QED
            BY <5>1, <5>2
        <4>2. /\ nd2[x].term = nd[x].term /\ nd2[n].term = nd[n].term
              /\ nd2[x].type = nd[x].type /\ nd2[x].president = nd[x].president
          BY <1>1, <1>3, <1>13, Zenon
        <4>3. nd2[x].votedFor = c /\ Spent(nd2, nd2[n].term) = Spent(nd, nd[n].term)
          BY <1>2, <1>3, <1>4, <4>2, ZenonT(30)
        <4> HIDE DEF x, c
        <4> QED
          BY <3>1, <3>3, <4>1, <4>2, <4>3, Zenon
      <3> QED
        BY <3>2, <3>3
    <2>2. CASE k = x /\ n = c /\ New
      <3>1. nd2[x].term = r.term /\ nd2[c].term = r.term /\ r.term >= r.term
        BY <1>1, <1>3, <2>2, SMTT(30)
      <3>2. nd2[x].votedFor = c /\ nd2[x].type = "Follower" /\ ~nd2[x].president
        BY <1>1, <1>2, <1>3, <1>8, <2>2, Zenon
      <3> QED
        BY <2>2, <3>1, <3>2, SMTT(30)
    <2> QED
      BY <1>7, <1>13, <2>1, <2>2, ZenonT(30)
  <1>14. ASSUME NEW k \in Nodes, NEW n \in Nodes, NEW t, BacksUpTo(nd, nt, k, n, t),
                k = x => nd[k].loyalty > 0
         PROVE  BacksUpTo(nd2, nt2, k, n, t)
    <2>1. ASSUME NEW b \in Nodes, b # n, Backs(nd2, nt2, k, b) PROVE nd2[b].term <= t
      <3>1. Backs(nd, nt, k, b)
        BY <1>7, <1>8, <1>14, <2>1, Zenon
      <3> QED
        BY <1>3, <1>14, <2>1, <3>1, SMTT(30) DEF BacksUpTo
    <2> QED
      BY <2>1, Zenon DEF BacksUpTo
  <1>15. ASSUME NEW k \in Nodes, NEW n \in Nodes PROVE Leased(nd2, nt2, n, k)
    <2>1. SUFFICES ASSUME k # n, nd[n].heartbeat[k] < Stale
                   PROVE  BacksUpTo(nd2, nt2, k, n, nd[n].term)
      BY <1>3, SMTT(30) DEF Leased
    <2>2. BacksUpTo(nd, nt, k, n, nd[n].term)
      BY <2>1, SMTT(30) DEF Election, Leased
    <2>3. nd[k].loyalty > 0
      BY <2>1, LoyalNode
    <2> QED
      BY <1>14, <2>2, <2>3, ZenonT(30)
  <1>16. ASSUME NEW q \in nt2, Pledge(nd2, q) PROVE BacksUpTo(nd2, nt2, q.from, q.to, q.term)
    <2>1. q \in nt /\ q.from \in Nodes /\ q.to \in Nodes
      BY <1>5, <1>16, Zenon DEF Pledge, Typed, Packets
    <2>2. Pledge(nd, q)
      BY <1>3, <1>16, <2>1, Zenon DEF Pledge
    <2>3. BacksUpTo(nd, nt, q.from, q.to, q.term)
      BY <2>1, <2>2, Zenon DEF Election
    <2>4. nd[q.from].loyalty > 0
      BY <2>1, <2>2, LoyalNode, Zenon
    <2> QED
      BY <1>14, <2>1, <2>3, <2>4, Zenon
  <1>17. \A k, n \in Nodes : Bound(nd2, nt2, k, n)
    BY <1>13, Zenon DEF Bound
  <1> QED
    BY <1>6, <1>10, <1>12, <1>15, <1>16, <1>17, Zenon DEF Election

\* receivePacket(): checkTerm(), then the handler.
LEMMA ElectionReceived ==
  ASSUME use \in Setups, Patient, Lasting, NEW nd, NEW nt, NEW nd2, NEW nt2,
         Typed(nd, nt), Timing(nd, nt), Election(nd, nt), Typed(nd2, nt2),
         Received(nd, nt, nd2, nt2)
  PROVE  Election(nd2, nt2)
  <1>1. PICK p, version, mid :
          /\ p \in nt /\ version \in Nat
          /\ p.to \in Nodes /\ p.term \in 0 .. MaxTerm
          /\ \/ mid = nd
             \/ /\ p.term > nd[p.to].term
                /\ mid = [nd EXCEPT ![p.to] = stepDownToFollower(nd[p.to], p.term)]
          /\ Typed(mid, nt) /\ p.term <= mid[p.to].term
          /\ Handled(mid, nt, p, version, nd2, nt2)
    BY ReceivedStages, Zenon
  <1>2. Timing(mid, nt)
    BY <1>1, TimingDown, Zenon
  <1>3. Election(mid, nt)
    <2>1. CASE p.term > nd[p.to].term
                 /\ mid = [nd EXCEPT ![p.to] = stepDownToFollower(nd[p.to], p.term)]
      <3>1. p.term \in 0 .. MaxTerm /\ nd[p.to].term \in 0 .. MaxTerm /\ MaxTerm \in Nat
        BY <1>1, URaftAssumption, Zenon DEF Typed, Objects
      <3>2. p.term >= nd[p.to].term
        BY <2>1, <3>1, SMTT(30)
      <3> QED
        BY <1>1, <2>1, <3>2, ElectionDown, ZenonT(30)
    <2> QED
      BY <1>1, <2>1
  <1>4. PICK s, sent : /\ HandledCase(mid[p.to], p, version, s, sent)
                       /\ nd2 = [mid EXCEPT ![p.to] = s] /\ nt2 \subseteq nt \cup sent
    BY <1>1, Zenon DEF Handled
  <1>5. CASE GrantCase(mid[p.to], p, version, s, sent)
    BY <1>1, <1>2, <1>3, <1>4, <1>5, ElectionGrant, Zenon
  <1>6. CASE ~GrantCase(mid[p.to], p, version, s, sent)
    BY <1>1, <1>2, <1>3, <1>4, <1>6, ElectionQuiet, Zenon
  <1> QED
    BY <1>5, <1>6, Zenon

\* electionTimeout(): a candidate of a new term has no vote but its own, and has no
\* agreement with anybody.
LEMMA ElectionStood ==
  ASSUME use \in Setups, Patient, NEW nd, NEW nt, NEW nd2, NEW nt2,
         Typed(nd, nt), Timing(nd, nt), Election(nd, nt), Typed(nd2, nt2),
         Stood(nd, nt, nd2, nt2)
  PROVE  Election(nd2, nt2)
  <1>1. PICK x \in Nodes : \E version, sent :
          /\ version \in nodeGetVersion(x)
          /\ nd[x].type # "Leader" /\ nd[x].electionIn = 0
          /\ x \notin use.electors /\ nd[x].term < MaxTerm
          /\ nd2 = [nd EXCEPT ![x] = Standing(nd[x], x, version)]
          /\ \A p \in sent : /\ p \in Packets /\ p.type = "ReqVote" /\ p.from = x /\ p.to # x
                             /\ p.term = Standing(nd[x], x, version).term
                             /\ p.version = Standing(nd[x], x, version).version
          /\ nt2 \subseteq nt \cup sent
    BY Zenon DEF Stood
  <1>2. PICK version, sent :
          /\ version \in nodeGetVersion(x)
          /\ nd[x].type # "Leader" /\ nd[x].electionIn = 0
          /\ x \notin use.electors /\ nd[x].term < MaxTerm
          /\ nd2 = [nd EXCEPT ![x] = Standing(nd[x], x, version)]
          /\ \A p \in sent : /\ p \in Packets /\ p.type = "ReqVote" /\ p.from = x /\ p.to # x
                             /\ p.term = Standing(nd[x], x, version).term
                             /\ p.version = Standing(nd[x], x, version).version
          /\ nt2 \subseteq nt \cup sent
    BY <1>1, ZenonT(30)
  <1> DEFINE o == nd[x]
             s == Standing(nd[x], x, version)
  <1>3. /\ o \in Objects /\ version \in Nat /\ o.term + 1 \in 0 .. MaxTerm
        /\ \A n \in Nodes : nd[n] \in Objects /\ nd[n].term \in 0 .. MaxTerm
        /\ nd2 \in [Nodes -> Objects] /\ nd \in [Nodes -> Objects]
    <2>1. /\ \A n \in Nodes : nd[n] \in Objects /\ nd[n].term \in 0 .. MaxTerm
          /\ nd2 \in [Nodes -> Objects] /\ nd \in [Nodes -> Objects]
      BY Zenon DEF Typed, Objects
    <2>2. o \in Objects /\ o.term \in 0 .. MaxTerm /\ o.term < MaxTerm /\ MaxTerm \in Nat
      BY <1>2, <2>1, URaftAssumption, ZenonT(30)
    <2>3. version \in Nat
      BY <1>2, UseFacts, SMTT(30)
    <2> HIDE DEF o
    <2>4. o.term + 1 \in 0 .. MaxTerm
      BY <2>2, SMTT(30)
    <2> QED
      BY <2>1, <2>2, <2>3, <2>4, Zenon
  <1>4. /\ s \in Objects
        /\ s.type = "Candidate" /\ s.term = o.term + 1 /\ s.president = o.president
        /\ s.votedFor = x /\ s.granted = {x} /\ s.loyalty = o.loyalty
        /\ \A j \in Nodes : s.heartbeat[j] = IF j = x THEN 0 ELSE o.heartbeat[j]
    BY <1>3, StandingEffect, SMTT(30)
  <1>5. ~o.president /\ o.loyalty = 0
    <2>1. o.streak \in Nat /\ o.beatIn \in Nat /\ (o.streak < Grace =>
            HeartbeatPeriod * (Grace - 1 - o.streak) \in Nat)
      BY <1>3, GraceFacts, SMTT(30) DEF Objects
    <2>2. o.type \in {"Follower", "Candidate"} /\ o.loyalty \in Nat
      BY <1>2, <1>3, SMTT(30) DEF Objects
    <2>3. Timers(o)
      BY DEF Timing
    <2> QED
      BY <1>2, <2>1, <2>2, <2>3, SMTT(30) DEF Timers
  <1>6. nd2[x] = s /\ \A n \in Nodes \ {x} : nd2[n] = nd[n]
    BY <1>2, <1>3, Zenon
  <1>7. \A p \in sent : p.type = "ReqVote" /\ p.from = x /\ p.term = o.term + 1
    BY <1>2, <1>4, ZenonT(30)
  <1> HIDE DEF s
  <1>8. \A n \in Nodes : nd2[n].term \in 0 .. MaxTerm /\ nd2[n].term >= nd[n].term
    BY <1>3, <1>4, <1>6, SMTT(30)
  <1>9. \A t \in Int : Spent(nd, t) \subseteq Spent(nd2, t)
    <2>1. Later(nd, nd2)
      BY <1>3, <1>4, <1>6, SMTT(30) DEF Later
    <2> QED
      BY <1>3, <2>1, SpentGrows, SMTT(30)
  <1>10. ASSUME NEW q \in nt2 PROVE Sent(nd2, q)
    <2>1. CASE q \in nt
      <3>1. Sent(nd, q) /\ q.from \in Nodes /\ q.to \in Nodes /\ q.term \in Int
        BY <2>1, SMTT(30) DEF Election, Typed, Packets
      <3>2. nd[q.from].term \in Int /\ nd[q.to].term \in Int
            /\ nd2[q.from].term \in Int /\ nd2[q.to].term \in Int
            /\ nd2[q.from].term >= nd[q.from].term /\ nd2[q.to].term >= nd[q.to].term
        BY <1>3, <1>8, <3>1, SMTT(30)
      <3> QED
        BY <1>9, <3>1, <3>2, SMTT(30) DEF Sent
    <2>2. CASE q \in sent
      BY <1>3, <1>4, <1>6, <1>7, <2>2, SMTT(30) DEF Sent
    <2> QED
      BY <1>2, <2>1, <2>2, ZenonT(30)
  <1>11. ASSUME NEW k \in Nodes, NEW n \in Nodes, Backs(nd2, nt2, k, n)
         PROVE  (n # x /\ Backs(nd, nt, k, n)) \/ (n = x /\ k = x)
    <2>1. ASSUME NEW q \in nt2, q.type = "VoteResponse" PROVE q \in nt
      BY <1>2, <1>7, <2>1, Zenon
    <2>2. CASE n # x
      <3>1. nd2[n] = nd[n]
        BY <1>6, <2>2
      <3> QED
        BY <1>11, <2>1, <2>2, <3>1, Zenon DEF Backs, Ballot
    <2>3. CASE n = x
      <3>1. ~Ballot(nt2, k, x, o.term + 1)
        <4>1. ASSUME NEW q \in nt2, q.type = "VoteResponse", q.result, q.to = x,
                     q.term = o.term + 1
              PROVE  FALSE
          <5>1. Sent(nd, q)
            BY <2>1, <4>1, Zenon DEF Election
          <5> QED
            BY <1>3, <4>1, <5>1, SMTT(30) DEF Sent
        <4> QED
          BY <4>1, SMTT(30) DEF Ballot
      <3> QED
        BY <1>4, <1>6, <1>11, <2>3, <3>1, ZenonT(30) DEF Backs
    <2> QED
      BY <2>2, <2>3
  <1>12. ASSUME NEW k \in Nodes PROVE Chosen(nd2, k)
    <2>1. CASE k # x
      <3>1. Chosen(nd, k) /\ nd2[k] = nd[k] /\ nd[k].term \in Int
        <4>1. Chosen(nd, k)
          BY Zenon DEF Election
        <4>2. nd2[k] = nd[k]
          BY <1>6, <2>1, Zenon
        <4>3. nd[k].term \in 0 .. MaxTerm
          BY <1>3, Zenon
        <4> QED
          BY <4>1, <4>2, <4>3
      <3> QED
        BY <1>9, <3>1, Zenon DEF Chosen
    <2>2. CASE k = x
      BY <1>4, <1>5, <1>6, <2>2, Zenon DEF Chosen, Elected
    <2> QED
      BY <2>1, <2>2
  <1>13. ASSUME NEW b \in Nodes, b # x, Backs(nd, nt, x, b) PROVE nd[b].term <= o.term
    BY <1>3, <1>13, Zenon DEF Election, Bound
  <1>14. ASSUME NEW k \in Nodes PROVE OneVote(nd2, nt2, k)
    <2>1. ASSUME NEW a \in Nodes, NEW b \in Nodes, Backs(nd2, nt2, k, a), Backs(nd2, nt2, k, b),
                 nd2[a].term = nd2[b].term
          PROVE  a = b
      <3>1. CASE a # x /\ b # x
        BY <1>6, <1>11, <2>1, <3>1, ZenonT(30) DEF Election, OneVote
      <3>2. CASE a = x /\ b # x
        <4>1. nd[b].term <= o.term /\ nd[b].term = o.term + 1
          BY <1>4, <1>6, <1>11, <1>13, <2>1, <3>2, ZenonT(30)
        <4> QED
          BY <1>3, <4>1
      <3>3. CASE b = x /\ a # x
        <4>1. nd[a].term <= o.term /\ nd[a].term = o.term + 1
          BY <1>4, <1>6, <1>11, <1>13, <2>1, <3>3, SMTT(30)
        <4> QED
          BY <1>3, <4>1
      <3> QED
        BY <3>1, <3>2, <3>3, SMTT(30)
    <2> QED
      BY <2>1 DEF OneVote
  <1>15. ASSUME NEW k \in Nodes, NEW n \in Nodes PROVE Bound(nd2, nt2, k, n)
    <2>1. SUFFICES ASSUME k # n, Backs(nd2, nt2, k, n)
                   PROVE  /\ nd2[k].term >= nd2[n].term
                          /\ nd2[k].term = nd2[n].term =>
                               /\ nd2[k].type = "Follower" /\ ~nd2[k].president
                               /\ nd2[k].votedFor \in {n} \cup Spent(nd2, nd2[n].term)
      BY Zenon DEF Bound
    <2>2. n # x /\ Backs(nd, nt, k, n) /\ nd2[n] = nd[n] /\ nd[n].term \in Int
      BY <1>3, <1>6, <1>11, <2>1, SMTT(30)
    <2>3. /\ nd[k].term >= nd[n].term
          /\ nd[k].term = nd[n].term =>
               /\ nd[k].type = "Follower" /\ ~nd[k].president
               /\ nd[k].votedFor \in {n} \cup Spent(nd, nd[n].term)
      BY <2>1, <2>2, Zenon DEF Election, Bound
    <2>4. CASE k # x
      <3>1. nd2[k] = nd[k] /\ Spent(nd, nd[n].term) \subseteq Spent(nd2, nd[n].term)
        BY <1>6, <1>9, <2>2, <2>4, Zenon
      <3> QED
        BY <2>2, <2>3, <3>1, Zenon
    <2>5. CASE k = x
      <3>1. nd[k].term = o.term /\ nd2[k].term = o.term + 1
        BY <1>4, <1>6, <2>5, Zenon
      <3>2. o.term >= nd2[n].term /\ nd2[n].term \in Int
        BY <2>2, <2>3, <3>1, Zenon
      <3> HIDE DEF o
      <3>3. nd2[k].term >= nd2[n].term /\ nd2[k].term # nd2[n].term
        BY <1>3, <3>1, <3>2, SMTT(30)
      <3> QED
        BY <3>3, Zenon
    <2> QED
      BY <2>4, <2>5, Zenon
  <1>16. ASSUME NEW k \in Nodes, NEW n \in Nodes, NEW t \in Int, NEW t2 \in Int, t <= t2,
                BacksUpTo(nd, nt, k, n, t), nd[k].loyalty > 0
         PROVE  BacksUpTo(nd2, nt2, k, n, t2)
    <2>1. ASSUME NEW b \in Nodes, b # n, Backs(nd2, nt2, k, b) PROVE nd2[b].term <= t2
      <3>1. Backs(nd, nt, k, b) /\ b # x
        BY <1>5, <1>11, <1>16, <2>1, SMTT(30)
      <3>2. nd[b].term <= t /\ nd2[b] = nd[b]
        BY <1>6, <1>16, <2>1, <3>1, SMTT(30) DEF BacksUpTo
      <3> QED
        BY <1>3, <1>16, <3>2, SMTT(30)
    <2> QED
      BY <2>1, SMTT(30) DEF BacksUpTo
  <1>17. ASSUME NEW k \in Nodes, NEW n \in Nodes PROVE Leased(nd2, nt2, n, k)
    <2>1. SUFFICES ASSUME k # n, nd2[n].heartbeat[k] < Stale
                   PROVE  BacksUpTo(nd2, nt2, k, n, nd2[n].term)
      BY DEF Leased
    <2>2. nd[n].heartbeat[k] < Stale
      BY <1>4, <1>6, <2>1, SMTT(30)
    <2>3. BacksUpTo(nd, nt, k, n, nd[n].term)
      BY <2>1, <2>2, SMTT(30) DEF Election, Leased
    <2>4. nd[k].loyalty > 0
      BY <2>1, <2>2, LoyalNode, SMTT(30)
    <2>5. nd[n].term \in Int /\ nd2[n].term \in Int /\ nd[n].term <= nd2[n].term
      BY <1>3, <1>8, SMTT(30)
    <2> QED
      BY <1>16, <2>3, <2>4, <2>5, SMTT(30)
  <1>18. ASSUME NEW q \in nt2, Pledge(nd2, q) PROVE BacksUpTo(nd2, nt2, q.from, q.to, q.term)
    <2>1. q \in nt /\ q.from \in Nodes /\ q.to \in Nodes /\ q.term \in Int
      BY <1>2, <1>7, <1>18, SMTT(30) DEF Pledge, Typed, Packets
    <2>2. Pledge(nd, q)
      BY <1>4, <1>6, <1>18, <2>1, SMTT(30) DEF Pledge
    <2>3. BacksUpTo(nd, nt, q.from, q.to, q.term)
      BY <2>1, <2>2, SMTT(30) DEF Election
    <2>4. nd[q.from].loyalty > 0
      BY <2>1, <2>2, LoyalNode, SMTT(30)
    <2>5. q.term <= q.term
      BY <2>1
    <2> QED
      BY <1>16, <2>1, <2>3, <2>4, <2>5, SMTT(30)
  <1> QED
    BY <1>10, <1>12, <1>14, <1>15, <1>17, <1>18, Zenon DEF Election

\* What a tick does to what the election knows of a node.
TickKeeps(o, s) ==
  /\ s.type = o.type /\ s.votedFor = o.votedFor /\ s.leader = o.leader
  /\ s.granted = o.granted
  /\ s.president => o.president \/ o.type = "Leader"

TickLoses(o, s) ==
  /\ o.president /\ s.type = "Follower" /\ ~s.president
  /\ s.leader = NoNode /\ s.granted = {}

\* heartbeat() makes no leader and no president of a follower.
LEMMA TickVotes ==
  ASSUME NEW o, NEW s, NEW n, TickedNode(o, s, n)
  PROVE  s.term = o.term /\ (TickKeeps(o, s) \/ TickLoses(o, s))
  <1> DEFINE e == IF o.type = "Leader" THEN o.electionIn ELSE Earlier(o.electionIn)
  <1>1. s.term = o.term
    BY DEF TickedNode
  <1>2. \/ MissedBeat(o, s, n, e) \/ LostBeat(o, s, n) \/ PlainBeat(o, s, n, e)
        \/ /\ s.type = o.type /\ (s.president <=> o.president)
           /\ s.votedFor = o.votedFor /\ s.leader = o.leader /\ s.granted = o.granted
    BY Zenon DEF TickedNode
  <1> HIDE DEF e
  <1>3. CASE MissedBeat(o, s, n, e)
    BY <1>1, <1>3, Zenon DEF MissedBeat, TickKeeps
  <1>4. CASE LostBeat(o, s, n)
    BY <1>1, <1>4, Zenon DEF LostBeat, TickLoses
  <1>5. CASE PlainBeat(o, s, n, e)
    BY <1>1, <1>5, Zenon DEF PlainBeat, HasQuorum, TickKeeps
  <1> QED
    BY <1>1, <1>2, <1>3, <1>4, <1>5, Zenon DEF TickKeeps

\* A tick: nobody votes, and agreements only run out.
LEMMA ElectionTick ==
  ASSUME use \in Setups, NEW nd, NEW nt, NEW nd2, NEW nt2,
         Typed(nd, nt), Election(nd, nt), Typed(nd2, nt2), Timing(nd2, nt2),
         Ticked(nd, nt, nd2, nt2)
  PROVE  Election(nd2, nt2)
  <1>1. /\ nd \in [Nodes -> Objects] /\ nd2 \in [Nodes -> Objects]
        /\ \A n \in Nodes : /\ nd[n] \in Objects /\ nd2[n] \in Objects
                            /\ nd[n].term \in 0 .. MaxTerm
                            /\ TickedNode(nd[n], nd2[n], n)
    BY DEF Typed, Objects, Ticked
  <1>2. \A n \in Nodes : nd2[n].term = nd[n].term
    BY <1>1, TickVotes, SMTT(30)
  <1>3. \A n \in Nodes : TickKeeps(nd[n], nd2[n]) \/ TickLoses(nd[n], nd2[n])
    BY <1>1, TickVotes, SMTT(30)
  <1>4. Later(nd, nd2)
    BY <1>1, <1>2, <1>3, SMTT(30) DEF Later, TickKeeps, TickLoses
  <1>5. ASSUME NEW k \in Nodes PROVE Faithful(nd[k], nd2[k])
    <2>1. CASE TickKeeps(nd[k], nd2[k])
      BY <2>1, SMTT(30) DEF TickKeeps, Faithful
    <2>2. CASE TickLoses(nd[k], nd2[k])
      BY <2>2, SMTT(30) DEF TickLoses, Faithful
    <2> QED
      BY <1>3, <2>1, <2>2, SMTT(30)
  <1>6. ASSUME NEW q \in nt2, q.type \notin {"Append", "ReqVote"}
        PROVE  \E p \in nt : /\ p.type = q.type /\ p.from = q.from /\ p.to = q.to
                             /\ p.term = q.term /\ p.result = q.result
                             /\ q.type = "AppendResponse" /\ q.age < Stale => p.age < Stale
    <2>1. OldPacket(nd, nt, q)
      BY <1>6, SMTT(30) DEF Ticked, BeatPacket
    <2>2. PICK p \in nt :
            /\ q.type = p.type /\ q.from = p.from /\ q.to = p.to /\ q.term = p.term
            /\ q.result = p.result
            /\ p.type = "AppendResponse" => q.age = IF nd[p.to].beatIn = 0 /\ p.age < Stale
                                                    THEN p.age + 1 ELSE p.age
      BY <2>1, SMTT(30) DEF OldPacket
    <2>3. Stale \in Nat /\ p.age \in Nat
      BY StaleFacts DEF Typed, Packets
    <2> QED
      BY <2>2, <2>3, SMTT(30)
  <1>7. NoNewVotes(nd, nt, nd2, nt2)
    <2>1. ASSUME NEW k \in Nodes, NEW n \in Nodes, Backs(nd2, nt2, k, n)
          PROVE  Backs(nd, nt, k, n)
      <3>1. CASE k \in nd2[n].granted /\ (nd2[n].type = "Candidate" \/ Elected(nd2[n]))
        BY <1>3, <3>1, SMTT(30) DEF TickKeeps, TickLoses, Backs, Elected
      <3>2. CASE nd2[n].type = "Candidate" /\ Ballot(nt2, k, n, nd2[n].term)
        <4>1. nd[n].type = "Candidate"
          BY <1>3, <3>2, SMTT(30) DEF TickKeeps, TickLoses
        <4>2. PICK q \in nt2 : /\ q.type = "VoteResponse" /\ q.result
                               /\ q.from = k /\ q.to = n /\ q.term = nd2[n].term
          BY <3>2, SMTT(30) DEF Ballot
        <4>3. PICK p \in nt : /\ p.type = q.type /\ p.from = q.from /\ p.to = q.to
                              /\ p.term = q.term /\ p.result = q.result
          BY <1>6, <4>2, Zenon
        <4>4. Ballot(nt, k, n, nd[n].term)
          BY <1>2, <4>2, <4>3, ZenonT(30) DEF Ballot
        <4> QED
          BY <4>1, <4>4, SMTT(30) DEF Backs
      <3> QED
        BY <2>1, <3>1, <3>2, SMTT(30) DEF Backs
    <2> QED
      BY <1>2, <2>1, SMTT(30) DEF NoNewVotes
  <1>8. NoNewAgreements(nd, nt, nd2, nt2)
    <2>1. ASSUME NEW n \in Nodes, NEW k \in Nodes, k # n, nd2[n].heartbeat[k] < Stale
          PROVE  nd[n].heartbeat[k] < Stale
      <3> DEFINE h == nd[n].heartbeat[k]
      <3>1. h \in 0 .. Stale /\ Stale \in Nat
        <4>1. nd[n] \in Objects
          BY <1>1, Zenon
        <4>2. nd[n].heartbeat \in [Nodes -> 0 .. Stale]
          BY <4>1 DEF Objects
        <4> QED
          BY <4>2, StaleFacts
      <3>2. /\ nd[n].beatIn = 0 => nd2[n].heartbeat = Older(nd[n].heartbeat, n)
            /\ nd[n].beatIn # 0 => nd2[n].heartbeat = nd[n].heartbeat
        BY <1>1, Zenon DEF TickedNode
      <3>3. Older(nd[n].heartbeat, n)[k] = IF h < Stale THEN h + 1 ELSE Stale
        BY <2>1 DEF Older
      <3> QED
        BY <2>1, <3>1, <3>2, <3>3, SMTT(30)
    <2>2. ASSUME NEW q \in nt2, Pledge(nd2, q)
          PROVE  \E p \in nt : /\ Pledge(nd, p)
                               /\ p.from = q.from /\ p.to = q.to /\ p.term = q.term
      <3>1. /\ q.type = "AppendResponse" /\ q.age < Stale /\ q.result
            /\ nd2[q.to].type = "Leader" /\ q.to \in Nodes
        BY <2>2, SMTT(30) DEF Pledge, Typed, Packets
      <3>2. PICK p \in nt : /\ p.type = q.type /\ p.from = q.from /\ p.to = q.to
                            /\ p.term = q.term /\ p.result = q.result /\ p.age < Stale
        BY <1>6, <3>1, ZenonT(30)
      <3>3. nd[q.to].type = "Leader"
        BY <1>3, <3>1, SMTT(30) DEF TickKeeps, TickLoses
      <3>4. Pledge(nd, p)
        BY <3>1, <3>2, <3>3, SMTT(30) DEF Pledge
      <3> QED
        BY <3>2, <3>4, SMTT(30)
    <2> QED
      BY <2>1, <2>2, SMTT(30) DEF NoNewAgreements
  <1>9. ASSUME NEW q \in nt2, BeatPacket(nd2[q.from], q.from, q) PROVE Sent(nd2, q)
    <2>1. q.from \in Nodes /\ q.term = nd2[q.from].term
      BY <1>9, SMTT(30) DEF BeatPacket, Packets
    <2>2. nd2[q.from].term \in Int /\ Timers(nd2[q.from])
      BY <1>1, <1>2, <2>1, SMTT(30) DEF Timing
    <2>3. q.type = "Append" => nd2[q.from].type # "Candidate"
      BY <1>9, <2>2, SMTT(30) DEF BeatPacket, Timers
    <2>4. q.type \in {"Append", "ReqVote"}
      BY <1>9, SMTT(30) DEF BeatPacket
    <2> QED
      BY <2>1, <2>2, <2>3, <2>4, SMTT(30) DEF Sent, Spent
  <1>10. \A q \in nt2 : Sent(nd2, q)
    <2>1. \A q \in nt2 : \/ Sent(nd2, q)
                         \/ \E p \in nt : /\ p.type = q.type /\ p.from = q.from /\ p.to = q.to
                                          /\ p.term = q.term /\ p.result = q.result
      BY <1>9, SMTT(30) DEF Ticked, OldPacket
    <2> QED
      BY <1>4, <2>1, QuietPackets, SMTT(30)
  <1>11. ASSUME NEW k \in Nodes PROVE Chosen(nd2, k)
    <2>1. Chosen(nd, k)
      BY SMTT(30) DEF Election
    <2>2. CASE TickLoses(nd[k], nd2[k])
      BY <2>2, SMTT(30) DEF TickLoses, Chosen, Elected
    <2>3. CASE TickKeeps(nd[k], nd2[k])
      <3>1. Spent(nd, nd[k].term) \subseteq Spent(nd2, nd[k].term)
        BY <1>1, <1>4, SpentGrows, SMTT(30)
      <3>2. nd2[k].term = nd[k].term
        BY <1>2, SMTT(30)
      <3>3. /\ nd2[k].type = "Follower" =>
                 /\ nd2[k].leader # NoNode => nd2[k].leader \in Spent(nd2, nd[k].term)
                 /\ nd2[k].president => nd2[k].votedFor \in Spent(nd2, nd[k].term)
            /\ nd2[k].type # "Follower" => nd2[k].votedFor = k /\ k \in nd2[k].granted
        <4>1. /\ nd2[k].type = nd[k].type /\ nd2[k].votedFor = nd[k].votedFor
              /\ nd2[k].leader = nd[k].leader /\ nd2[k].granted = nd[k].granted
          BY <2>3, Zenon DEF TickKeeps
        <4>2. ASSUME nd2[k].type = "Follower", nd2[k].leader # NoNode
              PROVE  nd2[k].leader \in Spent(nd2, nd[k].term)
          BY <2>1, <3>1, <4>1, <4>2, Zenon DEF Chosen
        <4>3. ASSUME nd2[k].type = "Follower", nd2[k].president
              PROVE  nd2[k].votedFor \in Spent(nd2, nd[k].term)
          <5>1. nd[k].president
            BY <2>3, <4>1, <4>3 DEF TickKeeps
          <5> QED
            BY <2>1, <3>1, <4>1, <4>3, <5>1, Zenon DEF Chosen
        <4>4. nd2[k].type # "Follower" => nd2[k].votedFor = k /\ k \in nd2[k].granted
          BY <2>1, <4>1, Zenon DEF Chosen
        <4> QED
          BY <4>2, <4>3, <4>4, Zenon
      <3>4. Elected(nd2[k]) => Cardinality(nd2[k].granted) >= quorum
        BY <2>1, <2>3, SMTT(30) DEF TickKeeps, Chosen, Elected
      <3> QED
        BY <3>2, <3>3, <3>4, Zenon DEF Chosen
    <2> QED
      BY <1>3, <2>2, <2>3, SMTT(30)
  <1>12. /\ \A k \in Nodes : OneVote(nd2, nt2, k)
         /\ \A k, n \in Nodes : Bound(nd2, nt2, k, n)
    BY <1>4, <1>5, <1>7, QuietVotes, SMTT(30)
  <1>13. /\ \A n, k \in Nodes : Leased(nd2, nt2, n, k)
         /\ \A q \in nt2 : Pledge(nd2, q) => BacksUpTo(nd2, nt2, q.from, q.to, q.term)
    BY <1>4, <1>7, <1>8, QuietLease, SMTT(30)
  <1> QED
    BY <1>10, <1>11, <1>12, <1>13, SMTT(30) DEF Election

-----------------------------------------------------------------------------

\* The inductive invariant: votes are binding in their term, agreements across terms.
Elects == Lasts /\ (Patient /\ Lasting => Election(node, net))

\* Nobody has voted, or heard from anybody, when the nodes start.
LEMMA InitElection == ASSUME Init PROVE Election(node, net)
  <1>1. PICK phase \in [Nodes -> 0 .. HeartbeatPeriod - 1] :
          node = [n \in Nodes |-> NewNode(phase[n])]
    BY DEF Init
  <1>2. use \in Setups /\ net = {}
    BY SMTT(30) DEF Init
  <1>3. ASSUME NEW n \in Nodes
        PROVE  /\ node[n].type = "Follower" /\ ~node[n].president /\ node[n].leader = NoNode
               /\ node[n].heartbeat = [j \in Nodes |-> Stale]
    BY <1>1, <1>2, NewNodeEffect, SMTT(30)
  <1>4. Stale \in Nat
    BY StaleFacts, SMTT(30)
  <1>5. \A k, n \in Nodes : ~Backs(node, net, k, n)
    BY <1>3, SMTT(30) DEF Backs, Elected
  <1>6. \A k \in Nodes : Chosen(node, k) /\ OneVote(node, net, k)
    BY <1>3, <1>5, SMTT(30) DEF Chosen, OneVote, Elected
  <1>7. \A k, n \in Nodes : Bound(node, net, k, n) /\ Leased(node, net, n, k)
    BY <1>3, <1>4, <1>5, SMTT(30) DEF Bound, Leased
  <1> QED
    BY <1>2, <1>6, <1>7, SMTT(30) DEF Election

\* The invariant over the next state's objects is the invariant of the next state.
LEMMA ElectionPrimed == Election(node', net') => Election(node, net)'
  BY ZenonT(30) DEF Election, Sent, Chosen, OneVote, Bound, Leased, Pledge, BacksUpTo, Backs,
                    Ballot, Elected, Spent

\* Every step keeps it.
LEMMA ElectsStep == Elects /\ [Next]_vars => Elects'
  <1> SUFFICES ASSUME Elects, [Next]_vars PROVE Elects'
    OBVIOUS
  <1>1. Lasts /\ Lasts'
    BY LastsStep DEF Elects
  <1>2. CASE Next
    <2>1. /\ use' = use /\ use \in Setups /\ Typed(node, net) /\ Cardinality(net) <= MaxInFlight
      BY <1>1, <1>2, SMTT(30) DEF Next, Lasts, WellTyped
    <2>2. /\ \/ Ticked(node, net, node', net')
             \/ Received(node, net, node', net')
             \/ Stood(node, net, node', net')
             \/ Demoted(node, net, node', net')
             \/ Restarted(node, net, node', net')
          /\ Typed(node', net')
      BY <1>2, <2>1, StepCases, SMTT(30) DEF Next
    <2>3. ASSUME Patient, Lasting PROVE Election(node', net')
      <3>1. Timing(node, net) /\ Election(node, net)
        BY <1>1, <2>3, SMTT(30) DEF Lasts, Elects
      <3>2. CASE Ticked(node, net, node', net')
        <4>1. Timing(node', net')
          BY <2>1, <2>2, <2>3, <3>1, <3>2, TimingTick, SMTT(30)
        <4> QED
          BY <2>1, <2>2, <3>1, <3>2, <4>1, ElectionTick, SMTT(30)
      <3>3. CASE Received(node, net, node', net')
        BY <2>1, <2>2, <2>3, <3>1, <3>3, ElectionReceived, SMTT(30)
      <3>4. CASE Stood(node, net, node', net')
        BY <2>1, <2>2, <2>3, <3>1, <3>4, ElectionStood, SMTT(30)
      <3>5. CASE Demoted(node, net, node', net')
        <4>1. PICK n \in Nodes :
                /\ node[n].type # "Follower"
                /\ node' = [node EXCEPT ![n] = stepDownToFollower(node[n], node[n].term)]
          BY <3>5, Zenon DEF Demoted
        <4>2. net' = net /\ node[n].term \in 0 .. MaxTerm /\ node[n].term >= node[n].term
          BY <2>1, <3>5, SMTT(30) DEF Demoted, Typed, Objects
        <4> QED
          BY <2>1, <2>2, <3>1, <4>1, <4>2, ElectionDown, Zenon
      <3>6. CASE Restarted(node, net, node', net')
        BY <2>3, <3>6, SMTT(30) DEF Restarted, Lasting
      <3> QED
        BY <2>2, <3>2, <3>3, <3>4, <3>5, <3>6, SMTT(30)
    <2>4. Patient' /\ Lasting' => Patient /\ Lasting
      BY <2>1, SMTT(30) DEF Patient, Lasting
    <2>5. Election(node', net') => Election(node, net)'
      BY ElectionPrimed
    <2> QED
      BY <1>1, <2>3, <2>4, <2>5, SMTT(30) DEF Elects
  <1>3. CASE UNCHANGED vars
    <2>1. node' = node /\ net' = net /\ use' = use
      BY <1>3 DEF vars
    <2>2. Patient' /\ Lasting' => Patient /\ Lasting
      BY <2>1 DEF Patient, Lasting
    <2>3. Election(node, net) => Election(node', net')
      BY <2>1, Zenon
    <2>4. Election(node', net') => Election(node, net)'
      BY ElectionPrimed
    <2> QED
      BY <1>1, <2>2, <2>3, <2>4, Zenon DEF Elects
  <1> QED
    BY <1>2, <1>3

\* It holds in every state.
LEMMA ElectsInvariant == Spec => []Elects
  <1>1. Init => Elects
    BY InitTyped, InitTiming, InitElection, SMTT(30) DEF Elects, Lasts
  <1> QED
    BY <1>1, ElectsStep, PTL DEF Spec

\* Two quorums have a node in common.
LEMMA QuorumsMeet ==
  ASSUME NEW A, NEW B, A \subseteq Nodes, B \subseteq Nodes,
         Cardinality(A) >= quorum, Cardinality(B) >= quorum
  PROVE  \E k \in Nodes : k \in A /\ k \in B
  <1>1. IsFiniteSet(Nodes) /\ IsFiniteSet(A) /\ IsFiniteSet(B)
    BY URaftAssumption, FS_Subset, SMTT(30)
  <1>2. Cardinality(Nodes) \in Nat /\ Cardinality(A) \in Nat /\ Cardinality(B) \in Nat
    BY <1>1, FS_CardinalityType, SMTT(30)
  <1>3. Cardinality(A) + Cardinality(B) > Cardinality(Nodes)
    BY <1>2 DEF quorum
  <1>4. A \cap B # {}
    BY <1>1, <1>3, FS_MajoritiesIntersect, SMTT(30)
  <1> QED
    BY <1>4, SMTT(30)

\* Two elected nodes of a term are the same: both were elected by quorums.
LEMMA OneElected ==
  ASSUME NEW nd, NEW nt, Typed(nd, nt), Election(nd, nt), NEW a \in Nodes, NEW b \in Nodes,
         Elected(nd[a]), Elected(nd[b]), nd[a].term = nd[b].term
  PROVE  a = b
  <1>1. nd[a].granted \subseteq Nodes /\ nd[b].granted \subseteq Nodes
    BY SMTT(30) DEF Typed, Objects
  <1>2. Cardinality(nd[a].granted) >= quorum /\ Cardinality(nd[b].granted) >= quorum
    BY SMTT(30) DEF Election, Chosen
  <1>3. PICK k \in Nodes : k \in nd[a].granted /\ k \in nd[b].granted
    BY <1>1, <1>2, QuorumsMeet, SMTT(30)
  <1>4. Backs(nd, nt, k, a) /\ Backs(nd, nt, k, b)
    BY <1>3 DEF Backs
  <1> QED
    BY <1>4, SMTT(30) DEF Election, OneVote

\* One vote in a term: rpcReqVote(), electionTimeout() and the count of the votes in
\* rpcReqVoteResponse() make no two leaders of a term, for any number of nodes and any
\* losses, delays and reorderings of packets, unless a node forgets its vote by
\* starting again.
THEOREM OneLeaderThm == Spec => [](Patient /\ Lasting => OneLeaderPerTerm)
  <1>1. ASSUME Elects, Patient, Lasting, NEW a \in Nodes, NEW b \in Nodes, a # b,
               node[a].type = "Leader", node[b].type = "Leader"
        PROVE  node[a].term # node[b].term
    <2>1. Typed(node, net) /\ Election(node, net)
      BY <1>1, SMTT(30) DEF Elects, Lasts, WellTyped
    <2> QED
      BY <1>1, <2>1, OneElected, SMTT(30) DEF Elected
  <1>2. Elects => (Patient /\ Lasting => OneLeaderPerTerm)
    BY <1>1, SMTT(30) DEF OneLeaderPerTerm
  <1> QED
    BY <1>2, ElectsInvariant, PTL

\* A president that counts a quorum of loyal nodes is of no earlier term than any other.
LEMMA NewestPresident ==
  ASSUME NEW nd, NEW nt, Typed(nd, nt), Election(nd, nt), NEW a \in Nodes, NEW b \in Nodes,
         a # b, nd[a].president, nd[b].president, nd[a].streak = 0, Counted(nd[a], a)
  PROVE  nd[b].term <= nd[a].term
  <1> DEFINE A == {j \in Nodes : j = a \/ nd[a].heartbeat[j] < Stale}
  <1>1. Cardinality(A) >= quorum /\ Cardinality(nd[b].granted) >= quorum
    BY Zenon DEF Counted, Election, Chosen, Elected
  <1>2. A \subseteq Nodes /\ nd[b].granted \subseteq Nodes
    BY SMTT(30) DEF Typed, Objects
  <1>3. PICK k \in Nodes : k \in A /\ k \in nd[b].granted
    <2> HIDE DEF A
    <2> QED
      BY <1>1, <1>2, QuorumsMeet, SMTT(30)
  <1>4. Backs(nd, nt, k, b)
    BY <1>3, SMTT(30) DEF Backs, Elected
  <1>5. nd[a].term \in Int /\ nd[b].term \in Int
    BY SMTT(30) DEF Typed, Objects
  <1>6. CASE k = a
    BY <1>4, <1>5, <1>6, SMTT(30) DEF Election, Bound
  <1>7. CASE k # a
    BY <1>3, <1>4, <1>7, Zenon DEF Election, Leased, BacksUpTo
  <1> QED
    BY <1>6, <1>7, SMTT(30)

\* "there can be only one President at the time" (uraft.h): with at most one missed
\* heartbeat allowed, the president of an earlier term has stepped down in heartbeat()
\* before rpcReqVote() of its loyal nodes lets another one be elected.
THEOREM OnePresidentThm == Spec => [](Patient /\ Lasting /\ use.grace <= 1 => OnePresident)
  <1>1. ASSUME Elects, Patient, Lasting, use.grace <= 1,
               NEW a \in Nodes, NEW b \in Nodes, node[a].president, node[b].president
        PROVE  a = b
    <2>1. use \in Setups /\ Typed(node, net) /\ Timing(node, net) /\ Election(node, net)
      BY <1>1, SMTT(30) DEF Elects, Lasts, WellTyped
    <2>2. use.grace \in Nat
      BY <2>1, URaftAssumption, SMTT(30)
    <2>3. ASSUME NEW n \in Nodes, node[n].president
          PROVE  node[n].streak = 0 /\ Counted(node[n], n)
      <3>1. node[n].streak \in Nat
        BY <2>1, <2>2, SMTT(30) DEF Typed, Objects
      <3>2. node[n].streak < Grace
        BY <2>1, <2>3, SMTT(30) DEF Timing, Timers
      <3>3. node[n].streak = 0
        BY <1>1, <2>2, <3>1, <3>2, SMTT(30) DEF Grace
      <3> QED
        BY <2>1, <3>3, SMTT(30) DEF Timing
    <2>4. node[a].term \in Int /\ node[b].term \in Int
      BY <2>1, SMTT(30) DEF Typed, Objects
    <2>5. a # b => node[b].term <= node[a].term
      BY <1>1, <2>1, <2>3, NewestPresident, SMTT(30)
    <2>6. a # b => node[a].term <= node[b].term
      BY <1>1, <2>1, <2>3, NewestPresident, SMTT(30)
    <2>7. a # b => node[a].term = node[b].term
      BY <2>4, <2>5, <2>6, SMTT(30)
    <2> QED
      BY <1>1, <2>1, <2>7, OneElected, SMTT(30) DEF Elected
  <1>2. ASSUME Elects, Patient, Lasting, use.grace <= 1
        PROVE  OnePresident
    <2> DEFINE P == {n \in Nodes : node[n].president}
    <2>1. CASE P = {}
      BY <2>1, FS_EmptySet, SMTT(30) DEF OnePresident
    <2>2. CASE P # {}
      <3>1. PICK a \in Nodes : a \in P
        BY <2>2
      <3>2. P = {a}
        BY <1>1, <1>2, <3>1, SMTT(30)
      <3>3. Cardinality({a}) = 1
        BY FS_Singleton, Zenon
      <3> QED
        BY <3>2, <3>3, SMTT(30) DEF OnePresident
    <2> QED
      BY <2>1, <2>2, SMTT(30)
  <1>3. Elects => (Patient /\ Lasting /\ use.grace <= 1 => OnePresident)
    BY <1>2
  <1> QED
    BY <1>3, ElectsInvariant, PTL
=============================================================================
