---------------------------- MODULE RaftLeaders -----------------------------
(***************************************************************************)
(* What the proofs about whole clusters start from: in every reachable     *)
(* state each node follows its log, and no message carries a configuration *)
(* nobody proposed.  Then the safety of elections, what logs have in       *)
(* common, and how a node goes about an election: what each function does  *)
(* to its term, its pre-votes, its leader and its requests for votes.      *)
(***************************************************************************)
EXTENDS RaftEffects, FiniteSetTheorems

-----------------------------------------------------------------------------
(* Configurations. *)

LawfulInv ==
    /\ Inv
    /\ \A i \in Server : Lawful(node[i])
    /\ \A m \in wire : LawfulMessage(m)

(* A node that is lawful but for what it has yet to send.                   *)
LEMMA LawfulFields ==
    ASSUME NEW n, NEW m, Lawful(n),
           m.id = n.id, m.log = n.log, m.disk = n.disk, m.voters = n.voters,
           m.base_config = n.base_config, m.config_index = n.config_index
    PROVE  Lawful(m)
BY DEF Lawful, Follows

(* What a lawful node says is lawful. *)
LEMMA SaysLawful ==
    ASSUME NEW m \in NodeRecord, Lawful(m), NEW s \in Message, Says(m, s)
    PROVE  LawfulMessage(s)
<1>1. m.log \in Log /\ IsPiece(m.log)
  BY NodeFields, LogIsPiece
<1>2. LawfulPiece(m.log) /\ (HasSnapshot(m.log) => m.log.snapshot_config \in Configs)
  BY DEF Lawful, LawfulLog
<1>3. CASE s.kind = "AppendEntries"
  <2> DEFINE piece == Carried(s)
  <2>1. Quotes(m.log, piece)
    BY <1>3 DEF Says, Told, Replicates
  <2>2. IsPiece(piece)
    BY <1>3, CarriedIsPiece DEF Replicates
  <2> HIDE DEF piece
  <2>3. LawfulPiece(piece)
    BY <1>1, <1>2, <2>1, <2>2, PartIsLawful, BareIsLawful DEF Quotes
  <2> QED BY <1>3, <2>3 DEF LawfulMessage, piece
<1>4. CASE s.kind = "InstallSnapshot"
  <2>1. s.snapshot = SnapshotOf(m.log)
    BY <1>4 DEF Says, Told
  <2> QED BY <1>2, <1>4, <2>1 DEF LawfulMessage, SnapshotOf, HasSnapshot
<1>5. CASE s.kind \notin {"AppendEntries", "InstallSnapshot"}
  BY <1>5 DEF LawfulMessage
<1> QED BY <1>3, <1>4, <1>5

(* An empty log is lawful. *)
LEMMA InitIsLawful == Init => LawfulInv
<1> SUFFICES ASSUME Init PROVE LawfulInv
  OBVIOUS
<1>1. Inv /\ wire = {}
  BY InitHasInv DEF Init
<1>2. EmptyLog \in Log /\ LawfulLog(EmptyLog)
  BY EmptyLogTyped DEF LawfulLog, LawfulPiece, HasSnapshot, HasEntry, LastIndex, EmptyLog
<1>3. \A i \in Server : node[i] = WithLog(i, EmptyLog)
  BY DEF Init
<1>4. \A i \in Server : Lawful(node[i])
  BY <1>2, <1>3, WithLogLawful
<1> QED BY <1>1, <1>4 DEF LawfulInv

(* What is known of a node that takes its turn, and of what it sends.       *)
LEMMA TurnTyped ==
    ASSUME LawfulInv, NEW i \in Server, NEW m, Turns(i, m)
    PROVE  /\ m \in NodeRecord /\ m.id = i /\ m.sends \subseteq Message
           /\ Lawful(m)
           /\ node[i] \in NodeRecord /\ node[i].id = i /\ Lawful(node[i])
           /\ node[i].current_term <= m.current_term
           /\ node'[i].id = i /\ node'[i].log = m.log /\ node'[i].disk = m.disk
           /\ node'[i].role = m.role /\ node'[i].votes = m.votes
           /\ node'[i].current_term = m.current_term
           /\ node'[i].voted_for = m.voted_for
           /\ Lawful(node'[i])
           /\ \A j \in Server : j # i => node'[j] = node[j]
           /\ \A s \in wire' : s \in wire \/ (s \in m.sends /\ Says(m, s))
<1>1. /\ m \in NodeRecord /\ Outcome(node[i], m, wire)
      /\ wire' \subseteq wire \cup m.sends
  BY DEF Turns
<1>2. node[i] \in NodeRecord /\ node[i].id = i /\ Lawful(node[i]) /\ TypeOK
  BY NodeBefore DEF LawfulInv, Inv
<1>3. m.id = i /\ m.sends \subseteq Message /\ Lawful(m)
  BY <1>1, <1>2, NodeFields DEF Outcome, LawfulInv
<1> DEFINE k == [m EXCEPT !.sends = {}]
<1>4. /\ \A j \in Server : node'[j] = IF j = i THEN k ELSE node[j]
      /\ k.id = m.id /\ k.log = m.log /\ k.disk = m.disk /\ k.role = m.role
      /\ k.votes = m.votes /\ k.current_term = m.current_term
      /\ k.voted_for = m.voted_for /\ k.voters = m.voters
      /\ k.base_config = m.base_config /\ k.config_index = m.config_index
  BY <1>2, AfterTurn
<1> HIDE DEF k
<1>5. Lawful(k)
  BY <1>3, <1>4, LawfulFields
<1>6. node'[i] = k /\ \A j \in Server : j # i => node'[j] = node[j]
  BY <1>4
<1>7. \A s \in wire' : s \in wire \/ (s \in m.sends /\ Says(m, s))
  BY <1>1 DEF Outcome
<1>8. node[i].current_term <= m.current_term
  BY <1>1 DEF Outcome
<1> QED BY <1>1, <1>2, <1>3, <1>4, <1>5, <1>6, <1>7, <1>8

(* Every step keeps it. *)
LEMMA NextIsLawful == LawfulInv /\ [Next]_vars => LawfulInv'
<1> SUFFICES ASSUME LawfulInv, [Next]_vars PROVE LawfulInv'
  OBVIOUS
<1>1. Inv'
  BY NextKeepsInv DEF LawfulInv
<1>2. CASE UNCHANGED <<node, history>> /\ wire' \subseteq wire
  BY <1>1, <1>2 DEF LawfulInv
<1>3. ASSUME NEW i \in Server, NEW m, Turns(i, m) PROVE LawfulInv'
  <2>1. /\ m \in NodeRecord /\ m.sends \subseteq Message /\ Lawful(m)
        /\ Lawful(node'[i])
        /\ \A j \in Server : j # i => node'[j] = node[j]
        /\ \A s \in wire' : s \in wire \/ (s \in m.sends /\ Says(m, s))
    BY <1>3, TurnTyped
  <2>2. \A j \in Server : Lawful(node'[j])
    BY <2>1 DEF LawfulInv
  <2>3. \A s \in wire' : LawfulMessage(s)
    BY <2>1, SaysLawful DEF LawfulInv
  <2> QED BY <1>1, <2>2, <2>3 DEF LawfulInv
<1>4. Moves
  BY NextMoves DEF LawfulInv
<1> QED BY <1>2, <1>3, <1>4 DEF Moves

LEMMA Lawfulness == Spec => []LawfulInv
BY InitIsLawful, NextIsLawful, PTL DEF Spec

(* As long as some server cannot be removed, so that no configuration is    *)
(* empty, every node follows the latest configuration of its log, or of its *)
(* snapshot, or the bootstrap one, and would follow the same after a        *)
(* restart: truncation, compaction, installation and recovery all leave     *)
(* voters and config_index as with_log would compute them.                  *)
THEOREM ConfigFollows ==
    ASSUME InitialVoters \ Candidates # {}
    PROVE  Spec => []ConfigFollowsLog
<1>1. {} \notin Configs
  BY DEF Configs
<1>2. LawfulInv => ConfigFollowsLog
  <2> SUFFICES ASSUME LawfulInv, NEW i \in Server
               PROVE  LET n == node[i]
                          restarted == WithLog(i, n.disk)
                      IN  /\ n.voters = ConfigAt(n.log, LastIndex(n.log), n.base_config)
                          /\ n.config_index = ConfigIndexAt(n.log, LastIndex(n.log))
                          /\ n.voters = restarted.voters
                          /\ n.config_index = restarted.config_index
    BY DEF ConfigFollowsLog
  <2> DEFINE n == node[i]
             restarted == WithLog(i, n.disk)
  <2>1. /\ n \in NodeRecord /\ n.id = i /\ Lawful(n)
    BY NodeBefore DEF LawfulInv
  <2>2. /\ n.log \in Log /\ n.disk = n.log
        /\ n.base_config = BaseOf(i, n.log) /\ Follows(n)
    BY <1>1, <2>1, NodeFields DEF Lawful
  <2>3. /\ restarted.base_config = BaseOf(i, n.log) /\ restarted.log = n.log
        /\ Follows(restarted)
    BY <2>2, WithLogFields
  <2> HIDE DEF n, restarted
  <2>4. /\ n.voters = restarted.voters /\ n.config_index = restarted.config_index
    BY <2>2, <2>3 DEF Follows
  <2> QED BY <2>2, <2>4 DEF Follows, n, restarted
<1> QED BY <1>2, Lawfulness, PTL
-----------------------------------------------------------------------------
(* Elections. *)

(* No change of the membership is ever proposed, and every server starts as *)
(* a voter.  (A server outside InitialVoters bootstraps with a configuration*)
(* of its own, InitialVoters and itself, which no quorum argument covers.)  *)
FixedMembership ==
    /\ IsFiniteSet(Server)
    /\ InitialVoters = Server
    /\ Candidates = {}

HasVoted(voter, term, candidate) ==
    [voter |-> voter, term |-> term, candidate |-> candidate] \in history.ballots

(* A vote is on record before the reply that grants it is on the wire. *)
GrantsRecorded ==
    \A r \in wire :
        r.kind = "RequestVoteReply" /\ r.vote_granted => HasVoted(r.from, r.term, r.to)

(* Every vote a candidate counts has been cast for it, in its term. *)
VotesCounted ==
    \A i \in Server : node[i].role # "Follower" =>
        \A v \in node[i].votes : HasVoted(v, node[i].current_term, i)

Majorities == {Q \in SUBSET Server : 2 * Cardinality(Q) > Cardinality(Server)}

(* A leader holds the votes of a majority and is on record as having won. *)
LeadersWon ==
    \A i \in Server : node[i].role = "Leader" =>
        /\ node[i].votes \in Majorities
        /\ [term |-> node[i].current_term, leader |-> i] \in history.victories

VictoriesBacked ==
    \A v \in history.victories : \E Q \in Majorities :
        \A q \in Q : HasVoted(q, v.term, v.leader)

ElectionInv ==
    /\ LawfulInv
    /\ GrantsRecorded
    /\ VotesCounted
    /\ LeadersWon
    /\ VictoriesBacked

(* With a fixed membership every node follows the configuration of all. *)
LEMMA EveryoneVotes ==
    ASSUME FixedMembership, NEW n \in NodeRecord, Lawful(n)
    PROVE  n.voters = Server
<1>1. Configs = {Server}
  BY ConfigAssumption DEF Configs, FixedMembership
<1>2. n.log \in Log /\ LastIndex(n.log) \in Nat
  BY NodeFields, LogFields
<1>3. n.voters \in Configs
  BY <1>2, ConfigIsLawful DEF Lawful, LawfulLog, Follows
<1> QED BY <1>1, <1>3

(* So many votes are a majority. *)
LEMMA QuorumIsMajority ==
    ASSUME FixedMembership, NEW n \in NodeRecord, Lawful(n), NEW votes \in SUBSET Server,
           Cardinality(votes) >= Quorum(n)
    PROVE  votes \in Majorities
<1>1. Cardinality(Server) \in Nat /\ Cardinality(votes) \in Nat
  BY FS_CardinalityType, FS_Subset DEF FixedMembership
<1>2. Quorum(n) = Cardinality(Server) \div 2 + 1
  BY EveryoneVotes DEF Quorum
<1>3. 2 * (Cardinality(Server) \div 2 + 1) > Cardinality(Server)
  BY <1>1
<1> QED BY <1>1, <1>2, <1>3 DEF Majorities

(* Majorities meet. *)
LEMMA MajoritiesMeet ==
    ASSUME FixedMembership, NEW Q \in Majorities, NEW R \in Majorities
    PROVE  \E q : q \in Q /\ q \in R
<1>1. /\ IsFiniteSet(Server) /\ Q \subseteq Server /\ R \subseteq Server
      /\ Cardinality(Server) \in Nat /\ Cardinality(Q) \in Nat /\ Cardinality(R) \in Nat
  BY FS_CardinalityType, FS_Subset DEF FixedMembership, Majorities
<1>2. Cardinality(Q) + Cardinality(R) > Cardinality(Server)
  BY <1>1 DEF Majorities
<1>3. Q \cap R # {}
  BY <1>1, <1>2, FS_MajoritiesIntersect
<1> QED BY <1>3

(* What a turn puts on record. *)
LEMMA TurnRecords ==
    ASSUME NEW i \in Server, NEW m, Turns(i, m), m.id = i
    PROVE  /\ history.ballots \subseteq history'.ballots
           /\ history.victories \subseteq history'.victories
           /\ \A c \in Server : m.voted_for = c => HasVoted(i, m.current_term, c)'
           /\ m.role = "Leader" =>
                [term |-> m.current_term, leader |-> i] \in history'.victories
           /\ \A v \in history'.victories : v \notin history.victories =>
                m.role = "Leader" /\ v.term = m.current_term /\ v.leader = i
<1>1. /\ history'.ballots = history.ballots \cup BallotOf(m)
      /\ history'.victories = history.victories \cup VictoryOf(m)
  BY DEF Turns, Record
<1>2. \A c \in Server : m.voted_for = c => HasVoted(i, m.current_term, c)'
  BY <1>1, NoneAssumption DEF HasVoted, BallotOf
<1>3. m.role = "Leader" => [term |-> m.current_term, leader |-> i] \in VictoryOf(m)
  BY DEF VictoryOf
<1>4. \A v \in VictoryOf(m) :
        m.role = "Leader" /\ v.term = m.current_term /\ v.leader = i
  BY DEF VictoryOf
<1> QED BY <1>1, <1>2, <1>3, <1>4

(* A turn keeps the record of elections true. *)
LEMMA TurnKeepsElections ==
    ASSUME FixedMembership, ElectionInv, NEW i \in Server, NEW m, Turns(i, m)
    PROVE  GrantsRecorded' /\ VotesCounted' /\ LeadersWon' /\ VictoriesBacked'
<1> DEFINE n == node[i]
<1>1. /\ m \in NodeRecord /\ m.id = i /\ m.sends \subseteq Message /\ Lawful(m)
      /\ n \in NodeRecord /\ n.id = i
      /\ node'[i].role = m.role /\ node'[i].votes = m.votes
      /\ node'[i].current_term = m.current_term
      /\ \A j \in Server : j # i => node'[j] = node[j]
      /\ \A s \in wire' : s \in wire \/ (s \in m.sends /\ Says(m, s))
  BY TurnTyped DEF ElectionInv
<1>2. Stands(n, m, wire)
  BY DEF Turns, Outcome
<1>3. /\ history.ballots \subseteq history'.ballots
      /\ history.victories \subseteq history'.victories
      /\ \A c \in Server : m.voted_for = c => HasVoted(i, m.current_term, c)'
      /\ m.role = "Leader" => [term |-> m.current_term, leader |-> i] \in history'.victories
      /\ \A v \in history'.victories : v \notin history.victories =>
                m.role = "Leader" /\ v.term = m.current_term /\ v.leader = i
  BY <1>1, TurnRecords
<1>4. \A v, t, c : HasVoted(v, t, c) => HasVoted(v, t, c)'
  BY <1>3 DEF HasVoted
<1> DEFINE kept == m.role = n.role /\ m.votes = n.votes /\ m.current_term = n.current_term
           raised == m.current_term > n.current_term /\ m.voted_for = m.id
                        /\ m.votes = {m.id} /\ (m.role = "Leader" => 1 >= Quorum(m))
           voted(r) == /\ r.kind = "RequestVoteReply" /\ r.vote_granted
                       /\ r.to = n.id /\ r.term = n.current_term
                       /\ m.votes = n.votes \cup {r.from}
           counted == /\ n.role = "Candidate" /\ m.current_term = n.current_term
                      /\ \E r \in wire : voted(r)
                      /\ m.role = "Leader" => Cardinality(m.votes) >= Quorum(m)
<1>5. m.role = "Follower" \/ kept \/ raised \/ counted
  BY <1>2 DEF Stands
<1>6. m.votes \subseteq Server
  BY <1>1, NodeFields
<1>7. m.role # "Follower" => \A v \in m.votes : HasVoted(v, m.current_term, i)'
  <2> SUFFICES ASSUME m.role # "Follower", NEW v \in m.votes
               PROVE  HasVoted(v, m.current_term, i)'
    OBVIOUS
  <2>1. CASE kept
    BY <1>4, <2>1 DEF ElectionInv, VotesCounted
  <2>2. CASE raised
    BY <1>1, <1>3, <2>2
  <2>3. CASE counted
    <3>1. PICK r \in wire : voted(r)
      BY <2>3
    <3>2. HasVoted(r.from, r.term, r.to)
      BY <3>1 DEF ElectionInv, GrantsRecorded
    <3>3. n.role # "Follower" /\ m.current_term = n.current_term
      BY <2>3
    <3>4. CASE v \in n.votes
      BY <1>4, <3>3, <3>4 DEF ElectionInv, VotesCounted
    <3>5. CASE v = r.from
      BY <1>1, <1>4, <3>1, <3>2, <3>3, <3>5
    <3> QED BY <3>1, <3>4, <3>5
  <2> QED BY <1>5, <2>1, <2>2, <2>3
<1>8. m.role = "Leader" => m.votes \in Majorities
  <2> SUFFICES ASSUME m.role = "Leader" PROVE m.votes \in Majorities
    OBVIOUS
  <2>1. CASE kept
    BY <2>1 DEF ElectionInv, LeadersWon
  <2>2. CASE raised
    <3>1. Cardinality(m.votes) = 1
      BY <2>2, FS_Singleton
    <3> QED BY <1>1, <1>6, <2>2, <3>1, QuorumIsMajority
  <2>3. CASE counted
    BY <1>1, <1>6, <2>3, QuorumIsMajority
  <2> QED BY <1>5, <2>1, <2>2, <2>3
<1> HIDE DEF n, kept, raised, voted, counted
<1>9. GrantsRecorded'
  <2> SUFFICES ASSUME NEW r \in wire', r.kind = "RequestVoteReply", r.vote_granted
               PROVE  HasVoted(r.from, r.term, r.to)'
    BY DEF GrantsRecorded
  <2>1. CASE r \in wire
    BY <1>4, <2>1 DEF ElectionInv, GrantsRecorded
  <2>2. CASE r \in m.sends /\ Says(m, r)
    <3>1. r.from = i /\ r.term = m.current_term /\ r.to = m.voted_for
      BY <1>1, <2>2 DEF Says, Told
    <3>2. r.to \in Server
      BY <1>1, <2>2, MessageFields
    <3> QED BY <1>3, <3>1, <3>2
  <2> QED BY <1>1, <2>1, <2>2
<1>10. VotesCounted'
  <2> SUFFICES ASSUME NEW j \in Server, node'[j].role # "Follower",
                      NEW v \in node'[j].votes
               PROVE  HasVoted(v, node[j].current_term, j)'
    BY DEF VotesCounted
  <2>1. CASE j = i
    BY <1>1, <1>7, <2>1
  <2>2. CASE j # i
    BY <1>1, <1>4, <2>2 DEF ElectionInv, VotesCounted
  <2> QED BY <2>1, <2>2
<1>11. LeadersWon'
  <2> SUFFICES ASSUME NEW j \in Server, node'[j].role = "Leader"
               PROVE  /\ node'[j].votes \in Majorities
                      /\ [term |-> node'[j].current_term, leader |-> j]
                            \in history'.victories
    BY DEF LeadersWon
  <2>1. CASE j = i
    BY <1>1, <1>3, <1>8, <2>1
  <2>2. CASE j # i
    BY <1>1, <1>3, <2>2 DEF ElectionInv, LeadersWon
  <2> QED BY <2>1, <2>2
<1>12. VictoriesBacked'
  <2> SUFFICES ASSUME NEW v \in history'.victories
               PROVE  \E Q \in Majorities :
                        \A q \in Q : HasVoted(q, v.term, v.leader)'
    BY DEF VictoriesBacked
  <2>1. CASE v \in history.victories
    BY <1>4, <2>1 DEF ElectionInv, VictoriesBacked
  <2>2. CASE v \notin history.victories
    BY <1>3, <1>7, <1>8, <2>2
  <2> QED BY <2>1, <2>2
<1> QED BY <1>9, <1>10, <1>11, <1>12

LEMMA InitHasElections == Init => ElectionInv
<1> SUFFICES ASSUME Init PROVE ElectionInv
  OBVIOUS
<1>1. \A i \in Server : node[i].role = "Follower"
  BY DEF Init, WithLog
<1>2. wire = {} /\ history.victories = {} /\ LawfulInv
  BY InitIsLawful DEF Init
<1> QED BY <1>1, <1>2
        DEF ElectionInv, GrantsRecorded, VotesCounted, LeadersWon, VictoriesBacked

LEMMA NextKeepsElections ==
    ASSUME FixedMembership
    PROVE  ElectionInv /\ [Next]_vars => ElectionInv'
<1> SUFFICES ASSUME ElectionInv, [Next]_vars PROVE ElectionInv'
  OBVIOUS
<1>1. LawfulInv'
  BY NextIsLawful DEF ElectionInv
<1>2. CASE UNCHANGED <<node, history>> /\ wire' \subseteq wire
  BY <1>1, <1>2 DEF ElectionInv, GrantsRecorded, VotesCounted, LeadersWon,
                    VictoriesBacked, HasVoted
<1>3. ASSUME NEW i \in Server, NEW m, Turns(i, m) PROVE ElectionInv'
  BY <1>1, <1>3, TurnKeepsElections DEF ElectionInv
<1>4. Moves
  BY NextMoves DEF ElectionInv, LawfulInv
<1> QED BY <1>2, <1>3, <1>4 DEF Moves

(* Two winners of a term share a voter, who has voted once. *)
LEMMA OneWinner == ASSUME FixedMembership, ElectionInv PROVE ElectionSafety
<1> SUFFICES ASSUME NEW v \in history.victories, NEW w \in history.victories,
                    v.term = w.term
             PROVE  v.leader = w.leader
  BY DEF ElectionSafety
<1>1. PICK Q \in Majorities : \A q \in Q : HasVoted(q, v.term, v.leader)
  BY DEF ElectionInv, VictoriesBacked
<1>2. PICK R \in Majorities : \A q \in R : HasVoted(q, w.term, w.leader)
  BY DEF ElectionInv, VictoriesBacked
<1>3. PICK q : q \in Q /\ q \in R
  BY <1>1, <1>2, MajoritiesMeet
<1> DEFINE b == [voter |-> q, term |-> v.term, candidate |-> v.leader]
           c == [voter |-> q, term |-> w.term, candidate |-> w.leader]
<1>4. b \in history.ballots /\ c \in history.ballots
  BY <1>1, <1>2, <1>3 DEF HasVoted
<1>5. OneVotePerTerm
  BY DEF ElectionInv, LawfulInv, Inv, VotesInv
<1>6. b.voter = c.voter /\ b.term = c.term
  OBVIOUS
<1>7. b.candidate = c.candidate
  BY <1>4, <1>5, <1>6 DEF OneVotePerTerm
<1> QED BY <1>7

LEMMA ElectionInvariance == ASSUME FixedMembership PROVE Spec => []ElectionInv
BY InitHasElections, NextKeepsElections, PTL DEF Spec

(* However many servers there are, and whatever is lost, repeated, delayed  *)
(* or crashes: no term ever has two leaders, while the membership is fixed. *)
THEOREM ElectionSafe == ASSUME FixedMembership PROVE Spec => []ElectionSafety
<1>1. ElectionInv => ElectionSafety
  BY OneWinner
<1> QED BY <1>1, ElectionInvariance, PTL

-----------------------------------------------------------------------------
(* What a leader does to its log. *)

(* A step from leader to leader cuts off nothing. *)
LEMMA LeaderKeepsLog ==
    ASSUME LawfulInv, NEW i \in Server, NEW m, Turns(i, m), m.role = "Leader",
           NEW k \in Span(node[i].log), k >= m.log.base_index
    PROVE  TermAt(m.log, k) = TermAt(node[i].log, k)
<1> DEFINE n == node[i]
<1>1. Rewrites(n, m, wire)
  BY DEF Turns, Outcome
<1>2. /\ IsPiece(n.log) /\ IsPiece(m.log)
      /\ LastIndex(m.log) \in Nat /\ m.log.base_index \in Nat
      /\ LastIndex(n.log) \in Nat /\ n.log.base_index \in Nat
  BY TurnTyped, NodeFields, LogIsPiece, PieceFields
<1>3. CASE Part(m.log, n.log) /\ LastIndex(m.log) = LastIndex(n.log)
  <2>1. k \in Span(m.log)
    BY <1>2, <1>3 DEF Span
  <2> QED BY <1>3, <2>1 DEF Part, Same
<1>4. CASE Extended(m.log, n.log, n.current_term)
  BY <1>4 DEF Extended, Same
<1> QED BY <1>1, <1>3, <1>4 DEF Rewrites

(* A leader only ever appends: no message it receives, no request, no       *)
(* compaction cuts or replaces an entry it still has.                       *)
THEOREM LeadersAppend == Spec => LeaderAppendOnly
<1>1. LawfulInv /\ [Next]_vars =>
        [\A i \in Server :
            LET a == node[i]
                b == node'[i]
            IN  a.role = "Leader" /\ b.role = "Leader" /\ a.current_term = b.current_term
                    => \A k \in a.log.base_index .. LastIndex(a.log) :
                            k >= b.log.base_index =>
                                TermAt(b.log, k) = TermAt(a.log, k)]_vars
  <2> SUFFICES ASSUME LawfulInv, [Next]_vars,
                      NEW i \in Server, node'[i].role = "Leader",
                      NEW k \in Span(node[i].log), k >= node'[i].log.base_index
               PROVE  TermAt(node'[i].log, k) = TermAt(node[i].log, k)
    BY DEF Span
  <2>1. CASE UNCHANGED <<node, history>> /\ wire' \subseteq wire
    BY <2>1
  <2>2. ASSUME NEW j \in Server, NEW m, Turns(j, m)
        PROVE  TermAt(node'[i].log, k) = TermAt(node[i].log, k)
    <3>1. /\ node'[j].role = m.role /\ node'[j].log = m.log
          /\ j # i => node'[i] = node[i]
      BY <2>2, TurnTyped
    <3> QED BY <2>2, <3>1, LeaderKeepsLog
  <2>3. Moves
    BY NextMoves DEF LawfulInv
  <2> QED BY <2>1, <2>2, <2>3 DEF Moves
<1> QED BY <1>1, Lawfulness, PTL DEF Spec, LeaderAppendOnly

-----------------------------------------------------------------------------
(***************************************************************************)
(* What the logs of different nodes have in common.  The invariants speak  *)
(* of all pieces of a log there are: the logs themselves, what the         *)
(* messages under way carry, and the boundary of the snapshots under way.  *)
(***************************************************************************)

-----------------------------------------------------------------------------
(* Terms never decrease. *)

(* Terms rise along a piece, up to top. *)
Rising(a, top) ==
    \A k \in Span(a) :
        /\ TermAt(a, k) <= top
        /\ k > a.base_index => TermAt(a, k - 1) <= TermAt(a, k)

LEMMA RisesHigher ==
    ASSUME NEW a, IsPiece(a), NEW s \in Nat, NEW t \in Nat, s <= t, Rising(a, s)
    PROVE  Rising(a, t)
<1>1. \A k \in Span(a) : TermAt(a, k) \in Nat
  BY PieceFields
<1> QED BY <1>1 DEF Rising

(* An index above the first of a piece, and the one before it. *)
LEMMA IndexBefore ==
    ASSUME NEW a, IsPiece(a), NEW k \in Span(a), k > a.base_index
    PROVE  k \in Nat /\ k - 1 \in Span(a)
BY PieceFields DEF Span

LEMMA PartRises ==
    ASSUME NEW a, NEW b, IsPiece(a), IsPiece(b), Part(b, a), NEW t, Rising(a, t)
    PROVE  Rising(b, t)
<1> SUFFICES ASSUME NEW k \in Span(b)
             PROVE  /\ TermAt(b, k) <= t
                    /\ k > b.base_index => TermAt(b, k - 1) <= TermAt(b, k)
  BY DEF Rising
<1>1. k \in Span(a) /\ TermAt(b, k) = TermAt(a, k)
  BY DEF Part, Same
<1>2. CASE k > b.base_index
  <2>1. k - 1 \in Span(b)
    BY <1>2, IndexBefore
  <2>2. TermAt(b, k - 1) = TermAt(a, k - 1)
    BY <2>1 DEF Part, Same
  <2>3. k > a.base_index
    <3>1. a.base_index <= b.base_index
      BY DEF Part
    <3>2. a.base_index \in Nat /\ b.base_index \in Nat /\ k \in Nat
      BY PieceFields
    <3> QED BY <1>2, <3>1, <3>2
  <2> QED BY <1>1, <2>2, <2>3 DEF Rising
<1> QED BY <1>1, <1>2 DEF Rising

LEMMA SpliceRises ==
    ASSUME NEW a, NEW f, NEW c, IsPiece(a), IsPiece(f), IsPiece(c),
           Spliced(c, a, f), NEW t, Rising(a, t), Rising(f, t)
    PROVE  Rising(c, t)
<1>1. PICK j \in Span(a) \cap Span(f) :
        /\ TermAt(a, j) = TermAt(f, j)
        /\ a.base_index <= f.base_index
        /\ c.base_index = a.base_index
        /\ LastIndex(c) = LastIndex(f)
        /\ \A k \in Span(c) : IF k <= j THEN Same(c, a, k) ELSE Same(c, f, k)
  BY DEF Spliced
<1>2. /\ j \in Nat /\ a.base_index \in Nat /\ f.base_index \in Nat
      /\ LastIndex(a) \in Nat /\ LastIndex(f) \in Nat
      /\ j <= LastIndex(a) /\ j <= LastIndex(f)
      /\ a.base_index <= j /\ f.base_index <= j
  BY PieceFields DEF Span
<1>3. \A k \in Span(c) : k <= j => k \in Span(a) /\ TermAt(c, k) = TermAt(a, k)
  BY <1>1, <1>2 DEF Same, Span
<1>4. \A k \in Span(c) : ~ (k <= j) => k \in Span(f) /\ TermAt(c, k) = TermAt(f, k)
  BY <1>1, <1>2 DEF Same, Span
<1> SUFFICES ASSUME NEW k \in Span(c)
             PROVE  /\ TermAt(c, k) <= t
                    /\ k > c.base_index => TermAt(c, k - 1) <= TermAt(c, k)
  BY DEF Rising
<1>5. TermAt(c, k) <= t
  BY <1>3, <1>4 DEF Rising
<1>6. ASSUME k > c.base_index PROVE TermAt(c, k - 1) <= TermAt(c, k)
  <2>1. k \in Nat /\ k - 1 \in Span(c)
    BY <1>6, IndexBefore
  <2>2. CASE k <= j
    <3>1. k - 1 <= j
      BY <1>2, <2>1, <2>2
    <3>2. k > a.base_index
      BY <1>1, <1>6
    <3> QED BY <1>3, <2>1, <2>2, <3>1, <3>2 DEF Rising
  <2>3. CASE k = j + 1
    <3>1. TermAt(c, j) = TermAt(f, j)
      <4>1. k - 1 = j
        BY <1>2, <2>3
      <4> QED BY <1>1, <1>2, <1>3, <2>1, <4>1
    <3>2. k \in Span(f) /\ TermAt(c, k) = TermAt(f, k)
      BY <1>2, <1>4, <2>3
    <3>3. k > f.base_index /\ k - 1 = j
      BY <1>2, <2>3
    <3> QED BY <3>1, <3>2, <3>3 DEF Rising
  <2>4. CASE k - 1 > j
    <3>1. ~ (k <= j) /\ ~ (k - 1 <= j) /\ k > f.base_index
      BY <1>2, <2>1, <2>4
    <3> QED BY <1>4, <2>1, <3>1 DEF Rising
  <2> QED BY <1>2, <2>1, <2>2, <2>3, <2>4
<1> QED BY <1>5, <1>6

LEMMA ExtendRises ==
    ASSUME NEW a, NEW b, IsPiece(a), IsPiece(b), NEW t \in Nat,
           Extended(b, a, t), Rising(a, t)
    PROVE  Rising(b, t)
<1>1. /\ LastIndex(a) \in Nat /\ a.base_index \in Nat /\ b.base_index = a.base_index
      /\ LastIndex(b) = LastIndex(a) + 1 /\ TermAt(b, LastIndex(b)) = t
      /\ \A k \in Span(a) : TermAt(b, k) = TermAt(a, k)
  BY PieceFields DEF Extended, Same
<1> SUFFICES ASSUME NEW k \in Span(b)
             PROVE  /\ TermAt(b, k) <= t
                    /\ k > b.base_index => TermAt(b, k - 1) <= TermAt(b, k)
  BY DEF Rising
<1>2. k \in Nat /\ (k > b.base_index => k - 1 \in Span(b))
  BY PieceFields, IndexBefore
<1>3. CASE k = LastIndex(b)
  <2>1. k > b.base_index => k - 1 \in Span(a)
    BY <1>1, <1>2, <1>3 DEF Span
  <2>2. TermAt(b, k) = t
    BY <1>1, <1>3
  <2> QED BY <1>1, <2>1, <2>2 DEF Rising
<1>4. CASE k # LastIndex(b)
  <2>1. k \in Span(a)
    BY <1>1, <1>2, <1>4 DEF Span
  <2>2. k > b.base_index => k - 1 \in Span(a)
    BY <1>1, <1>2, <2>1 DEF Span
  <2> QED BY <1>1, <2>1, <2>2 DEF Rising
<1> QED BY <1>3, <1>4

(* What is quoted from a log rises as the log does. *)
LEMMA QuoteRises ==
    ASSUME NEW log, NEW piece, IsPiece(log), IsPiece(piece), Quotes(log, piece),
           NEW t \in Nat, Rising(log, t)
    PROVE  Rising(piece, t)
<1>1. CASE Part(piece, log)
  BY <1>1, PartRises
<1>2. CASE piece.entries = << >> /\ piece.base_term = 0
  <2>1. Span(piece) = {piece.base_index} /\ piece.base_index \in Nat
    BY <1>2, BareIsLawful, PieceFields
  <2>2. TermAt(piece, piece.base_index) = 0
    BY <1>2 DEF TermAt
  <2> QED BY <2>1, <2>2 DEF Rising
<1> QED BY <1>1, <1>2 DEF Quotes

-----------------------------------------------------------------------------
(* Terms rise along every log up to the term of its node, and along what a  *)
(* message carries up to the term of the message.                           *)

TermsInv ==
    /\ LawfulInv
    /\ \A i \in Server : Rising(node[i].log, node[i].current_term)
    /\ \A m \in wire : Replicates(m) => Rising(Carried(m), m.term)

(* A log that is rewritten rises up to the new term. *)
LEMMA RewriteRises ==
    ASSUME TermsInv, NEW i \in Server, NEW m, Turns(i, m)
    PROVE  Rising(m.log, m.current_term)
<1> DEFINE n == node[i]
           t == m.current_term
<1>1. Rewrites(n, m, wire)
  BY DEF Turns, Outcome
<1>2. /\ IsPiece(n.log) /\ IsPiece(m.log) /\ n.current_term <= t
      /\ t \in Nat /\ n.current_term \in Nat
  BY TurnTyped, NodeFields, LogIsPiece DEF TermsInv
<1>3. Rising(n.log, n.current_term)
  BY DEF TermsInv
<1>4. Rising(n.log, t)
  BY <1>2, <1>3, RisesHigher
<1> HIDE DEF n, t
<1>5. ASSUME NEW f \in wire, Replicates(f), f.term = t
      PROVE  IsPiece(Carried(f)) /\ Rising(Carried(f), t)
  <2>1. f \in Message /\ f.term \in Nat
    BY MessageFields DEF TermsInv, LawfulInv, Inv, TypeOK
  <2>2. IsPiece(Carried(f)) /\ Rising(Carried(f), f.term)
    BY <1>5, <2>1, CarriedIsPiece DEF TermsInv
  <2> QED BY <1>2, <1>5, <2>1, <2>2, RisesHigher
<1>6. CASE Part(m.log, n.log)
  BY <1>2, <1>4, <1>6, PartRises DEF t
<1>7. CASE t = n.current_term /\ Extended(m.log, n.log, n.current_term)
  BY <1>2, <1>3, <1>7, ExtendRises DEF t
<1>8. ASSUME NEW f \in wire, Replicates(f), f.term = t,
             \/ Part(m.log, Carried(f))
             \/ \E c : IsPiece(c) /\ Spliced(c, n.log, Carried(f)) /\ Part(m.log, c)
      PROVE  Rising(m.log, t)
  <2>1. IsPiece(Carried(f)) /\ Rising(Carried(f), t)
    BY <1>5, <1>8
  <2>2. CASE Part(m.log, Carried(f))
    BY <1>2, <2>1, <2>2, PartRises
  <2>3. ASSUME NEW c, IsPiece(c), Spliced(c, n.log, Carried(f)), Part(m.log, c)
        PROVE  Rising(m.log, t)
    <3>1. Rising(c, t)
      BY <1>2, <1>4, <2>1, <2>3, SpliceRises
    <3> QED BY <1>2, <2>3, <3>1, PartRises
  <2> QED BY <1>8, <2>2, <2>3
<1>9. Rising(m.log, t)
  BY <1>1, <1>6, <1>7, <1>8 DEF Rewrites, Takes, n, t
<1> QED BY <1>9 DEF t

LEMMA NextKeepsTerms == TermsInv /\ [Next]_vars => TermsInv'
<1> SUFFICES ASSUME TermsInv, [Next]_vars PROVE TermsInv'
  OBVIOUS
<1>1. LawfulInv'
  BY NextIsLawful DEF TermsInv
<1>2. CASE UNCHANGED <<node, history>> /\ wire' \subseteq wire
  BY <1>1, <1>2 DEF TermsInv
<1>3. ASSUME NEW i \in Server, NEW m, Turns(i, m) PROVE TermsInv'
  <2>1. /\ m \in NodeRecord /\ m.sends \subseteq Message
        /\ node'[i].log = m.log /\ node'[i].current_term = m.current_term
        /\ \A j \in Server : j # i => node'[j] = node[j]
        /\ \A s \in wire' : s \in wire \/ (s \in m.sends /\ Says(m, s))
    BY <1>3, TurnTyped DEF TermsInv
  <2>2. Rising(m.log, m.current_term)
    BY <1>3, RewriteRises
  <2>3. \A j \in Server : Rising(node'[j].log, node'[j].current_term)
    BY <2>1, <2>2 DEF TermsInv
  <2>4. ASSUME NEW s \in wire', Replicates(s) PROVE Rising(Carried(s), s.term)
    <3>1. CASE s \in wire
      BY <2>4, <3>1 DEF TermsInv
    <3>2. CASE s \in m.sends /\ Says(m, s)
      <4>1. s.term = m.current_term /\ Quotes(m.log, Carried(s))
        BY <2>4, <3>2 DEF Says, Told, Replicates
      <4>2. IsPiece(Carried(s)) /\ IsPiece(m.log) /\ m.current_term \in Nat
        BY <2>1, <2>4, <3>2, CarriedIsPiece, NodeFields, LogIsPiece
      <4> QED BY <2>2, <4>1, <4>2, QuoteRises
    <3> QED BY <2>1, <3>1, <3>2
  <2> QED BY <1>1, <2>3, <2>4 DEF TermsInv
<1>4. Moves
  BY NextMoves DEF TermsInv, LawfulInv
<1> QED BY <1>2, <1>3, <1>4 DEF Moves

LEMMA InitHasTerms == Init => TermsInv
<1> SUFFICES ASSUME Init PROVE TermsInv
  OBVIOUS
<1>1. LawfulInv /\ wire = {}
  BY InitIsLawful DEF Init
<1>2. \A i \in Server : node[i].log = EmptyLog /\ node[i].current_term = 0
  BY DEF Init, WithLog, EmptyLog
<1>3. Rising(EmptyLog, 0)
  BY DEF Rising, Span, TermAt, LastIndex, EmptyLog
<1> QED BY <1>1, <1>2, <1>3 DEF TermsInv

LEMMA TermsInvariance == Spec => []TermsInv
BY InitHasTerms, NextKeepsTerms, PTL DEF Spec

(* Whatever a node's log has gone through, the terms along it rise and none *)
(* passes current_term: the early exits of advance_commit and               *)
(* last_index_of_term miss nothing, in any cluster and membership.          *)
THEOREM TermsRise == Spec => []TermsNeverDecrease
<1>1. TermsInv => TermsNeverDecrease
  BY DEF TermsInv, Rising, TermsNeverDecrease
<1> QED BY <1>1, TermsInvariance, PTL
-----------------------------------------------------------------------------
(* Every leader is new to its term. *)

(* Nobody wins a term twice: a candidate has not won the term it stands     *)
(* for, and who has won a term has not fallen back behind it.               *)
CandidatesAreNew ==
    \A i \in Server : node[i].role = "Candidate" =>
        [term |-> node[i].current_term, leader |-> i] \notin history.victories

VictoriesArePast ==
    \A v \in history.victories :
        v.leader \in Server /\ v.term <= node[v.leader].current_term

(* Term 0 is nobody's. *)
TermZeroIsQuiet ==
    \A i \in Server : node[i].role # "Follower" => node[i].current_term > 0

(* All pieces of a log there are. *)
Pieces ==
    {node[i].log : i \in Server} \cup {Carried(m) : m \in {m \in wire : Replicates(m)}}

(* An entry of a term is made by a leader of that term. *)
TermsAreWon ==
    \A d \in Pieces : \A k \in Span(d) :
        \/ TermAt(d, k) = 0
        \/ \E v \in history.victories : v.term = TermAt(d, k)

(* A leader has every entry of its term anybody has. *)
LeadersAreAhead ==
    \A i \in Server : node[i].role = "Leader" =>
        \A d \in Pieces : \A k \in Span(d) :
            TermAt(d, k) = node[i].current_term => k <= LastIndex(node[i].log)

PiecesAgree == \A a, b \in Pieces : Agree(a, b)

MatchInv ==
    /\ ElectionInv
    /\ CandidatesAreNew
    /\ VictoriesArePast
    /\ TermZeroIsQuiet
    /\ TermsAreWon
    /\ LeadersAreAhead
    /\ PiecesAgree

-----------------------------------------------------------------------------
(* Pieces, before and after a turn. *)

(* A boundary without entries agrees with everything. *)
LEMMA BareAgrees ==
    ASSUME NEW a, NEW d, IsPiece(a), a.entries = << >>
    PROVE  Agree(a, d)
<1>1. Span(a) = {a.base_index} /\ LastIndex(a) = a.base_index /\ a.base_index \in Nat
  BY BareIsLawful, PieceFields
<1>2. ~ HasEntry(a, a.base_index)
  BY <1>1 DEF HasEntry
<1> QED BY <1>1, <1>2 DEF Agree, Same

(* What is quoted from a log agrees with what the log agrees with. *)
LEMMA QuoteAgrees ==
    ASSUME NEW log, NEW piece, NEW d, IsPiece(log), IsPiece(piece), IsPiece(d),
           Quotes(log, piece), Agree(log, d)
    PROVE  Agree(piece, d)
BY PartAgrees, BareAgrees DEF Quotes

(* The terms of what is quoted are the terms of the log, or 0. *)
LEMMA QuotedTerms ==
    ASSUME NEW log, NEW piece, IsPiece(log), IsPiece(piece), Quotes(log, piece),
           NEW k \in Span(piece)
    PROVE  \/ TermAt(piece, k) = 0
           \/ k \in Span(log) /\ TermAt(piece, k) = TermAt(log, k)
<1>1. CASE Part(piece, log)
  BY <1>1 DEF Part, Same
<1>2. CASE piece.entries = << >> /\ piece.base_term = 0
  <2>1. Span(piece) = {piece.base_index}
    BY <1>2, BareIsLawful
  <2> QED BY <1>2, <2>1 DEF TermAt
<1> QED BY <1>1, <1>2 DEF Quotes

LEMMA PiecesTyped == ASSUME LawfulInv, NEW d \in Pieces PROVE IsPiece(d)
<1>1. \A i \in Server : IsPiece(node[i].log)
  BY NodeBefore, NodeFields, LogIsPiece DEF LawfulInv
<1>2. \A m \in wire : Replicates(m) => IsPiece(Carried(m))
  BY CarriedIsPiece DEF LawfulInv, Inv, TypeOK
<1> QED BY <1>1, <1>2 DEF Pieces

(* After the turn there is nothing but the new log and quotes of it that    *)
(* was not there before.                                                    *)
LEMMA TurnPieces ==
    ASSUME LawfulInv, NEW i \in Server, NEW m, Turns(i, m), NEW d \in Pieces'
    PROVE  d \in Pieces \/ (IsPiece(d) /\ Quotes(m.log, d))
<1>1. /\ m \in NodeRecord /\ m.sends \subseteq Message /\ node'[i].log = m.log
      /\ \A j \in Server : j # i => node'[j] = node[j]
      /\ \A s \in wire' : s \in wire \/ (s \in m.sends /\ Says(m, s))
  BY TurnTyped
<1>2. IsPiece(m.log) /\ Part(m.log, m.log)
  BY <1>1, NodeFields, LogIsPiece, PartReflexive
<1>3. ASSUME NEW j \in Server, d = node'[j].log
      PROVE  d \in Pieces \/ (IsPiece(d) /\ Quotes(m.log, d))
  <2>1. CASE j = i
    BY <1>1, <1>2, <1>3, <2>1 DEF Quotes
  <2>2. CASE j # i
    BY <1>1, <1>3, <2>2 DEF Pieces
  <2> QED BY <2>1, <2>2
<1>4. ASSUME NEW s \in wire', Replicates(s), d = Carried(s)
      PROVE  d \in Pieces \/ (IsPiece(d) /\ Quotes(m.log, d))
  <2>1. CASE s \in wire
    BY <1>4, <2>1 DEF Pieces
  <2>2. CASE s \in m.sends /\ Says(m, s)
    <3>1. Quotes(m.log, Carried(s))
      BY <1>4, <2>2 DEF Says, Told, Replicates
    <3> QED BY <1>1, <1>4, <2>2, <3>1, CarriedIsPiece
  <2> QED BY <1>1, <2>1, <2>2
<1>5. \/ \E j \in Server : d = node'[j].log
      \/ \E s \in wire' : Replicates(s) /\ d = Carried(s)
  BY DEF Pieces
<1> QED BY <1>3, <1>4, <1>5

(* How the new log is made of pieces there were. *)
LEMMA TurnRewrites ==
    ASSUME LawfulInv, NEW i \in Server, NEW m, Turns(i, m)
    PROVE  /\ IsPiece(m.log) /\ IsPiece(node[i].log) /\ node[i].log \in Pieces
           /\ \/ Part(m.log, node[i].log)
              \/ /\ node[i].role = "Leader"
                 /\ m.current_term = node[i].current_term
                 /\ Extended(m.log, node[i].log, node[i].current_term)
              \/ \E f \in Pieces :
                    \/ Part(m.log, f)
                    \/ \E c : /\ IsPiece(c) /\ Spliced(c, node[i].log, f)
                              /\ Part(m.log, c)
           /\ m.role = "Leader" => LastIndex(node[i].log) <= LastIndex(m.log)
<1>1. Rewrites(node[i], m, wire)
  BY DEF Turns, Outcome
<1>2. \A f \in wire : Replicates(f) => Carried(f) \in Pieces
  BY DEF Pieces
<1>3. IsPiece(m.log) /\ IsPiece(node[i].log) /\ node[i].log \in Pieces
  BY TurnTyped, NodeFields, LogIsPiece DEF Pieces
<1>4. LastIndex(m.log) \in Nat /\ LastIndex(node[i].log) \in Nat
  BY <1>3, PieceFields
<1>5. m.role = "Leader" => LastIndex(node[i].log) <= LastIndex(m.log)
  BY <1>1, <1>4 DEF Rewrites, Extended
<1> QED BY <1>1, <1>2, <1>3, <1>5 DEF Rewrites, Takes

(* Where a term in a spliced piece comes from. *)
LEMMA SplicedTerms ==
    ASSUME NEW a, NEW f, NEW c, IsPiece(a), IsPiece(f), IsPiece(c),
           Spliced(c, a, f), NEW k \in Span(c)
    PROVE  \/ k \in Span(a) /\ TermAt(c, k) = TermAt(a, k)
           \/ k \in Span(f) /\ TermAt(c, k) = TermAt(f, k)
<1>1. PICK j \in Span(a) \cap Span(f) :
        /\ TermAt(a, j) = TermAt(f, j)
        /\ a.base_index <= f.base_index
        /\ c.base_index = a.base_index
        /\ LastIndex(c) = LastIndex(f)
        /\ \A l \in Span(c) : IF l <= j THEN Same(c, a, l) ELSE Same(c, f, l)
  BY DEF Spliced
<1>2. /\ j \in Nat /\ a.base_index \in Nat /\ f.base_index \in Nat
      /\ LastIndex(a) \in Nat /\ LastIndex(f) \in Nat /\ k \in Nat
      /\ j <= LastIndex(a) /\ f.base_index <= j
  BY PieceFields DEF Span
<1>3. CASE k <= j
  BY <1>1, <1>2, <1>3 DEF Same, Span
<1>4. CASE ~ (k <= j)
  BY <1>1, <1>2, <1>4 DEF Same, Span
<1> QED BY <1>3, <1>4

(* Some piece has that term at that index. *)
Occurs(term, k) == \E e \in Pieces : k \in Span(e) /\ TermAt(e, k) = term

(* A term is where it was before, or is that of a leader's new entry. *)
LEMMA TurnTerms ==
    ASSUME LawfulInv, NEW i \in Server, NEW m, Turns(i, m),
           NEW d \in Pieces', NEW k \in Span(d)
    PROVE  \/ TermAt(d, k) = 0
           \/ Occurs(TermAt(d, k), k)
           \/ /\ node[i].role = "Leader"
              /\ m.current_term = node[i].current_term
              /\ TermAt(d, k) = node[i].current_term
              /\ k = LastIndex(m.log)
<1> DEFINE n == node[i]
<1>1. /\ IsPiece(m.log) /\ IsPiece(n.log) /\ n.log \in Pieces
      /\ \/ Part(m.log, n.log)
         \/ /\ n.role = "Leader" /\ m.current_term = n.current_term
            /\ Extended(m.log, n.log, n.current_term)
         \/ \E f \in Pieces :
                \/ Part(m.log, f)
                \/ \E c : IsPiece(c) /\ Spliced(c, n.log, f) /\ Part(m.log, c)
  BY TurnRewrites
<1> HIDE DEF n
<1>2. CASE d \in Pieces
  BY <1>2 DEF Occurs
<1>3. CASE IsPiece(d) /\ Quotes(m.log, d)
  <2>1. CASE TermAt(d, k) = 0
    BY <2>1
  <2>2. CASE k \in Span(m.log) /\ TermAt(d, k) = TermAt(m.log, k)
    <3>1. CASE Part(m.log, n.log)
      BY <1>1, <2>2, <3>1 DEF Part, Same, Occurs
    <3>2. CASE /\ n.role = "Leader" /\ m.current_term = n.current_term
               /\ Extended(m.log, n.log, n.current_term)
      <4>1. k \in Span(n.log) \/ k = LastIndex(m.log)
        BY <1>1, <2>2, <3>2, PieceFields DEF Extended, Span
      <4>2. CASE k \in Span(n.log)
        BY <1>1, <2>2, <3>2, <4>2 DEF Extended, Same, Occurs
      <4>3. CASE k = LastIndex(m.log)
        BY <2>2, <3>2, <4>3 DEF Extended, n
      <4> QED BY <4>1, <4>2, <4>3
    <3>3. ASSUME NEW f \in Pieces, Part(m.log, f) PROVE Occurs(TermAt(d, k), k)
      BY <2>2, <3>3 DEF Part, Same, Occurs
    <3>4. ASSUME NEW f \in Pieces, NEW c, IsPiece(c), Spliced(c, n.log, f),
                 Part(m.log, c)
          PROVE  Occurs(TermAt(d, k), k)
      <4>1. k \in Span(c) /\ TermAt(c, k) = TermAt(d, k)
        BY <2>2, <3>4 DEF Part, Same
      <4>2. IsPiece(f)
        BY PiecesTyped
      <4>3. \/ k \in Span(n.log) /\ TermAt(c, k) = TermAt(n.log, k)
            \/ k \in Span(f) /\ TermAt(c, k) = TermAt(f, k)
        BY <1>1, <3>4, <4>1, <4>2, SplicedTerms
      <4> QED BY <1>1, <4>1, <4>3 DEF Occurs
    <3> QED BY <1>1, <3>1, <3>2, <3>3, <3>4
  <2> QED BY <1>1, <1>3, <2>1, <2>2, QuotedTerms
<1> QED BY <1>2, <1>3, TurnPieces

-----------------------------------------------------------------------------
(* A turn keeps the invariant. *)

(* Who may stand, after a turn. *)
LEMMA TurnKeepsCandidates ==
    ASSUME MatchInv, NEW i \in Server, NEW m, Turns(i, m)
    PROVE  CandidatesAreNew' /\ VictoriesArePast' /\ TermZeroIsQuiet'
<1> DEFINE n == node[i]
<1>1. /\ m \in NodeRecord /\ m.id = i /\ n \in NodeRecord /\ n.id = i
      /\ node'[i].role = m.role /\ node'[i].current_term = m.current_term
      /\ \A j \in Server : j # i => node'[j] = node[j]
      /\ n.current_term <= m.current_term
  BY TurnTyped DEF MatchInv, ElectionInv
<1>2. m.current_term \in Nat /\ n.current_term \in Nat
  BY <1>1, NodeFields
<1>3. Stands(n, m, wire)
  BY DEF Turns, Outcome
<1>4. \/ m.role = "Follower"
      \/ m.role = n.role /\ m.current_term = n.current_term
      \/ m.current_term > n.current_term
      \/ n.role = "Candidate" /\ m.current_term = n.current_term
  BY <1>3 DEF Stands
<1>5. \A v \in history'.victories : v \notin history.victories =>
            m.role = "Leader" /\ v.term = m.current_term /\ v.leader = i
  BY <1>1, TurnRecords
<1>6. \A v \in history.victories :
        v.leader \in Server /\ v.term \in Nat /\ v.term <= node[v.leader].current_term
  BY DEF MatchInv, VictoriesArePast, ElectionInv, LawfulInv, Inv, TypeOK, Victory
<1> HIDE DEF n
<1>7. ASSUME m.role = "Candidate"
      PROVE  [term |-> m.current_term, leader |-> i] \notin history'.victories
  <2> DEFINE v == [term |-> m.current_term, leader |-> i]
  <2> SUFFICES ASSUME v \in history.victories PROVE FALSE
    BY <1>5, <1>7
  <2>1. m.current_term <= n.current_term
    BY <1>6 DEF n
  <2>2. n.role = "Candidate" /\ m.current_term = n.current_term
    BY <1>2, <1>4, <1>7, <2>1
  <2> QED BY <2>2 DEF MatchInv, CandidatesAreNew, n
<1>8. CandidatesAreNew'
  <2> SUFFICES ASSUME NEW j \in Server, node'[j].role = "Candidate"
               PROVE  [term |-> node'[j].current_term, leader |-> j]
                            \notin history'.victories
    BY DEF CandidatesAreNew
  <2>1. CASE j = i
    BY <1>1, <1>7, <2>1
  <2>2. CASE j # i
    <3>1. [term |-> node[j].current_term, leader |-> j] \notin history.victories
      BY <1>1, <2>2 DEF MatchInv, CandidatesAreNew
    <3> QED BY <1>1, <1>5, <2>2, <3>1
  <2> QED BY <2>1, <2>2
<1>9. VictoriesArePast'
  <2> SUFFICES ASSUME NEW v \in history'.victories
               PROVE  v.leader \in Server /\ v.term <= node'[v.leader].current_term
    BY DEF VictoriesArePast
  <2>1. CASE v \in history.victories
    <3>1. CASE v.leader = i
      BY <1>1, <1>2, <1>6, <2>1, <3>1 DEF n
    <3>2. CASE v.leader # i
      BY <1>1, <1>6, <2>1, <3>2
    <3> QED BY <3>1, <3>2
  <2>2. CASE v \notin history.victories
    BY <1>1, <1>2, <1>5, <2>2
  <2> QED BY <2>1, <2>2
<1>10. m.role # "Follower" => m.current_term > 0
  BY <1>2, <1>4 DEF MatchInv, TermZeroIsQuiet, n
<1>11. TermZeroIsQuiet'
  <2> SUFFICES ASSUME NEW j \in Server, node'[j].role # "Follower"
               PROVE  node'[j].current_term > 0
    BY DEF TermZeroIsQuiet
  <2>1. CASE j = i
    BY <1>1, <1>10, <2>1
  <2>2. CASE j # i
    BY <1>1, <2>2 DEF MatchInv, TermZeroIsQuiet
  <2> QED BY <2>1, <2>2
<1> QED BY <1>8, <1>9, <1>11

(* A term that has been won is won by no one else. *)
LEMMA WinnerKnown ==
    ASSUME FixedMembership, ElectionInv, NEW i \in Server, node[i].role = "Leader",
           NEW v \in history.victories, v.term = node[i].current_term
    PROVE  v = [term |-> node[i].current_term, leader |-> i]
<1> DEFINE w == [term |-> node[i].current_term, leader |-> i]
<1>1. w \in history.victories
  BY DEF ElectionInv, LeadersWon
<1>2. ElectionSafety
  BY OneWinner
<1>3. v.leader = i
  <2>1. v.term = w.term
    OBVIOUS
  <2>2. v.leader = w.leader
    BY <1>1, <1>2, <2>1 DEF ElectionSafety
  <2> QED BY <2>2
<1>4. v = [term |-> v.term, leader |-> v.leader]
  BY DEF ElectionInv, LawfulInv, Inv, TypeOK, Victory
<1> QED BY <1>3, <1>4

(* A term that occurs has been won, also after a turn. *)
LEMMA TurnKeepsTermsWon ==
    ASSUME MatchInv, NEW i \in Server, NEW m, Turns(i, m)
    PROVE  TermsAreWon'
<1> SUFFICES ASSUME NEW d \in Pieces', NEW k \in Span(d)
             PROVE  \/ TermAt(d, k) = 0
                    \/ \E v \in history'.victories : v.term = TermAt(d, k)
  BY DEF TermsAreWon
<1> DEFINE t == TermAt(d, k)
<1>1. history.victories \subseteq history'.victories
  <2>1. m.id = i
    BY TurnTyped DEF MatchInv, ElectionInv
  <2> QED BY <2>1, TurnRecords
<1>2. CASE Occurs(t, k)
  BY <1>1, <1>2 DEF Occurs, MatchInv, TermsAreWon
<1>3. CASE node[i].role = "Leader" /\ t = node[i].current_term
  <2>1. [term |-> node[i].current_term, leader |-> i] \in history.victories
    BY <1>3 DEF MatchInv, ElectionInv, LeadersWon
  <2> QED BY <1>1, <1>3, <2>1
<1> QED BY <1>2, <1>3, TurnTerms DEF MatchInv, ElectionInv

(* A leader that leads anew has won a term nobody had won. *)
LEMMA NewLeaderIsAhead ==
    ASSUME MatchInv, ElectionInv', ElectionSafety', NEW i \in Server, NEW m,
           Turns(i, m), m.role = "Leader",
           ~ (node[i].role = "Leader" /\ m.current_term = node[i].current_term),
           NEW v \in history.victories
    PROVE  v.term # m.current_term
<1> SUFFICES ASSUME v.term = m.current_term PROVE FALSE
  OBVIOUS
<1>1. /\ m \in NodeRecord /\ m.id = i /\ node[i] \in NodeRecord /\ node[i].id = i
      /\ node'[i].role = "Leader" /\ node'[i].current_term = m.current_term
      /\ node[i].current_term <= m.current_term
  BY TurnTyped DEF MatchInv, ElectionInv
<1>2. m.current_term \in Nat /\ node[i].current_term \in Nat
  BY <1>1, NodeFields
<1>3. v \in history'.victories
  BY <1>1, TurnRecords
<1>4. v = [term |-> m.current_term, leader |-> i]
  <2> DEFINE w == [term |-> m.current_term, leader |-> i]
  <2>1. w \in history'.victories /\ v.term = w.term
    BY <1>1, TurnRecords
  <2>2. v.leader = w.leader
    BY <1>3, <2>1 DEF ElectionSafety
  <2>3. v = [term |-> v.term, leader |-> v.leader]
    BY DEF MatchInv, ElectionInv, LawfulInv, Inv, TypeOK, Victory
  <2> QED BY <2>2, <2>3
<1>5. v.term <= node[v.leader].current_term
  BY DEF MatchInv, VictoriesArePast
<1>6. m.current_term = node[i].current_term
  BY <1>1, <1>2, <1>4, <1>5
<1>7. Stands(node[i], m, wire)
  BY DEF Turns, Outcome
<1>8. node[i].role = "Candidate"
  BY <1>2, <1>6, <1>7 DEF Stands
<1> QED BY <1>4, <1>6, <1>8 DEF MatchInv, CandidatesAreNew

(* No piece has an entry of a leader's term beyond the leader's log.        *)
LEMMA TurnKeepsAhead ==
    ASSUME FixedMembership, MatchInv, ElectionInv', ElectionSafety',
           TermZeroIsQuiet', NEW i \in Server, NEW m, Turns(i, m)
    PROVE  LeadersAreAhead'
<1> SUFFICES ASSUME NEW j \in Server, node'[j].role = "Leader",
                    NEW d \in Pieces', NEW k \in Span(d),
                    TermAt(d, k) = node'[j].current_term
             PROVE  k <= LastIndex(node'[j].log)
  BY DEF LeadersAreAhead
<1> DEFINE t == TermAt(d, k)
<1>1. /\ m \in NodeRecord
      /\ node'[i].role = m.role /\ node'[i].log = m.log
      /\ node'[i].current_term = m.current_term
      /\ \A l \in Server : l # i => node'[l] = node[l]
  BY TurnTyped DEF MatchInv, ElectionInv
<1>2. t # 0
  BY DEF TermZeroIsQuiet
<1>3. /\ IsPiece(m.log) /\ IsPiece(node[i].log)
      /\ m.role = "Leader" => LastIndex(node[i].log) <= LastIndex(m.log)
  BY TurnRewrites DEF MatchInv, ElectionInv
<1>4. LastIndex(m.log) \in Nat /\ LastIndex(node[i].log) \in Nat
  BY <1>3, PieceFields
<1>5. CASE Occurs(t, k)
  <2>1. PICK e \in Pieces : k \in Span(e) /\ TermAt(e, k) = t
    BY <1>5 DEF Occurs
  <2>2. k \in Nat
    BY <2>1, PiecesTyped, PieceFields DEF MatchInv, ElectionInv
  <2>3. CASE j # i
    BY <1>1, <2>1, <2>3 DEF MatchInv, LeadersAreAhead
  <2>4. CASE j = i /\ node[i].role = "Leader" /\ m.current_term = node[i].current_term
    <3>1. k <= LastIndex(node[i].log)
      BY <1>1, <2>1, <2>4 DEF MatchInv, LeadersAreAhead
    <3> QED BY <1>1, <1>3, <1>4, <2>2, <2>4, <3>1
  <2>5. CASE /\ j = i
             /\ ~ (node[i].role = "Leader" /\ m.current_term = node[i].current_term)
    <3>1. PICK v \in history.victories : v.term = t
      BY <1>2, <2>1 DEF MatchInv, TermsAreWon
    <3> QED BY <1>1, <2>5, <3>1, NewLeaderIsAhead
  <2> QED BY <2>3, <2>4, <2>5
<1>6. CASE /\ node[i].role = "Leader" /\ m.current_term = node[i].current_term
           /\ t = node[i].current_term /\ k = LastIndex(m.log)
  <2>1. CASE j = i
    BY <1>1, <1>4, <1>6, <2>1
  <2>2. CASE j # i
    <3>1. node[j].role = "Leader" /\ node[j].current_term = t
      BY <1>1, <2>2
    <3> DEFINE v == [term |-> node[i].current_term, leader |-> i]
               w == [term |-> node[j].current_term, leader |-> j]
    <3>2. v \in history.victories
      BY <1>6 DEF MatchInv, ElectionInv, LeadersWon
    <3>3. v = w
      BY <1>6, <3>1, <3>2, WinnerKnown DEF MatchInv
    <3>4. v.leader = w.leader
      BY <3>3
    <3> QED BY <2>2, <3>4
  <2> QED BY <2>1, <2>2
<1> QED BY <1>2, <1>5, <1>6, TurnTerms DEF MatchInv, ElectionInv

(* The new log agrees with every piece there was. *)
LEMMA RewriteAgrees ==
    ASSUME MatchInv, NEW i \in Server, NEW m, Turns(i, m), NEW d \in Pieces
    PROVE  Agree(m.log, d)
<1> DEFINE n == node[i]
<1>1. /\ IsPiece(m.log) /\ IsPiece(n.log) /\ n.log \in Pieces
      /\ \/ Part(m.log, n.log)
         \/ /\ n.role = "Leader" /\ m.current_term = n.current_term
            /\ Extended(m.log, n.log, n.current_term)
         \/ \E f \in Pieces :
                \/ Part(m.log, f)
                \/ \E c : IsPiece(c) /\ Spliced(c, n.log, f) /\ Part(m.log, c)
  BY TurnRewrites DEF MatchInv, ElectionInv
<1>2. IsPiece(d) /\ \A f \in Pieces : IsPiece(f)
  BY PiecesTyped DEF MatchInv, ElectionInv
<1>3. \A f \in Pieces : Agree(f, d)
  BY DEF MatchInv, PiecesAgree
<1>4. n.role = "Leader" =>
        \A k \in Span(d) : TermAt(d, k) = n.current_term => k <= LastIndex(n.log)
  BY DEF MatchInv, LeadersAreAhead
<1> HIDE DEF n
<1>5. CASE Part(m.log, n.log)
  BY <1>1, <1>2, <1>3, <1>5, PartAgrees
<1>6. CASE n.role = "Leader" /\ Extended(m.log, n.log, n.current_term)
  <2>1. Agree(n.log, d)
    BY <1>1, <1>3
  <2> QED BY <1>1, <1>2, <1>4, <1>6, <2>1, ExtendAgrees
<1>7. ASSUME NEW f \in Pieces, Part(m.log, f) PROVE Agree(m.log, d)
  BY <1>1, <1>2, <1>3, <1>7, PartAgrees
<1>8. ASSUME NEW f \in Pieces, NEW c, IsPiece(c), Spliced(c, n.log, f), Part(m.log, c)
      PROVE  Agree(m.log, d)
  <2>1. Agree(n.log, d) /\ Agree(f, d) /\ IsPiece(f)
    BY <1>1, <1>2, <1>3
  <2>2. Agree(c, d)
    BY <1>1, <1>2, <1>8, <2>1, SpliceAgrees
  <2> QED BY <1>1, <1>2, <1>8, <2>2, PartAgrees
<1> QED BY <1>1, <1>5, <1>6, <1>7, <1>8

LEMMA TurnKeepsAgreement ==
    ASSUME MatchInv, NEW i \in Server, NEW m, Turns(i, m)
    PROVE  PiecesAgree'
<1> SUFFICES ASSUME NEW a \in Pieces', NEW b \in Pieces' PROVE Agree(a, b)
  BY DEF PiecesAgree
<1>1. IsPiece(m.log)
  BY TurnRewrites DEF MatchInv, ElectionInv
<1>2. \A d \in Pieces : IsPiece(d) /\ Agree(m.log, d)
  BY RewriteAgrees, PiecesTyped DEF MatchInv, ElectionInv
<1>3. /\ a \in Pieces \/ (IsPiece(a) /\ Quotes(m.log, a))
      /\ b \in Pieces \/ (IsPiece(b) /\ Quotes(m.log, b))
  BY TurnPieces DEF MatchInv, ElectionInv
<1>4. Agree(m.log, a)
  <2>1. CASE a \in Pieces
    BY <1>2, <2>1
  <2>2. CASE IsPiece(a) /\ Quotes(m.log, a)
    <3>1. Agree(a, m.log)
      BY <1>1, <2>2, AgreeReflexive, QuoteAgrees
    <3> QED BY <3>1, AgreeSymmetric
  <2> QED BY <1>3, <2>1, <2>2
<1>5. CASE b \in Pieces /\ a \in Pieces
  BY <1>5 DEF MatchInv, PiecesAgree
<1>6. CASE IsPiece(b) /\ Quotes(m.log, b)
  <2>1. Agree(b, a)
    BY <1>1, <1>2, <1>3, <1>4, <1>6, QuoteAgrees
  <2> QED BY <2>1, AgreeSymmetric
<1>7. CASE b \in Pieces /\ IsPiece(a) /\ Quotes(m.log, a)
  BY <1>1, <1>2, <1>7, QuoteAgrees
<1> QED BY <1>3, <1>5, <1>6, <1>7

LEMMA NextKeepsMatching ==
    ASSUME FixedMembership
    PROVE  MatchInv /\ ElectionSafety' /\ [Next]_vars => MatchInv'
<1> SUFFICES ASSUME MatchInv, ElectionSafety', [Next]_vars PROVE MatchInv'
  OBVIOUS
<1>1. ElectionInv'
  BY NextKeepsElections DEF MatchInv
<1>2. CASE UNCHANGED <<node, history>> /\ wire' \subseteq wire
  <2>1. Pieces' \subseteq Pieces
    BY <1>2 DEF Pieces
  <2> QED BY <1>1, <1>2, <2>1
          DEF MatchInv, CandidatesAreNew, VictoriesArePast, TermZeroIsQuiet,
              TermsAreWon, LeadersAreAhead, PiecesAgree
<1>3. ASSUME NEW i \in Server, NEW m, Turns(i, m) PROVE MatchInv'
  <2>1. CandidatesAreNew' /\ VictoriesArePast' /\ TermZeroIsQuiet'
    BY <1>3, TurnKeepsCandidates
  <2>2. TermsAreWon' /\ PiecesAgree'
    BY <1>3, TurnKeepsTermsWon, TurnKeepsAgreement
  <2>3. LeadersAreAhead'
    BY <1>1, <1>3, <2>1, TurnKeepsAhead
  <2> QED BY <1>1, <2>1, <2>2, <2>3 DEF MatchInv
<1>4. Moves
  BY NextMoves DEF MatchInv, ElectionInv, LawfulInv
<1> QED BY <1>2, <1>3, <1>4 DEF Moves

LEMMA InitHasMatching == Init => MatchInv
<1> SUFFICES ASSUME Init PROVE MatchInv
  OBVIOUS
<1>1. ElectionInv /\ wire = {} /\ history.victories = {}
  BY InitHasElections DEF Init
<1>2. \A i \in Server : node[i].log = EmptyLog /\ node[i].role = "Follower"
  BY DEF Init, WithLog
<1>3. \A d \in Pieces : d = EmptyLog
  BY <1>1, <1>2 DEF Pieces
<1>4. TermsAreWon
  BY <1>3 DEF TermsAreWon, Span, TermAt, LastIndex, EmptyLog
<1>5. PiecesAgree
  BY <1>3, AgreeReflexive DEF PiecesAgree
<1> QED BY <1>1, <1>2, <1>4, <1>5
        DEF MatchInv, CandidatesAreNew, VictoriesArePast, TermZeroIsQuiet, LeadersAreAhead

LEMMA MatchInvariance == ASSUME FixedMembership PROVE Spec => []MatchInv
BY InitHasMatching, NextKeepsMatching, ElectionSafe, PTL DEF Spec

(* While the membership is fixed, two logs that have the same term at an    *)
(* index have the same entries up to it: conflicting tails are cut before   *)
(* they are overwritten, and no delayed, repeated or partly written batch,  *)
(* no compaction and no installed snapshot ever mixes two histories.        *)
THEOREM LogsMatch == ASSUME FixedMembership PROVE Spec => []LogMatching
<1>1. MatchInv => LogMatching
  BY DEF MatchInv, PiecesAgree, Pieces, Agree, Same, LogMatching
<1> QED BY <1>1, MatchInvariance, PTL
-----------------------------------------------------------------------------
(* What a node does about elections and time is bounded by what it has to  *)
(* go by in a step: which terms are still open, who has granted it a       *)
(* pre-vote, whom it may take for its leader, whether its timer has run.   *)
(* A node that is Orderly under such circumstances stays so through every  *)
(* function of RaftNode, so the lemmas compose the way the functions do.   *)

(* What a node, or a message from id, may do, in circumstances c:          *)
(*   bound    terms stay below it                                          *)
(*   since    the term at the start of the step                            *)
(*   clock    whether the minimum election timeout has passed              *)
(*   polled   the servers that may have granted a pre-vote                 *)
(*   known    the servers it may take for its leader                       *)
(*   probes   whether it may be waiting for pre-votes                      *)
(*   asks     whether it may ask for votes without force                   *)
(*   grants   the kinds of reply in which it may grant something           *)
Proper(s, id, c) ==
    /\ s.from = id
    /\ s.term < c.bound
    /\ s.kind = "TimeoutNow" => s.term + 1 < c.bound
    /\ s.kind = "RequestVote" => s.to # id /\ (s.force \/ c.asks)
    /\ s.kind \in {"PreVoteReply", "RequestVoteReply"} /\ s.vote_granted =>
            s.kind \in c.grants

Orderly(n, c) ==
    /\ c.since <= n.current_term /\ n.current_term < c.bound
    /\ n.pre_voting => c.probes
    /\ n.pre_voting \/ n.transfer_target # None => n.current_term + 1 < c.bound
    /\ n.pre_votes \subseteq c.polled
    /\ n.leader_id \in c.known \cup {None, n.id}
    /\ n.leader_id # None => ~ n.pre_voting
    /\ n.role = "Leader" => /\ n.leader_id = n.id
                            /\ n.ripe = (c.clock /\ n.current_term <= c.since)
    /\ n.role # "Follower" => n.voted_for = n.id
    /\ IsFiniteSet(n.sends)
    /\ \A s \in n.sends : Proper(s, n.id, c)

(* The election, the hand-over and what is to be sent stay as they are. *)
Mute(n, m) ==
    /\ m.id = n.id /\ m.role = n.role /\ m.current_term = n.current_term
    /\ m.voted_for = n.voted_for /\ m.leader_id = n.leader_id /\ m.ripe = n.ripe
    /\ m.pre_voting = n.pre_voting /\ m.pre_votes = n.pre_votes
    /\ m.transfer_target = n.transfer_target /\ m.sends = n.sends

Marks ==
    {"id", "role", "current_term", "voted_for", "leader_id", "ripe", "pre_voting",
     "pre_votes", "transfer_target", "sends"}

LEMMA NodeMarks == ASSUME NEW n \in NodeRecord PROVE Marks \subseteq DOMAIN n
BY DEF NodeRecord, Marks

LEMMA MuteOrderly ==
    ASSUME NEW n, NEW m, NEW c, Orderly(n, c), Mute(n, m) PROVE Orderly(m, c)
BY DEF Orderly, Mute

(* Circumstances that allow more. *)
LEMMA WiderOrderly ==
    ASSUME NEW n, NEW c, NEW d, Orderly(n, c),
           d.since = c.since, d.bound = c.bound, d.clock = c.clock,
           c.probes => d.probes, c.asks => d.asks,
           c.polled \subseteq d.polled, c.known \subseteq d.known,
           c.grants \subseteq d.grants
    PROVE  Orderly(n, d)
<1>1. \A s : Proper(s, n.id, c) => Proper(s, n.id, d)
  BY DEF Proper
<1> QED BY <1>1 DEF Orderly

(* Functions that say nothing. *)
LEMMA SyncMute == ASSUME NEW n \in NodeRecord PROVE Mute(n, Sync(n))
BY NodeMarks DEF Sync, Mute, Marks

LEMMA StoreMute ==
    ASSUME NEW n \in NodeRecord, NEW log
    PROVE  Mute(n, Sync([n EXCEPT !.log = log]))
<1> DEFINE a == [n EXCEPT !.log = log]
<1>1. Marks \subseteq DOMAIN a /\ Mute(n, a)
  BY NodeMarks DEF Mute, Marks
<1> HIDE DEF a
<1>2. Mute(n, Sync(a))
  BY <1>1 DEF Sync, Mute, Marks
<1> QED BY <1>2 DEF a

LEMMA PersistMute == ASSUME NEW n \in NodeRecord PROVE Mute(n, PersistHardState(n))
BY StoreMute DEF PersistHardState

LEMMA RebuildProgressMute ==
    ASSUME NEW n \in NodeRecord PROVE Mute(n, RebuildProgress(n))
BY NodeMarks DEF RebuildProgress, Mute, Marks

LEMMA SetConfigMute ==
    ASSUME NEW n \in NodeRecord, NEW voters \in SUBSET Server, NEW index \in Nat
    PROVE  Mute(n, SetConfig(n, voters, index))
<1> DEFINE a == [n EXCEPT !.voters = voters, !.config_index = index]
<1>1. a \in NodeRecord
  BY DEF NodeRecord
<1>2. Mute(n, a)
  BY NodeMarks DEF Mute, Marks
<1> HIDE DEF a
<1>3. Mute(n, RebuildProgress(a))
  BY <1>1, <1>2, RebuildProgressMute DEF Mute
<1>4. SetConfig(n, voters, index) \in {a, RebuildProgress(a)}
  BY DEF SetConfig, a
<1> QED BY <1>2, <1>3, <1>4

LEMMA RefreshConfigMute == ASSUME NEW n \in NodeRecord PROVE Mute(n, RefreshConfig(n))
<1>1. /\ ConfigAt(n.log, LastIndex(n.log), n.base_config) \in SUBSET Server
      /\ ConfigIndexAt(n.log, LastIndex(n.log)) \in Nat
  BY NodeFields, LogFields, ConfigTyped
<1> QED BY <1>1, SetConfigMute DEF RefreshConfig

LEMMA DrainAppliesMute == ASSUME NEW n \in NodeRecord PROVE Mute(n, DrainApplies(n))
<1>1. \A m : Marks \subseteq DOMAIN m => Mute(m, MaybeHintSnapshot(m))
  BY DEF MaybeHintSnapshot, Mute, Marks
<1>2. ASSUME NEW applied, NEW app
      PROVE  LET m == [n EXCEPT !.last_applied = applied, !.app = app]
             IN  Marks \subseteq DOMAIN m /\ Mute(n, m)
  BY NodeMarks DEF Mute, Marks
<1>3. ASSUME NEW applied, NEW app
      PROVE  Mute(n, MaybeHintSnapshot([n EXCEPT !.last_applied = applied, !.app = app]))
  <2> DEFINE m == [n EXCEPT !.last_applied = applied, !.app = app]
  <2>1. Mute(n, m) /\ Mute(m, MaybeHintSnapshot(m))
    BY <1>1, <1>2
  <2> HIDE DEF m
  <2>2. Mute(n, MaybeHintSnapshot(m))
    BY <2>1 DEF Mute
  <2> QED BY <2>2 DEF m
<1> QED BY <1>3 DEF DrainApplies

LEMMA ProgressUpdateMute ==
    ASSUME NEW n \in NodeRecord, NEW p, NEW pr
    PROVE  Mute(n, [n EXCEPT !.progress[p] = pr])
BY NodeMarks DEF Mute, Marks
(* Adopting a commit index, and storing what a leader sent. *)
LEMMA AdoptCommitMute ==
    ASSUME NEW n \in NodeRecord, NEW m \in Message, m.kind = "AppendEntries",
           NEW covered \in Nat
    PROVE  Mute(n, AdoptCommit(n, m, covered))
<1> DEFINE index == Smaller(m.leader_commit, covered)
           a == [n EXCEPT !.commit_index = index]
<1>1. index \in Nat
  BY AppendEntriesFields, SmallerLarger
<1> HIDE DEF index
<1>2. a \in NodeRecord
  BY <1>1 DEF NodeRecord
<1>3. Mute(n, a)
  BY NodeMarks DEF Mute, Marks
<1> HIDE DEF a
<1>4. Mute(n, DrainApplies(a))
  BY <1>2, <1>3, DrainAppliesMute DEF Mute
<1>5. AdoptCommit(n, m, covered) \in {n, DrainApplies(a)}
  BY DEF AdoptCommit, a, index
<1> QED BY <1>4, <1>5 DEF Mute

LEMMA StoreEntriesMute ==
    ASSUME NEW n \in NodeRecord, NEW m \in Message, m.kind = "AppendEntries"
    PROVE  Mute(n, StoreEntries(n, m))
<1> DEFINE a == AppendFromLeader(n, m)
<1>1. Mute(n, n)
  BY DEF Mute
<1>2. a = n \/ \E log : a = Sync([n EXCEPT !.log = log])
  BY DEF AppendFromLeader
<1>3. a \in NodeRecord
  BY AppendFromLeaderTyped
<1>4. Mute(n, a)
  <2> HIDE DEF a
  <2> QED BY <1>1, <1>2, StoreMute
<1>5. StoreEntries(n, m) \in {a, RefreshConfig(a)}
  BY DEF StoreEntries
<1> HIDE DEF a
<1>6. Mute(n, RefreshConfig(a))
  BY <1>3, <1>4, RefreshConfigMute DEF Mute
<1> QED BY <1>4, <1>5, <1>6

LEMMA HandleSnapshotEventMute ==
    ASSUME NEW n \in NodeRecord, NEW index \in Nat
    PROVE  Mute(n, [HandleSnapshotEvent(n, index) EXCEPT !.hints = @ \ {index}])
<1> DEFINE m == HandleSnapshotEvent(n, index)
           config == ConfigAt(n.log, index, n.base_config)
           snap == [index |-> index, term |-> TermAt(n.log, index),
                    config |-> config, data |-> {a \in n.app : a.index <= index}]
           log  == ApplySnapshot(n.log, snap)
           hint == Larger(n.snapshot_hinted_at, index)
           put  == [n EXCEPT !.base_config = config, !.log = log,
                             !.snapshot_hinted_at = hint]
<1>1. Mute(n, n)
  BY DEF Mute
<1>2. m \in {n, RefreshConfig(Sync(put))}
  BY DEF HandleSnapshotEvent
<1>3. m # n => TermAt(n.log, index) \in Nat
  BY NodeFields, TermTyped DEF HandleSnapshotEvent
<1>4. TermAt(n.log, index) \in Nat => put \in NodeRecord
  <2> SUFFICES ASSUME TermAt(n.log, index) \in Nat PROVE put \in NodeRecord
    OBVIOUS
  <2>1. config \in SUBSET Server /\ {a \in n.app : a.index <= index} \in SUBSET Applied
    BY NodeFields, ConfigTyped
  <2> HIDE DEF config
  <2>2. snap \in Snapshot
    BY <2>1 DEF Snapshot
  <2> HIDE DEF snap
  <2>3. log \in Log /\ hint \in Nat
    BY <2>2, NodeFields, ApplySnapshotTyped, SmallerLarger
  <2> HIDE DEF log, hint
  <2> QED BY <2>1, <2>3 DEF NodeRecord
<1>5. Marks \subseteq DOMAIN put /\ Mute(n, put)
  <2> HIDE DEF config, log, hint
  <2> QED BY NodeMarks DEF Mute, Marks
<1> HIDE DEF put
<1>6. put \in NodeRecord => Mute(n, RefreshConfig(Sync(put)))
  <2> SUFFICES ASSUME put \in NodeRecord PROVE Mute(n, RefreshConfig(Sync(put)))
    OBVIOUS
  <2>1. Mute(put, Sync(put)) /\ Sync(put) \in NodeRecord
    BY SyncMute, SyncTyped
  <2>2. Mute(Sync(put), RefreshConfig(Sync(put)))
    BY <2>1, RefreshConfigMute
  <2> QED BY <1>5, <2>1, <2>2 DEF Mute
<1>7. m \in NodeRecord
  BY HandleSnapshotEventTyped
<1> HIDE DEF m
<1>8. Mute(n, m)
  BY <1>1, <1>2, <1>3, <1>4, <1>6
<1>9. Mute(m, [m EXCEPT !.hints = @ \ {index}])
  BY <1>7, NodeMarks DEF Mute, Marks
<1>10. Mute(n, [m EXCEPT !.hints = @ \ {index}])
  BY <1>8, <1>9 DEF Mute
<1> QED BY <1>10 DEF m

-----------------------------------------------------------------------------
(* Functions that send. *)

(* The image of a finite set. *)
LEMMA ImageFinite ==
    ASSUME NEW P, IsFiniteSet(P), NEW f, DOMAIN f = P
    PROVE  IsFiniteSet({f[p] : p \in P})
<1> DEFINE T == {f[p] : p \in P}
           g == [p \in P |-> f[p]]
<1>1. g \in Surjection(P, T)
  BY DEF Surjection
<1> HIDE DEF T, g
<1> QED BY <1>1, FS_Surjection DEF T

LEMMA SendOrderly ==
    ASSUME NEW n \in NodeRecord, NEW c, Orderly(n, c), NEW messages,
           IsFiniteSet(messages), \A s \in messages : Proper(s, n.id, c)
    PROVE  Orderly(Send(n, messages), c)
<1> DEFINE m == Send(n, messages)
<1>1. /\ m.id = n.id /\ m.role = n.role /\ m.current_term = n.current_term
      /\ m.voted_for = n.voted_for /\ m.leader_id = n.leader_id /\ m.ripe = n.ripe
      /\ m.pre_voting = n.pre_voting /\ m.pre_votes = n.pre_votes
      /\ m.transfer_target = n.transfer_target /\ m.sends = n.sends \cup messages
  BY NodeMarks DEF Send, Marks
<1>2. IsFiniteSet(n.sends \cup messages)
  BY FS_Union DEF Orderly
<1> HIDE DEF m
<1>3. Orderly(m, c)
  BY <1>1, <1>2 DEF Orderly
<1> QED BY <1>3 DEF m

(* One message. *)
LEMMA SendOneOrderly ==
    ASSUME NEW n \in NodeRecord, NEW c, Orderly(n, c), NEW s, Proper(s, n.id, c)
    PROVE  Orderly(Send(n, {s}), c)
BY SendOrderly, FS_Singleton

LEMMA SendAppendOrderly ==
    ASSUME IsFiniteSet(Server), NEW n \in NodeRecord, NEW c, Orderly(n, c),
           NEW peers \in SUBSET Server
    PROVE  Orderly(SendAppend(n, peers), c)
<1> DEFINE f == [p \in peers |-> IF Compacted(n, p) THEN InstallSnapshotTo(n, p)
                                                    ELSE AppendEntriesTo(n, p)]
           new == {f[p] : p \in peers}
           table == [p \in Server |-> IF p \in peers THEN ProgressAfterSend(n, p)
                                                     ELSE n.progress[p]]
           m == SendAppend(n, peers)
<1>1. IsFiniteSet(new)
  <2>1. IsFiniteSet(peers)
    BY FS_Subset
  <2>2. DOMAIN f = peers
    OBVIOUS
  <2> HIDE DEF f
  <2> QED BY <2>1, <2>2, ImageFinite
<1>2. \A p \in peers : Proper(f[p], n.id, c)
  <2> SUFFICES ASSUME NEW p \in peers PROVE Proper(f[p], n.id, c)
    OBVIOUS
  <2>1. f[p] \in {InstallSnapshotTo(n, p), AppendEntriesTo(n, p)}
    OBVIOUS
  <2>2. n.current_term < c.bound
    BY DEF Orderly
  <2>3. Proper(InstallSnapshotTo(n, p), n.id, c)
    BY <2>2 DEF InstallSnapshotTo, Proper
  <2>4. Proper(AppendEntriesTo(n, p), n.id, c)
    BY <2>2 DEF AppendEntriesTo, Proper
  <2> QED BY <2>1, <2>3, <2>4
<1>3. new = {IF Compacted(n, p) THEN InstallSnapshotTo(n, p)
             ELSE AppendEntriesTo(n, p) : p \in peers}
  OBVIOUS
<1>4. m = [n EXCEPT !.sends = @ \cup new, !.progress = table]
  BY <1>3 DEF SendAppend
<1>5. Send(n, new) = [n EXCEPT !.sends = @ \cup new]
  BY DEF Send
<1>6. Orderly(Send(n, new), c)
  <2> HIDE DEF f
  <2> QED BY <1>1, <1>2, SendOrderly
<1>7. Mute(Send(n, new), m)
  <2> HIDE DEF new, table, m
  <2> QED BY <1>4, <1>5, NodeMarks DEF Mute, Marks
<1> QED BY <1>6, <1>7, MuteOrderly

LEMMA ReplicateOrderly ==
    ASSUME IsFiniteSet(Server), NEW n \in NodeRecord, NEW c, Orderly(n, c)
    PROVE  /\ Orderly(ReplicateToAll(n), c)
           /\ Orderly(ReplicateToStreaming(n), c)
<1>1. Tracked(n) \in SUBSET Server /\ {p \in Tracked(n) : n.progress[p].state = "Replicate"} \in SUBSET Server
  BY DEF Tracked
<1> QED BY <1>1, SendAppendOrderly DEF ReplicateToAll, ReplicateToStreaming

(* A leader that is no voter any more steps down; it sends nothing. *)
LEMMA StepDownOrderly ==
    ASSUME NEW n \in NodeRecord, NEW c, Orderly(n, c)
    PROVE  Orderly(StepDownToFollower(n), c)
<1> DEFINE m == StepDownToFollower(n)
<1>1. /\ m.id = n.id /\ m.role = "Follower" /\ m.current_term = n.current_term
      /\ m.leader_id = None /\ ~ m.pre_voting /\ m.pre_votes = {}
      /\ m.transfer_target = None /\ m.sends = n.sends
  BY NodeMarks DEF StepDownToFollower, Marks
<1> HIDE DEF m
<1>2. Orderly(m, c)
  BY <1>1 DEF Orderly
<1> QED BY <1>2 DEF m

LEMMA AdvanceCommitOrderly ==
    ASSUME NEW n \in NodeRecord, NEW c, Orderly(n, c)
    PROVE  /\ Orderly(AdvanceCommit(n), c)
           /\ AdvanceCommit(n).transfer_target \in {n.transfer_target, None}
<1>1. CASE Committable(n) = {}
  BY <1>1 DEF AdvanceCommit
<1>2. CASE Committable(n) # {}
  <2> DEFINE m == [n EXCEPT !.commit_index = Max(Committable(n))]
             d == DrainApplies(m)
  <2>1. Max(Committable(n)) \in Nat
    <3>1. /\ Committable(n) \subseteq Int
          /\ \A k \in Committable(n) : k <= LastIndex(n.log) /\ k \in Nat
      BY NodeFields, LogFields DEF Committable
    <3>2. LastIndex(n.log) \in Int
      BY NodeFields, LogFields
    <3>3. Max(Committable(n)) \in Committable(n)
      BY <1>2, <3>1, <3>2, MaxExists, Zenon
    <3> QED BY <3>1, <3>3
  <2>2. m \in NodeRecord
    BY <2>1 DEF NodeRecord
  <2>3. Mute(n, m)
    BY NodeMarks DEF Mute, Marks
  <2> HIDE DEF m
  <2>4. d \in NodeRecord /\ Mute(n, d)
    BY <2>2, <2>3, DrainAppliesTyped, DrainAppliesMute DEF Mute
  <2> HIDE DEF d
  <2>5. Orderly(d, c)
    BY <2>4, MuteOrderly
  <2>6. /\ Orderly(StepDownToFollower(d), c)
        /\ StepDownToFollower(d).transfer_target = None
    BY <2>4, <2>5, StepDownOrderly, NodeMarks DEF StepDownToFollower, Marks
  <2>7. AdvanceCommit(n) \in {d, StepDownToFollower(d)}
    BY <1>2 DEF AdvanceCommit, d, m
  <2> QED BY <2>4, <2>5, <2>6, <2>7 DEF Mute
<1> QED BY <1>1, <1>2

(* A leader's own rounds, once its log is stored. *)
LEMMA RoundOrderly ==
    ASSUME IsFiniteSet(Server), NEW n \in NodeRecord, NEW c, Orderly(n, c)
    PROVE  /\ Orderly(AdvanceCommit(ReplicateToAll(n)), c)
           /\ Orderly(AdvanceCommit(ReplicateToStreaming(n)), c)
<1>1. ReplicateToAll(n) \in NodeRecord /\ ReplicateToStreaming(n) \in NodeRecord
  BY ReplicateTyped
<1> QED BY <1>1, ReplicateOrderly, AdvanceCommitOrderly

(* Handing over: the target will campaign in the next term. *)
LEMMA MaybeSendTimeoutNowOrderly ==
    ASSUME NEW n \in NodeRecord, NEW c, Orderly(n, c), NEW target \in Server
    PROVE  Orderly(MaybeSendTimeoutNow(n, target), c)
<1> DEFINE s == [kind |-> "TimeoutNow", from |-> n.id, to |-> target,
                 term |-> n.current_term]
           a == [n EXCEPT !.transfer_target = None]
<1>1. a \in NodeRecord /\ a.id = n.id
  BY DEF NodeRecord
<1>2. Orderly(a, c)
  <2>1. /\ a.id = n.id /\ a.role = n.role /\ a.current_term = n.current_term
        /\ a.voted_for = n.voted_for /\ a.leader_id = n.leader_id /\ a.ripe = n.ripe
        /\ a.pre_voting = n.pre_voting /\ a.pre_votes = n.pre_votes
        /\ a.transfer_target = None /\ a.sends = n.sends
    BY NodeMarks DEF Marks
  <2> HIDE DEF a
  <2> QED BY <2>1 DEF Orderly
<1> HIDE DEF a
<1>3. n.transfer_target = target => Proper(s, n.id, c)
  <2>1. target # None
    BY NoneAssumption
  <2> QED BY <2>1 DEF Proper, Orderly
<1>4. n.transfer_target = target => Orderly(Send(a, {s}), c)
  <2> HIDE DEF s
  <2> QED BY <1>1, <1>2, <1>3, SendOneOrderly
<1>5. MaybeSendTimeoutNow(n, target) = n
        \/ (n.transfer_target = target /\ MaybeSendTimeoutNow(n, target) = Send(a, {s}))
  BY DEF MaybeSendTimeoutNow, a
<1> QED BY <1>4, <1>5

(* A leader asked to hand over remembers to whom, in a term it may open. *)
LEMMA TransferLeadershipOrderly ==
    ASSUME IsFiniteSet(Server), NEW n \in NodeRecord, NEW c, Orderly(n, c),
           NEW target \in Server, n.role = "Leader" => n.current_term + 1 < c.bound
    PROVE  Orderly(TransferLeadership(n, target), c)
<1>1. CASE n.role # "Leader" \/ target = n.id \/ target \notin n.voters
  BY <1>1 DEF TransferLeadership
<1>2. CASE ~ (n.role # "Leader" \/ target = n.id \/ target \notin n.voters)
  <2> DEFINE a == [n EXCEPT !.transfer_target = target]
             b == MaybeSendTimeoutNow(a, target)
             peers == IF b.transfer_target = None THEN {} ELSE {target} \cap Tracked(b)
  <2>1. a \in NodeRecord
    BY DEF NodeRecord
  <2>2. /\ a.id = n.id /\ a.role = n.role /\ a.current_term = n.current_term
        /\ a.voted_for = n.voted_for /\ a.leader_id = n.leader_id /\ a.ripe = n.ripe
        /\ a.pre_voting = n.pre_voting /\ a.pre_votes = n.pre_votes
        /\ a.sends = n.sends
    BY NodeMarks DEF Marks
  <2> HIDE DEF a
  <2>3. Orderly(a, c)
    BY <1>2, <2>2 DEF Orderly
  <2>4. b \in NodeRecord /\ Orderly(b, c)
    BY <2>1, <2>3, MaybeSendTimeoutNowTyped, MaybeSendTimeoutNowOrderly
  <2> HIDE DEF b
  <2>5. peers \in SUBSET Server
    OBVIOUS
  <2>6. Orderly(SendAppend(b, peers), c)
    BY <2>4, <2>5, SendAppendOrderly
  <2> QED BY <1>2, <2>6 DEF TransferLeadership, a, b
<1> QED BY <1>1, <1>2

(* What follows an acknowledgement. *)
LEMMA AfterAckOrderly ==
    ASSUME IsFiniteSet(Server), NEW n \in NodeRecord, NEW c, Orderly(n, c),
           NEW p \in Server
    PROVE  Orderly(AfterAck(n, p), c)
<1> DEFINE advanced == AdvanceCommit(n)
           told     == MaybeSendTimeoutNow(advanced, p)
<1>1. advanced \in NodeRecord /\ Orderly(advanced, c)
  BY AdvanceCommitTyped, AdvanceCommitOrderly
<1> HIDE DEF advanced
<1>2. told \in NodeRecord /\ Orderly(told, c)
  BY <1>1, MaybeSendTimeoutNowTyped, MaybeSendTimeoutNowOrderly
<1> HIDE DEF told
<1>3. Orderly(SendAppend(told, {p}), c)
  BY <1>2, SendAppendOrderly
<1> QED BY <1>2, <1>3 DEF AfterAck, told, advanced

LEMMA HandleAppendReplyOrderly ==
    ASSUME IsFiniteSet(Server), NEW n \in NodeRecord, NEW c, Orderly(n, c),
           NEW m \in Message, m.kind = "AppendEntriesReply"
    PROVE  Orderly(HandleAppendReply(n, m), c)
<1> DEFINE p     == m.from
           old   == n.progress[p]
           match == Larger(old.match_index, m.match_index)
           acked == [next_index  |-> Larger(old.next_index, match + 1),
                     match_index |-> match, state |-> "Replicate"]
           rejected == [old EXCEPT !.next_index = RejectedNext(n, m), !.state = "Probe"]
<1>1. CASE ~ Heeds(n, m)
  BY <1>1 DEF HandleAppendReply
<1>2. CASE Heeds(n, m)
  <2>1. p \in Tracked(n) /\ p \in Server
    BY <1>2, MessageFields DEF Heeds
  <2>2. old \in Progress /\ old.next_index \in Nat /\ old.match_index \in Nat
    BY <2>1, TrackedTyped
  <2>3. match \in Nat
    BY <2>2, AppendReplyFields, SmallerLarger
  <2> HIDE DEF match
  <2>4. acked \in Progress
    <3>1. Larger(old.next_index, match + 1) \in Nat
      BY <2>2, <2>3, SmallerLarger
    <3> QED BY <2>3, <3>1 DEF Progress
  <2>5. rejected \in Progress
    BY <2>1, <2>2, RejectedNextTyped DEF Progress
  <2> HIDE DEF acked, rejected
  <2>6. \A pr \in Progress : /\ [n EXCEPT !.progress[p] = pr] \in NodeRecord
                             /\ Orderly([n EXCEPT !.progress[p] = pr], c)
    BY <2>1, ProgressUpdateTyped, ProgressUpdateMute, MuteOrderly
  <2>7. Orderly(AfterAck([n EXCEPT !.progress[p] = acked], p), c)
    BY <2>1, <2>4, <2>6, AfterAckOrderly
  <2>8. Orderly(SendAppend([n EXCEPT !.progress[p] = rejected], {p}), c)
    BY <2>1, <2>5, <2>6, SendAppendOrderly
  <2>9. HandleAppendReply(n, m) =
            IF m.success THEN AfterAck([n EXCEPT !.progress[p] = acked], p)
            ELSE SendAppend([n EXCEPT !.progress[p] = rejected], {p})
    BY <1>2 DEF HandleAppendReply, acked, rejected, match
  <2> QED BY <2>7, <2>8, <2>9
<1> QED BY <1>1, <1>2

LEMMA HandleInstallSnapshotReplyOrderly ==
    ASSUME IsFiniteSet(Server), NEW n \in NodeRecord, NEW c, Orderly(n, c),
           NEW m \in Message, m.kind = "InstallSnapshotReply"
    PROVE  Orderly(HandleInstallSnapshotReply(n, m), c)
<1> DEFINE p     == m.from
           match == Larger(n.progress[p].match_index, m.last_index)
           acked == [next_index |-> match + 1, match_index |-> match,
                     state |-> "Replicate"]
<1>1. CASE ~ Heeds(n, m)
  BY <1>1 DEF HandleInstallSnapshotReply
<1>2. CASE Heeds(n, m)
  <2>1. p \in Tracked(n) /\ p \in Server
    BY <1>2, MessageFields DEF Heeds
  <2>2. match \in Nat
    BY <2>1, TrackedTyped, InstallSnapshotReplyFields, SmallerLarger
  <2> HIDE DEF match
  <2>3. acked \in Progress
    BY <2>2 DEF Progress
  <2> HIDE DEF acked
  <2>4. /\ [n EXCEPT !.progress[p] = acked] \in NodeRecord
        /\ Orderly([n EXCEPT !.progress[p] = acked], c)
    BY <2>1, <2>3, ProgressUpdateTyped, ProgressUpdateMute, MuteOrderly
  <2>5. Orderly(AfterAck([n EXCEPT !.progress[p] = acked], p), c)
    BY <2>1, <2>4, AfterAckOrderly
  <2>6. HandleInstallSnapshotReply(n, m) = AfterAck([n EXCEPT !.progress[p] = acked], p)
    BY <1>2 DEF HandleInstallSnapshotReply, acked, match
  <2> QED BY <2>5, <2>6
<1> QED BY <1>1, <1>2

(* Requests. *)
LEMMA ProposeOrderly ==
    ASSUME IsFiniteSet(Server), NEW n \in NodeRecord, NEW c, Orderly(n, c),
           NEW v \in Value
    PROVE  Orderly(Propose(n, v), c)
<1> DEFINE log    == AppendTo(n.log, << NormalEntry(n.current_term, v) >>)
           stored == Sync([n EXCEPT !.log = log])
<1>1. << NormalEntry(n.current_term, v) >> \in Seq(LogEntry)
  <2>1. NormalEntry(n.current_term, v) \in LogEntry
    BY NodeFields DEF NormalEntry, LogEntry
  <2> QED BY <2>1
<1>2. log \in Log
  BY <1>1, NodeFields, AppendToTyped
<1> HIDE DEF log
<1>3. stored \in NodeRecord /\ Orderly(stored, c)
  BY <1>2, StoreTyped, StoreMute, MuteOrderly
<1> HIDE DEF stored
<1>4. Orderly(AdvanceCommit(ReplicateToStreaming(stored)), c)
  BY <1>3, RoundOrderly
<1> QED BY <1>4 DEF Propose, stored, log

LEMMA ChangeMembershipOrderly ==
    ASSUME IsFiniteSet(Server), NEW n \in NodeRecord, NEW c, Orderly(n, c),
           NEW members \in SUBSET Server
    PROVE  Orderly(ChangeMembership(n, members), c)
<1> DEFINE log    == AppendTo(n.log, << ConfigEntry(n.current_term, members) >>)
           stored == Sync([n EXCEPT !.log = log])
           config == SetConfig(stored, members, LastIndex(stored.log))
<1>1. << ConfigEntry(n.current_term, members) >> \in Seq(LogEntry)
  <2>1. ConfigEntry(n.current_term, members) \in LogEntry
    BY NodeFields DEF ConfigEntry, LogEntry
  <2> QED BY <2>1
<1>2. log \in Log
  BY <1>1, NodeFields, AppendToTyped
<1> HIDE DEF log
<1>3. stored \in NodeRecord /\ Orderly(stored, c)
  BY <1>2, StoreTyped, StoreMute, MuteOrderly
<1> HIDE DEF stored
<1>4. config \in NodeRecord /\ Orderly(config, c)
  BY <1>3, NodeFields, LogFields, SetConfigTyped, SetConfigMute, MuteOrderly
<1> HIDE DEF config
<1>5. Orderly(AdvanceCommit(ReplicateToAll(config)), c)
  BY <1>4, RoundOrderly
<1> QED BY <1>5 DEF ChangeMembership, config, stored, log

-----------------------------------------------------------------------------
(* Elections. *)

(* A later term leaves a follower that waits for nothing. *)
LEMMA BecomeFollowerOrderly ==
    ASSUME NEW n \in NodeRecord, NEW c, Orderly(n, c), NEW term \in Nat,
           term < c.bound, c.since \in Nat, term > n.current_term
    PROVE  /\ Orderly(BecomeFollower(n, term, None), c)
           /\ BecomeFollower(n, term, None).role = "Follower"
           /\ BecomeFollower(n, term, None).leader_id = None
           /\ BecomeFollower(n, term, None).current_term = term
           /\ BecomeFollower(n, term, None).id = n.id
           /\ BecomeFollower(n, term, None).sends = n.sends
           /\ ~ BecomeFollower(n, term, None).pre_voting
<1> DEFINE a == [n EXCEPT !.role = "Follower", !.leader_id = None,
                          !.transfer_target = None, !.pre_voting = FALSE,
                          !.pre_votes = {}, !.votes = {},
                          !.progress = NoProgress, !.ripe = FALSE]
           b == [a EXCEPT !.current_term = term, !.voted_for = None]
<1>1. a \in NodeRecord
  BY DEF NodeRecord, Role, NoProgress
<1>2. /\ a.id = n.id /\ a.role = "Follower" /\ a.leader_id = None
      /\ a.transfer_target = None /\ ~ a.pre_voting /\ a.pre_votes = {}
      /\ a.sends = n.sends
  BY NodeMarks DEF Marks
<1> HIDE DEF a
<1>3. b \in NodeRecord
  BY <1>1 DEF NodeRecord
<1>4. /\ b.id = n.id /\ b.role = "Follower" /\ b.leader_id = None
      /\ b.transfer_target = None /\ ~ b.pre_voting /\ b.pre_votes = {}
      /\ b.sends = n.sends /\ b.current_term = term
  BY <1>1, <1>2, NodeMarks DEF Marks
<1> HIDE DEF b
<1>5. Orderly(b, c)
  <2>1. n.current_term \in Nat
    BY NodeFields
  <2> QED BY <1>4, <2>1 DEF Orderly
<1>6. Mute(b, PersistHardState(b))
  BY <1>3, PersistMute
<1>7. BecomeFollower(n, term, None) = PersistHardState(b)
  BY DEF BecomeFollower, b, a
<1> QED BY <1>4, <1>5, <1>6, <1>7, MuteOrderly DEF Mute

LEMMA AdoptTermOrderly ==
    ASSUME NEW n \in NodeRecord, NEW c, Orderly(n, c), NEW term \in Nat,
           term < c.bound, c.since \in Nat
    PROVE  Orderly(AdoptTerm(n, term), c)
BY BecomeFollowerOrderly DEF AdoptTerm

(* What a node that adopts a term looks like. *)
LEMMA AdoptTermMarks ==
    ASSUME NEW n \in NodeRecord, NEW term \in Nat
    PROVE  LET k == AdoptTerm(n, term)
           IN  /\ k \in NodeRecord /\ k.id = n.id /\ k.sends = n.sends
               /\ n.current_term <= k.current_term /\ term <= k.current_term
               /\ \/ k = n
                  \/ /\ k.role = "Follower" /\ k.leader_id = None /\ ~ k.pre_voting
                     /\ k.current_term = term /\ n.current_term < term
<1> DEFINE a == [n EXCEPT !.role = "Follower", !.leader_id = None,
                          !.transfer_target = None, !.pre_voting = FALSE,
                          !.pre_votes = {}, !.votes = {},
                          !.progress = NoProgress, !.ripe = FALSE]
           b == [a EXCEPT !.current_term = term, !.voted_for = None]
           k == AdoptTerm(n, term)
<1>1. k \in NodeRecord /\ n.current_term \in Nat
  BY AdoptTermTyped, NodeFields
<1>2. CASE ~ (term > n.current_term)
  BY <1>1, <1>2 DEF AdoptTerm
<1>3. CASE term > n.current_term
  <2>1. a \in NodeRecord
    BY DEF NodeRecord, Role, NoProgress
  <2>2. /\ a.id = n.id /\ a.role = "Follower" /\ a.leader_id = None
        /\ ~ a.pre_voting /\ a.sends = n.sends
    BY NodeMarks DEF Marks
  <2> HIDE DEF a
  <2>3. b \in NodeRecord
    BY <2>1 DEF NodeRecord
  <2>4. /\ b.id = n.id /\ b.role = "Follower" /\ b.leader_id = None
        /\ ~ b.pre_voting /\ b.sends = n.sends /\ b.current_term = term
    BY <2>1, <2>2, NodeMarks DEF Marks
  <2> HIDE DEF b
  <2>5. Mute(b, PersistHardState(b))
    BY <2>3, PersistMute
  <2>6. k = PersistHardState(b)
    BY <1>3 DEF AdoptTerm, BecomeFollower, b, a
  <2> QED BY <1>1, <1>3, <2>4, <2>5, <2>6 DEF Mute
<1> QED BY <1>2, <1>3

(* The winner's clock is that of the candidate. *)
LEMMA BecomeLeaderOrderly ==
    ASSUME IsFiniteSet(Server), NEW n \in NodeRecord, NEW c, Orderly(n, c),
           n.role = "Candidate", n.ripe = (c.clock /\ n.current_term <= c.since)
    PROVE  Orderly(BecomeLeader(n), c)
<1> DEFINE a == [n EXCEPT !.role = "Leader", !.leader_id = n.id,
                          !.transfer_target = None, !.pre_voting = FALSE,
                          !.pre_votes = {}]
<1>1. a \in NodeRecord
  BY DEF NodeRecord, Role
<1>2. /\ a.id = n.id /\ a.role = "Leader" /\ a.current_term = n.current_term
      /\ a.voted_for = n.voted_for /\ a.leader_id = n.id /\ a.ripe = n.ripe
      /\ ~ a.pre_voting /\ a.pre_votes = {} /\ a.transfer_target = None
      /\ a.sends = n.sends
  BY NodeMarks DEF Marks
<1> HIDE DEF a
<1>3. Orderly(a, c)
  BY <1>2 DEF Orderly
<1>4. RebuildProgress(a) \in NodeRecord /\ Orderly(RebuildProgress(a), c)
  BY <1>1, <1>3, RebuildProgressTyped, RebuildProgressMute, MuteOrderly
<1>5. Orderly(AdvanceCommit(ReplicateToAll(RebuildProgress(a))), c)
  BY <1>4, RoundOrderly
<1> QED BY <1>5 DEF BecomeLeader, a

(* The requests of a round go to the other voters. *)
LEMMA RequestVotesProper ==
    ASSUME IsFiniteSet(Server), NEW n \in NodeRecord, NEW force \in BOOLEAN, NEW c,
           n.current_term < c.bound, force \/ c.asks
    PROVE  /\ IsFiniteSet(RequestVotes(n, force))
           /\ \A s \in RequestVotes(n, force) : Proper(s, n.id, c)
<1> DEFINE f == [p \in Peers(n) |->
        [kind |-> "RequestVote", from |-> n.id, to |-> p, term |-> n.current_term,
         last_log_index |-> LastIndex(n.log), last_log_term |-> LastTerm(n.log),
         force |-> force]]
<1>1. RequestVotes(n, force) = {f[p] : p \in Peers(n)}
  BY DEF RequestVotes
<1>2. IsFiniteSet(Peers(n))
  BY NodeFields, FS_Subset DEF Peers
<1>3. \A p \in Peers(n) : Proper(f[p], n.id, c)
  BY DEF Proper, Peers
<1>4. DOMAIN f = Peers(n)
  OBVIOUS
<1> HIDE DEF f
<1> QED BY <1>1, <1>2, <1>3, <1>4, ImageFinite

LEMMA PreVotesProper ==
    ASSUME IsFiniteSet(Server), NEW n \in NodeRecord, NEW c,
           n.current_term + 1 < c.bound
    PROVE  /\ IsFiniteSet(PreVotes(n))
           /\ \A s \in PreVotes(n) : Proper(s, n.id, c)
<1> DEFINE f == [p \in Peers(n) |->
        [kind |-> "PreVote", from |-> n.id, to |-> p, term |-> n.current_term + 1,
         last_log_index |-> LastIndex(n.log), last_log_term |-> LastTerm(n.log)]]
<1>1. PreVotes(n) = {f[p] : p \in Peers(n)}
  BY DEF PreVotes
<1>2. IsFiniteSet(Peers(n))
  BY NodeFields, FS_Subset DEF Peers
<1>3. \A p \in Peers(n) : Proper(f[p], n.id, c)
  BY DEF Proper
<1>4. DOMAIN f = Peers(n)
  OBVIOUS
<1> HIDE DEF f
<1> QED BY <1>1, <1>2, <1>3, <1>4, ImageFinite

(* A campaign opens the next term, whatever the node was up to. *)
LEMMA StartElectionOrderly ==
    ASSUME IsFiniteSet(Server), NEW n \in NodeRecord, NEW force \in BOOLEAN, NEW c,
           c.since \in Nat, c.since <= n.current_term, n.sends = {},
           n.current_term + 1 < c.bound, force \/ c.asks \/ 1 >= Quorum(n)
    PROVE  Orderly(StartElection(n, force), c)
<1> DEFINE a == [n EXCEPT !.role = "Candidate", !.current_term = @ + 1,
                          !.voted_for = n.id, !.leader_id = None,
                          !.transfer_target = None, !.pre_voting = FALSE,
                          !.pre_votes = {}, !.progress = NoProgress,
                          !.votes = {n.id}, !.ripe = FALSE]
           d == PersistHardState(a)
<1>1. a \in NodeRecord
  BY CampaignTyped
<1>2. /\ a.id = n.id /\ a.role = "Candidate" /\ a.current_term = n.current_term + 1
      /\ a.voted_for = n.id /\ a.leader_id = None /\ a.transfer_target = None
      /\ ~ a.pre_voting /\ a.pre_votes = {} /\ a.ripe = FALSE /\ a.sends = {}
  BY NodeMarks, ZenonT(60) DEF Marks
<1> HIDE DEF a
<1>3. n.current_term \in Nat
  BY NodeFields
<1>4. Orderly(a, c)
  BY <1>2, <1>3, FS_EmptySet DEF Orderly
<1>5. d \in NodeRecord /\ Mute(a, d)
  BY <1>1, PersistHardStateTyped, PersistMute
<1> HIDE DEF d
<1>6. /\ Orderly(d, c) /\ d.role = "Candidate" /\ d.id = n.id
      /\ d.ripe = (c.clock /\ d.current_term <= c.since)
      /\ d.current_term < c.bound
  <2>1. Orderly(d, c)
    BY <1>4, <1>5, MuteOrderly
  <2>2. /\ d.role = "Candidate" /\ d.id = n.id /\ d.ripe = FALSE
        /\ d.current_term = n.current_term + 1
    BY <1>2, <1>5 DEF Mute
  <2>3. ~ (d.current_term <= c.since)
    BY <1>3, <2>2
  <2>4. d.ripe = (c.clock /\ d.current_term <= c.since)
    BY <2>2, <2>3, Zenon
  <2> QED BY <2>1, <2>2, <2>4 DEF Orderly
<1>7. Orderly(BecomeLeader(d), c)
  BY <1>5, <1>6, BecomeLeaderOrderly
<1>8. force \/ c.asks => Orderly(Send(d, RequestVotes(d, force)), c)
  BY <1>5, <1>6, RequestVotesProper, SendOrderly
<1> QED BY <1>7, <1>8 DEF StartElection, d, a

(* A probe is for the next term. *)
LEMMA StartPreVoteOrderly ==
    ASSUME IsFiniteSet(Server), NEW n \in NodeRecord, NEW c, Orderly(n, c),
           c.since \in Nat, n.sends = {}, n.current_term + 1 < c.bound,
           c.probes, n.id \in c.polled
    PROVE  Orderly(StartPreVote(n), c)
<1> DEFINE a == [n EXCEPT !.role = "Follower", !.leader_id = None,
                          !.pre_voting = TRUE, !.pre_votes = {n.id}]
<1>1. a \in NodeRecord
  BY DEF NodeRecord, Role
<1>2. /\ a.id = n.id /\ a.role = "Follower" /\ a.current_term = n.current_term
      /\ a.voted_for = n.voted_for /\ a.leader_id = None /\ a.pre_voting
      /\ a.pre_votes = {n.id} /\ a.sends = {} /\ a.voters = n.voters
  <2>1. Marks \cup {"voters"} \subseteq DOMAIN n
    BY DEF NodeRecord, Marks
  <2> QED BY <2>1 DEF Marks
<1> HIDE DEF a
<1>3. Orderly(a, c)
  BY <1>2, FS_EmptySet DEF Orderly
<1>4. 1 >= Quorum(n) => Orderly(StartElection(a, FALSE), c)
  <2>1. Quorum(a) = Quorum(n)
    BY <1>2 DEF Quorum
  <2>2. c.since <= a.current_term
    BY <1>3 DEF Orderly
  <2> QED BY <1>1, <1>2, <2>1, <2>2, StartElectionOrderly
<1>5. Orderly(Send(a, PreVotes(a)), c)
  BY <1>1, <1>2, <1>3, PreVotesProper, SendOrderly
<1> QED BY <1>4, <1>5 DEF StartPreVote, a

(* A probe is answered by one message. *)
LEMMA HandlePreVoteOrderly ==
    ASSUME NEW n \in NodeRecord, NEW c, Orderly(n, c), NEW m, NEW ripe \in BOOLEAN,
           CanGrantPreVote(n, m, ripe) => "PreVoteReply" \in c.grants
    PROVE  Orderly(HandlePreVote(n, m, ripe), c)
<1> DEFINE s == [kind |-> "PreVoteReply", from |-> n.id, to |-> m.from,
                 term |-> n.current_term, vote_granted |-> CanGrantPreVote(n, m, ripe)]
<1>1. Proper(s, n.id, c)
  BY DEF Proper, Orderly
<1>2. HandlePreVote(n, m, ripe) = Send(n, {s})
  BY DEF HandlePreVote, VoteReply
<1> HIDE DEF s
<1> QED BY <1>1, <1>2, SendOneOrderly

(* A majority of grants is what an election takes. *)
LEMMA HandlePreVoteReplyOrderly ==
    ASSUME IsFiniteSet(Server), NEW n \in NodeRecord, NEW c, Orderly(n, c),
           c.since \in Nat, n.sends = {}, NEW m \in Message, m.term < c.bound,
           m.vote_granted => m.from \in c.polled,
           \A grantors \in SUBSET c.polled :
                Cardinality(grantors) >= Quorum(n) => c.asks
    PROVE  Orderly(HandlePreVoteReply(n, m), c)
<1> DEFINE a == [n EXCEPT !.pre_votes = @ \cup {m.from}]
<1>1. m.from \in Server /\ m.term \in Nat
  BY MessageFields
<1>2. a \in NodeRecord
  BY <1>1 DEF NodeRecord
<1>3. /\ a.id = n.id /\ a.role = n.role /\ a.current_term = n.current_term
      /\ a.voted_for = n.voted_for /\ a.leader_id = n.leader_id /\ a.ripe = n.ripe
      /\ a.pre_voting = n.pre_voting /\ a.pre_votes = n.pre_votes \cup {m.from}
      /\ a.transfer_target = n.transfer_target /\ a.sends = n.sends
  BY NodeMarks DEF Marks
<1> HIDE DEF a
<1>4. m.from \in c.polled => Orderly(a, c)
  BY <1>3 DEF Orderly
<1>5. /\ m.from \in c.polled /\ n.pre_voting /\ Cardinality(a.pre_votes) >= Quorum(n)
      => Orderly(StartElection(a, FALSE), c)
  <2> SUFFICES ASSUME m.from \in c.polled, n.pre_voting,
                      Cardinality(a.pre_votes) >= Quorum(n)
               PROVE  Orderly(StartElection(a, FALSE), c)
    OBVIOUS
  <2>1. a.pre_votes \subseteq c.polled
    BY <1>4 DEF Orderly
  <2>2. c.asks
    BY <2>1
  <2>3. n.current_term + 1 < c.bound /\ c.since <= n.current_term
    BY DEF Orderly
  <2> QED BY <1>2, <1>3, <2>2, <2>3, StartElectionOrderly
<1>6. m.term > n.current_term => Orderly(BecomeFollower(n, m.term, None), c)
  BY <1>1, BecomeFollowerOrderly
<1> QED BY <1>4, <1>5, <1>6 DEF HandlePreVoteReply, a

(* One that leads or campaigns has voted for itself, and goes on to. *)
LEMMA HandleRequestVoteOrderly ==
    ASSUME NEW n \in NodeRecord, NEW c, Orderly(n, c), NEW m \in Message,
           CanGrantVote(n, m) => "RequestVoteReply" \in c.grants
    PROVE  Orderly(HandleRequestVote(n, m), c)
<1> DEFINE a == [n EXCEPT !.voted_for = m.from]
           s(granted) == [kind |-> "RequestVoteReply", from |-> n.id, to |-> m.from,
                          term |-> n.current_term, vote_granted |-> granted]
<1>1. a \in NodeRecord
  BY MessageFields DEF NodeRecord
<1>2. /\ a.id = n.id /\ a.role = n.role /\ a.current_term = n.current_term
      /\ a.voted_for = m.from /\ a.leader_id = n.leader_id /\ a.ripe = n.ripe
      /\ a.pre_voting = n.pre_voting /\ a.pre_votes = n.pre_votes
      /\ a.transfer_target = n.transfer_target /\ a.sends = n.sends
  BY NodeMarks DEF Marks
<1> HIDE DEF a
<1>3. CanGrantVote(n, m) => Orderly(a, c)
  <2>1. n.id # None
    BY NodeFields, NoneAssumption
  <2> QED BY <1>2, <2>1 DEF Orderly, CanGrantVote
<1>4. Proper(s(FALSE), n.id, c) /\ (CanGrantVote(n, m) => Proper(s(TRUE), n.id, c))
  BY DEF Proper, Orderly
<1>5. HandleRequestVote(n, m) = IF CanGrantVote(n, m)
                                THEN Send(PersistHardState(a), {s(TRUE)})
                                ELSE Send(n, {s(FALSE)})
  BY DEF HandleRequestVote, VoteReply, a
<1> HIDE DEF s
<1>6. PersistHardState(a) \in NodeRecord /\ Mute(a, PersistHardState(a))
  BY <1>1, PersistHardStateTyped, PersistMute
<1>7. CanGrantVote(n, m) => Orderly(Send(PersistHardState(a), {s(TRUE)}), c)
  <2> SUFFICES ASSUME CanGrantVote(n, m)
               PROVE  Orderly(Send(PersistHardState(a), {s(TRUE)}), c)
    OBVIOUS
  <2>1. Orderly(PersistHardState(a), c) /\ PersistHardState(a).id = n.id
    BY <1>2, <1>3, <1>6, MuteOrderly DEF Mute
  <2> QED BY <1>4, <1>6, <2>1, SendOneOrderly
<1>8. Orderly(Send(n, {s(FALSE)}), c)
  BY <1>4, SendOneOrderly
<1> QED BY <1>5, <1>7, <1>8

LEMMA HandleVoteReplyOrderly ==
    ASSUME IsFiniteSet(Server), NEW n \in NodeRecord, NEW c, Orderly(n, c),
           NEW m \in Message, NEW ripe \in BOOLEAN,
           n.role = "Candidate" => ripe = (c.clock /\ n.current_term <= c.since)
    PROVE  Orderly(HandleVoteReply(n, m, ripe), c)
<1> DEFINE a == [n EXCEPT !.votes = @ \cup {m.from}]
           b == [a EXCEPT !.ripe = ripe]
<1>1. a \in NodeRecord
  BY MessageFields DEF NodeRecord
<1>2. Mute(n, a)
  BY NodeMarks DEF Mute, Marks
<1> HIDE DEF a
<1>3. b \in NodeRecord
  BY <1>1 DEF NodeRecord
<1>4. /\ b.id = n.id /\ b.role = n.role /\ b.current_term = n.current_term
      /\ b.voted_for = n.voted_for /\ b.leader_id = n.leader_id /\ b.ripe = ripe
      /\ b.pre_voting = n.pre_voting /\ b.pre_votes = n.pre_votes
      /\ b.transfer_target = n.transfer_target /\ b.sends = n.sends
  BY <1>1, <1>2, NodeMarks DEF Mute, Marks
<1> HIDE DEF b
<1>5. Orderly(a, c)
  BY <1>2, MuteOrderly
<1>6. n.role = "Candidate" => Orderly(BecomeLeader(b), c)
  <2> SUFFICES ASSUME n.role = "Candidate" PROVE Orderly(BecomeLeader(b), c)
    OBVIOUS
  <2>1. Orderly(b, c)
    BY <1>4 DEF Orderly
  <2> QED BY <1>3, <1>4, <2>1, BecomeLeaderOrderly
<1> QED BY <1>5, <1>6 DEF HandleVoteReply, a, b

LEMMA HandleTimeoutNowOrderly ==
    ASSUME IsFiniteSet(Server), NEW n \in NodeRecord, NEW c, Orderly(n, c), NEW m,
           c.since \in Nat, n.sends = {},
           ~ (m.term < n.current_term) => n.current_term + 1 < c.bound
    PROVE  Orderly(HandleTimeoutNow(n, m), c)
<1>1. ~ (m.term < n.current_term) => Orderly(StartElection(n, TRUE), c)
  BY StartElectionOrderly DEF Orderly
<1> QED BY <1>1 DEF HandleTimeoutNow

-----------------------------------------------------------------------------
(* Messages of a leader. *)

(* A node that takes the sender of m for its leader. *)
Obeys(n, m, after) ==
    /\ after.role = "Follower" /\ after.leader_id = m.from /\ ~ after.pre_voting
    /\ after.current_term = n.current_term

LEMMA AcceptLeaderOrderly ==
    ASSUME NEW n \in NodeRecord, NEW c, Orderly(n, c), NEW m, m.from \in c.known
    PROVE  Orderly(AcceptLeader(n, m), c)
<1> DEFINE a == AcceptLeader(n, m)
<1>1. /\ a.id = n.id /\ a.role = "Follower" /\ a.current_term = n.current_term
      /\ a.voted_for = n.voted_for /\ a.leader_id = m.from
      /\ ~ a.pre_voting /\ a.pre_votes = n.pre_votes
      /\ a.transfer_target = n.transfer_target /\ a.sends = n.sends
  BY NodeMarks DEF AcceptLeader, Marks
<1> HIDE DEF a
<1>2. Orderly(a, c)
  BY <1>1 DEF Orderly
<1> QED BY <1>2 DEF a

LEMMA AcceptLeaderObeys ==
    ASSUME NEW n \in NodeRecord, NEW m
    PROVE  /\ Obeys(n, m, AcceptLeader(n, m))
           /\ AcceptLeader(n, m).id = n.id /\ AcceptLeader(n, m).sends = n.sends
BY NodeMarks DEF AcceptLeader, Marks, Obeys

LEMMA SendObeys ==
    ASSUME NEW n, NEW m, NEW a \in NodeRecord, Obeys(n, m, a), NEW messages
    PROVE  Obeys(n, m, Send(a, messages))
BY NodeMarks DEF Send, Marks, Obeys

(* The four ways out of handle_append_entries. *)
LEMMA HandleAppendEntriesOrderly ==
    ASSUME NEW n \in NodeRecord, NEW c, Orderly(n, c), NEW m \in Message,
           m.kind = "AppendEntries", m.term >= n.current_term => m.from \in c.known
    PROVE  /\ Orderly(HandleAppendEntries(n, m), c)
           /\ m.term >= n.current_term => Obeys(n, m, HandleAppendEntries(n, m))
<1> DEFINE base  == n.log.base_index
           match == m.prev_log_index + Len(m.entries)
           ours  == AcceptLeader(n, m)
<1>1. /\ base \in Nat /\ match \in Nat /\ m.term \in Nat /\ n.current_term \in Nat
  BY NodeFields, LogFields, AppendEntriesFields, MessageFields
<1>2. ours \in NodeRecord /\ Obeys(n, m, ours) /\ ours.id = n.id
      /\ (m.from \in c.known => Orderly(ours, c))
  BY AcceptLeaderTyped, AcceptLeaderObeys, AcceptLeaderOrderly
<1> HIDE DEF match, ours
<1>3. ASSUME NEW a \in NodeRecord, a.id = n.id, Orderly(a, c),
             NEW success, NEW index, NEW ci, NEW ct
      PROVE  Orderly(Send(a, AppendReply(n, m, success, index, ci, ct)), c)
  <2> DEFINE s == [kind |-> "AppendEntriesReply", from |-> n.id, to |-> m.from,
                   term |-> n.current_term, success |-> success,
                   match_index |-> index, conflict_index |-> ci, conflict_term |-> ct]
  <2>1. Proper(s, a.id, c)
    BY <1>3 DEF Proper, Orderly
  <2>2. AppendReply(n, m, success, index, ci, ct) = {s}
    BY DEF AppendReply
  <2> HIDE DEF s
  <2> QED BY <1>3, <2>1, <2>2, SendOneOrderly
<1>4. /\ AdoptCommit(ours, m, base) \in NodeRecord
      /\ Mute(ours, AdoptCommit(ours, m, base))
  BY <1>1, <1>2, AdoptCommitTyped, AdoptCommitMute
<1>5. /\ AdoptCommit(StoreEntries(ours, m), m, match) \in NodeRecord
      /\ Mute(ours, AdoptCommit(StoreEntries(ours, m), m, match))
  <2>1. StoreEntries(ours, m) \in NodeRecord /\ Mute(ours, StoreEntries(ours, m))
    BY <1>2, StoreEntriesTyped, StoreEntriesMute
  <2> DEFINE z == StoreEntries(ours, m)
  <2> HIDE DEF z
  <2>2. z \in NodeRecord => /\ AdoptCommit(z, m, match) \in NodeRecord
                            /\ Mute(z, AdoptCommit(z, m, match))
    BY <1>1, AdoptCommitTyped, AdoptCommitMute
  <2> QED BY <2>1, <2>2 DEF Mute, z
<1>6. ASSUME NEW a \in NodeRecord, Mute(ours, a), NEW messages
      PROVE  /\ Obeys(n, m, Send(a, messages)) /\ a.id = n.id
             /\ m.from \in c.known => Orderly(a, c)
  <2>1. Obeys(n, m, a)
    BY <1>2, <1>6 DEF Obeys, Mute
  <2> QED BY <1>2, <1>6, <2>1, SendObeys, MuteOrderly DEF Mute
<1>7. Mute(ours, ours)
  BY DEF Mute
<1>8. CASE m.term < n.current_term
  <2>1. HandleAppendEntries(n, m) = Send(n, AppendReply(n, m, FALSE, 0, 0, 0))
    BY <1>8 DEF HandleAppendEntries
  <2>2. Orderly(HandleAppendEntries(n, m), c)
    BY <1>3, <2>1
  <2> QED BY <1>1, <1>8, <2>2
<1>9. CASE ~ (m.term < n.current_term)
  <2>1. m.from \in c.known
    BY <1>1, <1>9
  <2>2. \E p, q : ConflictReply(n, m) = AppendReply(n, m, FALSE, 0, p, q)
    <3>1. ConflictReply(n, m) \in
            {AppendReply(n, m, FALSE, 0, LastIndex(n.log) + 1, 0),
             AppendReply(n, m, FALSE, 0,
                         FirstIndexOfTerm(n.log, TermAt(n.log, m.prev_log_index),
                                          m.prev_log_index),
                         TermAt(n.log, m.prev_log_index))}
      BY DEF ConflictReply
    <3> QED BY <3>1, Zenon
  <2>3. \E a \in {ours, AdoptCommit(ours, m, base),
                  AdoptCommit(StoreEntries(ours, m), m, match)} :
           \E success, index, ci, ct :
               HandleAppendEntries(n, m)
                    = Send(a, AppendReply(n, m, success, index, ci, ct))
    <3>1. CASE m.prev_log_index < base
      <4>1. HandleAppendEntries(n, m) = Send(AdoptCommit(ours, m, base),
                                             AppendReply(n, m, TRUE, base, 0, 0))
        BY <1>9, <3>1 DEF HandleAppendEntries, ours
      <4> QED BY <4>1
    <3>2. CASE ~ (m.prev_log_index < base) /\ ~ PrevOk(n, m)
      <4>1. HandleAppendEntries(n, m) = Send(ours, ConflictReply(n, m))
        BY <1>9, <3>2 DEF HandleAppendEntries, ours
      <4> QED BY <2>2, <4>1
    <3>3. CASE ~ (m.prev_log_index < base) /\ PrevOk(n, m)
      <4>1. HandleAppendEntries(n, m) =
                Send(AdoptCommit(StoreEntries(ours, m), m, match),
                     AppendReply(n, m, TRUE, match, 0, 0))
        BY <1>9, <3>3 DEF HandleAppendEntries, ours, match
      <4> QED BY <4>1
    <3> QED BY <3>1, <3>2, <3>3
  <2>4. PICK a \in {ours, AdoptCommit(ours, m, base),
                    AdoptCommit(StoreEntries(ours, m), m, match)} :
           \E success, index, ci, ct :
               HandleAppendEntries(n, m)
                    = Send(a, AppendReply(n, m, success, index, ci, ct))
    BY <2>3
  <2>5. PICK success, index, ci, ct :
               HandleAppendEntries(n, m)
                    = Send(a, AppendReply(n, m, success, index, ci, ct))
    BY <2>4
  <2>6. a \in NodeRecord /\ Mute(ours, a)
    BY <1>2, <1>4, <1>5, <1>7
  <2>7. Orderly(a, c) /\ a.id = n.id
    BY <1>6, <2>1, <2>6
  <2>8. Orderly(HandleAppendEntries(n, m), c)
    BY <1>3, <2>5, <2>6, <2>7
  <2>9. Obeys(n, m, HandleAppendEntries(n, m))
    BY <1>6, <2>5, <2>6
  <2> QED BY <2>8, <2>9
<1> QED BY <1>8, <1>9

(* A snapshot is installed, or not, and answered. *)
LEMMA HandleInstallSnapshotOrderly ==
    ASSUME NEW n \in NodeRecord, NEW c, Orderly(n, c), NEW m \in Message,
           m.kind = "InstallSnapshot", m.term >= n.current_term => m.from \in c.known
    PROVE  /\ Orderly(HandleInstallSnapshot(n, m), c)
           /\ m.term >= n.current_term => Obeys(n, m, HandleInstallSnapshot(n, m))
<1> DEFINE snap == m.snapshot
           ours == AcceptLeader(n, m)
           put  == [ours EXCEPT
                        !.base_config = IF snap.config = {} THEN @ ELSE snap.config,
                        !.log = ApplySnapshot(n.log, snap),
                        !.commit_index = snap.index,
                        !.last_applied = snap.index,
                        !.snapshot_hinted_at = Larger(@, snap.index),
                        !.app = snap.data]
           after == IF snap.index > n.log.base_index /\ snap.index > n.commit_index
                    THEN RefreshConfig(Sync(put)) ELSE ours
           s(k) == [kind |-> "InstallSnapshotReply", from |-> n.id, to |-> m.from,
                    term |-> n.current_term, last_index |-> k]
           z == Larger(after.log.base_index, Smaller(snap.index, after.commit_index))
<1>1. /\ (m.term < n.current_term => HandleInstallSnapshot(n, m) = Send(n, {s(0)}))
      /\ (~ (m.term < n.current_term) =>
            HandleInstallSnapshot(n, m) = Send(after, {s(z)}))
  <2>1. CASE m.term < n.current_term
    BY <2>1, Zenon DEF HandleInstallSnapshot
  <2>2. CASE ~ (m.term < n.current_term)
    BY <2>2, Zenon DEF HandleInstallSnapshot
  <2> QED BY <2>1, <2>2
<1> HIDE DEF z
<1>2. ours \in NodeRecord /\ Obeys(n, m, ours) /\ ours.id = n.id
      /\ (m.from \in c.known => Orderly(ours, c))
  BY AcceptLeaderTyped, AcceptLeaderObeys, AcceptLeaderOrderly
<1> HIDE DEF ours
<1>3. put \in NodeRecord
  <2>1. /\ snap.index \in Nat /\ snap.config \in SUBSET Server
        /\ snap.data \in SUBSET Applied /\ snap \in Snapshot
    BY InstallSnapshotFields DEF Snapshot
  <2>2. ApplySnapshot(n.log, snap) \in Log
    BY <2>1, NodeFields, ApplySnapshotTyped
  <2>3. Larger(ours.snapshot_hinted_at, snap.index) \in Nat
    BY <1>2, <2>1, NodeFields, SmallerLarger
  <2> HIDE DEF snap
  <2> QED BY <1>2, <2>1, <2>2, <2>3, ZenonT(60) DEF NodeRecord
<1>4. Mute(ours, put)
  <2>1. Marks \subseteq DOMAIN ours
    BY <1>2, NodeMarks
  <2> HIDE DEF snap
  <2> QED BY <2>1, ZenonT(60) DEF Mute, Marks
<1> HIDE DEF put
<1>5. /\ RefreshConfig(Sync(put)) \in NodeRecord
      /\ Mute(ours, RefreshConfig(Sync(put)))
  <2>1. Sync(put) \in NodeRecord /\ Mute(put, Sync(put))
    BY <1>3, SyncTyped, SyncMute
  <2>2. RefreshConfig(Sync(put)) \in NodeRecord /\ Mute(Sync(put), RefreshConfig(Sync(put)))
    BY <2>1, RefreshConfigTyped, RefreshConfigMute
  <2> QED BY <1>4, <2>1, <2>2 DEF Mute
<1>6. after \in NodeRecord /\ Mute(ours, after)
  <2>1. Mute(ours, ours)
    BY DEF Mute
  <2> QED BY <1>2, <1>5, <2>1
<1> HIDE DEF after
<1>7. Obeys(n, m, after) /\ after.id = n.id /\ (m.from \in c.known => Orderly(after, c))
  <2>1. Obeys(n, m, after) /\ after.id = n.id
    BY <1>2, <1>6 DEF Obeys, Mute
  <2> QED BY <1>2, <1>6, <2>1, MuteOrderly
<1>8. \A k : Proper(s(k), n.id, c)
  BY DEF Proper, Orderly
<1> HIDE DEF s
<1>9. m.term \in Nat /\ n.current_term \in Nat
  BY MessageFields, NodeFields
<1>10. CASE m.term < n.current_term
  <2>1. Orderly(Send(n, {s(0)}), c)
    BY <1>8, SendOneOrderly
  <2> QED BY <1>1, <1>9, <1>10, <2>1
<1>11. CASE ~ (m.term < n.current_term)
  <2>1. Orderly(after, c)
    BY <1>7, <1>9, <1>11
  <2>2. Proper(s(z), after.id, c)
    BY <1>7, <1>8
  <2>3. Orderly(Send(after, {s(z)}), c)
    BY <1>6, <2>1, <2>2, SendOneOrderly
  <2>4. Obeys(n, m, Send(after, {s(z)}))
    BY <1>6, <1>7, SendObeys
  <2> QED BY <1>1, <1>11, <2>3, <2>4
<1> QED BY <1>10, <1>11

(* A restarted node waits for nothing and knows nobody. *)
LEMMA WithLogOrderly ==
    ASSUME NEW id \in Server, NEW log \in Log, NEW c,
           c.since <= log.hard.term, log.hard.term < c.bound
    PROVE  Orderly(WithLog(id, log), c)
<1> DEFINE r == WithLog(id, log)
<1>1. /\ r.id = id /\ r.role = "Follower" /\ r.current_term = log.hard.term
      /\ r.leader_id = None /\ r.pre_voting = FALSE /\ r.pre_votes = {}
      /\ r.transfer_target = None /\ r.sends = {}
  BY DEF WithLog
<1> HIDE DEF r
<1>2. Orderly(r, c)
  BY <1>1, FS_EmptySet DEF Orderly
<1> QED BY <1>2 DEF r

-----------------------------------------------------------------------------
(* Any step of a node. *)

(* A timer, a request, an application or a restart. *)
LEMMA AskedOrderly ==
    ASSUME IsFiniteSet(Server), NEW n \in NodeRecord, NEW c, Orderly(n, c),
           c.since \in Nat, n.sends = {}, n.current_term + 1 < c.bound, c.probes,
           n.id \in c.polled, NEW m, Asked(n, m),
           c.since <= m.current_term, m.current_term < c.bound
    PROVE  Orderly(m, c)
<1>1. CASE Waits(n) /\ m = TickTimeout(n)
  BY <1>1, StartPreVoteOrderly DEF TickTimeout
<1>2. CASE n.role = "Leader" /\ m = TickHeartbeat(n)
  BY <1>2, ReplicateOrderly DEF TickHeartbeat
<1>3. CASE \E v \in Value : n.role = "Leader" /\ m = Propose(n, v)
  BY <1>3, ProposeOrderly
<1>4. CASE /\ n.role = "Leader"
           /\ \E s \in Candidates, members \in SUBSET Server : m = ChangeMembership(n, members)
  BY <1>4, ChangeMembershipOrderly
<1>5. CASE \E s \in Server : m = TransferLeadership(n, s)
  BY <1>5, TransferLeadershipOrderly
<1>6. CASE \E index \in n.hints :
                m = [HandleSnapshotEvent(n, index) EXCEPT !.hints = @ \ {index}]
  <2>1. n.hints \subseteq Nat
    BY NodeFields
  <2> QED BY <1>6, <2>1, HandleSnapshotEventMute, MuteOrderly
<1>7. CASE m = WithLog(n.id, n.disk)
  <2>1. n.id \in Server /\ n.disk \in Log
    BY NodeFields
  <2>2. m.current_term = n.disk.hard.term
    BY <1>7, <2>1, WithLogFields
  <2> QED BY <1>7, <2>1, <2>2, WithLogOrderly
<1> QED BY <1>1, <1>2, <1>3, <1>4, <1>5, <1>6, <1>7 DEF Asked

(* What a handler makes of message r, with the clock read as ripe. *)
Replies(n, r, ripe, m) ==
    LET k == AdoptTerm(n, r.term)
    IN  \/ m = n
        \/ r.kind = "PreVote" /\ m = HandlePreVote(n, r, ripe)
        \/ r.kind = "PreVoteReply" /\ m = HandlePreVoteReply(n, r)
        \/ r.kind = "RequestVote" /\ m = HandleRequestVote(k, r)
        \/ r.kind = "RequestVoteReply" /\ m = HandleVoteReply(k, r, ripe)
        \/ r.kind = "AppendEntries" /\ m = HandleAppendEntries(k, r)
        \/ r.kind = "AppendEntriesReply" /\ m = HandleAppendReply(k, r)
        \/ r.kind = "InstallSnapshot" /\ m = HandleInstallSnapshot(k, r)
        \/ r.kind = "InstallSnapshotReply" /\ m = HandleInstallSnapshotReply(k, r)
        \/ r.kind = "TimeoutNow" /\ m = HandleTimeoutNow(k, r)

(* It acts on what the circumstances let it: the message, the clock, and    *)
(* how many grants make a quorum.                                           *)
LEMMA RepliesOrderly ==
    ASSUME IsFiniteSet(Server), NEW n \in NodeRecord, NEW c, Orderly(n, c),
           c.since = n.current_term, n.sends = {},
           NEW r \in Message, r.term < c.bound,
           NEW ripe \in BOOLEAN, NEW m, Replies(n, r, ripe, m),
           n.role # "Leader" => c.clock = ripe,
           r.kind = "TimeoutNow" => r.term + 1 < c.bound,
           r.kind \in {"AppendEntries", "InstallSnapshot"} /\ r.term >= n.current_term
                => r.from \in c.known,
           r.kind = "PreVoteReply" /\ r.vote_granted => r.from \in c.polled,
           r.kind = "PreVote" /\ CanGrantPreVote(n, r, ripe) => "PreVoteReply" \in c.grants,
           r.kind = "RequestVote" /\ m # n => "RequestVoteReply" \in c.grants,
           \A grantors \in SUBSET c.polled :
                Cardinality(grantors) >= Quorum(n) => c.asks
    PROVE  Orderly(m, c)
<1> DEFINE k == AdoptTerm(n, r.term)
<1>1. r.term \in Nat /\ n.current_term \in Nat /\ c.since \in Nat
  BY MessageFields, NodeFields
<1>2. /\ k \in NodeRecord /\ k.id = n.id /\ k.sends = {} /\ r.term <= k.current_term
      /\ Orderly(k, c)
      /\ \/ k = n
         \/ k.role = "Follower" /\ k.current_term = r.term /\ n.current_term < r.term
  BY <1>1, AdoptTermMarks, AdoptTermOrderly
<1> HIDE DEF k
<1>3. r.term >= k.current_term => r.term >= n.current_term
  BY <1>1, <1>2
<1>4. k.role = "Candidate" => ripe = (c.clock /\ k.current_term <= c.since)
  <2> SUFFICES ASSUME k.role = "Candidate"
               PROVE  ripe = (c.clock /\ k.current_term <= c.since)
    OBVIOUS
  <2>1. k = n /\ c.clock = ripe
    BY <1>2
  <2>2. k.current_term <= c.since
    BY <1>1, <2>1
  <2> QED BY <2>1, <2>2
<1>5. CASE m = n
  BY <1>5
<1>6. CASE r.kind = "PreVote" /\ m = HandlePreVote(n, r, ripe)
  BY <1>6, HandlePreVoteOrderly
<1>7. CASE r.kind = "PreVoteReply" /\ m = HandlePreVoteReply(n, r)
  BY <1>1, <1>7, HandlePreVoteReplyOrderly
<1>8. CASE r.kind = "RequestVote" /\ m = HandleRequestVote(k, r)
  BY <1>2, <1>5, <1>8, HandleRequestVoteOrderly
<1>9. CASE r.kind = "RequestVoteReply" /\ m = HandleVoteReply(k, r, ripe)
  BY <1>2, <1>4, <1>9, HandleVoteReplyOrderly
<1>10. CASE r.kind = "AppendEntries" /\ m = HandleAppendEntries(k, r)
  BY <1>2, <1>3, <1>10, HandleAppendEntriesOrderly
<1>11. CASE r.kind = "AppendEntriesReply" /\ m = HandleAppendReply(k, r)
  BY <1>2, <1>11, HandleAppendReplyOrderly
<1>12. CASE r.kind = "InstallSnapshot" /\ m = HandleInstallSnapshot(k, r)
  BY <1>2, <1>3, <1>12, HandleInstallSnapshotOrderly
<1>13. CASE r.kind = "InstallSnapshotReply" /\ m = HandleInstallSnapshotReply(k, r)
  BY <1>2, <1>13, HandleInstallSnapshotReplyOrderly
<1>14. CASE r.kind = "TimeoutNow" /\ m = HandleTimeoutNow(k, r)
  <2>1. k.current_term \in Nat
    BY <1>2, NodeFields
  <2>2. ~ (r.term < k.current_term) => k.current_term + 1 < c.bound
    <3>1. ~ (r.term < k.current_term) => k.current_term = r.term
      BY <1>1, <1>2, <2>1
    <3> QED BY <1>14, <3>1
  <2> QED BY <1>1, <1>2, <1>14, <2>2, HandleTimeoutNowOrderly
<1> QED BY <1>5, <1>6, <1>7, <1>8, <1>9, <1>10, <1>11, <1>12, <1>13, <1>14
        DEF Replies, k

-----------------------------------------------------------------------------
(* Nobody campaigns without a pre-vote majority. *)

(* What a node of a cluster goes by: every clock may have run, and a        *)
(* majority of grants lets it ask for votes.                                *)
Polled(i) == {i} \cup Grantors(i)

Holds(i, bound, clock) ==
    [bound  |-> bound, since |-> node[i].current_term, clock |-> clock,
     polled |-> Polled(i), known |-> Server, probes |-> TRUE,
     asks   |-> 2 * Cardinality(Polled(i)) > Cardinality(InitialVoters),
     grants |-> {"PreVoteReply", "RequestVoteReply"}]

PollInv ==
    /\ LawfulInv
    /\ PreVoteBeforeElection
    /\ \A i \in Server :
            Orderly(node[i], Holds(i, node[i].current_term + 2, node[i].ripe))

(* What was granted stays granted. *)
LEMMA WireGrows ==
    ASSUME Redeliver, [Next]_vars
    PROVE  wire \subseteq wire'
<1>1. ASSUME NEW i, NEW m, NEW consumed, Become(i, m, consumed)
      PROVE  wire \subseteq wire'
  BY <1>1 DEF Become
<1>2. CASE UNCHANGED vars
  BY <1>2 DEF vars
<1>3. ASSUME NEW i \in Server
      PROVE  /\ ElectionTimeout(i) => wire \subseteq wire'
             /\ Heartbeat(i) => wire \subseteq wire'
             /\ \A v \in Value : ClientPropose(i, v) => wire \subseteq wire'
             /\ \A s \in Candidates : AddServer(i, s) => wire \subseteq wire'
             /\ \A s \in Candidates : RemoveServer(i, s) => wire \subseteq wire'
             /\ \A s \in Targets : Transfer(i, s) => wire \subseteq wire'
             /\ SnapshotEvent(i) => wire \subseteq wire'
             /\ Crash(i) => wire \subseteq wire'
  BY <1>1 DEF ElectionTimeout, Heartbeat, ClientPropose, AddServer, RemoveServer,
              Transfer, SnapshotEvent, Crash, Recover, Local
<1>4. ASSUME NEW m \in wire
      PROVE  /\ ReceivePreVote(m) => wire \subseteq wire'
             /\ ReceivePreVoteReply(m) => wire \subseteq wire'
             /\ DropRequestVote(m) => wire \subseteq wire'
             /\ ReceiveRequestVote(m) => wire \subseteq wire'
             /\ ReceiveVoteReply(m) => wire \subseteq wire'
             /\ ReceiveTimeoutNow(m) => wire \subseteq wire'
  BY <1>1 DEF ReceivePreVote, ReceivePreVoteReply, DropRequestVote, ReceiveRequestVote,
              ReceiveVoteReply, ReceiveTimeoutNow, Receive
<1>5. ASSUME NEW m \in wire
      PROVE  /\ ReceiveAppendEntries(m) => wire \subseteq wire'
             /\ ReceiveAppendReply(m) => wire \subseteq wire'
             /\ ReceiveInstallSnapshot(m) => wire \subseteq wire'
             /\ ReceiveInstallSnapshotReply(m) => wire \subseteq wire'
             /\ Lose(m) => wire \subseteq wire'
             /\ CrashHandling(m) => wire \subseteq wire'
  BY <1>1 DEF ReceiveAppendEntries, ReceiveAppendReply, ReceiveInstallSnapshot,
              ReceiveInstallSnapshotReply, Lose, CrashHandling, Recover, Receive
<1> QED BY <1>2, <1>3, <1>4, <1>5 DEF Next

(* A majority of a node's voters is a majority of those that stay. *)
LEMMA GrantsSuffice ==
    ASSUME IsFiniteSet(Server), InitialVoters \cap Candidates = {},
           NEW n \in NodeRecord, Lawful(n),
           NEW polled \in SUBSET Server, NEW grantors \in SUBSET polled,
           Cardinality(grantors) >= Quorum(n)
    PROVE  2 * Cardinality(polled) > Cardinality(InitialVoters)
<1>1. n.voters \in Configs
  BY NodeFields, LogFields, ConfigIsLawful DEF Lawful, LawfulLog, Follows
<1>2. InitialVoters \subseteq n.voters /\ n.voters \subseteq Server
  BY <1>1 DEF Configs
<1>3. /\ IsFiniteSet(n.voters) /\ IsFiniteSet(polled)
  BY <1>2, FS_Subset
<1>4. /\ Cardinality(InitialVoters) <= Cardinality(n.voters)
      /\ Cardinality(grantors) <= Cardinality(polled)
      /\ Cardinality(n.voters) \in Nat /\ Cardinality(polled) \in Nat
      /\ Cardinality(InitialVoters) \in Nat /\ Cardinality(grantors) \in Nat
  BY <1>2, <1>3, FS_Subset, FS_CardinalityType
<1>5. 2 * (Cardinality(n.voters) \div 2 + 1) > Cardinality(n.voters)
  BY <1>4
<1> QED BY <1>4, <1>5 DEF Quorum

(* Between steps: what was sent is gone, and the circumstances are new. *)
LEMMA SettledOrderly ==
    ASSUME NEW n, NEW c, Orderly(n, c), NEW k \in NodeRecord, NEW d,
           k.id = n.id, k.role = n.role, k.current_term = n.current_term,
           k.voted_for = n.voted_for, k.leader_id = n.leader_id,
           k.pre_voting = n.pre_voting, k.pre_votes = n.pre_votes, k.sends = {},
           d.since = k.current_term, d.bound = k.current_term + 2, d.clock = k.ripe,
           d.probes, c.polled \subseteq d.polled, c.known \subseteq d.known
    PROVE  Orderly(k, d)
<1>1. k.current_term \in Nat /\ k.ripe \in BOOLEAN
  BY NodeFields
<1>2. k.ripe = (d.clock /\ k.current_term <= d.since)
  BY <1>1
<1>3. /\ d.since <= k.current_term /\ k.current_term < d.bound
      /\ k.current_term + 1 < d.bound
  BY <1>1
<1> QED BY <1>2, <1>3, FS_EmptySet DEF Orderly

(* A later bound, and any clock for a node that does not lead. *)
LEMMA LaterOrderly ==
    ASSUME NEW n \in NodeRecord, NEW c, Orderly(n, c), n.sends = {}, NEW d,
           c.since = n.current_term, d.since = n.current_term,
           n.current_term + 1 < d.bound, d.bound \in Int, d.probes,
           c.polled \subseteq d.polled, c.known \subseteq d.known,
           n.role = "Leader" => d.clock = c.clock
    PROVE  Orderly(n, d)
<1>1. n.current_term \in Nat
  BY NodeFields
<1>2. /\ d.since <= n.current_term /\ n.current_term < d.bound
  BY <1>1
<1>3. n.role = "Leader" => n.ripe = (d.clock /\ n.current_term <= d.since)
  BY DEF Orderly
<1> QED BY <1>2, <1>3 DEF Orderly

(* A message a node sends in a step is proper; so are the circumstances.    *)
LEMMA TurnOrderly ==
    ASSUME PollInv, IsFiniteSet(Server), InitialVoters \cap Candidates = {},
           NEW i \in Server, NEW m, Turns(i, m)
    PROVE  \E bound \in Nat, clock \in BOOLEAN : Orderly(m, Holds(i, bound, clock))
<1> DEFINE n == node[i]
           t == n.current_term
<1>1. /\ LawfulInv /\ Orderly(n, Holds(i, t + 2, n.ripe))
  BY DEF PollInv
<1>2. /\ m \in NodeRecord /\ n \in NodeRecord /\ n.id = i /\ Lawful(n)
      /\ t <= m.current_term
  BY <1>1, TurnTyped
<1>3. n.sends = {} /\ wire \subseteq Message /\ Handled(n, m, wire)
  BY <1>1 DEF LawfulInv, Inv, TypeOK, Turns
<1>4. t \in Nat /\ m.current_term \in Nat /\ n.ripe \in BOOLEAN
  BY <1>2, NodeFields
<1>5. Polled(i) \subseteq Server
  BY <1>3, MessageFields DEF Polled, Grantors
<1>6. \A bound \in Nat, clock \in BOOLEAN :
        /\ Holds(i, bound, clock).since = t /\ Holds(i, bound, clock).bound = bound
        /\ Holds(i, bound, clock).clock = clock
        /\ Holds(i, bound, clock).polled = Polled(i)
        /\ Holds(i, bound, clock).known = Server
        /\ Holds(i, bound, clock).probes
        /\ Holds(i, bound, clock).asks =
                (2 * Cardinality(Polled(i)) > Cardinality(InitialVoters))
        /\ Holds(i, bound, clock).grants = {"PreVoteReply", "RequestVoteReply"}
  BY DEF Holds
<1>7. ASSUME NEW bound \in Nat, t + 2 <= bound, NEW clock \in BOOLEAN,
             n.role = "Leader" => clock = n.ripe
      PROVE  Orderly(n, Holds(i, bound, clock))
  <2> DEFINE c == Holds(i, t + 2, n.ripe)
             d == Holds(i, bound, clock)
  <2>1. /\ c.since = t /\ c.polled = Polled(i) /\ c.known = Server /\ c.clock = n.ripe
        /\ d.since = t /\ d.polled = Polled(i) /\ d.known = Server /\ d.clock = clock
        /\ d.bound = bound /\ d.probes /\ t + 1 < bound /\ bound \in Int
    BY <1>4, <1>6, <1>7
  <2>2. Orderly(n, c)
    BY <1>1
  <2> HIDE DEF c, d
  <2> QED BY <1>2, <1>3, <1>7, <2>1, <2>2, LaterOrderly DEF d
<1> DEFINE wide == t + m.current_term + 2
<1>8. wide \in Nat /\ t + 2 <= wide /\ t + 1 < wide /\ m.current_term < wide
  BY <1>4
<1>9. CASE Asked(n, m)
  <2>1. Orderly(n, Holds(i, wide, n.ripe))
    BY <1>4, <1>7, <1>8
  <2>2. /\ Holds(i, wide, n.ripe).since = t /\ Holds(i, wide, n.ripe).bound = wide
        /\ Holds(i, wide, n.ripe).probes /\ n.id \in Holds(i, wide, n.ripe).polled
    BY <1>2, <1>4, <1>6, <1>8 DEF Polled
  <2> HIDE DEF n, t, wide
  <2>3. Orderly(m, Holds(i, wide, n.ripe))
    BY <1>2, <1>3, <1>4, <1>8, <1>9, <2>1, <2>2, AskedOrderly DEF t
  <2> QED BY <1>4, <1>8, <2>3
<1>10. CASE \E r \in wire : r.to = n.id /\ Answers(n, r, m)
  <2>1. PICK r \in wire : r.to = i /\ Answers(n, r, m)
    BY <1>2, <1>10
  <2>2. r \in Message /\ r.term \in Nat /\ r.from \in Server
    BY <1>3, MessageFields
  <2>3. \/ \E ripe \in BOOLEAN : Replies(n, r, ripe, m)
        \/ \E disk \in PartialWrites(n, r) : m = WithLog(n.id, disk)
    BY <2>1 DEF Answers, Replies
  <2> DEFINE far == t + r.term + 2
  <2>4. far \in Nat /\ t + 2 <= far /\ r.term < far /\ r.term + 1 < far
    BY <1>4, <2>2
  <2>5. ASSUME NEW ripe \in BOOLEAN, Replies(n, r, ripe, m)
        PROVE  \E clock \in BOOLEAN : Orderly(m, Holds(i, far, clock))
    <3> DEFINE clock == IF n.role = "Leader" THEN n.ripe ELSE ripe
               c == Holds(i, far, clock)
    <3>1. clock \in BOOLEAN
      BY <1>4
    <3>2. Orderly(n, c)
      BY <1>7, <2>4, <3>1
    <3>3. /\ c.since = t /\ c.bound = far /\ c.clock = clock /\ c.polled = Polled(i)
          /\ c.known = Server /\ c.grants = {"PreVoteReply", "RequestVoteReply"}
          /\ c.asks = (2 * Cardinality(Polled(i)) > Cardinality(InitialVoters))
      BY <1>6, <2>4, <3>1
    <3>4. r.kind = "PreVoteReply" /\ r.vote_granted => r.from \in c.polled
      BY <2>1, <3>3 DEF Polled, Grantors
    <3>5. ASSUME NEW grantors \in SUBSET c.polled, Cardinality(grantors) >= Quorum(n)
          PROVE  c.asks
      <4>1. grantors \in SUBSET Polled(i) /\ Polled(i) \in SUBSET Server
        BY <1>5, <3>3
      <4> HIDE DEF c, n
      <4>2. 2 * Cardinality(Polled(i)) > Cardinality(InitialVoters)
        BY <1>2, <3>5, <4>1, GrantsSuffice
      <4> QED BY <3>3, <4>2
    <3>6. n.role # "Leader" => c.clock = ripe
      BY <3>3
    <3> HIDE DEF n, t, far, clock, c
    <3>7. Orderly(m, c)
      BY <1>2, <1>3, <2>2, <2>4, <2>5, <3>2, <3>3, <3>4, <3>5, <3>6, RepliesOrderly
         DEF t
    <3> QED BY <3>1, <3>7 DEF c
  <2>6. ASSUME NEW disk \in PartialWrites(n, r), m = WithLog(n.id, disk)
        PROVE  Orderly(m, Holds(i, wide, n.ripe))
    <3>1. disk \in Log /\ n.id \in Server
      <4>1. n.id \in Server
        BY <1>2
      <4>2. Ready(n)
        BY <1>2, <1>3 DEF Ready, Lawful
      <4> HIDE DEF n
      <4> QED BY <2>2, <2>6, <4>1, <1>2, PartialWritesTyped
    <3>2. m.current_term = disk.hard.term
      BY <2>6, <3>1, WithLogFields
    <3>3. Holds(i, wide, n.ripe).since = t /\ Holds(i, wide, n.ripe).bound = wide
      BY <1>4, <1>6, <1>8
    <3> HIDE DEF n, t, wide
    <3> QED BY <1>2, <1>8, <2>6, <3>1, <3>2, <3>3, WithLogOrderly
  <2> HIDE DEF n, t, wide, far
  <2> QED BY <1>4, <1>8, <2>3, <2>4, <2>5, <2>6
<1> QED BY <1>3, <1>9, <1>10 DEF Handled
(* Every node as a step leaves it, in what it then goes by. *)
LEMMA InitHasPolls == IsFiniteSet(Server) /\ Init => PollInv
<1> SUFFICES ASSUME Init PROVE PollInv
  OBVIOUS
<1>1. LawfulInv /\ wire = {}
  BY InitIsLawful DEF Init
<1>2. PreVoteBeforeElection
  BY <1>1 DEF PreVoteBeforeElection
<1>3. ASSUME NEW i \in Server
      PROVE  Orderly(node[i], Holds(i, node[i].current_term + 2, node[i].ripe))
  <2>1. node[i] = WithLog(i, EmptyLog) /\ EmptyLog \in Log
    BY EmptyLogTyped DEF Init
  <2>2. EmptyLog.hard.term = 0
    BY DEF EmptyLog
  <2>3. node[i].current_term = 0
    BY <2>1, <2>2, WithLogFields
  <2>4. /\ Holds(i, node[i].current_term + 2, node[i].ripe).since = 0
        /\ Holds(i, node[i].current_term + 2, node[i].ripe).bound = 2
    BY <2>3 DEF Holds
  <2> QED BY <2>1, <2>2, <2>4, WithLogOrderly
<1> QED BY <1>1, <1>2, <1>3 DEF PollInv

LEMMA PollsGrow ==
    ASSUME LawfulInv, LawfulInv', IsFiniteSet(Server), wire \subseteq wire',
           NEW i \in Server
    PROVE  /\ Polled(i) \subseteq Polled(i)'
           /\ Cardinality(Polled(i)) <= Cardinality(Polled(i)')
           /\ Cardinality(Polled(i)) \in Nat /\ Cardinality(Polled(i)') \in Nat
<1>1. wire \subseteq Message /\ wire' \subseteq Message
  BY DEF LawfulInv, Inv, TypeOK
<1>2. Polled(i) \subseteq Polled(i)'
  BY DEF Polled, Grantors
<1>3. Polled(i)' \subseteq Server
  BY <1>1, MessageFields DEF Polled, Grantors
<1> DEFINE old == Polled(i)
           new == Polled(i)'
<1>4. old \subseteq new /\ new \subseteq Server
  BY <1>2, <1>3
<1> HIDE DEF old, new
<1>5. IsFiniteSet(new)
  BY <1>4, FS_Subset
<1>6. /\ Cardinality(old) <= Cardinality(new)
      /\ Cardinality(old) \in Nat /\ Cardinality(new) \in Nat
  BY <1>4, <1>5, FS_Subset, FS_CardinalityType
<1> QED BY <1>2, <1>6 DEF old, new

LEMMA NextKeepsPolls ==
    ASSUME PollInv, Redeliver, IsFiniteSet(Server), InitialVoters \cap Candidates = {},
           [Next]_vars
    PROVE  PollInv'
<1>1. LawfulInv /\ LawfulInv' /\ wire \subseteq wire'
  BY NextIsLawful, WireGrows DEF PollInv
<1>2. \A j \in Server :
        /\ Polled(j) \subseteq Polled(j)'
        /\ Cardinality(Polled(j)) <= Cardinality(Polled(j)')
        /\ Cardinality(Polled(j)) \in Nat /\ Cardinality(Polled(j)') \in Nat
  BY <1>1, PollsGrow
<1>3. Cardinality(InitialVoters) \in Nat
  BY ConfigAssumption, FS_Subset, FS_CardinalityType
<1>4. CASE UNCHANGED <<node, history>> /\ wire' \subseteq wire
  <2>1. node' = node /\ wire' = wire
    BY <1>1, <1>4
  <2> QED BY <1>1, <2>1
          DEF PollInv, PreVoteBeforeElection, Grantors, Holds, Polled, Orderly, Proper
<1>5. ASSUME NEW i \in Server, NEW m, Turns(i, m) PROVE PollInv'
  <2>1. /\ m \in NodeRecord /\ m.id = i /\ node[i] \in NodeRecord /\ node[i].id = i
        /\ \A j \in Server : j # i => node'[j] = node[j]
        /\ \A s \in wire' : s \in wire \/ s \in m.sends
    BY <1>1, <1>5, TurnTyped
  <2>2. PICK bound \in Nat, clock \in BOOLEAN : Orderly(m, Holds(i, bound, clock))
    BY <1>5, TurnOrderly
  <2>3. /\ Holds(i, bound, clock).polled = Polled(i)
        /\ Holds(i, bound, clock).known = Server
        /\ Holds(i, bound, clock).asks =
                (2 * Cardinality(Polled(i)) > Cardinality(InitialVoters))
    BY DEF Holds
  <2> DEFINE k == [m EXCEPT !.sends = {}]
  <2>4. TypeOK /\ TypeOK'
    BY <1>1 DEF LawfulInv, Inv
  <2>5. /\ node'[i] = k /\ k \in NodeRecord /\ k.id = m.id /\ k.role = m.role
        /\ k.current_term = m.current_term /\ k.voted_for = m.voted_for
    BY <1>5, <2>4, AfterTurn
  <2>6. /\ k.leader_id = m.leader_id /\ k.pre_voting = m.pre_voting
        /\ k.pre_votes = m.pre_votes /\ k.sends = {}
    BY <2>1, NodeMarks DEF Marks
  <2> DEFINE d(j) ==
        [bound  |-> node'[j].current_term + 2, since |-> node'[j].current_term,
         clock  |-> node'[j].ripe, polled |-> Polled(j)', known |-> Server,
         probes |-> TRUE,
         asks   |-> 2 * Cardinality(Polled(j)') > Cardinality(InitialVoters),
         grants |-> {"PreVoteReply", "RequestVoteReply"}]
  <2>7. \A j \in Server :
        /\ d(j).since = node'[j].current_term /\ d(j).bound = node'[j].current_term + 2
        /\ d(j).clock = node'[j].ripe /\ d(j).probes
        /\ d(j).polled = Polled(j)' /\ d(j).known = Server
    OBVIOUS
  <2> HIDE DEF k
  <2>8. Orderly(node'[i], d(i))
    <3> DEFINE c == Holds(i, bound, clock)
               e == d(i)
    <3>1. /\ e.since = k.current_term /\ e.bound = k.current_term + 2
          /\ e.clock = k.ripe /\ e.probes
          /\ c.polled \subseteq e.polled /\ c.known \subseteq e.known
      BY <1>2, <2>3, <2>5, <2>7
    <3>2. Orderly(m, c)
      BY <2>2
    <3> HIDE DEF c, e
    <3>3. Orderly(k, e)
      BY <2>5, <2>6, <3>1, <3>2, SettledOrderly
    <3> QED BY <2>5, <3>3 DEF e
  <2>9. ASSUME NEW j \in Server, j # i PROVE Orderly(node'[j], d(j))
    <3> DEFINE c == Holds(j, node[j].current_term + 2, node[j].ripe)
               e == d(j)
               n == node[j]
    <3>1. /\ n \in NodeRecord /\ n.sends = {} /\ node'[j] = n
      BY <2>1, <2>4, <2>9 DEF TypeOK
    <3>2. /\ e.since = n.current_term /\ e.bound = n.current_term + 2
          /\ e.clock = n.ripe /\ e.probes
      BY <2>7, <3>1
    <3>3. c.polled \subseteq e.polled /\ c.known \subseteq e.known
      BY <1>2, <2>7 DEF Holds
    <3>4. Orderly(n, c)
      BY DEF PollInv
    <3> HIDE DEF c, e, n
    <3>5. Orderly(n, e)
      BY <3>1, <3>2, <3>3, <3>4, SettledOrderly
    <3> QED BY <3>1, <3>5 DEF e
  <2>10. \A j \in Server : Orderly(node'[j], d(j))
    BY <2>8, <2>9
  <2>11. \A j \in Server :
            (Orderly(node[j], Holds(j, node[j].current_term + 2, node[j].ripe)))'
    BY <2>10 DEF Holds
  <2>12. ASSUME NEW s \in wire', s.kind = "RequestVote", ~ s.force
         PROVE  2 * Cardinality(Polled(s.from)') > Cardinality(InitialVoters)
    <3>1. s.from \in Server
      BY <2>4, MessageFields DEF TypeOK
    <3>2. 2 * Cardinality(Polled(s.from)) > Cardinality(InitialVoters)
      <4>1. CASE s \in wire
        BY <2>12, <4>1 DEF PollInv, PreVoteBeforeElection, Polled
      <4>2. CASE s \in m.sends
        BY <2>1, <2>2, <2>3, <2>12, <4>2 DEF Orderly, Proper
      <4> QED BY <2>1, <4>1, <4>2
    <3> QED BY <1>2, <1>3, <3>1, <3>2
  <2>13. PreVoteBeforeElection'
    BY <2>12 DEF PreVoteBeforeElection, Polled
  <2> QED BY <1>1, <2>11, <2>13 DEF PollInv
<1>6. Moves
  BY <1>1, NextMoves DEF LawfulInv
<1> QED BY <1>4, <1>5, <1>6 DEF Moves

(* Only a node with pre-votes from a majority of the founding voters, its   *)
(* own included, sends a RequestVote that is not forced: handle_timeout     *)
(* never calls start_election for a node that has peers, and stale replies  *)
(* are kept out by the term and the pre_voting flag.  Whoever is added      *)
(* later only raises the quorum.                                            *)
THEOREM PreVotesFirst ==
    ASSUME Redeliver, IsFiniteSet(Server), InitialVoters \cap Candidates = {}
    PROVE  Spec => []PreVoteBeforeElection
<1>1. Init => PollInv
  BY InitHasPolls
<1>2. PollInv /\ [Next]_vars => PollInv'
  BY NextKeepsPolls
<1>3. PollInv => PreVoteBeforeElection
  BY DEF PollInv
<1> QED BY <1>1, <1>2, <1>3, PTL DEF Spec

=============================================================================
