------------------------------ MODULE RaftVotes ------------------------------
(***************************************************************************)
(* Every reachable state is well typed, and a server votes once a term:    *)
(* the proofs, function by function and then action by action.             *)
(***************************************************************************)
EXTENDS RaftProperties, RaftLogTheorems

-----------------------------------------------------------------------------
(* Terms. *)

(* A term is found within the span of the log, and only there.              *)
LEMMA TermTyped ==
    ASSUME NEW log \in Log, NEW k \in Int
    PROVE  /\ TermAt(log, k) \in Nat \cup {NoTerm}
           /\ k \in Span(log) => TermAt(log, k) \in Nat
           /\ TermAt(log, k) \in Nat => k \in Span(log)
BY LogFields, EntryTyped, EntryFields DEF TermAt, Span, HasEntry, NoTerm

-----------------------------------------------------------------------------
(* Messages. *)

(* What every message carries. *)
LEMMA MessageFields ==
    ASSUME NEW m \in Message
    PROVE  m.from \in Server /\ m.to \in Server /\ m.term \in Nat
BY DEF Message, PreVote, PreVoteReply, RequestVote, RequestVoteReply,
        AppendEntries, AppendEntriesReply, InstallSnapshot, InstallSnapshotReply,
        TimeoutNow

(* What a message of each kind carries beyond that. *)
LEMMA AppendEntriesFields ==
    ASSUME NEW m \in Message, m.kind = "AppendEntries"
    PROVE  /\ m.prev_log_index \in Nat /\ m.prev_log_term \in Nat
           /\ m.entries \in Seq(LogEntry) /\ Len(m.entries) \in Nat
           /\ m.leader_commit \in Nat
<1>1. /\ m.prev_log_index \in Nat /\ m.prev_log_term \in Nat
      /\ m.entries \in Seq(LogEntry) /\ m.leader_commit \in Nat
  BY DEF Message, PreVote, PreVoteReply, RequestVote, RequestVoteReply,
        AppendEntries, AppendEntriesReply, InstallSnapshot, InstallSnapshotReply,
        TimeoutNow
<1> QED BY <1>1, LenProperties

(* The indices of an acknowledgement or a rejection. *)
LEMMA AppendReplyFields ==
    ASSUME NEW m \in Message, m.kind = "AppendEntriesReply"
    PROVE  m.match_index \in Nat /\ m.conflict_index \in Nat /\ m.conflict_term \in Nat
BY DEF Message, PreVote, PreVoteReply, RequestVote, RequestVoteReply,
        AppendEntries, AppendEntriesReply, InstallSnapshot, InstallSnapshotReply,
        TimeoutNow

(* The snapshot of an InstallSnapshot. *)
LEMMA InstallSnapshotFields ==
    ASSUME NEW m \in Message, m.kind = "InstallSnapshot"
    PROVE  m.snapshot \in Snapshot
BY DEF Message, PreVote, PreVoteReply, RequestVote, RequestVoteReply,
        AppendEntries, AppendEntriesReply, InstallSnapshot, InstallSnapshotReply,
        TimeoutNow

(* The index a follower says it agrees up to. *)
LEMMA InstallSnapshotReplyFields ==
    ASSUME NEW m \in Message, m.kind = "InstallSnapshotReply"
    PROVE  m.last_index \in Nat
BY DEF Message, PreVote, PreVoteReply, RequestVote, RequestVoteReply,
        AppendEntries, AppendEntriesReply, InstallSnapshot, InstallSnapshotReply,
        TimeoutNow

-----------------------------------------------------------------------------
(* Construction, configuration and durable state. *)

(* What a node holds. *)
LEMMA NodeFields ==
    ASSUME NEW n \in NodeRecord
    PROVE  /\ n.id \in Server /\ n.voters \subseteq Server
           /\ n.base_config \subseteq Server /\ n.config_index \in Nat
           /\ n.log \in Log /\ n.disk \in Log /\ n.role \in Role
           /\ n.current_term \in Nat /\ n.voted_for \in Server \cup {None}
           /\ n.leader_id \in Server \cup {None}
           /\ n.commit_index \in Nat /\ n.last_applied \in Nat
           /\ n.ripe \in BOOLEAN /\ n.votes \subseteq Server
           /\ n.pre_votes \subseteq Server
           /\ n.progress \in [Server -> Progress \cup {None}]
           /\ n.snapshot_hinted_at \in Nat
           /\ n.transfer_target \in Server \cup {None}
           /\ n.sends \subseteq Message /\ n.app \subseteq Applied
           /\ n.hints \subseteq Nat
BY DEF NodeRecord

(* Recovery makes a node of any log. *)
LEMMA WithLogTyped ==
    ASSUME NEW id \in Server, NEW log \in Log
    PROVE  WithLog(id, log) \in NodeRecord
<1> DEFINE base == IF HasSnapshot(log) /\ log.snapshot_config # {}
                   THEN log.snapshot_config ELSE InitialVoters \cup {id}
<1>1. base \in SUBSET Server
  BY LogFields, ConfigAssumption
<1> HIDE DEF base
<1>2. /\ ConfigAt(log, LastIndex(log), base) \in SUBSET Server
      /\ ConfigIndexAt(log, LastIndex(log)) \in Nat
  BY <1>1, LogFields, ConfigTyped
<1>3. log.hard.term \in Nat /\ log.hard.voted_for \in Server \cup {None}
  BY LogFields DEF HardState
<1> QED
  BY <1>1, <1>2, <1>3, LogFields DEF WithLog, NodeRecord, Role, NoProgress, base

(* Syncing copies the log. *)
LEMMA SyncTyped == ASSUME NEW n \in NodeRecord PROVE Sync(n) \in NodeRecord
BY DEF Sync, NodeRecord

(* Persisting writes the node's own term and vote. *)
LEMMA PersistHardStateTyped ==
    ASSUME NEW n \in NodeRecord PROVE PersistHardState(n) \in NodeRecord
<1>1. SetHardState(n.log, n.current_term, n.voted_for) \in Log
  BY NodeFields, SetHardStateTyped
<1>2. [n EXCEPT !.log = SetHardState(n.log, n.current_term, n.voted_for)] \in NodeRecord
  BY <1>1 DEF NodeRecord
<1> QED BY <1>2, SyncTyped DEF PersistHardState

(* Messages wait to be sent. *)
LEMMA SendTyped ==
    ASSUME NEW n \in NodeRecord, NEW messages \in SUBSET Message
    PROVE  Send(n, messages) \in NodeRecord
BY DEF Send, NodeRecord

(* The progress table is rebuilt for any set of voters. *)
LEMMA RebuildProgressTyped ==
    ASSUME NEW n \in NodeRecord PROVE RebuildProgress(n) \in NodeRecord
<1> DEFINE fresh == [next_index  |-> LastIndex(n.log) + 1,
                     match_index |-> 0, state |-> "Probe"]
           table == [p \in Server |-> IF p \notin Peers(n) THEN None
                                      ELSE IF p \in Tracked(n) THEN n.progress[p]
                                      ELSE fresh]
<1>1. fresh \in Progress
  BY NodeFields, LogFields DEF Progress
<1> HIDE DEF fresh
<1>2. table \in [Server -> Progress \cup {None}]
  BY <1>1, NodeFields
<1> HIDE DEF table
<1>3. [n EXCEPT !.progress = table] \in NodeRecord
  BY <1>2 DEF NodeRecord
<1> QED BY <1>3 DEF RebuildProgress, table, fresh

(* Any set of servers may be adopted as voters. *)
LEMMA SetConfigTyped ==
    ASSUME NEW n \in NodeRecord, NEW voters \in SUBSET Server, NEW index \in Nat
    PROVE  SetConfig(n, voters, index) \in NodeRecord
<1> DEFINE adopted == [n EXCEPT !.voters = voters, !.config_index = index]
<1>1. adopted \in NodeRecord
  BY DEF NodeRecord
<1> HIDE DEF adopted
<1> QED BY <1>1, RebuildProgressTyped DEF SetConfig, adopted

(* The configuration found in the log is such a set. *)
LEMMA RefreshConfigTyped ==
    ASSUME NEW n \in NodeRecord PROVE RefreshConfig(n) \in NodeRecord
<1>1. /\ ConfigAt(n.log, LastIndex(n.log), n.base_config) \in SUBSET Server
      /\ ConfigIndexAt(n.log, LastIndex(n.log)) \in Nat
  BY NodeFields, LogFields, ConfigTyped
<1> QED BY <1>1, SetConfigTyped DEF RefreshConfig

-----------------------------------------------------------------------------
(* Replication by the leader. *)

(* A tracked server has a progress entry. *)
LEMMA TrackedTyped ==
    ASSUME NEW n \in NodeRecord, NEW p \in Tracked(n)
    PROVE  /\ p \in Server /\ n.progress[p] \in Progress
           /\ n.progress[p].next_index \in Nat /\ n.progress[p].match_index \in Nat
<1>1. p \in Server /\ n.progress[p] \in Progress
  BY NodeFields DEF Tracked
<1> QED BY <1>1 DEF Progress

(* Above the boundary next - 1 does not underflow. *)
LEMMA AppendEntriesToTyped ==
    ASSUME NEW n \in NodeRecord, NEW p \in Tracked(n), ~ Compacted(n, p)
    PROVE  /\ AppendEntriesTo(n, p) \in Message
           /\ AppendEntriesTo(n, p).entries \in Seq(LogEntry)
<1> DEFINE next    == n.progress[p].next_index
           prev    == TermAt(n.log, next - 1)
           entries == EntriesOf(n.log, next, next + MaxBatch - 1)
<1>1. next \in Nat /\ next - 1 \in Nat /\ p \in Server
  BY TrackedTyped, NodeFields, LogFields DEF Compacted
<1>2. prev \in Nat \cup {NoTerm}
  BY <1>1, NodeFields, TermTyped
<1>3. entries \in Seq(LogEntry)
  <2>1. next + MaxBatch - 1 \in Int /\ n.log \in Log
    BY <1>1, NodeFields, ConfigAssumption
  <2> HIDE DEF next
  <2> QED BY <1>1, <2>1, EntriesOfTyped
<1>4. /\ AppendEntriesTo(n, p) =
            [kind |-> "AppendEntries", from |-> n.id, to |-> p,
             term |-> n.current_term, prev_log_index |-> next - 1,
             prev_log_term |-> IF prev = NoTerm THEN 0 ELSE prev,
             entries |-> entries, leader_commit |-> n.commit_index]
  BY DEF AppendEntriesTo
<1> HIDE DEF next, prev, entries
<1> QED BY <1>1, <1>2, <1>3, <1>4, NodeFields DEF Message, AppendEntries

(* A leader sends the snapshot it holds. *)
LEMMA InstallSnapshotToTyped ==
    ASSUME NEW n \in NodeRecord, NEW p \in Server
    PROVE  InstallSnapshotTo(n, p) \in Message
BY NodeFields, SnapshotOfTyped DEF InstallSnapshotTo, Message, InstallSnapshot

(* A batch moves next forward by its length, a snapshot leaves it. *)
LEMMA ProgressAfterSendTyped ==
    ASSUME NEW n \in NodeRecord, NEW p \in Tracked(n)
    PROVE  ProgressAfterSend(n, p) \in Progress
<1>1. n.progress[p] \in Progress
  BY TrackedTyped
<1>2. ~ Compacted(n, p) => Len(AppendEntriesTo(n, p).entries) \in Nat
  BY AppendEntriesToTyped, LenProperties
<1> QED BY <1>1, <1>2 DEF ProgressAfterSend, Progress

(* One message for each peer asked for, and its progress. *)
LEMMA SendAppendTyped ==
    ASSUME NEW n \in NodeRecord, NEW peers \in SUBSET Tracked(n)
    PROVE  SendAppend(n, peers) \in NodeRecord
<1> DEFINE new   == {IF Compacted(n, p) THEN InstallSnapshotTo(n, p)
                                        ELSE AppendEntriesTo(n, p) : p \in peers}
           table == [p \in Server |-> IF p \in peers THEN ProgressAfterSend(n, p)
                                                     ELSE n.progress[p]]
<1>1. new \in SUBSET Message
  BY AppendEntriesToTyped, InstallSnapshotToTyped, TrackedTyped
<1>2. table \in [Server -> Progress \cup {None}]
  BY NodeFields, ProgressAfterSendTyped
<1> HIDE DEF new, table
<1>3. [n EXCEPT !.sends = @ \cup new, !.progress = table] \in NodeRecord
  BY <1>1, <1>2 DEF NodeRecord
<1> QED BY <1>3 DEF SendAppend, new, table

(* Both rounds of replication only ask for tracked peers. *)
LEMMA ReplicateTyped ==
    ASSUME NEW n \in NodeRecord
    PROVE  /\ ReplicateToAll(n) \in NodeRecord
           /\ ReplicateToStreaming(n) \in NodeRecord
BY SendAppendTyped DEF ReplicateToAll, ReplicateToStreaming

-----------------------------------------------------------------------------
(* Commitment and application. *)

(* A hint is an index that has been applied. *)
LEMMA MaybeHintSnapshotTyped ==
    ASSUME NEW n \in NodeRecord PROVE MaybeHintSnapshot(n) \in NodeRecord
<1>1. [n EXCEPT !.snapshot_hinted_at = n.last_applied,
                !.hints = @ \cup {n.last_applied}] \in NodeRecord
  BY DEF NodeRecord
<1> QED BY <1>1 DEF MaybeHintSnapshot

(* What reaches the application are commands at their indices. *)
LEMMA DrainAppliesTyped ==
    ASSUME NEW n \in NodeRecord PROVE DrainApplies(n) \in NodeRecord
<1> DEFINE due == {k \in n.last_applied + 1 .. n.commit_index :
                     HasEntry(n.log, k) /\ EntryAt(n.log, k).kind = "Normal"}
           new == {[index |-> k, command |-> EntryAt(n.log, k).body] : k \in due}
           applied == Larger(n.last_applied, n.commit_index)
<1>1. new \in SUBSET Applied
  <2>1. ASSUME NEW k \in due
        PROVE  [index |-> k, command |-> EntryAt(n.log, k).body] \in Applied
    <3>1. k \in Nat /\ EntryAt(n.log, k).body \in Value
      BY NodeFields, EntryTyped, EntryFields
    <3> QED BY <3>1 DEF Applied
  <2> QED BY <2>1
<1>2. applied \in Nat
  BY NodeFields, SmallerLarger
<1> HIDE DEF new, applied
<1>3. [n EXCEPT !.last_applied = applied, !.app = @ \cup new] \in NodeRecord
  BY <1>1, <1>2 DEF NodeRecord
<1> QED BY <1>3, MaybeHintSnapshotTyped DEF DrainApplies, new, applied, due

(* Stepping down leaves a follower that tracks nobody. *)
LEMMA StepDownToFollowerTyped ==
    ASSUME NEW n \in NodeRecord PROVE StepDownToFollower(n) \in NodeRecord
BY DEF StepDownToFollower, NodeRecord, Role, NoProgress

(* A leader that stays one keeps its progress table.                        *)
LEMMA AdvanceCommitTyped ==
    ASSUME NEW n \in NodeRecord
    PROVE  /\ AdvanceCommit(n) \in NodeRecord
           /\ AdvanceCommit(n).role = "Leader" =>
                AdvanceCommit(n).progress = n.progress
<1>1. CASE Committable(n) = {}
  BY <1>1 DEF AdvanceCommit
<1>2. CASE Committable(n) # {}
  <2>1. /\ Committable(n) \subseteq Int
        /\ \A k \in Committable(n) : k <= LastIndex(n.log) /\ k \in Nat
    BY NodeFields, LogFields DEF Committable
  <2>2. Max(Committable(n)) \in Nat
    <3>1. LastIndex(n.log) \in Int
      BY NodeFields, LogFields
    <3>2. Max(Committable(n)) \in Committable(n)
      BY <1>2, <2>1, <3>1, MaxExists, Zenon
    <3> QED BY <2>1, <3>2
  <2> DEFINE m == [n EXCEPT !.commit_index = Max(Committable(n))]
             c == DrainApplies(m)
  <2>3. m \in NodeRecord /\ m.progress = n.progress
    BY <2>2 DEF NodeRecord
  <2> HIDE DEF m
  <2>4. c \in NodeRecord
    BY <2>3, DrainAppliesTyped
  <2>5. c.progress = m.progress
    BY <2>3 DEF DrainApplies, MaybeHintSnapshot, NodeRecord
  <2> HIDE DEF c
  <2>6. /\ StepDownToFollower(c) \in NodeRecord
        /\ StepDownToFollower(c).role = "Follower"
    <3>1. StepDownToFollower(c).role = "Follower"
      BY <2>4 DEF StepDownToFollower, NodeRecord
    <3> QED BY <2>4, <3>1, StepDownToFollowerTyped
  <2>7. AdvanceCommit(n) \in {c, StepDownToFollower(c)}
    BY <1>2 DEF AdvanceCommit, c, m
  <2> QED BY <2>3, <2>4, <2>5, <2>6, <2>7
<1> QED BY <1>1, <1>2

-----------------------------------------------------------------------------
(* Elections. *)

(* A later term is adopted without a vote, and persisted. *)
LEMMA BecomeFollowerTyped ==
    ASSUME NEW n \in NodeRecord, NEW term \in Nat, NEW leader \in Server \cup {None}
    PROVE  BecomeFollower(n, term, leader) \in NodeRecord
<1> DEFINE follower == [n EXCEPT !.role = "Follower", !.leader_id = leader,
                                 !.transfer_target = None, !.pre_voting = FALSE,
                                 !.pre_votes = {}, !.votes = {},
                                 !.progress = NoProgress, !.ripe = FALSE]
           later == [follower EXCEPT !.current_term = term, !.voted_for = None]
<1>1. follower \in NodeRecord
  BY DEF NodeRecord, Role, NoProgress
<1> HIDE DEF follower
<1>2. later \in NodeRecord
  BY <1>1 DEF NodeRecord
<1> HIDE DEF later
<1> QED BY <1>1, <1>2, PersistHardStateTyped DEF BecomeFollower, later, follower

(* The term of a message is one. *)
LEMMA AdoptTermTyped ==
    ASSUME NEW n \in NodeRecord, NEW term \in Nat
    PROVE  AdoptTerm(n, term) \in NodeRecord
BY BecomeFollowerTyped DEF AdoptTerm

(* A winner tracks its peers, replicates and counts. *)
LEMMA BecomeLeaderTyped ==
    ASSUME NEW n \in NodeRecord PROVE BecomeLeader(n) \in NodeRecord
<1> DEFINE winner == [n EXCEPT !.role = "Leader", !.leader_id = n.id,
                               !.transfer_target = None, !.pre_voting = FALSE,
                               !.pre_votes = {}]
<1>1. winner \in NodeRecord
  BY DEF NodeRecord, Role
<1> HIDE DEF winner
<1> QED BY <1>1, RebuildProgressTyped, ReplicateTyped, AdvanceCommitTyped
        DEF BecomeLeader, winner

(* A campaign sends vote requests. *)
LEMMA RequestVotesTyped ==
    ASSUME NEW n \in NodeRecord, NEW force \in BOOLEAN
    PROVE  RequestVotes(n, force) \in SUBSET Message
<1>1. ASSUME NEW p \in Server
      PROVE  [kind |-> "RequestVote", from |-> n.id, to |-> p, term |-> n.current_term,
              last_log_index |-> LastIndex(n.log), last_log_term |-> LastTerm(n.log),
              force |-> force] \in Message
  BY NodeFields, LogFields, LastTermTyped DEF Message, RequestVote
<1> QED BY <1>1, NodeFields DEF RequestVotes, Peers

(* A probe sends pre-vote requests for the next term. *)
LEMMA PreVotesTyped ==
    ASSUME NEW n \in NodeRecord PROVE PreVotes(n) \in SUBSET Message
<1>1. ASSUME NEW p \in Server
      PROVE  [kind |-> "PreVote", from |-> n.id, to |-> p, term |-> n.current_term + 1,
              last_log_index |-> LastIndex(n.log),
              last_log_term |-> LastTerm(n.log)] \in Message
  BY NodeFields, LogFields, LastTermTyped DEF Message, PreVote
<1> QED BY <1>1, NodeFields DEF PreVotes, Peers

(* A campaign opens the next term; a single voter wins it at once. *)
LEMMA CampaignTyped ==
    ASSUME NEW n \in NodeRecord
    PROVE  [n EXCEPT !.role = "Candidate", !.current_term = @ + 1,
                     !.voted_for = n.id, !.leader_id = None,
                     !.transfer_target = None, !.pre_voting = FALSE,
                     !.pre_votes = {}, !.progress = NoProgress,
                     !.votes = {n.id}, !.ripe = FALSE] \in NodeRecord
<1> DEFINE opening == [n EXCEPT !.role = "Candidate"]
           voting  == [opening EXCEPT !.current_term = @ + 1, !.voted_for = n.id]
<1>1. opening \in NodeRecord
  BY DEF NodeRecord, Role
<1> HIDE DEF opening
<1>2. voting \in NodeRecord
  <2>1. opening.current_term + 1 \in Nat /\ n.id \in Server \cup {None}
    BY <1>1, NodeFields
  <2>2. \A term \in Nat, id \in Server \cup {None} :
          [opening EXCEPT !.current_term = term, !.voted_for = id] \in NodeRecord
    BY <1>1 DEF NodeRecord
  <2> QED BY <2>1, <2>2
<1> HIDE DEF voting
<1>3. [voting EXCEPT !.leader_id = None, !.transfer_target = None,
                     !.pre_voting = FALSE, !.pre_votes = {},
                     !.progress = NoProgress, !.votes = {n.id},
                     !.ripe = FALSE] \in NodeRecord
  BY <1>2, NodeFields DEF NodeRecord, NoProgress
<1> QED BY <1>3 DEF voting, opening

LEMMA StartElectionTyped ==
    ASSUME NEW n \in NodeRecord, NEW force \in BOOLEAN
    PROVE  StartElection(n, force) \in NodeRecord
<1> DEFINE campaign == [n EXCEPT !.role = "Candidate", !.current_term = @ + 1,
                                 !.voted_for = n.id, !.leader_id = None,
                                 !.transfer_target = None, !.pre_voting = FALSE,
                                 !.pre_votes = {}, !.progress = NoProgress,
                                 !.votes = {n.id}, !.ripe = FALSE]
           candidate == PersistHardState(campaign)
<1>1. campaign \in NodeRecord
  BY CampaignTyped
<1> HIDE DEF campaign
<1>2. candidate \in NodeRecord
  BY <1>1, PersistHardStateTyped
<1> HIDE DEF candidate
<1> QED BY <1>2, BecomeLeaderTyped, SendTyped, RequestVotesTyped
        DEF StartElection, candidate, campaign

(* A probe turns into a campaign when one vote is enough. *)
LEMMA StartPreVoteTyped ==
    ASSUME NEW n \in NodeRecord PROVE StartPreVote(n) \in NodeRecord
<1> DEFINE probing == [n EXCEPT !.role = "Follower", !.leader_id = None,
                                !.pre_voting = TRUE, !.pre_votes = {n.id}]
<1>1. probing \in NodeRecord
  BY DEF NodeRecord, Role
<1> HIDE DEF probing
<1> QED BY <1>1, StartElectionTyped, SendTyped, PreVotesTyped DEF StartPreVote, probing

(* Both kinds of vote reply are messages. *)
LEMMA VoteReplyTyped ==
    ASSUME NEW n \in NodeRecord, NEW m \in Message, NEW granted \in BOOLEAN,
           NEW kind \in {"PreVoteReply", "RequestVoteReply"}
    PROVE  VoteReply(n, kind, m, granted) \in SUBSET Message
BY NodeFields, MessageFields DEF VoteReply, Message, PreVoteReply, RequestVoteReply

(* handle_request_vote: the candidate is a server. *)
LEMMA HandleRequestVoteTyped ==
    ASSUME NEW n \in NodeRecord, NEW m \in Message
    PROVE  HandleRequestVote(n, m) \in NodeRecord
<1> DEFINE voting == [n EXCEPT !.voted_for = m.from]
<1>1. voting \in NodeRecord
  BY MessageFields DEF NodeRecord
<1> HIDE DEF voting
<1> QED BY <1>1, PersistHardStateTyped, SendTyped, VoteReplyTyped
        DEF HandleRequestVote, voting

(* handle_request_vote_reply: so is the voter. *)
LEMMA HandleVoteReplyTyped ==
    ASSUME NEW n \in NodeRecord, NEW m \in Message, NEW ripe \in BOOLEAN
    PROVE  HandleVoteReply(n, m, ripe) \in NodeRecord
<1> DEFINE counted == [n EXCEPT !.votes = @ \cup {m.from}]
           timed   == [counted EXCEPT !.ripe = ripe]
<1>1. counted \in NodeRecord
  BY MessageFields DEF NodeRecord
<1> HIDE DEF counted
<1>2. timed \in NodeRecord
  BY <1>1 DEF NodeRecord
<1> HIDE DEF timed
<1> QED BY <1>1, <1>2, BecomeLeaderTyped DEF HandleVoteReply, timed, counted

(* handle_pre_vote: a probe is granted or not. *)
LEMMA HandlePreVoteTyped ==
    ASSUME NEW n \in NodeRecord, NEW m \in Message, NEW ripe \in BOOLEAN
    PROVE  HandlePreVote(n, m, ripe) \in NodeRecord
<1>1. CanGrantPreVote(n, m, ripe) \in BOOLEAN
  BY DEF CanGrantPreVote
<1> QED BY <1>1, SendTyped, VoteReplyTyped DEF HandlePreVote

(* handle_pre_vote_reply: a later term, a grant, or a campaign. *)
LEMMA HandlePreVoteReplyTyped ==
    ASSUME NEW n \in NodeRecord, NEW m \in Message
    PROVE  HandlePreVoteReply(n, m) \in NodeRecord
<1> DEFINE counted == [n EXCEPT !.pre_votes = @ \cup {m.from}]
<1>1. counted \in NodeRecord
  BY MessageFields DEF NodeRecord
<1> HIDE DEF counted
<1> QED BY <1>1, MessageFields, StartElectionTyped, BecomeFollowerTyped
        DEF HandlePreVoteReply, counted

(* handle_timeout_now: a campaign or nothing. *)
LEMMA HandleTimeoutNowTyped ==
    ASSUME NEW n \in NodeRecord, NEW m PROVE HandleTimeoutNow(n, m) \in NodeRecord
BY StartElectionTyped DEF HandleTimeoutNow

-----------------------------------------------------------------------------
(* Requests. *)

(* Writing another log and syncing it. *)
LEMMA StoreTyped ==
    ASSUME NEW n \in NodeRecord, NEW log \in Log
    PROVE  Sync([n EXCEPT !.log = log]) \in NodeRecord
<1>1. [n EXCEPT !.log = log] \in NodeRecord
  BY DEF NodeRecord
<1> QED BY <1>1, SyncTyped

(* propose: the command becomes an entry. *)
LEMMA ProposeTyped ==
    ASSUME NEW n \in NodeRecord, NEW v \in Value PROVE Propose(n, v) \in NodeRecord
<1> DEFINE log    == AppendTo(n.log, << NormalEntry(n.current_term, v) >>)
           stored == Sync([n EXCEPT !.log = log])
<1>1. << NormalEntry(n.current_term, v) >> \in Seq(LogEntry)
  <2>1. NormalEntry(n.current_term, v) \in LogEntry
    BY NodeFields DEF NormalEntry, LogEntry
  <2> QED BY <2>1
<1>2. log \in Log
  BY <1>1, NodeFields, AppendToTyped
<1> HIDE DEF log
<1>3. stored \in NodeRecord
  BY <1>2, StoreTyped
<1> HIDE DEF stored
<1> QED BY <1>3, ReplicateTyped, AdvanceCommitTyped DEF Propose, stored, log

(* change_membership: so does a set of servers. *)
LEMMA ChangeMembershipTyped ==
    ASSUME NEW n \in NodeRecord, NEW members \in SUBSET Server
    PROVE  ChangeMembership(n, members) \in NodeRecord
<1> DEFINE log    == AppendTo(n.log, << ConfigEntry(n.current_term, members) >>)
           stored == Sync([n EXCEPT !.log = log])
           config == SetConfig(stored, members, LastIndex(stored.log))
<1>1. << ConfigEntry(n.current_term, members) >> \in Seq(LogEntry)
  <2>1. ConfigEntry(n.current_term, members) \in LogEntry
    BY NodeFields DEF ConfigEntry, LogEntry
  <2> QED BY <2>1
<1>2. log \in Log
  BY <1>1, NodeFields, AppendToTyped
<1> HIDE DEF log
<1>3. stored \in NodeRecord
  BY <1>2, StoreTyped
<1> HIDE DEF stored
<1>4. config \in NodeRecord
  BY <1>3, NodeFields, LogFields, SetConfigTyped
<1> HIDE DEF config
<1> QED BY <1>4, ReplicateTyped, AdvanceCommitTyped
        DEF ChangeMembership, config, stored, log

(* A leader that stays one keeps its progress table. *)
LEMMA MaybeSendTimeoutNowTyped ==
    ASSUME NEW n \in NodeRecord, NEW target \in Server
    PROVE  /\ MaybeSendTimeoutNow(n, target) \in NodeRecord
           /\ MaybeSendTimeoutNow(n, target).progress = n.progress
           /\ MaybeSendTimeoutNow(n, target).role = n.role
<1> DEFINE done     == [n EXCEPT !.transfer_target = None]
           messages == {[kind |-> "TimeoutNow", from |-> n.id, to |-> target,
                         term |-> n.current_term]}
<1>1. done \in NodeRecord /\ done.progress = n.progress /\ done.role = n.role
  BY DEF NodeRecord
<1>2. messages \in SUBSET Message
  BY NodeFields DEF Message, TimeoutNow
<1> HIDE DEF done, messages
<1>3. /\ Send(done, messages) \in NodeRecord
      /\ Send(done, messages).progress = done.progress
      /\ Send(done, messages).role = done.role
  <2>1. Send(done, messages) \in NodeRecord
    BY <1>1, <1>2, SendTyped
  <2> QED BY <1>1, <2>1 DEF Send, NodeRecord
<1>4. MaybeSendTimeoutNow(n, target) \in {n, Send(done, messages)}
  BY DEF MaybeSendTimeoutNow, done, messages
<1> QED BY <1>1, <1>3, <1>4

(* transfer_leadership: the target is tracked when it is sent to. *)
LEMMA TransferLeadershipTyped ==
    ASSUME NEW n \in NodeRecord, NEW target \in Server
    PROVE  TransferLeadership(n, target) \in NodeRecord
<1> DEFINE pending == [n EXCEPT !.transfer_target = target]
           asked   == MaybeSendTimeoutNow(pending, target)
<1>1. pending \in NodeRecord
  BY DEF NodeRecord
<1> HIDE DEF pending
<1>2. asked \in NodeRecord
  BY <1>1, MaybeSendTimeoutNowTyped
<1> HIDE DEF asked
<1>3. \A peers \in SUBSET Tracked(asked) : SendAppend(asked, peers) \in NodeRecord
  BY <1>2, SendAppendTyped
<1>4. (IF asked.transfer_target = None THEN {} ELSE {target} \cap Tracked(asked))
            \in SUBSET Tracked(asked)
  OBVIOUS
<1> QED BY <1>3, <1>4 DEF TransferLeadership, asked, pending

(* handle_snapshot_event: an index that is accepted has a term. *)
LEMMA HandleSnapshotEventTyped ==
    ASSUME NEW n \in NodeRecord, NEW index \in Nat
    PROVE  HandleSnapshotEvent(n, index) \in NodeRecord
<1> DEFINE refused == \/ index > n.commit_index
                      \/ index > n.last_applied
                      \/ index <= n.log.base_index
                      \/ TermAt(n.log, index) = NoTerm
           config == ConfigAt(n.log, index, n.base_config)
           data   == {a \in n.app : a.index <= index}
           snap   == [index |-> index, term |-> TermAt(n.log, index),
                      config |-> config, data |-> data]
           at     == Larger(n.snapshot_hinted_at, index)
           log    == ApplySnapshot(n.log, snap)
           compacted == [n EXCEPT !.base_config = config, !.log = log,
                                  !.snapshot_hinted_at = at]
<1>1. CASE refused
  BY <1>1 DEF HandleSnapshotEvent
<1>2. CASE ~ refused
  <2>1. TermAt(n.log, index) \in Nat
    BY <1>2, NodeFields, TermTyped
  <2>2. config \in SUBSET Server
    BY NodeFields, ConfigTyped
  <2>3. data \in SUBSET Applied
    BY NodeFields
  <2>4. at \in Nat
    BY NodeFields, SmallerLarger
  <2> HIDE DEF config, data, at
  <2>5. snap \in Snapshot
    BY <2>1, <2>2, <2>3 DEF Snapshot
  <2> HIDE DEF snap
  <2>6. log \in Log
    BY <2>5, NodeFields, ApplySnapshotTyped
  <2> HIDE DEF log
  <2>7. compacted \in NodeRecord
    BY <2>2, <2>4, <2>6 DEF NodeRecord
  <2> HIDE DEF compacted
  <2>8. RefreshConfig(Sync(compacted)) \in NodeRecord
    BY <2>7, SyncTyped, RefreshConfigTyped
  <2> QED BY <1>2, <2>8
          DEF HandleSnapshotEvent, compacted, log, snap, at, data, config
<1> QED BY <1>1, <1>2

-----------------------------------------------------------------------------
(* Replication on the follower. *)

(* A reply to AppendEntries is a message. *)
LEMMA AppendReplyTyped ==
    ASSUME NEW n \in NodeRecord, NEW m \in Message, NEW success \in BOOLEAN,
           NEW match \in Nat, NEW conflict_index \in Nat, NEW conflict_term \in Nat
    PROVE  AppendReply(n, m, success, match, conflict_index, conflict_term)
                \in SUBSET Message
BY NodeFields, MessageFields DEF AppendReply, Message, AppendEntriesReply

(* Recognising a leader leaves the log alone. *)
LEMMA AcceptLeaderTyped ==
    ASSUME NEW n \in NodeRecord, NEW m \in Message
    PROVE  AcceptLeader(n, m) \in NodeRecord /\ AcceptLeader(n, m).log = n.log
<1>1. AcceptLeader(n, m) \in NodeRecord
  BY MessageFields DEF AcceptLeader, NodeRecord, Role
<1> QED BY <1>1 DEF AcceptLeader, NodeRecord

(* The commit index adopted is one of two indices. *)
LEMMA AdoptCommitTyped ==
    ASSUME NEW n \in NodeRecord, NEW m \in Message, m.kind = "AppendEntries",
           NEW covered \in Nat
    PROVE  AdoptCommit(n, m, covered) \in NodeRecord
<1>1. Smaller(m.leader_commit, covered) \in Nat
  BY AppendEntriesFields, SmallerLarger
<1>2. [n EXCEPT !.commit_index = Smaller(m.leader_commit, covered)] \in NodeRecord
  BY <1>1 DEF NodeRecord
<1> QED BY <1>2, DrainAppliesTyped DEF AdoptCommit

(* How much of a batch the log holds already. *)
LEMMA MatchingPrefixTyped ==
    ASSUME NEW n \in NodeRecord, NEW m \in Message, m.kind = "AppendEntries"
    PROVE  MatchingPrefix(n, m) \in 0 .. Len(m.entries)
<1> DEFINE S == {k \in 0 .. Len(m.entries) :
                    \A j \in 1 .. k :
                        TermAt(n.log, m.prev_log_index + j) = m.entries[j].term}
<1>1. Len(m.entries) \in Nat
  BY AppendEntriesFields
<1>2. S \subseteq 0 .. Len(m.entries)
  OBVIOUS
<1>3. 0 \in S
  BY <1>1
<1> HIDE DEF S
<1>4. S \subseteq Int /\ S # {} /\ Len(m.entries) \in Int
      /\ \A k \in S : k <= Len(m.entries)
  BY <1>1, <1>2, <1>3
<1>5. Max(S) \in S
  BY <1>4, MaxExists, Zenon
<1> QED BY <1>2, <1>5 DEF MatchingPrefix, S

(* What the log holds beyond prev_log_index is kept or cut within the log,  *)
(* and what follows in the batch is a stretch of it.                        *)
LEMMA AppendFromLeaderTyped ==
    ASSUME NEW n \in NodeRecord, NEW m \in Message, m.kind = "AppendEntries"
    PROVE  AppendFromLeader(n, m) \in NodeRecord
<1> DEFINE matched == MatchingPrefix(n, m)
           kept    == IF Diverges(n, m)
                      THEN Truncate(n.log, m.prev_log_index + matched + 1)
                      ELSE n.log
           missing == SubSeq(m.entries, matched + 1, Len(m.entries))
           log     == AppendTo(kept, missing)
<1>1. matched \in Nat /\ matched <= Len(m.entries)
  BY MatchingPrefixTyped, AppendEntriesFields
<1>2. Diverges(n, m) => m.prev_log_index + matched + 1 <= LastIndex(n.log)
  BY DEF Diverges
<1> HIDE DEF matched
<1>3. kept \in Log
  <2>1. /\ m.prev_log_index + matched + 1 \in Int /\ LastIndex(n.log) \in Nat
        /\ n.log \in Log
    BY <1>1, AppendEntriesFields, NodeFields, LogFields
  <2> QED BY <1>2, <2>1, TruncateTyped
<1>4. missing \in Seq(LogEntry)
  BY <1>1, AppendEntriesFields, StretchTyped
<1> HIDE DEF kept, missing
<1>5. log \in Log
  BY <1>3, <1>4, AppendToTyped
<1> HIDE DEF log
<1> QED BY <1>5, StoreTyped DEF AppendFromLeader, log, missing, kept, matched

(* The configuration may have to be refreshed on top of that. *)
LEMMA StoreEntriesTyped ==
    ASSUME NEW n \in NodeRecord, NEW m \in Message, m.kind = "AppendEntries"
    PROVE  StoreEntries(n, m) \in NodeRecord
BY AppendFromLeaderTyped, RefreshConfigTyped DEF StoreEntries

(* A rejection names a term only when the log has one at prev_log_index.    *)
LEMMA ConflictReplyTyped ==
    ASSUME NEW n \in NodeRecord, NEW m \in Message, m.kind = "AppendEntries",
           m.prev_log_index >= n.log.base_index
    PROVE  ConflictReply(n, m) \in SUBSET Message
<1>1. m.prev_log_index \in Nat /\ n.log \in Log
  BY AppendEntriesFields, NodeFields
<1>2. CASE m.prev_log_index > LastIndex(n.log)
  <2>1. LastIndex(n.log) + 1 \in Nat
    BY <1>1, LogFields
  <2>2. AppendReply(n, m, FALSE, 0, LastIndex(n.log) + 1, 0) \in SUBSET Message
    BY <2>1, AppendReplyTyped
  <2> QED BY <1>2, <2>2 DEF ConflictReply
<1>3. CASE ~ (m.prev_log_index > LastIndex(n.log))
  <2> DEFINE term == TermAt(n.log, m.prev_log_index)
  <2>1. m.prev_log_index \in Span(n.log)
    BY <1>1, <1>3, LogFields DEF Span
  <2>2. term \in Nat
    BY <1>1, <2>1, TermTyped
  <2>3. FirstIndexOfTerm(n.log, term, m.prev_log_index) \in Nat
    BY <1>1, FirstIndexOfTermTyped
  <2> HIDE DEF term
  <2> QED BY <1>3, <2>2, <2>3, AppendReplyTyped DEF ConflictReply, term
<1> QED BY <1>2, <1>3

(* handle_append_entries, on each of its four ways out. *)
LEMMA HandleAppendEntriesTyped ==
    ASSUME NEW n \in NodeRecord, NEW m \in Message, m.kind = "AppendEntries"
    PROVE  HandleAppendEntries(n, m) \in NodeRecord
<1> DEFINE base  == n.log.base_index
           match == m.prev_log_index + Len(m.entries)
           ours  == AcceptLeader(n, m)
<1>1. base \in Nat /\ match \in Nat
  BY NodeFields, LogFields, AppendEntriesFields
<1>2. ours \in NodeRecord /\ ours.log = n.log
  BY AcceptLeaderTyped
<1> HIDE DEF match, ours
<1>3. AppendReply(n, m, FALSE, 0, 0, 0) \in SUBSET Message
  BY AppendReplyTyped
<1>4. \A index \in Nat : AppendReply(n, m, TRUE, index, 0, 0) \in SUBSET Message
  BY AppendReplyTyped
<1>5. ~ (m.prev_log_index < base) => ConflictReply(n, m) \in SUBSET Message
  BY <1>1, AppendEntriesFields, ConflictReplyTyped
<1>6. /\ AdoptCommit(ours, m, base) \in NodeRecord
      /\ AdoptCommit(StoreEntries(ours, m), m, match) \in NodeRecord
  BY <1>1, <1>2, StoreEntriesTyped, AdoptCommitTyped
<1> QED BY <1>1, <1>2, <1>3, <1>4, <1>5, <1>6, SendTyped
        DEF HandleAppendEntries, match, ours

(* handle_install_snapshot, installing or not. *)
LEMMA HandleInstallSnapshotTyped ==
    ASSUME NEW n \in NodeRecord, NEW m \in Message, m.kind = "InstallSnapshot"
    PROVE  HandleInstallSnapshot(n, m) \in NodeRecord
<1> DEFINE snap == m.snapshot
           ours == AcceptLeader(n, m)
           log  == ApplySnapshot(n.log, snap)
           config == IF snap.config = {} THEN ours.base_config ELSE snap.config
           at   == Larger(ours.snapshot_hinted_at, snap.index)
           copied == [ours EXCEPT !.base_config = config, !.log = log,
                                  !.commit_index = snap.index,
                                  !.last_applied = snap.index,
                                  !.snapshot_hinted_at = at, !.app = snap.data]
           installed == RefreshConfig(Sync(copied))
           after == IF snap.index > n.log.base_index /\ snap.index > n.commit_index
                    THEN installed ELSE ours
           reply(last_index) ==
                {[kind |-> "InstallSnapshotReply", from |-> n.id, to |-> m.from,
                  term |-> n.current_term, last_index |-> last_index]}
           agreed == Larger(after.log.base_index, Smaller(snap.index, after.commit_index))
<1>1. snap \in Snapshot
  BY InstallSnapshotFields
<1>2. /\ snap.index \in Nat /\ snap.config \in SUBSET Server
      /\ snap.data \in SUBSET Applied
  BY <1>1 DEF Snapshot
<1>3. ours \in NodeRecord
  BY AcceptLeaderTyped
<1>4. log \in Log
  BY <1>1, NodeFields, ApplySnapshotTyped
<1> HIDE DEF snap, ours, log
<1>5. config \in SUBSET Server /\ at \in Nat
  BY <1>2, <1>3, NodeFields, SmallerLarger
<1> HIDE DEF config, at
<1>6. copied \in NodeRecord
  BY <1>2, <1>3, <1>4, <1>5 DEF NodeRecord
<1>7. installed \in NodeRecord
  <2> HIDE DEF copied
  <2> QED BY <1>6, SyncTyped, RefreshConfigTyped
<1> HIDE DEF installed
<1>8. after \in NodeRecord
  BY <1>3, <1>7
<1> HIDE DEF after
<1>9. agreed \in Nat
  <2>1. after.log.base_index \in Nat /\ after.commit_index \in Nat
    BY <1>8, NodeFields, LogFields
  <2>2. Smaller(snap.index, after.commit_index) \in Nat
    BY <1>2, <2>1, SmallerLarger
  <2> QED BY <2>1, <2>2, SmallerLarger
<1> HIDE DEF agreed
<1>10. reply(0) \in SUBSET Message /\ reply(agreed) \in SUBSET Message
  BY <1>9, NodeFields, MessageFields DEF Message, InstallSnapshotReply
<1> HIDE DEF reply
<1>11. Send(n, reply(0)) \in NodeRecord /\ Send(after, reply(agreed)) \in NodeRecord
  BY <1>8, <1>10, SendTyped
<1>12. HandleInstallSnapshot(n, m) \in {Send(n, reply(0)), Send(after, reply(agreed))}
  BY DEF HandleInstallSnapshot, reply, agreed, after, installed, copied, at, config,
         log, ours, snap
<1> QED BY <1>11, <1>12

-----------------------------------------------------------------------------
(* Replication on the leader. *)

(* The peer is still tracked when the next batch is sent to it. *)
LEMMA AfterAckTyped ==
    ASSUME NEW n \in NodeRecord, NEW p \in Tracked(n)
    PROVE  AfterAck(n, p) \in NodeRecord
<1> DEFINE advanced == AdvanceCommit(n)
           told     == MaybeSendTimeoutNow(advanced, p)
<1>1. p \in Server
  BY DEF Tracked
<1>2. /\ advanced \in NodeRecord
      /\ advanced.role = "Leader" => advanced.progress = n.progress
  BY AdvanceCommitTyped
<1> HIDE DEF advanced
<1>3. /\ told \in NodeRecord /\ told.progress = advanced.progress
      /\ told.role = advanced.role
  BY <1>1, <1>2, MaybeSendTimeoutNowTyped
<1> HIDE DEF told
<1>4. told.role = "Leader" => {p} \in SUBSET Tracked(told)
  BY <1>2, <1>3 DEF Tracked
<1>5. told.role = "Leader" => SendAppend(told, {p}) \in NodeRecord
  BY <1>3, <1>4, SendAppendTyped
<1> QED BY <1>3, <1>5 DEF AfterAck, told, advanced

(* An update of one entry of the progress table. *)
LEMMA ProgressUpdateTyped ==
    ASSUME NEW n \in NodeRecord, NEW p \in Tracked(n), NEW pr \in Progress
    PROVE  /\ [n EXCEPT !.progress[p] = pr] \in NodeRecord
           /\ p \in Tracked([n EXCEPT !.progress[p] = pr])
<1> DEFINE table == [n.progress EXCEPT ![p] = pr]
           m     == [n EXCEPT !.progress = table]
<1>1. n.progress \in [Server -> Progress \cup {None}]
      /\ p \in Server /\ n.progress[p] \in Progress /\ n.progress[p] # None
  BY NodeFields, TrackedTyped DEF Tracked
<1>2. table \in [Server -> Progress \cup {None}] /\ table[p] = pr
  BY <1>1
<1> HIDE DEF table
<1>3. m \in NodeRecord /\ m.progress = table
  BY <1>2 DEF NodeRecord
<1>4. pr # None
  BY ProgressAssumption
<1> QED BY <1>1, <1>2, <1>3, <1>4 DEF Tracked, table

(* rejected_next: the clamp ends in a natural number. *)
LEMMA RejectedNextTyped ==
    ASSUME NEW n \in NodeRecord, NEW m \in Message, m.kind = "AppendEntriesReply",
           m.from \in Tracked(n)
    PROVE  RejectedNext(n, m) \in Nat
<1> DEFINE pr     == n.progress[m.from]
           last   == LastIndexOfTerm(n.log, m.conflict_term)
           target == IF m.conflict_term > 0 /\ last # 0 THEN last + 1
                     ELSE Larger(m.conflict_index, 1)
           floor  == pr.match_index + 1
           ceil   == Larger(pr.next_index - 1, floor)
<1>1. pr.next_index \in Nat /\ pr.match_index \in Nat
  BY TrackedTyped
<1>2. last \in Nat
  BY NodeFields, LastIndexOfTermTyped
<1>3. Larger(m.conflict_index, 1) \in Nat
  BY AppendReplyFields, SmallerLarger
<1> HIDE DEF pr, last
<1>4. target \in Nat /\ floor \in Nat
  BY <1>1, <1>2, <1>3
<1> HIDE DEF target
<1>5. ceil \in Nat
  BY <1>1, <1>4, SmallerLarger
<1> HIDE DEF floor, ceil
<1>6. Larger(target, floor) \in Nat
  BY <1>4, SmallerLarger
<1>7. Smaller(Larger(target, floor), ceil) \in Nat
  BY <1>5, <1>6, SmallerLarger
<1> QED BY <1>7 DEF RejectedNext, ceil, floor, target, last, pr

(* handle_append_entries_reply, acknowledged or rejected. *)
LEMMA HandleAppendReplyTyped ==
    ASSUME NEW n \in NodeRecord, NEW m \in Message, m.kind = "AppendEntriesReply"
    PROVE  HandleAppendReply(n, m) \in NodeRecord
<1> DEFINE p     == m.from
           old   == n.progress[p]
           match == Larger(old.match_index, m.match_index)
           acked == [next_index  |-> Larger(old.next_index, match + 1),
                     match_index |-> match, state |-> "Replicate"]
           rejected == [old EXCEPT !.next_index = RejectedNext(n, m), !.state = "Probe"]
<1>1. CASE ~ Heeds(n, m)
  BY <1>1 DEF HandleAppendReply
<1>2. CASE Heeds(n, m)
  <2>1. p \in Tracked(n)
    BY <1>2 DEF Heeds
  <2>2. old \in Progress /\ old.next_index \in Nat /\ old.match_index \in Nat
    BY <2>1, TrackedTyped
  <2>3. match \in Nat
    BY <2>2, AppendReplyFields, SmallerLarger
  <2> HIDE DEF match
  <2>4. acked \in Progress
    <3>1. Larger(old.next_index, match + 1) \in Nat
      BY <2>2, <2>3, SmallerLarger
    <3> QED BY <2>3, <3>1 DEF Progress
  <2>5. rejected \in Progress
    BY <2>1, <2>2, RejectedNextTyped DEF Progress
  <2> HIDE DEF acked, rejected
  <2>6. AfterAck([n EXCEPT !.progress[p] = acked], p) \in NodeRecord
    BY <2>1, <2>4, ProgressUpdateTyped, AfterAckTyped
  <2>7. SendAppend([n EXCEPT !.progress[p] = rejected], {p}) \in NodeRecord
    <3>1. /\ [n EXCEPT !.progress[p] = rejected] \in NodeRecord
          /\ {p} \in SUBSET Tracked([n EXCEPT !.progress[p] = rejected])
      BY <2>1, <2>5, ProgressUpdateTyped
    <3> QED BY <3>1, SendAppendTyped
  <2>8. HandleAppendReply(n, m) =
            IF m.success THEN AfterAck([n EXCEPT !.progress[p] = acked], p)
            ELSE SendAppend([n EXCEPT !.progress[p] = rejected], {p})
    BY <1>2 DEF HandleAppendReply, acked, rejected, match
  <2> QED BY <2>6, <2>7, <2>8
<1> QED BY <1>1, <1>2

(* handle_install_snapshot_reply. *)
LEMMA HandleInstallSnapshotReplyTyped ==
    ASSUME NEW n \in NodeRecord, NEW m \in Message, m.kind = "InstallSnapshotReply"
    PROVE  HandleInstallSnapshotReply(n, m) \in NodeRecord
<1> DEFINE p     == m.from
           match == Larger(n.progress[p].match_index, m.last_index)
           acked == [next_index |-> match + 1, match_index |-> match,
                     state |-> "Replicate"]
<1>1. CASE ~ Heeds(n, m)
  BY <1>1 DEF HandleInstallSnapshotReply
<1>2. CASE Heeds(n, m)
  <2>1. p \in Tracked(n)
    BY <1>2 DEF Heeds
  <2>2. match \in Nat
    BY <2>1, TrackedTyped, InstallSnapshotReplyFields, SmallerLarger
  <2> HIDE DEF match
  <2>3. acked \in Progress
    BY <2>2 DEF Progress
  <2> HIDE DEF acked
  <2>4. AfterAck([n EXCEPT !.progress[p] = acked], p) \in NodeRecord
    BY <2>1, <2>3, ProgressUpdateTyped, AfterAckTyped
  <2>5. HandleInstallSnapshotReply(n, m) = AfterAck([n EXCEPT !.progress[p] = acked], p)
    BY <1>2 DEF HandleInstallSnapshotReply, acked, match
  <2> QED BY <2>4, <2>5
<1> QED BY <1>1, <1>2

-----------------------------------------------------------------------------
(* Crashes and the cluster. *)

(* What a crash in the middle of a handler leaves on the disk is a log. *)
LEMMA PartialWritesTyped ==
    ASSUME NEW n \in NodeRecord, NEW m \in Message, NEW disk \in PartialWrites(n, m)
    PROVE  disk \in Log
<1> DEFINE known == AdoptTerm(n, m.term)
           new   == HandleAppendEntries(known, m).log
<1>1. known \in NodeRecord
  BY MessageFields, AdoptTermTyped
<1> HIDE DEF known
<1>2. m.kind = "AppendEntries" => new \in Log
  BY <1>1, HandleAppendEntriesTyped, NodeFields
<1> HIDE DEF new
<1>3. CASE disk = known.disk
  BY <1>1, <1>3, NodeFields
<1>4. CASE /\ m.kind = "AppendEntries"
           /\ \E k \in Int : /\ k <= Len(new.entries)
                             /\ disk = [new EXCEPT !.entries = SubSeq(@, 1, k)]
  <2>1. PICK k \in Int : /\ k <= Len(new.entries)
                         /\ disk = [new EXCEPT !.entries = SubSeq(@, 1, k)]
    BY <1>4
  <2>2. SubSeq(new.entries, 1, k) \in Seq(LogEntry)
    BY <1>2, <1>4, <2>1, LogFields, StretchTyped
  <2> QED BY <1>2, <1>4, <2>1, <2>2 DEF Log
<1>5. disk = known.disk \/ m.kind = "AppendEntries"
  BY DEF PartialWrites, known, new
<1>6. m.kind = "AppendEntries" =>
        /\ MatchingPrefix(known, m) \in Int /\ m.prev_log_index \in Int
        /\ new.base_index \in Int /\ Len(new.entries) \in Int
  BY <1>1, <1>2, MatchingPrefixTyped, AppendEntriesFields, LogFields
<1>7. disk \in {known.disk} \cup
        {[new EXCEPT !.entries = SubSeq(@, 1, k)] :
            k \in m.prev_log_index + MatchingPrefix(known, m) - new.base_index
                    .. Len(new.entries)}
  BY DEF PartialWrites, known, new
<1> QED BY <1>3, <1>4, <1>5, <1>6, <1>7

(* What a node adds to the history is typed. *)
LEMMA RecordTyped ==
    ASSUME TypeOK, NEW old \in NodeRecord, NEW n \in NodeRecord
    PROVE  /\ Record(old, n).ballots \subseteq Ballot
           /\ Record(old, n).victories \subseteq Victory
           /\ Record(old, n).committed \subseteq Commitment
<1>1. BallotOf(n) \subseteq Ballot
  BY NodeFields DEF BallotOf, Ballot
<1>2. VictoryOf(n) \subseteq Victory
  BY NodeFields DEF VictoryOf, Victory
<1>3. CommitmentsOf(old, n) \subseteq Commitment
  <2> DEFINE K == {k \in old.commit_index + 1 .. n.commit_index : HasEntry(n.log, k)}
  <2>1. ASSUME NEW k \in K
        PROVE  [index |-> k, entry |-> EntryAt(n.log, k), at |-> n.current_term]
                    \in Commitment
    <3>1. k \in Nat /\ EntryAt(n.log, k) \in LogEntry
      BY NodeFields, EntryTyped
    <3> QED BY <3>1, NodeFields DEF Commitment
  <2> QED BY <2>1 DEF CommitmentsOf
<1> QED BY <1>1, <1>2, <1>3 DEF Record, Claim, TypeOK

(* A step of node i to a typed node, of the same id, is typed.              *)
LEMMA StepIsTyped ==
    ASSUME TypeOK, NEW i \in Server, NEW n \in NodeRecord, n.id = i,
           NEW consumed, Become(i, n, consumed),
           crashes' \in Nat, losses' \in Nat
    PROVE  TypeOK'
<1> DEFINE m == [n EXCEPT !.sends = {}]
<1>1. m \in NodeRecord /\ m.id = i /\ m.sends = {}
  BY DEF NodeRecord
<1> HIDE DEF m
<1>2. node \in [Server -> NodeRecord] /\ wire \subseteq Message
  BY DEF TypeOK
<1>3. /\ node' = [node EXCEPT ![i] = m]
      /\ wire' \subseteq wire \cup n.sends
      /\ history' = Record(node[i], n)
  BY DEF Become, m
<1>4. node' \in [Server -> NodeRecord]
  BY <1>1, <1>2, <1>3
<1>5. \A j \in Server : node'[j].id = j /\ node'[j].sends = {}
  <2> SUFFICES ASSUME NEW j \in Server PROVE node'[j].id = j /\ node'[j].sends = {}
    OBVIOUS
  <2>1. node'[j] = IF j = i THEN m ELSE node[j]
    BY <1>2, <1>3
  <2> QED BY <1>1, <2>1 DEF TypeOK
<1>6. wire' \subseteq Message
  BY <1>2, <1>3, NodeFields
<1>7. /\ history'.ballots \subseteq Ballot
      /\ history'.victories \subseteq Victory
      /\ history'.committed \subseteq Commitment
  BY <1>2, <1>3, RecordTyped
<1> QED BY <1>4, <1>5, <1>6, <1>7 DEF TypeOK

(* The initial state is. *)
LEMMA InitIsTyped == Init => TypeOK
<1> SUFFICES ASSUME Init PROVE TypeOK
  OBVIOUS
<1>1. \A i \in Server : WithLog(i, EmptyLog) \in NodeRecord
  BY EmptyLogTyped, WithLogTyped
<1>2. \A i \in Server : /\ WithLog(i, EmptyLog).id = i
                        /\ WithLog(i, EmptyLog).sends = {}
  BY DEF WithLog
<1> QED BY <1>1, <1>2 DEF Init, TypeOK

-----------------------------------------------------------------------------
(***************************************************************************)
(* A server votes once a term: the proof.                                  *)
(*                                                                         *)
(* Every handler of RaftNode is a chain of functions from a node to a      *)
(* node, so the argument has two halves.  For one node: each function      *)
(* leads from a node whose disk holds its term and vote to a node of which *)
(* the same is true, and which Honours the first: same server, no earlier  *)
(* term, and in the same term no other vote.  Honouring is transitive, so  *)
(* the lemmas compose the way the functions do.  For the cluster: a ballot *)
(* on record is then either of a past term or the vote its voter still     *)
(* holds, a restart included, and two ballots of one server and term are   *)
(* the same vote.                                                          *)
(***************************************************************************)

(* The fields the argument reads or a function of the chain updates. *)
Fields ==
    {"id", "log", "disk", "role", "current_term", "voted_for", "commit_index",
     "last_applied", "progress", "transfer_target", "sends", "app", "hints"}

HardOf(n) == [term |-> n.current_term, voted_for |-> n.voted_for]

(* The durable and the volatile hard state of a node are one and the same. *)
Sound(n) ==
    /\ Fields \subseteq DOMAIN n
    /\ "hard" \in DOMAIN n.log
    /\ "hard" \in DOMAIN n.disk
    /\ n.log.hard = HardOf(n)
    /\ n.disk.hard = HardOf(n)
    /\ n.id \in Server
    /\ n.current_term \in Nat
    /\ n.voted_for \in Server \cup {None}

(* m stands by what n has voted. *)
Honours(n, m) ==
    /\ m.id = n.id
    /\ n.current_term <= m.current_term
    /\ m.current_term = n.current_term =>
            n.voted_for \in {None, m.voted_for}

(* n may become m. *)
Leads(n, m) == Sound(m) /\ Honours(n, m)

-----------------------------------------------------------------------------
(* Chains. *)

(* A sound node leads to itself. *)
LEMMA Reflexive == ASSUME NEW n, Sound(n) PROVE Leads(n, n)
BY DEF Leads, Sound, Honours

(* What one function honours, the next one on the chain honours too. *)
LEMMA Transitive ==
    ASSUME NEW a, NEW b, NEW c, Sound(a), Leads(a, b), Leads(b, c)
    PROVE  Leads(a, c)
BY DEF Leads, Sound, Honours

(* An update of fields other than the log, the term and the vote. *)
SameVote(n, m) ==
    /\ DOMAIN m = DOMAIN n
    /\ m.id = n.id
    /\ m.log = n.log
    /\ m.disk = n.disk
    /\ m.current_term = n.current_term
    /\ m.voted_for = n.voted_for

(* Bookkeeping touches neither the hard state nor the vote. *)
LEMMA Bookkeeping ==
    ASSUME NEW n, NEW m, Sound(n), SameVote(n, m)
    PROVE  Leads(n, m)
BY DEF Leads, Sound, Honours, HardOf, SameVote

-----------------------------------------------------------------------------
(* Logs. *)

(* The mutations of a log's entries leave its hard state alone. *)
LEMMA MutationsKeepHard ==
    ASSUME NEW log, "hard" \in DOMAIN log
    PROVE  /\ \A new : /\ "hard" \in DOMAIN AppendTo(log, new)
                       /\ AppendTo(log, new).hard = log.hard
           /\ \A from : /\ "hard" \in DOMAIN Truncate(log, from)
                        /\ Truncate(log, from).hard = log.hard
           /\ \A snap : /\ "hard" \in DOMAIN ApplySnapshot(log, snap)
                        /\ ApplySnapshot(log, snap).hard = log.hard
BY DEF AppendTo, Truncate, ApplySnapshot

(* Writing another log with the same hard state, and syncing it.            *)
LEMMA StoredKeepsVote ==
    ASSUME NEW n, NEW log, Sound(n),
           "hard" \in DOMAIN log, log.hard = n.log.hard
    PROVE  Leads(n, Sync([n EXCEPT !.log = log]))
BY DEF Leads, Sound, Honours, HardOf, Sync, Fields

(* persist_hard_state makes a later term, or a vote not yet given in the    *)
(* same term, durable.                                                      *)
LEMMA PersistHonours ==
    ASSUME NEW n, NEW m, Sound(n), DOMAIN m = DOMAIN n, m.id = n.id,
           "hard" \in DOMAIN m.log, Honours(n, m), m.current_term \in Nat,
           m.voted_for \in Server \cup {None}
    PROVE  Leads(n, PersistHardState(m))
<1> DEFINE log  == SetHardState(m.log, m.current_term, m.voted_for)
           kept == [m EXCEPT !.log = log]
           safe == Sync(kept)
<1>1. "hard" \in DOMAIN log /\ log.hard = HardOf(m)
  BY DEF SetHardState, HardOf
<1> HIDE DEF log
<1>2. /\ DOMAIN kept = DOMAIN n /\ kept.log = log /\ kept.id = m.id
      /\ kept.current_term = m.current_term /\ kept.voted_for = m.voted_for
  BY DEF Sound, Fields
<1> HIDE DEF kept
<1>3. /\ DOMAIN safe = DOMAIN n /\ safe.log = log /\ safe.disk = log
      /\ safe.id = m.id /\ safe.current_term = m.current_term
      /\ safe.voted_for = m.voted_for
  BY <1>2 DEF Sync, Sound, Fields
<1> HIDE DEF safe
<1>4. HardOf(safe) = HardOf(m)
  BY <1>3 DEF HardOf
<1>5. Sound(safe)
  BY <1>1, <1>3, <1>4 DEF Sound
<1>6. Honours(n, safe)
  BY <1>3 DEF Honours
<1> QED BY <1>5, <1>6 DEF Leads, PersistHardState, kept, log, safe

-----------------------------------------------------------------------------
(* Replication and commitment by the leader: bookkeeping. *)

(* Messages wait to be sent. *)
LEMMA SendKeepsVote ==
    ASSUME NEW n, Sound(n), NEW messages PROVE Leads(n, Send(n, messages))
BY Bookkeeping DEF Send, SameVote, Sound, Fields

(* The progress table holds no vote. *)
LEMMA ProgressKeepsVote ==
    ASSUME NEW n, Sound(n), NEW progress
    PROVE  Leads(n, [n EXCEPT !.progress = progress])
BY Bookkeeping DEF SameVote, Sound, Fields

(* Nor does a table rebuilt for another configuration. *)
LEMMA RebuildProgressKeepsVote ==
    ASSUME NEW n, Sound(n) PROVE Leads(n, RebuildProgress(n))
BY ProgressKeepsVote DEF RebuildProgress

(* Adopting a configuration concerns the voters and the progress table.     *)
LEMMA SetConfigKeepsVote ==
    ASSUME NEW n, Sound(n), NEW voters, NEW index
    PROVE  Leads(n, SetConfig(n, voters, index))
<1> DEFINE adopted == [n EXCEPT !.voters = voters, !.config_index = index]
<1>1. Leads(n, adopted)
  BY Bookkeeping DEF SameVote, Sound, Fields
<1> HIDE DEF adopted
<1>2. Leads(n, RebuildProgress(adopted))
  BY <1>1, RebuildProgressKeepsVote, Transitive DEF Leads
<1> QED BY <1>1, <1>2 DEF SetConfig, adopted

(* Recomputing it from the log is adopting one. *)
LEMMA RefreshConfigKeepsVote ==
    ASSUME NEW n, Sound(n) PROVE Leads(n, RefreshConfig(n))
BY SetConfigKeepsVote DEF RefreshConfig

(* Sending appends moves progress only. *)
LEMMA SendAppendKeepsVote ==
    ASSUME NEW n, Sound(n), NEW peers PROVE Leads(n, SendAppend(n, peers))
BY Bookkeeping, ZenonT(60) DEF SendAppend, SameVote, Sound, Fields

(* Applying and hinting concern the application. *)
LEMMA DrainAppliesKeepsVote ==
    ASSUME NEW n, Sound(n) PROVE Leads(n, DrainApplies(n))
<1>1. \A applied, app : Leads(n, [n EXCEPT !.last_applied = applied, !.app = app])
  BY Bookkeeping, ZenonT(60) DEF SameVote, Sound, Fields
<1>2. \A m : Sound(m) => Leads(m, MaybeHintSnapshot(m))
  <2> SUFFICES ASSUME NEW m, Sound(m) PROVE Leads(m, MaybeHintSnapshot(m))
    OBVIOUS
  <2>1. \A at, hints : Leads(m, [m EXCEPT !.snapshot_hinted_at = at, !.hints = hints])
    BY Bookkeeping, ZenonT(60) DEF SameVote, Sound, Fields
  <2> QED BY <2>1, Reflexive DEF MaybeHintSnapshot
<1>3. ASSUME NEW applied, NEW app
      PROVE  Leads(n, MaybeHintSnapshot(
                        [n EXCEPT !.last_applied = applied, !.app = app]))
  <2> DEFINE m == [n EXCEPT !.last_applied = applied, !.app = app]
  <2>1. Leads(n, m) BY <1>1
  <2> HIDE DEF m
  <2>2. Leads(n, MaybeHintSnapshot(m)) BY <1>2, <2>1, Transitive DEF Leads
  <2> QED BY <2>2 DEF m
<1> QED BY <1>3 DEF DrainApplies

(* So does advancing the commit index, even when the leader steps down.     *)
LEMMA AdvanceCommitKeepsVote ==
    ASSUME NEW n, Sound(n) PROVE Leads(n, AdvanceCommit(n))
<1>1. \A index : Leads(n, [n EXCEPT !.commit_index = index])
  BY Bookkeeping DEF SameVote, Sound, Fields
<1>2. \A index : Leads(n, DrainApplies([n EXCEPT !.commit_index = index]))
  BY <1>1, DrainAppliesKeepsVote, Transitive DEF Leads
<1>3. ASSUME NEW m, Sound(m) PROVE Leads(m, StepDownToFollower(m))
  <2>1. SameVote(m, StepDownToFollower(m))
    BY <1>3 DEF StepDownToFollower, SameVote, Sound, Fields
  <2> QED BY <1>3, <2>1, Bookkeeping
<1>4. \A m : Leads(n, m) => Leads(n, StepDownToFollower(m))
  BY <1>3, Transitive DEF Leads
<1> QED BY <1>2, <1>4, Reflexive DEF AdvanceCommit

-----------------------------------------------------------------------------
(* Elections. *)

(* A later term is adopted without a vote; the same term changes no vote.   *)
LEMMA BecomeFollowerHonours ==
    ASSUME NEW n, Sound(n), NEW term \in Nat, NEW leader
    PROVE  Leads(n, BecomeFollower(n, term, leader))
<1> DEFINE follower == [n EXCEPT !.role = "Follower", !.leader_id = leader,
                                 !.transfer_target = None, !.pre_voting = FALSE,
                                 !.pre_votes = {}, !.votes = {},
                                 !.progress = NoProgress, !.ripe = FALSE]
           later == [follower EXCEPT !.current_term = term, !.voted_for = None]
<1>1. CASE term > n.current_term
  <2>1. /\ DOMAIN later = DOMAIN n /\ later.id = n.id
        /\ later.log = n.log /\ later.current_term = term /\ later.voted_for = None
    BY DEF Sound, Fields
  <2> HIDE DEF later
  <2>2. Honours(n, later)
    BY <1>1, <2>1 DEF Honours, Sound
  <2>3. Leads(n, PersistHardState(later))
    BY <2>1, <2>2, PersistHonours DEF Sound
  <2> QED BY <1>1, <2>3 DEF BecomeFollower, later
<1>2. CASE ~ (term > n.current_term)
  <2>1. SameVote(n, follower) BY DEF SameVote, Sound, Fields
  <2> QED BY <1>2, <2>1, Bookkeeping DEF BecomeFollower
<1> QED BY <1>1, <1>2

(* A message of a later term brings the node to that term. *)
LEMMA AdoptTermHonours ==
    ASSUME NEW n, Sound(n), NEW term \in Nat
    PROVE  /\ Leads(n, AdoptTerm(n, term))
           /\ AdoptTerm(n, term).current_term >= term
<1>1. Leads(n, AdoptTerm(n, term))
  BY BecomeFollowerHonours, Reflexive DEF AdoptTerm
<1>2. AdoptTerm(n, term).current_term >= term
  BY DEF AdoptTerm, BecomeFollower, PersistHardState, Sync, SetHardState, Sound, Fields
<1> QED BY <1>1, <1>2

(* Winning is bookkeeping. *)
LEMMA BecomeLeaderKeepsVote ==
    ASSUME NEW n, Sound(n) PROVE Leads(n, BecomeLeader(n))
<1> DEFINE winner == [n EXCEPT !.role = "Leader", !.leader_id = n.id,
                               !.transfer_target = None, !.pre_voting = FALSE,
                               !.pre_votes = {}]
           ready  == RebuildProgress(winner)
           told   == ReplicateToAll(ready)
<1>1. Leads(n, winner)
  BY Bookkeeping, ZenonT(60) DEF SameVote, Sound, Fields
<1> HIDE DEF winner
<1>2. Leads(n, ready)
  BY <1>1, RebuildProgressKeepsVote, Transitive DEF Leads
<1> HIDE DEF ready
<1>3. Leads(n, told)
  BY <1>2, SendAppendKeepsVote, Transitive DEF ReplicateToAll, Leads
<1> HIDE DEF told
<1>4. Leads(n, AdvanceCommit(told))
  BY <1>3, AdvanceCommitKeepsVote, Transitive DEF Leads
<1> QED BY <1>4 DEF BecomeLeader, winner, ready, told

(* A campaign opens a new term with the candidate's vote for itself on disk *)
(* before anything is sent.                                                 *)
LEMMA StartElectionHonours ==
    ASSUME NEW n, Sound(n), NEW force
    PROVE  Leads(n, StartElection(n, force))
<1> DEFINE campaign == [n EXCEPT !.role = "Candidate", !.current_term = @ + 1,
                                 !.voted_for = n.id, !.leader_id = None,
                                 !.transfer_target = None, !.pre_voting = FALSE,
                                 !.pre_votes = {}, !.progress = NoProgress,
                                 !.votes = {n.id}, !.ripe = FALSE]
           candidate == PersistHardState(campaign)
<1>1. /\ DOMAIN campaign = DOMAIN n /\ campaign.id = n.id
      /\ campaign.log = n.log /\ campaign.current_term = n.current_term + 1
      /\ campaign.voted_for = n.id
  BY DEF Sound, Fields
<1> HIDE DEF campaign
<1>2. Honours(n, campaign)
  BY <1>1 DEF Honours, Sound
<1>3. Leads(n, candidate)
  BY <1>1, <1>2, PersistHonours DEF Sound
<1> HIDE DEF candidate
<1>4. Leads(n, BecomeLeader(candidate))
  BY <1>3, BecomeLeaderKeepsVote, Transitive DEF Leads
<1>5. Leads(n, Send(candidate, RequestVotes(candidate, force)))
  BY <1>3, SendKeepsVote, Transitive DEF Leads
<1> QED BY <1>4, <1>5 DEF StartElection, candidate, campaign

(* A pre-vote round is bookkeeping until it opens a campaign. *)
LEMMA StartPreVoteHonours ==
    ASSUME NEW n, Sound(n) PROVE Leads(n, StartPreVote(n))
<1> DEFINE probing == [n EXCEPT !.role = "Follower", !.leader_id = None,
                                !.pre_voting = TRUE, !.pre_votes = {n.id}]
<1>1. Leads(n, probing)
  BY Bookkeeping, ZenonT(60) DEF SameVote, Sound, Fields
<1> HIDE DEF probing
<1>2. /\ Leads(n, StartElection(probing, FALSE))
      /\ Leads(n, Send(probing, PreVotes(probing)))
  BY <1>1, StartElectionHonours, SendKeepsVote, Transitive DEF Leads
<1> QED BY <1>2 DEF StartPreVote, probing

(* A vote is given only to a candidate of the voter's own term, by a voter  *)
(* that has voted for nobody else in it.                                    *)
LEMMA HandleRequestVoteHonours ==
    ASSUME NEW n, Sound(n), NEW m, m.from \in Server
    PROVE  Leads(n, HandleRequestVote(n, m))
<1> DEFINE voting == [n EXCEPT !.voted_for = m.from]
           voted  == PersistHardState(voting)
<1>1. CASE CanGrantVote(n, m)
  <2>1. /\ DOMAIN voting = DOMAIN n /\ voting.id = n.id /\ voting.log = n.log
        /\ voting.current_term = n.current_term /\ voting.voted_for = m.from
    BY DEF Sound, Fields
  <2> HIDE DEF voting
  <2>2. Honours(n, voting)
    BY <1>1, <2>1 DEF Honours, CanGrantVote, Sound
  <2>3. Leads(n, voted)
    BY <2>1, <2>2, PersistHonours DEF Sound
  <2> HIDE DEF voted
  <2>4. Leads(n, Send(voted, VoteReply(n, "RequestVoteReply", m, TRUE)))
    BY <2>3, SendKeepsVote, Transitive DEF Leads
  <2> QED BY <1>1, <2>4 DEF HandleRequestVote, voted, voting
<1>2. CASE ~ CanGrantVote(n, m)
  BY <1>2, SendKeepsVote DEF HandleRequestVote
<1> QED BY <1>1, <1>2

(* Counting votes is bookkeeping, and so is winning. *)
LEMMA HandleVoteReplyKeepsVote ==
    ASSUME NEW n, Sound(n), NEW m, NEW ripe
    PROVE  Leads(n, HandleVoteReply(n, m, ripe))
<1> DEFINE counted == [n EXCEPT !.votes = @ \cup {m.from}]
           timed   == [counted EXCEPT !.ripe = ripe]
<1>1. Leads(n, counted)
  BY Bookkeeping DEF SameVote, Sound, Fields
<1>2. Leads(n, timed)
  BY Bookkeeping, ZenonT(60) DEF SameVote, Sound, Fields
<1> HIDE DEF timed
<1>3. Leads(n, BecomeLeader(timed))
  BY <1>2, BecomeLeaderKeepsVote, Transitive DEF Leads
<1> HIDE DEF counted
<1> QED BY <1>1, <1>3, Reflexive DEF HandleVoteReply, counted, timed

(* Answering a probe sends a message and does nothing else. *)
LEMMA HandlePreVoteKeepsVote ==
    ASSUME NEW n, Sound(n), NEW m, NEW ripe
    PROVE  Leads(n, HandlePreVote(n, m, ripe))
BY SendKeepsVote DEF HandlePreVote

(* Counting grants leads to a later term at most, or to a campaign.         *)
LEMMA HandlePreVoteReplyHonours ==
    ASSUME NEW n, Sound(n), NEW m, m.term \in Nat
    PROVE  Leads(n, HandlePreVoteReply(n, m))
<1> DEFINE counted == [n EXCEPT !.pre_votes = @ \cup {m.from}]
<1>1. Leads(n, counted)
  BY Bookkeeping DEF SameVote, Sound, Fields
<1> HIDE DEF counted
<1>2. Leads(n, StartElection(counted, FALSE))
  BY <1>1, StartElectionHonours, Transitive DEF Leads
<1>3. Leads(n, BecomeFollower(n, m.term, None))
  BY BecomeFollowerHonours
<1> QED BY <1>1, <1>2, <1>3, Reflexive DEF HandlePreVoteReply, counted

(* A handed-over node campaigns. *)
LEMMA HandleTimeoutNowHonours ==
    ASSUME NEW n, Sound(n), NEW m PROVE Leads(n, HandleTimeoutNow(n, m))
BY StartElectionHonours, Reflexive DEF HandleTimeoutNow

-----------------------------------------------------------------------------
(* Requests. *)

(* A proposal is stored and replicated. *)
LEMMA ProposeKeepsVote ==
    ASSUME NEW n, Sound(n), NEW command PROVE Leads(n, Propose(n, command))
<1> DEFINE log    == AppendTo(n.log, << NormalEntry(n.current_term, command) >>)
           stored == Sync([n EXCEPT !.log = log])
<1>1. "hard" \in DOMAIN log /\ log.hard = n.log.hard
  BY MutationsKeepHard DEF Sound
<1> HIDE DEF log
<1>2. Leads(n, stored)
  BY <1>1, StoredKeepsVote
<1> HIDE DEF stored
<1>3. Leads(n, ReplicateToStreaming(stored))
  BY <1>2, SendAppendKeepsVote, Transitive DEF Leads, ReplicateToStreaming
<1>4. Leads(n, AdvanceCommit(ReplicateToStreaming(stored)))
  BY <1>3, AdvanceCommitKeepsVote, Transitive DEF Leads
<1> QED BY <1>4 DEF Propose, stored, log

(* So is a configuration, which is adopted in between. *)
LEMMA ChangeMembershipKeepsVote ==
    ASSUME NEW n, Sound(n), NEW members
    PROVE  Leads(n, ChangeMembership(n, members))
<1> DEFINE log    == AppendTo(n.log, << ConfigEntry(n.current_term, members) >>)
           stored == Sync([n EXCEPT !.log = log])
           config == SetConfig(stored, members, LastIndex(stored.log))
<1>1. "hard" \in DOMAIN log /\ log.hard = n.log.hard
  BY MutationsKeepHard DEF Sound
<1> HIDE DEF log
<1>2. Leads(n, stored)
  BY <1>1, StoredKeepsVote
<1> HIDE DEF stored
<1>3. Leads(n, config)
  BY <1>2, SetConfigKeepsVote, Transitive DEF Leads
<1> HIDE DEF config
<1>4. Leads(n, ReplicateToAll(config))
  BY <1>3, SendAppendKeepsVote, Transitive DEF Leads, ReplicateToAll
<1>5. Leads(n, AdvanceCommit(ReplicateToAll(config)))
  BY <1>4, AdvanceCommitKeepsVote, Transitive DEF Leads
<1> QED BY <1>5, Reflexive DEF ChangeMembership, config, stored, log

(* Telling a server to take over is bookkeeping. *)
LEMMA MaybeSendTimeoutNowKeepsVote ==
    ASSUME NEW n, Sound(n), NEW target
    PROVE  Leads(n, MaybeSendTimeoutNow(n, target))
<1> DEFINE done == [n EXCEPT !.transfer_target = None]
<1>1. Leads(n, done)
  BY Bookkeeping DEF SameVote, Sound, Fields
<1> HIDE DEF done
<1>2. \A messages : Leads(n, Send(done, messages))
  BY <1>1, SendKeepsVote, Transitive DEF Leads
<1> QED BY <1>2, Reflexive DEF MaybeSendTimeoutNow, done

(* So is the request for it. *)
LEMMA TransferLeadershipKeepsVote ==
    ASSUME NEW n, Sound(n), NEW target
    PROVE  Leads(n, TransferLeadership(n, target))
<1> DEFINE pending == [n EXCEPT !.transfer_target = target]
           asked   == MaybeSendTimeoutNow(pending, target)
<1>1. Leads(n, pending)
  BY Bookkeeping DEF SameVote, Sound, Fields
<1> HIDE DEF pending
<1>2. Leads(n, asked)
  BY <1>1, MaybeSendTimeoutNowKeepsVote, Transitive DEF Leads
<1> HIDE DEF asked
<1>3. \A peers : Leads(n, SendAppend(asked, peers))
  BY <1>2, SendAppendKeepsVote, Transitive DEF Leads
<1> QED BY <1>3, Reflexive DEF TransferLeadership, asked, pending

(* Compaction rewrites the log, not the hard state. *)
LEMMA HandleSnapshotEventKeepsVote ==
    ASSUME NEW n, Sound(n), NEW index
    PROVE  Leads(n, HandleSnapshotEvent(n, index))
<1>1. ASSUME NEW config, NEW snap, NEW at
      PROVE  Leads(n, RefreshConfig(Sync(
                [n EXCEPT !.base_config = config, !.log = ApplySnapshot(n.log, snap),
                          !.snapshot_hinted_at = at])))
  <2> DEFINE log       == ApplySnapshot(n.log, snap)
             compacted == Sync([n EXCEPT !.base_config = config, !.log = log,
                                         !.snapshot_hinted_at = at])
  <2>1. "hard" \in DOMAIN log /\ log.hard = n.log.hard
    BY MutationsKeepHard DEF Sound
  <2> HIDE DEF log
  <2>2. Leads(n, compacted)
    BY <2>1 DEF Leads, Sound, Honours, HardOf, Sync, Fields
  <2> HIDE DEF compacted
  <2>3. Leads(n, RefreshConfig(compacted))
    BY <2>2, RefreshConfigKeepsVote, Transitive DEF Leads
  <2> QED BY <2>3 DEF compacted, log
<1> QED BY <1>1, Reflexive DEF HandleSnapshotEvent

-----------------------------------------------------------------------------
(* Replication on the follower. *)

(* Recognising a leader is bookkeeping. *)
LEMMA AcceptLeaderKeepsVote ==
    ASSUME NEW n, Sound(n), NEW m PROVE Leads(n, AcceptLeader(n, m))
BY Bookkeeping, ZenonT(60) DEF AcceptLeader, SameVote, Sound, Fields

(* Taking over a commit index is. *)
LEMMA AdoptCommitKeepsVote ==
    ASSUME NEW n, Sound(n), NEW m, NEW covered
    PROVE  Leads(n, AdoptCommit(n, m, covered))
<1>1. \A index : Leads(n, [n EXCEPT !.commit_index = index])
  BY Bookkeeping DEF SameVote, Sound, Fields
<1>2. \A index : Leads(n, DrainApplies([n EXCEPT !.commit_index = index]))
  BY <1>1, DrainAppliesKeepsVote, Transitive DEF Leads
<1> QED BY <1>2, Reflexive DEF AdoptCommit

(* Truncating and appending leave the hard state alone. *)
LEMMA StoreEntriesKeepsVote ==
    ASSUME NEW n, Sound(n), NEW m PROVE Leads(n, StoreEntries(n, m))
<1>1. Leads(n, AppendFromLeader(n, m))
  <2> DEFINE kept == IF Diverges(n, m)
                     THEN Truncate(n.log, m.prev_log_index + MatchingPrefix(n, m) + 1)
                     ELSE n.log
  <2>1. "hard" \in DOMAIN kept /\ kept.hard = n.log.hard
    BY MutationsKeepHard DEF Sound
  <2> HIDE DEF kept
  <2>2. \A new : /\ "hard" \in DOMAIN AppendTo(kept, new)
                 /\ AppendTo(kept, new).hard = n.log.hard
    BY <2>1, MutationsKeepHard
  <2>3. \A new : Leads(n, Sync([n EXCEPT !.log = AppendTo(kept, new)]))
    BY <2>2, StoredKeepsVote
  <2> QED BY <2>3, Reflexive DEF AppendFromLeader, kept
<1>2. Leads(n, RefreshConfig(AppendFromLeader(n, m)))
  BY <1>1, RefreshConfigKeepsVote, Transitive DEF Leads
<1> QED BY <1>1, <1>2 DEF StoreEntries

(* The whole handler. *)
LEMMA HandleAppendEntriesKeepsVote ==
    ASSUME NEW n, Sound(n), NEW m PROVE Leads(n, HandleAppendEntries(n, m))
<1> DEFINE ours == AcceptLeader(n, m)
<1>1. Leads(n, ours)
  BY AcceptLeaderKeepsVote
<1> HIDE DEF ours
<1>2. Leads(n, StoreEntries(ours, m))
  BY <1>1, StoreEntriesKeepsVote, Transitive DEF Leads
<1>3. \A covered : /\ Leads(n, AdoptCommit(ours, m, covered))
                   /\ Leads(n, AdoptCommit(StoreEntries(ours, m), m, covered))
  BY <1>1, <1>2, AdoptCommitKeepsVote, Transitive DEF Leads
<1>4. \A a, messages : Leads(n, a) => Leads(n, Send(a, messages))
  BY SendKeepsVote, Transitive DEF Leads
<1> QED BY <1>1, <1>3, <1>4, Reflexive DEF HandleAppendEntries, ours

(* Installing a snapshot replaces the log and the application's state, not  *)
(* the hard state.                                                          *)
LEMMA HandleInstallSnapshotKeepsVote ==
    ASSUME NEW n, Sound(n), NEW m PROVE Leads(n, HandleInstallSnapshot(n, m))
<1> DEFINE ours == AcceptLeader(n, m)
           log  == ApplySnapshot(n.log, m.snapshot)
           installed(base_config, at) ==
                Sync([ours EXCEPT !.base_config = base_config,
                                  !.log = log,
                                  !.commit_index = m.snapshot.index,
                                  !.last_applied = m.snapshot.index,
                                  !.snapshot_hinted_at = at,
                                  !.app = m.snapshot.data])
<1>1. /\ Leads(n, ours) /\ DOMAIN ours = DOMAIN n /\ ours.log = n.log
  BY AcceptLeaderKeepsVote DEF AcceptLeader, Sound, Fields
<1>2. "hard" \in DOMAIN log /\ log.hard = n.log.hard
  BY MutationsKeepHard DEF Sound
<1> HIDE DEF ours, log
<1>3. ASSUME NEW base_config, NEW at
      PROVE  Leads(ours, installed(base_config, at))
  BY <1>1, <1>2 DEF Leads, Sound, Honours, HardOf, Sync, Fields
<1> HIDE DEF installed
<1>4. \A base_config, at : Leads(n, RefreshConfig(installed(base_config, at)))
  BY <1>1, <1>3, RefreshConfigKeepsVote, Transitive DEF Leads
<1>5. \A a, messages : Leads(n, a) => Leads(n, Send(a, messages))
  BY SendKeepsVote, Transitive DEF Leads
<1> QED
  BY <1>1, <1>4, <1>5, Reflexive DEF HandleInstallSnapshot, ours, log, installed

-----------------------------------------------------------------------------
(* Replication on the leader: bookkeeping. *)

(* What an acknowledgement sets in motion. *)
LEMMA AfterAckKeepsVote ==
    ASSUME NEW n, Sound(n), NEW p PROVE Leads(n, AfterAck(n, p))
<1> DEFINE told == MaybeSendTimeoutNow(AdvanceCommit(n), p)
<1>1. Leads(n, told)
  BY AdvanceCommitKeepsVote, MaybeSendTimeoutNowKeepsVote, Transitive DEF Leads
<1> HIDE DEF told
<1>2. Leads(n, SendAppend(told, {p}))
  BY <1>1, SendAppendKeepsVote, Transitive DEF Leads
<1> QED BY <1>1, <1>2 DEF AfterAck, told

(* An acknowledgement updates the progress table and goes on from there.    *)
LEMMA HandleAppendReplyKeepsVote ==
    ASSUME NEW n, Sound(n), NEW m PROVE Leads(n, HandleAppendReply(n, m))
<1>1. \A progress : Leads(n, AfterAck([n EXCEPT !.progress = progress], m.from))
  BY ProgressKeepsVote, AfterAckKeepsVote, Transitive DEF Leads
<1>2. \A progress : Leads(n, SendAppend([n EXCEPT !.progress = progress], {m.from}))
  BY ProgressKeepsVote, SendAppendKeepsVote, Transitive DEF Leads
<1> QED BY <1>1, <1>2, Reflexive DEF HandleAppendReply

(* A snapshot's acknowledgement likewise. *)
LEMMA HandleInstallSnapshotReplyKeepsVote ==
    ASSUME NEW n, Sound(n), NEW m
    PROVE  Leads(n, HandleInstallSnapshotReply(n, m))
<1>1. \A progress : Leads(n, AfterAck([n EXCEPT !.progress = progress], m.from))
  BY ProgressKeepsVote, AfterAckKeepsVote, Transitive DEF Leads
<1> QED BY <1>1, Reflexive DEF HandleInstallSnapshotReply

-----------------------------------------------------------------------------
(* Restarts. *)

(* A log that a crash may leave on the disk of n: its term and vote are     *)
(* those of a node that n may have become.                                  *)
Leavable(n, disk) ==
    /\ "hard" \in DOMAIN disk
    /\ \E m : Leads(n, m) /\ disk.hard = HardOf(m)

(* A node recovered from it stands by what n has voted. *)
LEMMA RecoveryHonours ==
    ASSUME NEW n, Sound(n), NEW disk, Leavable(n, disk)
    PROVE  Leads(n, WithLog(n.id, disk))
<1> DEFINE r == WithLog(n.id, disk)
<1>1. /\ Fields \subseteq DOMAIN r
      /\ r.id = n.id /\ r.log = disk /\ r.disk = disk
      /\ r.current_term = disk.hard.term /\ r.voted_for = disk.hard.voted_for
  BY DEF WithLog, Fields
<1> HIDE DEF r
<1>2. PICK m : Leads(n, m) /\ disk.hard = HardOf(m)
  BY DEF Leavable
<1>3. r.current_term = m.current_term /\ r.voted_for = m.voted_for
  BY <1>1, <1>2 DEF HardOf
<1>4. Sound(r)
  BY <1>1, <1>2, <1>3 DEF Sound, Leads, Leavable, HardOf
<1>5. Honours(n, r)
  BY <1>1, <1>2, <1>3 DEF Honours, Leads
<1> QED BY <1>4, <1>5 DEF Leads, r

(* A crash between two handlers leaves the disk as it is. *)
LEMMA DiskIsLeavable == ASSUME NEW n, Sound(n) PROVE Leavable(n, n.disk)
BY Reflexive DEF Leavable, Sound

(* A crash in the middle of one leaves a term and a vote as they were       *)
(* before it, or the adopted term.                                          *)
LEMMA PartialWritesAreLeavable ==
    ASSUME NEW n, Sound(n), NEW m, m.term \in Nat, NEW disk \in PartialWrites(n, m)
    PROVE  Leavable(n, disk)
<1> DEFINE known == AdoptTerm(n, m.term)
           after == HandleAppendEntries(known, m)
           new   == after.log
<1>1. Leads(n, known)
  BY AdoptTermHonours
<1> HIDE DEF known
<1>2. Leads(n, after)
  BY <1>1, HandleAppendEntriesKeepsVote, Transitive DEF Leads
<1> HIDE DEF after
<1>3. CASE disk = known.disk
  BY <1>1, <1>3 DEF Leavable, Leads, Sound
<1>4. CASE \E k : disk = [new EXCEPT !.entries = SubSeq(@, 1, k)]
  <2>1. "hard" \in DOMAIN disk /\ disk.hard = new.hard
    BY <1>2, <1>4 DEF Leads, Sound
  <2> QED BY <1>2, <2>1 DEF Leavable, Leads, Sound
<1> QED BY <1>3, <1>4 DEF PartialWrites, known, after, new

-----------------------------------------------------------------------------
(* The cluster. *)

(* What every step relies on and keeps; types are those above.             *)
VotesInv ==
    /\ \A i \in Server : Sound(node[i]) /\ node[i].id = i
    /\ VotesAreDurable
    /\ OneVotePerTerm

(* A step that leads node i to n keeps the invariant: a ballot already on   *)
(* record is of a past term or is the vote n stands by.                     *)
LEMMA StepKeepsVotes ==
    ASSUME TypeOK, VotesInv, NEW i \in Server, NEW n, Leads(node[i], n),
           NEW consumed, Become(i, n, consumed)
    PROVE  VotesInv'
<1> DEFINE m == [n EXCEPT !.sends = {}]
<1>1. /\ Sound(m) /\ m.id = i
      /\ m.current_term = n.current_term /\ m.voted_for = n.voted_for
      /\ Honours(node[i], m)
  BY DEF Leads, Sound, Honours, HardOf, Fields, VotesInv
<1> HIDE DEF m
<1>2. /\ node' = [node EXCEPT ![i] = m]
      /\ history'.ballots = history.ballots \cup BallotOf(n)
  BY DEF Become, Record, m
<1>3. node \in [Server -> NodeRecord] /\ history.ballots \subseteq Ballot
  BY DEF TypeOK
<1>4. \A j \in Server : node'[j] = IF j = i THEN m ELSE node[j]
  BY <1>2, <1>3
<1>5. \A j \in Server : Sound(node[j])' /\ node'[j].id = j
  BY <1>1, <1>4 DEF VotesInv, Sound, HardOf
<1>6. \A b \in BallotOf(n) :
        b.voter = i /\ b.term = m.current_term /\ b.candidate = m.voted_for
  BY <1>1 DEF BallotOf, Leads, Honours, VotesInv
<1>7. \A b \in history.ballots :
        \/ b.term < node'[b.voter].current_term
        \/ /\ b.term = node'[b.voter].current_term
           /\ b.candidate = node'[b.voter].voted_for
  <2> SUFFICES ASSUME NEW b \in history.ballots
               PROVE  \/ b.term < node'[b.voter].current_term
                      \/ /\ b.term = node'[b.voter].current_term
                         /\ b.candidate = node'[b.voter].voted_for
    OBVIOUS
  <2>1. b.voter \in Server /\ b.term \in Nat /\ b.candidate \in Server
    BY <1>3 DEF Ballot
  <2>2. \/ b.term < node[b.voter].current_term
        \/ /\ b.term = node[b.voter].current_term
           /\ b.candidate = node[b.voter].voted_for
    BY DEF VotesInv, VotesAreDurable
  <2>3. CASE b.voter = i
    BY <1>1, <1>4, <2>1, <2>2, <2>3, NoneAssumption DEF Honours, Sound, VotesInv
  <2>4. CASE b.voter # i
    BY <1>4, <2>1, <2>2, <2>4
  <2> QED BY <2>3, <2>4
<1>8. \A b \in history'.ballots :
        \/ b.term < node'[b.voter].current_term
        \/ /\ b.term = node'[b.voter].current_term
           /\ b.candidate = node'[b.voter].voted_for
  BY <1>1, <1>2, <1>4, <1>6, <1>7
<1>9. VotesAreDurable'
  BY <1>5, <1>8 DEF VotesAreDurable, Sound, HardOf
<1>10. OneVotePerTerm'
  <2> SUFFICES ASSUME NEW b \in history'.ballots, NEW c \in history'.ballots,
                      b.voter = c.voter, b.term = c.term
               PROVE  b.candidate = c.candidate
    BY DEF OneVotePerTerm
  <2>1. CASE b \in history.ballots /\ c \in history.ballots
    BY <2>1 DEF VotesInv, OneVotePerTerm
  <2>2. CASE b \in BallotOf(n) \/ c \in BallotOf(n)
    BY <1>1, <1>4, <1>6, <1>8, <2>2 DEF Sound
  <2> QED BY <1>2, <2>1, <2>2
<1> QED BY <1>5, <1>9, <1>10 DEF VotesInv, Sound, HardOf

(* The inductive invariant: that the state is typed is part of it, for what *)
(* a message carries reaches the hard state of its receiver.                *)
Inv == TypeOK /\ VotesInv

(* What a step of node i relies on. *)
LEMMA NodeBefore ==
    ASSUME Inv, NEW i \in Server
    PROVE  node[i] \in NodeRecord /\ Sound(node[i]) /\ node[i].id = i
BY DEF Inv, TypeOK, VotesInv

(* The step leads node i to a typed node that stands by its vote.           *)
LEMMA StepKeepsInv ==
    ASSUME Inv, NEW i \in Server, NEW n \in NodeRecord, Leads(node[i], n),
           NEW consumed, Become(i, n, consumed),
           crashes' \in Nat, losses' \in Nat
    PROVE  Inv'
<1>1. n.id = i
  BY NodeBefore DEF Leads, Honours
<1>2. TypeOK'
  BY <1>1, StepIsTyped DEF Inv
<1>3. VotesInv'
  BY StepKeepsVotes DEF Inv
<1> QED BY <1>2, <1>3 DEF Inv

(* A local step is such a step. *)
LEMMA LocalKeepsInv ==
    ASSUME Inv, NEW i \in Server, NEW n \in NodeRecord, Leads(node[i], n),
           Local(i, n)
    PROVE  Inv'
BY StepKeepsInv DEF Local, Inv, TypeOK

(* A message is taken by the node it was sent to. *)
LEMMA ReceiveKeepsInv ==
    ASSUME Inv, NEW m \in wire, NEW n \in NodeRecord, Leads(node[m.to], n),
           Receive(m, n)
    PROVE  Inv'
BY StepKeepsInv, MessageFields DEF Receive, Inv, TypeOK

(* A restart from a log that a crash may leave is one, too.                 *)
LEMMA RecoverKeepsInv ==
    ASSUME Inv, NEW i \in Server, NEW disk \in Log, Leavable(node[i], disk),
           NEW consumed, Recover(i, disk, consumed)
    PROVE  Inv'
<1>1. WithLog(i, disk) \in NodeRecord
  BY WithLogTyped
<1>2. Leads(node[i], WithLog(i, disk))
  BY NodeBefore, RecoveryHonours
<1>3. crashes' \in Nat /\ losses' \in Nat
  BY DEF Recover, Inv, TypeOK
<1> QED BY <1>1, <1>2, <1>3, StepKeepsInv DEF Recover

(* What a receive action relies on: the receiver as it is, and brought to   *)
(* the term of the message.                                                 *)
LEMMA ReceiverKnown ==
    ASSUME Inv, NEW m \in wire
    PROVE  /\ m \in Message /\ m.to \in Server /\ m.from \in Server /\ m.term \in Nat
           /\ node[m.to] \in NodeRecord /\ Sound(node[m.to])
           /\ Known(m) \in NodeRecord
           /\ Leads(node[m.to], Known(m)) /\ Sound(Known(m))
<1>1. m \in Message
  BY DEF Inv, TypeOK
<1>2. /\ m.to \in Server /\ m.from \in Server /\ m.term \in Nat
  BY <1>1, MessageFields
<1>3. node[m.to] \in NodeRecord /\ Sound(node[m.to])
  BY <1>2, NodeBefore
<1>4. Known(m) \in NodeRecord
  BY <1>2, <1>3, AdoptTermTyped DEF Known
<1>5. Leads(node[m.to], Known(m))
  BY <1>2, <1>3, AdoptTermHonours DEF Known
<1> QED BY <1>1, <1>2, <1>3, <1>4, <1>5 DEF Leads

(* The timer of a node runs for a boolean amount of ripeness.               *)
LEMMA RipenessTyped ==
    ASSUME NEW n \in NodeRecord PROVE Ripeness(n) \subseteq BOOLEAN
BY NodeFields DEF Ripeness

(* Ticks and requests. *)
LEMMA LocalActionsKeepInv ==
    ASSUME Inv, NEW i \in Server
    PROVE  /\ ElectionTimeout(i) => Inv'
           /\ Heartbeat(i) => Inv'
           /\ \A v \in Value : ClientPropose(i, v) => Inv'
           /\ \A s \in Server : AddServer(i, s) => Inv'
           /\ \A s \in Server : RemoveServer(i, s) => Inv'
           /\ \A s \in Server : Transfer(i, s) => Inv'
           /\ SnapshotEvent(i) => Inv'
<1> DEFINE n == node[i]
<1>1. n \in NodeRecord /\ Sound(n)
  BY NodeBefore
<1> HIDE DEF n
<1>2. TickTimeout(n) \in NodeRecord /\ Leads(n, TickTimeout(n))
  BY <1>1, StartPreVoteTyped, StartPreVoteHonours DEF TickTimeout
<1>3. ElectionTimeout(i) => Inv'
  BY <1>2, LocalKeepsInv DEF ElectionTimeout, n
<1>4. TickHeartbeat(n) \in NodeRecord /\ Leads(n, TickHeartbeat(n))
  BY <1>1, ReplicateTyped, SendAppendKeepsVote DEF TickHeartbeat, ReplicateToAll
<1>5. Heartbeat(i) => Inv'
  BY <1>4, LocalKeepsInv DEF Heartbeat, n
<1>6. \A v \in Value : ClientPropose(i, v) => Inv'
  <2> SUFFICES ASSUME NEW v \in Value, ClientPropose(i, v) PROVE Inv'
    OBVIOUS
  <2>1. Propose(n, v) \in NodeRecord /\ Leads(n, Propose(n, v))
    BY <1>1, ProposeTyped, ProposeKeepsVote
  <2> QED BY <2>1, LocalKeepsInv DEF ClientPropose, n
<1>7. ASSUME NEW members \in SUBSET Server, Local(i, ChangeMembership(n, members))
      PROVE  Inv'
  <2>1. /\ ChangeMembership(n, members) \in NodeRecord
        /\ Leads(n, ChangeMembership(n, members))
    BY <1>1, ChangeMembershipTyped, ChangeMembershipKeepsVote
  <2> QED BY <1>7, <2>1, LocalKeepsInv DEF n
<1>8. \A s \in Server : n.voters \cup {s} \in SUBSET Server
                        /\ n.voters \ {s} \in SUBSET Server
  BY <1>1, NodeFields
<1>9. \A s \in Server : AddServer(i, s) => Inv'
  BY <1>7, <1>8 DEF AddServer, n
<1>10. \A s \in Server : RemoveServer(i, s) => Inv'
  BY <1>7, <1>8 DEF RemoveServer, n
<1>11. \A s \in Server : Transfer(i, s) => Inv'
  <2> SUFFICES ASSUME NEW s \in Server, Transfer(i, s) PROVE Inv'
    OBVIOUS
  <2>1. /\ TransferLeadership(n, s) \in NodeRecord
        /\ Leads(n, TransferLeadership(n, s))
    BY <1>1, TransferLeadershipTyped, TransferLeadershipKeepsVote
  <2> QED BY <2>1, LocalKeepsInv DEF Transfer, n
<1>12. SnapshotEvent(i) => Inv'
  <2> SUFFICES ASSUME SnapshotEvent(i) PROVE Inv'
    OBVIOUS
  <2>1. PICK index \in n.hints :
            Local(i, [HandleSnapshotEvent(n, index) EXCEPT !.hints = @ \ {index}])
    BY DEF SnapshotEvent, n
  <2> DEFINE a == HandleSnapshotEvent(n, index)
             b == [a EXCEPT !.hints = @ \ {index}]
  <2>2. a \in NodeRecord /\ Leads(n, a)
    BY <1>1, NodeFields, HandleSnapshotEventTyped, HandleSnapshotEventKeepsVote
  <2> HIDE DEF a
  <2>3. b \in NodeRecord
    BY <2>2 DEF NodeRecord
  <2>4. SameVote(a, b)
    BY <2>2 DEF SameVote, NodeRecord
  <2>5. Leads(n, b)
    <3> HIDE DEF b
    <3> QED BY <1>1, <2>2, <2>4, Bookkeeping, Transitive DEF Leads
  <2> QED BY <2>1, <2>3, <2>5, LocalKeepsInv DEF a, b, n
<1> QED BY <1>3, <1>5, <1>6, <1>9, <1>10, <1>11, <1>12

(* Messages of the elections. *)
LEMMA ElectionMessagesKeepInv ==
    ASSUME Inv, NEW m \in wire
    PROVE  /\ ReceivePreVote(m) => Inv'
           /\ ReceivePreVoteReply(m) => Inv'
           /\ DropRequestVote(m) => Inv'
           /\ ReceiveRequestVote(m) => Inv'
           /\ ReceiveVoteReply(m) => Inv'
           /\ ReceiveTimeoutNow(m) => Inv'
<1> DEFINE n == node[m.to]
           k == Known(m)
<1>1. /\ m \in Message /\ m.from \in Server /\ m.term \in Nat
      /\ n \in NodeRecord /\ Sound(n)
      /\ k \in NodeRecord /\ Leads(n, k) /\ Sound(k)
  BY ReceiverKnown
<1>2. Ripeness(n) \subseteq BOOLEAN
  BY <1>1, RipenessTyped
<1> HIDE DEF n, k
<1>3. ASSUME NEW a, Leads(k, a) PROVE Leads(n, a)
  BY <1>1, <1>3, Transitive
<1>4. ReceivePreVote(m) => Inv'
  <2> SUFFICES ASSUME NEW ripe \in BOOLEAN, Receive(m, HandlePreVote(n, m, ripe))
               PROVE  Inv'
    BY <1>2 DEF ReceivePreVote, n
  <2>1. HandlePreVote(n, m, ripe) \in NodeRecord /\ Leads(n, HandlePreVote(n, m, ripe))
    BY <1>1, HandlePreVoteTyped, HandlePreVoteKeepsVote
  <2> QED BY <2>1, ReceiveKeepsInv DEF n
<1>5. ReceivePreVoteReply(m) => Inv'
  <2>1. HandlePreVoteReply(n, m) \in NodeRecord /\ Leads(n, HandlePreVoteReply(n, m))
    BY <1>1, HandlePreVoteReplyTyped, HandlePreVoteReplyHonours
  <2> QED BY <2>1, ReceiveKeepsInv DEF ReceivePreVoteReply, n
<1>6. DropRequestVote(m) => Inv'
  <2>1. Leads(n, n)
    BY <1>1, Reflexive
  <2> QED BY <1>1, <2>1, ReceiveKeepsInv DEF DropRequestVote, n
<1>7. ReceiveRequestVote(m) => Inv'
  <2>1. HandleRequestVote(k, m) \in NodeRecord /\ Leads(n, HandleRequestVote(k, m))
    BY <1>1, <1>3, HandleRequestVoteTyped, HandleRequestVoteHonours
  <2> QED BY <2>1, ReceiveKeepsInv DEF ReceiveRequestVote, n, k
<1>8. ReceiveVoteReply(m) => Inv'
  <2> SUFFICES ASSUME NEW ripe \in BOOLEAN, Receive(m, HandleVoteReply(k, m, ripe))
               PROVE  Inv'
    BY <1>2 DEF ReceiveVoteReply, n, k
  <2>1. /\ HandleVoteReply(k, m, ripe) \in NodeRecord
        /\ Leads(n, HandleVoteReply(k, m, ripe))
    BY <1>1, <1>3, HandleVoteReplyTyped, HandleVoteReplyKeepsVote
  <2> QED BY <2>1, ReceiveKeepsInv DEF n
<1>9. ReceiveTimeoutNow(m) => Inv'
  <2>1. HandleTimeoutNow(k, m) \in NodeRecord /\ Leads(n, HandleTimeoutNow(k, m))
    BY <1>1, <1>3, HandleTimeoutNowTyped, HandleTimeoutNowHonours
  <2> QED BY <2>1, ReceiveKeepsInv DEF ReceiveTimeoutNow, n, k
<1> QED BY <1>4, <1>5, <1>6, <1>7, <1>8, <1>9

(* Messages of replication. *)
LEMMA ReplicationMessagesKeepInv ==
    ASSUME Inv, NEW m \in wire
    PROVE  /\ ReceiveAppendEntries(m) => Inv'
           /\ ReceiveAppendReply(m) => Inv'
           /\ ReceiveInstallSnapshot(m) => Inv'
           /\ ReceiveInstallSnapshotReply(m) => Inv'
<1> DEFINE n == node[m.to]
           k == Known(m)
<1>1. /\ m \in Message /\ Sound(n)
      /\ k \in NodeRecord /\ Leads(n, k) /\ Sound(k)
  BY ReceiverKnown
<1> HIDE DEF n, k
<1>2. ASSUME NEW a, Leads(k, a) PROVE Leads(n, a)
  BY <1>1, <1>2, Transitive
<1>3. ReceiveAppendEntries(m) => Inv'
  <2> SUFFICES ASSUME m.kind = "AppendEntries", Receive(m, HandleAppendEntries(k, m))
               PROVE  Inv'
    BY DEF ReceiveAppendEntries, k
  <2>1. HandleAppendEntries(k, m) \in NodeRecord /\ Leads(n, HandleAppendEntries(k, m))
    BY <1>1, <1>2, HandleAppendEntriesTyped, HandleAppendEntriesKeepsVote
  <2> QED BY <2>1, ReceiveKeepsInv DEF n
<1>4. ReceiveAppendReply(m) => Inv'
  <2> SUFFICES ASSUME m.kind = "AppendEntriesReply", Receive(m, HandleAppendReply(k, m))
               PROVE  Inv'
    BY DEF ReceiveAppendReply, k
  <2>1. HandleAppendReply(k, m) \in NodeRecord /\ Leads(n, HandleAppendReply(k, m))
    BY <1>1, <1>2, HandleAppendReplyTyped, HandleAppendReplyKeepsVote
  <2> QED BY <2>1, ReceiveKeepsInv DEF n
<1>5. ReceiveInstallSnapshot(m) => Inv'
  <2> SUFFICES ASSUME m.kind = "InstallSnapshot", Receive(m, HandleInstallSnapshot(k, m))
               PROVE  Inv'
    BY DEF ReceiveInstallSnapshot, k
  <2>1. /\ HandleInstallSnapshot(k, m) \in NodeRecord
        /\ Leads(n, HandleInstallSnapshot(k, m))
    BY <1>1, <1>2, HandleInstallSnapshotTyped, HandleInstallSnapshotKeepsVote
  <2> QED BY <2>1, ReceiveKeepsInv DEF n
<1>6. ReceiveInstallSnapshotReply(m) => Inv'
  <2> SUFFICES ASSUME m.kind = "InstallSnapshotReply",
                      Receive(m, HandleInstallSnapshotReply(k, m))
               PROVE  Inv'
    BY DEF ReceiveInstallSnapshotReply, k
  <2>1. /\ HandleInstallSnapshotReply(k, m) \in NodeRecord
        /\ Leads(n, HandleInstallSnapshotReply(k, m))
    BY <1>1, <1>2, HandleInstallSnapshotReplyTyped, HandleInstallSnapshotReplyKeepsVote
  <2> QED BY <2>1, ReceiveKeepsInv DEF n
<1> QED BY <1>3, <1>4, <1>5, <1>6

(* Losses and crashes. *)
LEMMA FailuresKeepInv ==
    ASSUME Inv
    PROVE  /\ \A i \in Server : Crash(i) => Inv'
           /\ \A m \in wire : CrashHandling(m) => Inv'
           /\ \A m \in wire : Lose(m) => Inv'
<1>1. ASSUME NEW i \in Server, Crash(i) PROVE Inv'
  <2>1. node[i].disk \in Log /\ Leavable(node[i], node[i].disk)
    BY NodeBefore, NodeFields, DiskIsLeavable
  <2> QED BY <1>1, <2>1, RecoverKeepsInv DEF Crash
<1>2. ASSUME NEW m \in wire, CrashHandling(m) PROVE Inv'
  <2>1. /\ m \in Message /\ m.to \in Server /\ m.term \in Nat
        /\ node[m.to] \in NodeRecord /\ Sound(node[m.to])
    BY ReceiverKnown
  <2>2. PICK disk \in PartialWrites(node[m.to], m) : Recover(m.to, disk, {m})
    BY <1>2 DEF CrashHandling
  <2>3. disk \in Log /\ Leavable(node[m.to], disk)
    BY <2>1, PartialWritesTyped, PartialWritesAreLeavable
  <2> QED BY <2>1, <2>2, <2>3, RecoverKeepsInv
<1>3. ASSUME NEW m \in wire, Lose(m) PROVE Inv'
  <2>1. /\ UNCHANGED <<node, history, crashes>>
        /\ wire' \subseteq wire /\ losses' = losses + 1
    BY <1>3 DEF Lose
  <2> QED BY <2>1 DEF Inv, TypeOK, VotesInv, Sound, HardOf, VotesAreDurable,
                      OneVotePerTerm
<1> QED BY <1>1, <1>2, <1>3

(* Every step keeps the invariant. *)
LEMMA NextKeepsInv == Inv /\ [Next]_vars => Inv'
<1> SUFFICES ASSUME Inv, [Next]_vars PROVE Inv'
  OBVIOUS
<1>1. CASE UNCHANGED vars
  BY <1>1 DEF vars, Inv, TypeOK, VotesInv, Sound, HardOf, VotesAreDurable,
              OneVotePerTerm
<1>2. CASE Next
  BY <1>2, BoundsAssumption, LocalActionsKeepInv, ElectionMessagesKeepInv,
     ReplicationMessagesKeepInv, FailuresKeepInv
     DEF Next
<1> QED BY <1>1, <1>2

(* So does the start. *)
LEMMA InitHasInv == Init => Inv
<1> SUFFICES ASSUME Init PROVE Inv
  OBVIOUS
<1>1. TypeOK
  BY InitIsTyped
<1>2. \A i \in Server : Sound(node[i]) /\ node[i].id = i
  <2> SUFFICES ASSUME NEW i \in Server PROVE Sound(node[i]) /\ node[i].id = i
    OBVIOUS
  <2>1. node[i] = WithLog(i, EmptyLog)
    BY DEF Init
  <2> QED BY <2>1 DEF WithLog, EmptyLog, Sound, HardOf, Fields
<1>3. history.ballots = {}
  BY DEF Init
<1> QED BY <1>1, <1>2, <1>3
        DEF Inv, VotesInv, VotesAreDurable, OneVotePerTerm, Sound, HardOf

-----------------------------------------------------------------------------
(* The theorems. *)

(* The invariant holds in every reachable state. *)
THEOREM Invariance == Spec => []Inv
BY InitHasInv, NextKeepsInv, PTL DEF Spec

(* Every reachable state is well typed: no index a leader computes from the *)
(* replies it is sent, next_index - 1 included, drops below zero.           *)
THEOREM TypeCorrect == Spec => []TypeOK
<1>1. Inv => TypeOK
  BY DEF Inv
<1> QED BY <1>1, Invariance, PTL

(* Whatever crashes, losses and replays come between, the term and vote a   *)
(* node acts on are on its disk, and a vote on record stands.               *)
THEOREM VotesDurable == Spec => []VotesAreDurable
<1>1. Inv => VotesAreDurable
  BY DEF Inv, VotesInv
<1> QED BY <1>1, Invariance, PTL

(* No server ever votes for two candidates in one term, however many        *)
(* servers there are and however the membership changes.                    *)
THEOREM VotesOnce == Spec => []OneVotePerTerm
<1>1. Inv => OneVotePerTerm
  BY DEF Inv, VotesInv
<1> QED BY <1>1, Invariance, PTL
=============================================================================
