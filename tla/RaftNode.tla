------------------------------ MODULE RaftNode ------------------------------
(***************************************************************************)
(* One node of src/node.rs: the RaftNode struct as a record and every      *)
(* method of it as a function from the node before to the node after.      *)
(*                                                                         *)
(* The `actions: &mut Vec<Action>` the methods push to is the field sends  *)
(* for Action::Send, and the effect on the application (fields app and     *)
(* hints) for Apply, RestoreSnapshot and Snapshot: the caller executes     *)
(* them in the order returned, before the node's next event.               *)
(*                                                                         *)
(* The election timer runs on ticks nobody counts: between two events of a *)
(* follower or candidate any number of them may pass, so whether           *)
(* election_elapsed >= election_timeout_min is chosen where it is read.    *)
(* The clock of a leader stands still (tick only counts heartbeats), so    *)
(* `ripe` keeps what held when it won.  `disk` is what RaftLog::sync has   *)
(* made durable.                                                           *)
(***************************************************************************)
EXTENDS RaftLog

CONSTANTS
    InitialVoters,      \* RaftConfig::peers, the same on every node
    MaxBatch,           \* RaftConfig::max_batch
    SnapshotThreshold   \* RaftConfig::snapshot_threshold, 0 for no hints

ASSUME ConfigAssumption ==
    /\ InitialVoters \subseteq Server
    /\ MaxBatch \in Nat \ {0}
    /\ SnapshotThreshold \in Nat

Role == {"Follower", "Candidate", "Leader"}

Progress == [next_index : Nat, match_index : Nat, state : {"Probe", "Replicate"}]

ASSUME ProgressAssumption == None \notin Progress

(* The messages, each with the id it is sent to and the sender's id, which *)
(* is the candidate, leader or from field of the struct.                   *)
PreVote == [kind : {"PreVote"}, from : Server, to : Server, term : Nat,
            last_log_index : Nat, last_log_term : Nat]

PreVoteReply == [kind : {"PreVoteReply"}, from : Server, to : Server, term : Nat,
                 vote_granted : BOOLEAN]

RequestVote == [kind : {"RequestVote"}, from : Server, to : Server, term : Nat,
                last_log_index : Nat, last_log_term : Nat, force : BOOLEAN]

RequestVoteReply == [kind : {"RequestVoteReply"}, from : Server, to : Server,
                     term : Nat, vote_granted : BOOLEAN]

AppendEntries == [kind : {"AppendEntries"}, from : Server, to : Server, term : Nat,
                  prev_log_index : Nat, prev_log_term : Nat, entries : Seq(LogEntry),
                  leader_commit : Nat]

AppendEntriesReply == [kind : {"AppendEntriesReply"}, from : Server, to : Server,
                       term : Nat, success : BOOLEAN, match_index : Nat,
                       conflict_index : Nat, conflict_term : Nat]

InstallSnapshot == [kind : {"InstallSnapshot"}, from : Server, to : Server,
                    term : Nat, snapshot : Snapshot]

InstallSnapshotReply == [kind : {"InstallSnapshotReply"}, from : Server, to : Server,
                         term : Nat, last_index : Nat]

TimeoutNow == [kind : {"TimeoutNow"}, from : Server, to : Server, term : Nat]

Message ==
    PreVote \cup PreVoteReply \cup RequestVote \cup RequestVoteReply
        \cup AppendEntries \cup AppendEntriesReply
        \cup InstallSnapshot \cup InstallSnapshotReply \cup TimeoutNow

-----------------------------------------------------------------------------
(* Construction and recovery. *)

(* The progress table has an entry for the peers of a leader only. *)
NoProgress == [p \in Server |-> None]

Tracked(n) == {p \in Server : n.progress[p] # None}

(* with_log: the bootstrap configuration is the node and its peers. *)
WithLog(id, log) ==
    LET base == IF HasSnapshot(log) /\ log.snapshot_config # {}
                THEN log.snapshot_config
                ELSE InitialVoters \cup {id}
    IN  [id                 |-> id,
         voters             |-> ConfigAt(log, LastIndex(log), base),
         base_config        |-> base,
         config_index       |-> ConfigIndexAt(log, LastIndex(log)),
         log                |-> log,
         disk               |-> log,
         role               |-> "Follower",
         current_term       |-> log.hard.term,
         voted_for          |-> log.hard.voted_for,
         leader_id          |-> None,
         commit_index       |-> log.base_index,
         last_applied       |-> log.base_index,
         ripe               |-> FALSE,
         votes              |-> {},
         pre_voting         |-> FALSE,
         pre_votes          |-> {},
         progress           |-> NoProgress,
         snapshot_hinted_at |-> log.base_index,
         transfer_target    |-> None,
         sends              |-> {},
         app                |-> log.data,
         hints              |-> {}]

-----------------------------------------------------------------------------
(* Configuration, timer and durable state. *)

Quorum(n) == Cardinality(n.voters) \div 2 + 1

IsVoter(n) == n.id \in n.voters

Peers(n) == n.voters \ {n.id}

Sync(n) == [n EXCEPT !.disk = n.log]

PersistHardState(n) ==
    Sync([n EXCEPT !.log = SetHardState(n.log, n.current_term, n.voted_for)])

Send(n, messages) == [n EXCEPT !.sends = @ \cup messages]

(* Mutant: a peer joins with everything counted as matched. *)
RebuildProgressMatched(n) ==
    [n EXCEPT !.progress =
        [p \in Server |->
            IF p \notin Peers(n) THEN None
            ELSE [next_index  |-> LastIndex(n.log) + 1,
                  match_index |-> LastIndex(n.log),
                  state       |-> "Probe"]]]

RebuildProgress(n) ==
    [n EXCEPT !.progress =
        [p \in Server |->
            IF p \notin Peers(n) THEN None
            ELSE IF p \in Tracked(n) THEN n.progress[p]
            ELSE [next_index  |-> LastIndex(n.log) + 1,
                  match_index |-> 0,
                  state       |-> "Probe"]]]

SetConfig(n, voters, config_index) ==
    LET adopted == [n EXCEPT !.voters = voters, !.config_index = config_index]
    IN  IF n.role = "Leader" THEN RebuildProgress(adopted) ELSE adopted

RefreshConfig(n) ==
    LET last == LastIndex(n.log)
    IN  SetConfig(n, ConfigAt(n.log, last, n.base_config),
                     ConfigIndexAt(n.log, last))

-----------------------------------------------------------------------------
(* Replication by the leader. *)

AppendEntriesTo(n, p) ==
    LET next == n.progress[p].next_index
        prev_term == TermAt(n.log, next - 1)
    IN  [kind           |-> "AppendEntries",
         from           |-> n.id,
         to             |-> p,
         term           |-> n.current_term,
         prev_log_index |-> next - 1,
         prev_log_term  |-> IF prev_term = NoTerm THEN 0 ELSE prev_term,
         entries        |-> EntriesOf(n.log, next, next + MaxBatch - 1),
         leader_commit  |-> n.commit_index]

InstallSnapshotTo(n, p) ==
    [kind |-> "InstallSnapshot", from |-> n.id, to |-> p,
     term |-> n.current_term, snapshot |-> SnapshotOf(n.log)]

(* The entry before next has been compacted away. *)
Compacted(n, p) == n.progress[p].next_index <= n.log.base_index

(* A non-empty batch to a streaming peer moves next past it at once. *)
ProgressAfterSend(n, p) ==
    IF Compacted(n, p) THEN [n.progress[p] EXCEPT !.state = "Probe"]
    ELSE IF n.progress[p].state = "Replicate"
         THEN [n.progress[p] EXCEPT !.next_index =
                    @ + Len(AppendEntriesTo(n, p).entries)]
         ELSE n.progress[p]

SendAppend(n, peers) ==
    [n EXCEPT
        !.sends = @ \cup {IF Compacted(n, p) THEN InstallSnapshotTo(n, p)
                                             ELSE AppendEntriesTo(n, p) : p \in peers},
        !.progress = [p \in Server |->
                        IF p \in peers THEN ProgressAfterSend(n, p)
                                       ELSE n.progress[p]]]

ReplicateToAll(n) == SendAppend(n, Tracked(n))

ReplicateToStreaming(n) ==
    SendAppend(n, {p \in Tracked(n) : n.progress[p].state = "Replicate"})

-----------------------------------------------------------------------------
(* Commitment and application. *)

MaybeHintSnapshot(n) ==
    IF /\ SnapshotThreshold # 0
       /\ n.last_applied >= n.log.base_index + SnapshotThreshold
       /\ n.last_applied > n.snapshot_hinted_at
       /\ TermAt(n.log, n.last_applied) # NoTerm
    THEN [n EXCEPT !.snapshot_hinted_at = n.last_applied,
                   !.hints = @ \cup {n.last_applied}]
    ELSE n

(* The commands, not the configuration entries, reach the application. *)
DrainApplies(n) ==
    LET due == {k \in n.last_applied + 1 .. n.commit_index :
                    HasEntry(n.log, k) /\ EntryAt(n.log, k).kind = "Normal"}
    IN  MaybeHintSnapshot(
            [n EXCEPT
                !.last_applied = Larger(@, n.commit_index),
                !.app = @ \cup {[index   |-> k,
                                 command |-> EntryAt(n.log, k).body] : k \in due}])

StepDownToFollower(n) ==
    [n EXCEPT !.role = "Follower", !.leader_id = None, !.transfer_target = None,
              !.pre_voting = FALSE, !.pre_votes = {}, !.progress = NoProgress,
              !.votes = {}, !.ripe = FALSE]

(* Mutant: a leader counts itself, voter or not. *)
HoldersWithLeader(n, index) ==
    {p \in Tracked(n) : n.progress[p].match_index >= index} \cup {n.id}

(* The voters known to hold the entry at index; a leader that is not a     *)
(* voter does not count itself.                                            *)
Holders(n, index) ==
    {p \in Tracked(n) : n.progress[p].match_index >= index}
        \cup ({n.id} \cap n.voters)

(* Mutant: entries of earlier terms commit by counting, too. *)
CommittableOfAnyTerm(n) ==
    {k \in n.commit_index + 1 .. LastIndex(n.log) :
        Cardinality(Holders(n, k)) >= Quorum(n)}

(* Only an entry of the current term commits by counting; the scan runs    *)
(* down from the end and gives up at the first entry of an earlier term.   *)
Committable(n) ==
    {k \in n.commit_index + 1 .. LastIndex(n.log) :
        /\ TermAt(n.log, k) = n.current_term
        /\ \A j \in k .. LastIndex(n.log) : TermAt(n.log, j) >= n.current_term
        /\ Cardinality(Holders(n, k)) >= Quorum(n)}

AdvanceCommit(n) ==
    IF Committable(n) = {} THEN n
    ELSE LET c == DrainApplies([n EXCEPT !.commit_index = Max(Committable(n))])
         IN  IF /\ c.role = "Leader"
                /\ ~ IsVoter(c)
                /\ c.config_index # 0
                /\ c.commit_index >= c.config_index
             THEN StepDownToFollower(c)
             ELSE c

-----------------------------------------------------------------------------
(* Elections. *)

(* Mutant: the term is adopted in memory only. *)
BecomeFollowerUnpersisted(n, term, leader) ==
    LET follower == [n EXCEPT !.role = "Follower", !.leader_id = leader,
                              !.transfer_target = None, !.pre_voting = FALSE,
                              !.pre_votes = {}, !.votes = {},
                              !.progress = NoProgress, !.ripe = FALSE]
    IN  IF term > n.current_term
        THEN [follower EXCEPT !.current_term = term, !.voted_for = None]
        ELSE follower

BecomeFollower(n, term, leader) ==
    LET follower == [n EXCEPT !.role = "Follower", !.leader_id = leader,
                              !.transfer_target = None, !.pre_voting = FALSE,
                              !.pre_votes = {}, !.votes = {},
                              !.progress = NoProgress, !.ripe = FALSE]
    IN  IF term > n.current_term
        THEN PersistHardState([follower EXCEPT !.current_term = term,
                                               !.voted_for = None])
        ELSE follower

BecomeLeader(n) ==
    AdvanceCommit(ReplicateToAll(RebuildProgress(
        [n EXCEPT !.role = "Leader", !.leader_id = n.id, !.transfer_target = None,
                  !.pre_voting = FALSE, !.pre_votes = {}])))

RequestVotes(n, force) ==
    {[kind |-> "RequestVote", from |-> n.id, to |-> p, term |-> n.current_term,
      last_log_index |-> LastIndex(n.log), last_log_term |-> LastTerm(n.log),
      force |-> force] : p \in Peers(n)}

StartElection(n, force) ==
    LET candidate == PersistHardState(
            [n EXCEPT !.role = "Candidate", !.current_term = @ + 1,
                      !.voted_for = n.id, !.leader_id = None,
                      !.transfer_target = None, !.pre_voting = FALSE,
                      !.pre_votes = {}, !.progress = NoProgress,
                      !.votes = {n.id}, !.ripe = FALSE])
    IN  IF 1 >= Quorum(n) THEN BecomeLeader(candidate)
        ELSE Send(candidate, RequestVotes(candidate, force))

(* The probe carries the term the node would campaign at, not adopted. *)
PreVotes(n) ==
    {[kind |-> "PreVote", from |-> n.id, to |-> p, term |-> n.current_term + 1,
      last_log_index |-> LastIndex(n.log), last_log_term |-> LastTerm(n.log)] :
        p \in Peers(n)}

StartPreVote(n) ==
    LET probing == [n EXCEPT !.role = "Follower", !.leader_id = None,
                             !.pre_voting = TRUE, !.pre_votes = {n.id}]
    IN  IF 1 >= Quorum(n) THEN StartElection(probing, FALSE)
        ELSE Send(probing, PreVotes(probing))

-----------------------------------------------------------------------------
(* Ticks.  On a follower or candidate any tick may be the one that brings  *)
(* the elapsed time to the randomised timeout.                             *)

Waits(n) == n.role # "Leader"

TickTimeout(n) == StartPreVote(n)

TickHeartbeat(n) == ReplicateToAll(n)

-----------------------------------------------------------------------------
(* Client and operator requests. *)

AcceptsRequests(n) == n.role = "Leader" /\ n.transfer_target = None

Propose(n, command) ==
    LET stored == Sync([n EXCEPT !.log =
                        AppendTo(n.log, << NormalEntry(n.current_term, command) >>)])
    IN  AdvanceCommit(ReplicateToStreaming(stored))

(* Mutant: changes are not held back. *)
ConfigNeverInProgress(n) == FALSE

ConfigInProgress(n) == n.config_index > n.commit_index

(* The configuration entry is adopted as soon as it is appended. *)
ChangeMembership(n, members) ==
    IF members = n.voters THEN n
    ELSE LET stored == Sync([n EXCEPT !.log =
                        AppendTo(n.log, << ConfigEntry(n.current_term, members) >>)])
         IN  AdvanceCommit(ReplicateToAll(
                 SetConfig(stored, members, LastIndex(stored.log))))

(* Mutant: the target is not required to have caught up. *)
SendTimeoutNowEarly(n, target) ==
    IF n.transfer_target = target
    THEN Send([n EXCEPT !.transfer_target = None],
              {[kind |-> "TimeoutNow", from |-> n.id, to |-> target,
                term |-> n.current_term]})
    ELSE n

MaybeSendTimeoutNow(n, target) ==
    IF /\ n.transfer_target = target
       /\ target \in Tracked(n)
       /\ n.progress[target].match_index >= LastIndex(n.log)
    THEN Send([n EXCEPT !.transfer_target = None],
              {[kind |-> "TimeoutNow", from |-> n.id, to |-> target,
                term |-> n.current_term]})
    ELSE n

TransferLeadership(n, target) ==
    IF n.role # "Leader" \/ target = n.id \/ target \notin n.voters THEN n
    ELSE LET asked == MaybeSendTimeoutNow([n EXCEPT !.transfer_target = target],
                                          target)
         IN  SendAppend(asked, IF asked.transfer_target = None THEN {}
                               ELSE {target} \cap Tracked(asked))

(* A snapshot of the application's state through index; an index that is   *)
(* not applied, or no newer than the snapshot held, is ignored.            *)
HandleSnapshotEvent(n, index) ==
    IF \/ index > n.commit_index
       \/ index > n.last_applied
       \/ index <= n.log.base_index
       \/ TermAt(n.log, index) = NoTerm
    THEN n
    ELSE LET config == ConfigAt(n.log, index, n.base_config)
             snap == [index |-> index, term |-> TermAt(n.log, index),
                      config |-> config,
                      data |-> {a \in n.app : a.index <= index}]
         IN  RefreshConfig(Sync(
                [n EXCEPT !.base_config = config,
                          !.log = ApplySnapshot(n.log, snap),
                          !.snapshot_hinted_at = Larger(@, index)]))

-----------------------------------------------------------------------------
(* Messages: elections. *)

(* Whether the minimum election timeout has passed since the last reset. *)
Ripeness(n) == IF Waits(n) THEN BOOLEAN ELSE {n.ripe}

(* A leader this node heard from within the minimum election timeout. *)
HasActiveLeader(n, ripe) == n.leader_id # None /\ ~ ripe

(* The request that is dropped without even adopting its term. *)
Ignored(n, m, ripe) ==
    m.kind = "RequestVote" /\ ~ m.force /\ HasActiveLeader(n, ripe)

(* Every message but the pre-vote pair brings the node to its term first. *)
AdoptTerm(n, term) ==
    IF term > n.current_term THEN BecomeFollower(n, term, None) ELSE n

(* Mutant: the longer log wins whatever its last term. *)
CandidateLogAsLong(n, m) == m.last_log_index >= LastIndex(n.log)

CandidateLogUpToDate(n, m) ==
    \/ m.last_log_term > LastTerm(n.log)
    \/ m.last_log_term = LastTerm(n.log) /\ m.last_log_index >= LastIndex(n.log)

VoteReply(n, kind, m, granted) ==
    {[kind |-> kind, from |-> n.id, to |-> m.from, term |-> n.current_term,
      vote_granted |-> granted]}

CanGrantVote(n, m) ==
    /\ m.term >= n.current_term
    /\ n.voted_for \in {None, m.from}
    /\ CandidateLogUpToDate(n, m)

(* Mutant: the vote is sent without being persisted. *)
HandleRequestVoteUnpersisted(n, m) ==
    IF CanGrantVote(n, m)
    THEN Send([n EXCEPT !.voted_for = m.from],
              VoteReply(n, "RequestVoteReply", m, TRUE))
    ELSE Send(n, VoteReply(n, "RequestVoteReply", m, FALSE))

HandleRequestVote(n, m) ==
    IF CanGrantVote(n, m)
    THEN Send(PersistHardState([n EXCEPT !.voted_for = m.from]),
              VoteReply(n, "RequestVoteReply", m, TRUE))
    ELSE Send(n, VoteReply(n, "RequestVoteReply", m, FALSE))

(* Mutant: a denial counts like a vote. *)
HandleVoteReplyEither(n, m, ripe) ==
    IF n.role # "Candidate" \/ m.term # n.current_term \/ m.from \in n.votes
    THEN n
    ELSE LET counted == [n EXCEPT !.votes = @ \cup {m.from}]
         IN  IF Cardinality(counted.votes) >= Quorum(n)
             THEN BecomeLeader([counted EXCEPT !.ripe = ripe]) ELSE counted

HandleVoteReply(n, m, ripe) ==
    IF \/ n.role # "Candidate" \/ m.term # n.current_term
       \/ ~ m.vote_granted     \/ m.from \in n.votes
    THEN n
    ELSE LET counted == [n EXCEPT !.votes = @ \cup {m.from}]
         IN  IF Cardinality(counted.votes) >= Quorum(n)
             THEN BecomeLeader([counted EXCEPT !.ripe = ripe]) ELSE counted

(* Mutant: a probe is granted whoever leads. *)
CanGrantPreVoteAnyway(n, m, ripe) ==
    m.term >= n.current_term /\ CandidateLogUpToDate(n, m)

(* A probe is answered from the same conditions and changes nothing. *)
CanGrantPreVote(n, m, ripe) ==
    /\ m.term >= n.current_term
    /\ ~ HasActiveLeader(n, ripe)
    /\ CandidateLogUpToDate(n, m)

HandlePreVote(n, m, ripe) ==
    Send(n, VoteReply(n, "PreVoteReply", m, CanGrantPreVote(n, m, ripe)))

(* Mutant: a refusal counts like a grant. *)
HandlePreVoteReplyEither(n, m) ==
    IF ~ n.pre_voting \/ m.term > n.current_term THEN n
    ELSE LET counted == [n EXCEPT !.pre_votes = @ \cup {m.from}]
         IN  IF Cardinality(counted.pre_votes) >= Quorum(n)
             THEN StartElection(counted, FALSE) ELSE counted

HandlePreVoteReply(n, m) ==
    IF ~ n.pre_voting THEN n
    ELSE IF m.term > n.current_term THEN BecomeFollower(n, m.term, None)
    ELSE IF ~ m.vote_granted \/ m.from \in n.pre_votes THEN n
    ELSE LET counted == [n EXCEPT !.pre_votes = @ \cup {m.from}]
         IN  IF Cardinality(counted.pre_votes) >= Quorum(n)
             THEN StartElection(counted, FALSE) ELSE counted

(* A handed-over node campaigns at once, even one that already leads. *)
HandleTimeoutNow(n, m) ==
    IF m.term < n.current_term \/ ~ IsVoter(n) THEN n
    ELSE StartElection(n, TRUE)

-----------------------------------------------------------------------------
(* Messages: replication, on the follower. *)

AppendReply(n, m, success, match_index, conflict_index, conflict_term) ==
    {[kind |-> "AppendEntriesReply", from |-> n.id, to |-> m.from,
      term |-> n.current_term, success |-> success, match_index |-> match_index,
      conflict_index |-> conflict_index, conflict_term |-> conflict_term]}

(* Recognising the sender as the leader of the current term. *)
AcceptLeader(n, m) ==
    [n EXCEPT !.role = "Follower", !.leader_id = m.from, !.pre_voting = FALSE,
              !.ripe = FALSE]

(* Mutant: ignored on a heartbeat. *)
AdoptCommitWithEntries(n, m, covered) ==
    IF m.leader_commit > n.commit_index /\ m.entries # << >>
    THEN DrainApplies([n EXCEPT !.commit_index = Smaller(m.leader_commit, covered)])
    ELSE n

(* leader_commit, cut at the last index this message vouches for.  The cut *)
(* is what is stored: it may lie below the commit index already known.     *)
AdoptCommit(n, m, covered) ==
    IF m.leader_commit > n.commit_index
    THEN DrainApplies([n EXCEPT !.commit_index = Smaller(m.leader_commit, covered)])
    ELSE n

(* Mutant: having an entry there is enough. *)
PrevPresent(n, m) == TermAt(n.log, m.prev_log_index) # NoTerm

PrevOk(n, m) == TermAt(n.log, m.prev_log_index) = m.prev_log_term

ConflictReply(n, m) ==
    IF m.prev_log_index > LastIndex(n.log)
    THEN AppendReply(n, m, FALSE, 0, LastIndex(n.log) + 1, 0)
    ELSE LET term == TermAt(n.log, m.prev_log_index)
         IN  AppendReply(n, m, FALSE, 0,
                         FirstIndexOfTerm(n.log, term, m.prev_log_index), term)

(* The entries of the batch that the log already holds: a prefix of it. *)
MatchingPrefix(n, m) ==
    Max({k \in 0 .. Len(m.entries) :
            \A j \in 1 .. k :
                TermAt(n.log, m.prev_log_index + j) = m.entries[j].term})

Diverges(n, m) ==
    LET next == m.prev_log_index + MatchingPrefix(n, m) + 1
    IN  MatchingPrefix(n, m) < Len(m.entries) /\ next <= LastIndex(n.log)

(* Mutants: the batch replaces whatever follows prev_log_index; the log is *)
(* not synced.                                                             *)
AppendFromLeaderEagerly(n, m) ==
    IF m.entries = << >> THEN n
    ELSE Sync([n EXCEPT !.log =
                AppendTo(Truncate(n.log, m.prev_log_index + 1), m.entries)])

AppendFromLeaderUnsynced(n, m) ==
    LET matched == MatchingPrefix(n, m)
        kept    == IF Diverges(n, m)
                   THEN Truncate(n.log, m.prev_log_index + matched + 1)
                   ELSE n.log
    IN  [n EXCEPT !.log =
            AppendTo(kept, SubSeq(m.entries, matched + 1, Len(m.entries)))]

(* The first divergent entry and everything after it go, the rest of the   *)
(* batch is appended, and the log is synced.                               *)
AppendFromLeader(n, m) ==
    LET matched == MatchingPrefix(n, m)
        kept    == IF Diverges(n, m)
                   THEN Truncate(n.log, m.prev_log_index + matched + 1)
                   ELSE n.log
        missing == SubSeq(m.entries, matched + 1, Len(m.entries))
    IN  IF missing = << >> THEN n
        ELSE Sync([n EXCEPT !.log = AppendTo(kept, missing)])

CarriesConfig(m) == \E k \in DOMAIN m.entries : m.entries[k].kind = "Config"

(* Mutant: a truncation does not undo a configuration. *)
StoreEntriesKeepingConfig(n, m) ==
    IF CarriesConfig(m) THEN RefreshConfig(AppendFromLeader(n, m))
                        ELSE AppendFromLeader(n, m)

StoreEntries(n, m) ==
    LET stored == AppendFromLeader(n, m)
    IN  IF Diverges(n, m) \/ CarriesConfig(m) THEN RefreshConfig(stored) ELSE stored

HandleAppendEntries(n, m) ==
    LET base  == n.log.base_index
        match == m.prev_log_index + Len(m.entries)
        ours  == AcceptLeader(n, m)
    IN  IF m.term < n.current_term
        THEN Send(n, AppendReply(n, m, FALSE, 0, 0, 0))
        ELSE IF m.prev_log_index < base
        THEN Send(AdoptCommit(ours, m, base), AppendReply(n, m, TRUE, base, 0, 0))
        ELSE IF ~ PrevOk(n, m) THEN Send(ours, ConflictReply(n, m))
        ELSE Send(AdoptCommit(StoreEntries(ours, m), m, match),
                  AppendReply(n, m, TRUE, match, 0, 0))

(* A snapshot is installed only when it is beyond both the snapshot held   *)
(* and the commit index; either way the reply tells how far we agree.      *)
HandleInstallSnapshot(n, m) ==
    LET snap      == m.snapshot
        ours      == AcceptLeader(n, m)
        installed ==
            RefreshConfig(Sync(
                [ours EXCEPT !.base_config = IF snap.config = {} THEN @ ELSE snap.config,
                             !.log = ApplySnapshot(n.log, snap),
                             !.commit_index = snap.index,
                             !.last_applied = snap.index,
                             !.snapshot_hinted_at = Larger(@, snap.index),
                             !.app = snap.data]))
        after     == IF snap.index > n.log.base_index /\ snap.index > n.commit_index
                     THEN installed ELSE ours
        reply(last_index) ==
            {[kind |-> "InstallSnapshotReply", from |-> n.id, to |-> m.from,
              term |-> n.current_term, last_index |-> last_index]}
    IN  IF m.term < n.current_term THEN Send(n, reply(0))
        ELSE Send(after, reply(Larger(after.log.base_index,
                                      Smaller(snap.index, after.commit_index))))

-----------------------------------------------------------------------------
(* Messages: replication, on the leader. *)

(* A leader hears only replies of its term, from peers it replicates to. *)
Heeds(n, m) ==
    n.role = "Leader" /\ m.term = n.current_term /\ m.from \in Tracked(n)

(* Mutants: no lower bound, so next may reach 0; no bound at all; no       *)
(* retreat.                                                                *)
RejectedNextWithoutFloor(n, m) ==
    Smaller(Larger(m.conflict_index, 1), n.progress[m.from].next_index - 1)

RejectedNextUnclamped(n, m) == Larger(m.conflict_index, 1)

RejectedNextStays(n, m) == n.progress[m.from].next_index

(* Where to retry after a rejection: past the last entry of the conflict   *)
(* term if there is one, else where the follower suggests; never forward,  *)
(* and never at or below what is known to match.                           *)
RejectedNext(n, m) ==
    LET pr     == n.progress[m.from]
        last   == LastIndexOfTerm(n.log, m.conflict_term)
        target == IF m.conflict_term > 0 /\ last # 0 THEN last + 1
                  ELSE Larger(m.conflict_index, 1)
        floor  == pr.match_index + 1
        ceil   == Larger(pr.next_index - 1, floor)
    IN  Smaller(Larger(target, floor), ceil)

(* Mutant: an acknowledgement does not complete a hand-over. *)
AfterAckWithoutTransfer(n, p) ==
    LET told == AdvanceCommit(n)
    IN  IF /\ told.role = "Leader"
           /\ told.progress[p].next_index <= LastIndex(told.log)
        THEN SendAppend(told, {p}) ELSE told

(* What an acknowledgement sets in motion: commitment, the hand-over that  *)
(* waited for it, and the next batch.                                      *)
AfterAck(n, p) ==
    LET told == MaybeSendTimeoutNow(AdvanceCommit(n), p)
    IN  IF /\ told.role = "Leader"
           /\ told.progress[p].next_index <= LastIndex(told.log)
        THEN SendAppend(told, {p}) ELSE told

HandleAppendReply(n, m) ==
    LET match == Larger(n.progress[m.from].match_index, m.match_index)
    IN  IF ~ Heeds(n, m) THEN n
        ELSE IF m.success
        THEN AfterAck([n EXCEPT !.progress[m.from] =
                         [next_index  |-> Larger(@.next_index, match + 1),
                          match_index |-> match,
                          state       |-> "Replicate"]], m.from)
        ELSE SendAppend([n EXCEPT !.progress[m.from] =
                           [@ EXCEPT !.next_index = RejectedNext(n, m),
                                     !.state = "Probe"]], {m.from})

(* Mutant: next stays behind the snapshot. *)
HandleInstallSnapshotReplyInPlace(n, m) ==
    IF ~ Heeds(n, m) THEN n
    ELSE AfterAck([n EXCEPT !.progress[m.from] =
                     [@ EXCEPT !.match_index = Larger(@, m.last_index)]], m.from)

HandleInstallSnapshotReply(n, m) ==
    LET match == Larger(n.progress[m.from].match_index, m.last_index)
    IN  IF ~ Heeds(n, m) THEN n
        ELSE AfterAck([n EXCEPT !.progress[m.from] =
                         [next_index  |-> match + 1,
                          match_index |-> match,
                          state       |-> "Replicate"]], m.from)

-----------------------------------------------------------------------------
(* Crashes in the middle of a handler. *)

(* The durable logs a crash in the middle of handling m can leave: the     *)
(* term adopted but nothing else written, or, for entries, any prefix of   *)
(* the rewritten tail, each record being written on its own.               *)
PartialWrites(n, m) ==
    LET known == AdoptTerm(n, m.term)
        new   == HandleAppendEntries(known, m).log
    IN  {known.disk} \cup
        IF m.kind # "AppendEntries" \/ new = known.log THEN {}
        ELSE {[new EXCEPT !.entries = SubSeq(@, 1, k)] :
                k \in m.prev_log_index + MatchingPrefix(known, m) - new.base_index
                        .. Len(new.entries)}

=============================================================================
