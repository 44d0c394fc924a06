--------------------------- MODULE RaftProperties ---------------------------
(***************************************************************************)
(* What a raft-io cluster promises.                                        *)
(***************************************************************************)
EXTENDS RaftCluster

NodeRecord == [
    id                 : Server,
    voters             : SUBSET Server,
    base_config        : SUBSET Server,
    config_index       : Nat,
    log                : Log,
    disk               : Log,
    role               : Role,
    current_term       : Nat,
    voted_for          : Server \cup {None},
    leader_id          : Server \cup {None},
    commit_index       : Nat,
    last_applied       : Nat,
    ripe               : BOOLEAN,
    votes              : SUBSET Server,
    pre_voting         : BOOLEAN,
    pre_votes          : SUBSET Server,
    progress           : [Server -> Progress \cup {None}],
    snapshot_hinted_at : Nat,
    transfer_target    : Server \cup {None},
    sends              : SUBSET Message,
    app                : SUBSET Applied,
    hints              : SUBSET Nat]

(* Every variable holds values of the types src/types.rs and src/message.rs *)
(* give it, and between two steps no message waits to be sent.              *)
TypeOK ==
    /\ node \in [Server -> NodeRecord]
    /\ \A i \in Server : node[i].id = i /\ node[i].sends = {}
    /\ wire \subseteq Message
    /\ history.ballots \subseteq Ballot
    /\ history.victories \subseteq Victory
    /\ history.committed \subseteq Commitment
    /\ crashes \in Nat
    /\ losses \in Nat

-----------------------------------------------------------------------------
(* Elections. *)

(* A server votes for at most one candidate in a term, whatever crashes     *)
(* come between the two requests: the vote is durable before it is sent.    *)
OneVotePerTerm ==
    \A b, c \in history.ballots :
        b.voter = c.voter /\ b.term = c.term => b.candidate = c.candidate

(* What a node acts on is on its disk when its handler returns, and a vote  *)
(* stands, there too, until the node moves on to a later term.              *)
VotesAreDurable ==
    /\ \A i \in Server :
            node[i].disk.hard = [term      |-> node[i].current_term,
                                 voted_for |-> node[i].voted_for]
    /\ \A b \in history.ballots :
            \/ b.term < node[b.voter].current_term
            \/ /\ b.term = node[b.voter].current_term
               /\ b.candidate = node[b.voter].voted_for

(* At most one server ever leads in a term. *)
ElectionSafety ==
    \A v, w \in history.victories : v.term = w.term => v.leader = w.leader

(* The servers whose pre-vote candidate i has been granted. *)
Grantors(i) ==
    {m.from : m \in {m \in wire : /\ m.kind = "PreVoteReply"
                                 /\ m.to = i
                                 /\ m.vote_granted}}

(* Only a pre-vote majority makes a node raise its term and campaign, so a  *)
(* node cut off from the others never disturbs them; only a hand-over skips *)
(* the round.  (With Redeliver the wire holds every message sent.)          *)
PreVoteBeforeElection ==
    \A m \in wire : m.kind = "RequestVote" /\ ~ m.force =>
        2 * Cardinality({m.from} \cup Grantors(m.from)) > Cardinality(InitialVoters)

-----------------------------------------------------------------------------
(* Logs. *)

(* The indices a log can still answer for with a term. *)
Span(log) == log.base_index .. LastIndex(log)

(* Two logs that agree on the term of an index hold the same entries up to  *)
(* it, as far as both still have them.                                      *)
LogMatching ==
    \A i, j \in Server :
        LET a == node[i].log
            b == node[j].log
        IN  \A k \in Span(a) \cap Span(b) :
                TermAt(a, k) = TermAt(b, k) =>
                    \A l \in Span(a) \cap Span(b) :
                        l <= k => /\ TermAt(a, l) = TermAt(b, l)
                                  /\ HasEntry(a, l) /\ HasEntry(b, l) =>
                                        EntryAt(a, l) = EntryAt(b, l)

(* The early exits of advance_commit and last_index_of_term rely on terms   *)
(* never decreasing down the log, nor passing the node's own term.          *)
TermsNeverDecrease ==
    \A i \in Server :
        LET log == node[i].log
        IN  \A k \in Span(log) :
                /\ TermAt(log, k) <= node[i].current_term
                /\ k > log.base_index => TermAt(log, k - 1) <= TermAt(log, k)

(* Whatever has once been taken for committed is in the log of every leader *)
(* of a later term, or in its snapshot.                                     *)
LeaderCompleteness ==
    \A i \in Server : \A c \in history.committed :
        node[i].role = "Leader" /\ node[i].current_term >= c.at =>
            \/ c.index <= node[i].log.base_index
            \/ HasEntry(node[i].log, c.index) /\ EntryAt(node[i].log, c.index) = c.entry

(* The commands committed at or below an index. *)
CommandsThrough(index) ==
    {[index |-> c.index, command |-> c.entry.body] :
        c \in {c \in history.committed :
                  c.index <= index /\ c.entry.kind = "Normal"}}

(* No two nodes ever commit different entries at one index, and every       *)
(* application holds exactly the commands committed up to last_applied,     *)
(* whether it got there by applying entries or by restoring a snapshot.     *)
StateMachineSafety ==
    /\ \A c, d \in history.committed : c.index = d.index => c.entry = d.entry
    /\ \A i \in Server : node[i].app = CommandsThrough(node[i].last_applied)

(* A snapshot, on disk or under way, ends at a committed entry and carries  *)
(* the state through it: compaction never discards an uncommitted entry.    *)
SnapshotsAreCommitted ==
    \A snap \in {SnapshotOf(node[i].disk) : i \in Server}
                    \cup {m.snapshot : m \in {m \in wire : m.kind = "InstallSnapshot"}} :
        snap.index > 0 =>
            /\ \E c \in history.committed :
                    c.index = snap.index /\ c.entry.term = snap.term
            /\ snap.data = CommandsThrough(snap.index)

(* What a leader believes a peer to hold, the peer holds durably for as     *)
(* long as it has not moved on to a later term.                             *)
MatchIndexIsHeld ==
    \A i \in Server : node[i].role = "Leader" =>
        \A p \in Tracked(node[i]) :
            LET match == node[i].progress[p].match_index
                held  == node[p].disk
            IN  node[p].current_term <= node[i].current_term =>
                    /\ match <= LastIndex(held)
                    /\ match >= held.base_index /\ match >= node[i].log.base_index =>
                            TermAt(held, match) = TermAt(node[i].log, match)

(* The leader's bookkeeping stays inside its log: next - 1 does not         *)
(* underflow, prev_log_term is known, rejected_next has room to clamp to.   *)
ProgressInRange ==
    \A i \in Server : \A p \in Tracked(node[i]) :
        LET pr == node[i].progress[p]
        IN  /\ pr.match_index < pr.next_index
            /\ pr.next_index <= LastIndex(node[i].log) + 1

-----------------------------------------------------------------------------
(* Membership and hand-over. *)

(* A node follows the latest configuration entry of its log, else that of   *)
(* its snapshot, else the bootstrap one: after truncation, compaction or    *)
(* the installation of a snapshot, and after a restart from what is on disk.*)
ConfigFollowsLog ==
    \A i \in Server :
        LET n == node[i]
            restarted == WithLog(i, n.disk)
        IN  /\ n.voters = ConfigAt(n.log, LastIndex(n.log), n.base_config)
            /\ n.config_index = ConfigIndexAt(n.log, LastIndex(n.log))
            /\ n.voters = restarted.voters
            /\ n.config_index = restarted.config_index

(* Changes are made one at a time: of the configurations in a leader's log  *)
(* at most one has not been committed by anybody.                           *)
OneChangeAtATime ==
    \A i \in Server : node[i].role = "Leader" =>
        LET log == node[i].log
        IN  Cardinality({k \in ConfigIndices(log, LastIndex(log)) :
                \A c \in history.committed :
                    c.index # k \/ c.entry # EntryAt(log, k)}) <= 1

(* A leader advances its commit index only to an entry that a majority of   *)
(* the voters in effect holds durably, whether or not it still is a voter.  *)
CommitsOnMajority ==
    [][\A i \in Server :
        LET n == node'[i]
            k == n.commit_index
        IN  /\ node[i].role = "Leader"
            /\ n.current_term = node[i].current_term
            /\ k > node[i].commit_index
            => 2 * Cardinality({p \in n.voters :
                        \/ k <= node'[p].disk.base_index
                        \/ TermAt(node'[p].disk, k) = TermAt(n.log, k)})
                    > Cardinality(n.voters)]_vars

(* A server is told to take over only once it holds the leader's whole log. *)
HandsOverToCaughtUp ==
    [][\A m \in wire' \ wire : m.kind = "TimeoutNow" =>
            \/ node[m.to].current_term > m.term
            \/ LastIndex(node[m.to].disk) >= LastIndex(node[m.from].log)]_vars

-----------------------------------------------------------------------------
(* Steps. *)

(* A node that leads, in the same term before and after, only appends.      *)
LeaderAppendOnly ==
    [][\A i \in Server :
        LET a == node[i]
            b == node'[i]
        IN  a.role = "Leader" /\ b.role = "Leader" /\ a.current_term = b.current_term
                => \A k \in a.log.base_index .. LastIndex(a.log) :
                        k >= b.log.base_index => TermAt(b.log, k) = TermAt(a.log, k)]_vars

(* An entry at or below a node's commit index is never cut off its log.     *)
CommittedNeverTruncated ==
    [][\A i \in Server : \A k \in Span(node[i].log) :
        k <= node[i].commit_index /\ k >= node'[i].log.base_index =>
            TermAt(node'[i].log, k) = TermAt(node[i].log, k)]_vars

-----------------------------------------------------------------------------
(* Progress under a leader nobody deposes. *)

(* A leader brings every voter to its own log, however far the voter had    *)
(* diverged or fallen behind: back-tracking ends, a snapshot is followed by *)
(* the tail.                                                                *)
FollowersCatchUp ==
    \A i \in Server :
        node[i].role = "Leader" ~> \A j \in node[i].voters :
            /\ LastIndex(node[j].log) = LastIndex(node[i].log)
            /\ LastTerm(node[j].log) = LastTerm(node[i].log)

(* Once a leader has an entry of its own term, every voter comes to apply   *)
(* the whole log.                                                           *)
EveryoneApplies ==
    \A i \in Server :
        node[i].role = "Leader" /\ LastTerm(node[i].log) = node[i].current_term ~>
            \A j \in node[i].voters : node[j].last_applied = LastIndex(node[i].log)

(* A leader asked to hand over to a server that answers comes to an end of  *)
(* it; until then it accepts no request.                                    *)
TransferEnds ==
    \A i \in Server :
        node[i].transfer_target # None ~> node[i].transfer_target = None

-----------------------------------------------------------------------------
(* What the documentation says and the code does not do. *)

(* src/node.rs:1365: a follower that has caught up "must not be dragged     *)
(* backwards by a stale or reordered InstallSnapshot".  The test is against *)
(* commit_index, which handle_append_entries stores cut at the end of the   *)
(* batch: a delayed copy of a short batch with a newer leader_commit takes  *)
(* it back below what is applied, and the stale snapshot passes.            *)
NotDraggedBackwards ==
    [][\A i \in Server : crashes' = crashes =>
            node'[i].last_applied >= node[i].last_applied]_vars

=============================================================================
