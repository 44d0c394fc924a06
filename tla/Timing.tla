-------------------------------- MODULE Timing --------------------------------
(***************************************************************************)
(* A node with its clocks: RaftConfig, the timeouts drawn from it, and     *)
(* RaftNode::tick and handle_message with the ticks counted that module    *)
(* RaftCluster leaves open.  A step has a set of outcomes, pairs of the    *)
(* node and its timer, one for each timeout that may be drawn.             *)
(***************************************************************************)
EXTENDS RaftNode

CONSTANT Configured     \* the RaftConfig of each server

(* The configuration a node is built from, by the defaults and the builder. *)
NewConfig(id, peers) ==
    [id                   |-> id,
     peers                |-> peers \ {id},
     election_timeout_min |-> 10,
     election_timeout_max |-> 20,
     heartbeat_interval   |-> 3,
     max_batch            |-> 64,
     snapshot_threshold   |-> 0]

WithElectionTimeout(config, min, max) ==
    LET least == Larger(min, 1)
    IN  [config EXCEPT !.election_timeout_min = least,
                       !.election_timeout_max = Larger(max, least)]

WithHeartbeatInterval(config, interval) ==
    [config EXCEPT !.heartbeat_interval = Larger(interval, 1)]

WithMaxBatch(config, batch) == [config EXCEPT !.max_batch = Larger(batch, 1)]

WithSnapshotThreshold(config, threshold) ==
    [config EXCEPT !.snapshot_threshold = threshold]

(* What RaftNode takes for the same on every node is so, and the builder    *)
(* has seen to the ranges.                                                 *)
ASSUME ConfiguredAssumption ==
    \A i \in Server :
        /\ Configured[i].id = i
        /\ Configured[i].election_timeout_min \in Nat \ {0}
        /\ Configured[i].election_timeout_max \in Nat
        /\ Configured[i].election_timeout_max >= Configured[i].election_timeout_min
        /\ Configured[i].peers = InitialVoters \ {i}
        /\ Configured[i].max_batch = MaxBatch
        /\ Configured[i].snapshot_threshold = SnapshotThreshold

-----------------------------------------------------------------------------
(* Timers. *)

Timer == [elapsed : Nat, timeout : Nat, beat : Nat]

(* Mutant: the end of the range counts twice. *)
GenRangePastEnd(min, max) == min .. Larger(max, min) + 1

(* A degenerate range gives its lower end. *)
GenRange(min, max) == IF max <= min THEN {min} ELSE min .. max

Timeouts(i) ==
    GenRange(Configured[i].election_timeout_min, Configured[i].election_timeout_max)

FreshTimers(i) == {[elapsed |-> 0, timeout |-> d, beat |-> 0] : d \in Timeouts(i)}

ResetElectionTimer(i, t) ==
    {[t EXCEPT !.elapsed = 0, !.timeout = d] : d \in Timeouts(i)}

(* The minimum election timeout has passed since the last reset. *)
Ripe(i, t) == t.elapsed >= Configured[i].election_timeout_min

(* A leader's first heartbeat is a whole interval away. *)
StartsToLead(n, after) ==
    /\ after.role = "Leader"
    /\ n.role # "Leader" \/ after.current_term > n.current_term

Outcomes(n, t, after, reset) ==
    LET led == [t EXCEPT !.beat = IF StartsToLead(n, after) THEN 0 ELSE @]
    IN  {<<after, u>> : u \in IF reset THEN ResetElectionTimer(n.id, led) ELSE {led}}

-----------------------------------------------------------------------------
(* Event::Tick. *)

TimesOut(n, t) == Waits(n) /\ IsVoter(n) /\ t.elapsed + 1 >= t.timeout

(* Mutant: one tick late. *)
HeartbeatOverdue(n, t) == t.beat >= Configured[n.id].heartbeat_interval

HeartbeatDue(n, t) == t.beat + 1 >= Configured[n.id].heartbeat_interval

(* A non-voter's elapsed time counts on; past the timeout it is all the    *)
(* same.  A leader's stands still.                                         *)
Tick(n, t) ==
    IF TimesOut(n, t) THEN Outcomes(n, t, TickTimeout(n), TRUE)
    ELSE IF Waits(n) THEN {<<n, [t EXCEPT !.elapsed = Smaller(@ + 1, t.timeout)]>>}
    ELSE IF HeartbeatDue(n, t) THEN {<<TickHeartbeat(n), [t EXCEPT !.beat = 0]>>}
    ELSE {<<n, [t EXCEPT !.beat = @ + 1]>>}

-----------------------------------------------------------------------------
(* Event::Message. *)

(* Mutant: a probe raises the term like any message. *)
HandleMessageAdopting(n, m, ripe) ==
    LET known == AdoptTerm(n, m.term)
    IN  CASE Ignored(n, m, ripe)               -> n
          [] m.kind = "PreVote"                -> HandlePreVote(known, m, ripe)
          [] m.kind = "PreVoteReply"           -> HandlePreVoteReply(known, m)
          [] m.kind = "RequestVoteReply"       -> HandleVoteReply(known, m, ripe)
          [] m.kind = "AppendEntries"          -> HandleAppendEntries(known, m)
          [] m.kind = "AppendEntriesReply"     -> HandleAppendReply(known, m)
          [] m.kind = "InstallSnapshot"        -> HandleInstallSnapshot(known, m)
          [] m.kind = "InstallSnapshotReply"   -> HandleInstallSnapshotReply(known, m)
          [] m.kind = "TimeoutNow"             -> HandleTimeoutNow(known, m)
          [] OTHER                             -> HandleRequestVote(known, m)

HandleMessage(n, m, ripe) ==
    LET known == AdoptTerm(n, m.term)
    IN  CASE Ignored(n, m, ripe)               -> n
          [] m.kind = "PreVote"                -> HandlePreVote(n, m, ripe)
          [] m.kind = "PreVoteReply"           -> HandlePreVoteReply(n, m)
          [] m.kind = "RequestVoteReply"       -> HandleVoteReply(known, m, ripe)
          [] m.kind = "AppendEntries"          -> HandleAppendEntries(known, m)
          [] m.kind = "AppendEntriesReply"     -> HandleAppendReply(known, m)
          [] m.kind = "InstallSnapshot"        -> HandleInstallSnapshot(known, m)
          [] m.kind = "InstallSnapshotReply"   -> HandleInstallSnapshotReply(known, m)
          [] m.kind = "TimeoutNow"             -> HandleTimeoutNow(known, m)
          [] OTHER                             -> HandleRequestVote(known, m)

(* A message of the leader of the node's term, or of a later one. *)
FromLeader(n, m) ==
    m.kind \in {"AppendEntries", "InstallSnapshot"} /\ m.term >= n.current_term

(* The messages that grant m's sender the vote of the node. *)
GrantsVote(n, m, ripe) ==
    /\ m.kind = "RequestVote"
    /\ ~ Ignored(n, m, ripe)
    /\ CanGrantVote(AdoptTerm(n, m.term), m)

Campaigns(n, after) ==
    after.current_term > n.current_term /\ after.voted_for = n.id

(* Mutant: an append is answered, but the timer runs on. *)
ResetsTimerOnSnapshot(n, m, ripe, after) ==
    \/ FromLeader(n, m) /\ m.kind = "InstallSnapshot"
    \/ GrantsVote(n, m, ripe)
    \/ Campaigns(n, after)

ResetsTimer(n, m, ripe, after) ==
    \/ FromLeader(n, m)
    \/ GrantsVote(n, m, ripe)
    \/ Campaigns(n, after)

Feed(n, t, m) ==
    LET ripe  == Ripe(n.id, t)
        after == HandleMessage(n, m, ripe)
    IN  Outcomes(n, t, after, ResetsTimer(n, m, ripe, after))
=============================================================================
