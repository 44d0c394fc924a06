----------------------------- MODULE RaftCluster -----------------------------
(***************************************************************************)
(* A cluster of raft-io nodes: RaftNode::step run by the caller on every   *)
(* node, with the network, the crashes and the operator the crate leaves   *)
(* to its caller (docs/PROTOCOL.md, section 1).                            *)
(*                                                                         *)
(*   node     the node records of module RaftNode                          *)
(*   wire     messages that may still be delivered, in any order           *)
(*   history  what a restart must not undo: votes cast, leaders elected,   *)
(*            entries committed                                            *)
(*   crashes  how many crashes there have been                             *)
(*                                                                         *)
(* With Redeliver a delivered message stays on the wire: it may come again *)
(* later, and loss is never being delivered.  Without it every copy is     *)
(* delivered once or dropped, which is what liveness is about.             *)
(***************************************************************************)
EXTENDS RaftNode

CONSTANTS
    Redeliver,      \* whether the network may deliver a message again
    Campaigners,    \* the servers whose election timer may expire
    Candidates,     \* the servers a membership change may name
    Targets,        \* the servers leadership may be transferred to
    MaxTerm,        \* no election beyond this term
    MaxIndex,       \* no request that would append beyond this index
    MaxCrashes,     \* crashes in a behaviour
    MaxLosses       \* messages dropped in a behaviour (without Redeliver)

ASSUME BoundsAssumption ==
    /\ Redeliver \in BOOLEAN
    /\ Campaigners \subseteq Server
    /\ Candidates \subseteq Server
    /\ Targets \subseteq Server
    /\ {MaxTerm, MaxIndex, MaxCrashes, MaxLosses} \subseteq Nat

VARIABLES node, wire, history, crashes, losses

vars == <<node, wire, history, crashes, losses>>

-----------------------------------------------------------------------------
(* The history of a cluster. *)

(* A vote the node holds in its current term. *)
Ballot == [voter : Server, term : Nat, candidate : Server]

BallotOf(n) ==
    {[voter |-> n.id, term |-> n.current_term, candidate |-> c] :
        c \in {n.voted_for} \ {None}}

Victory == [term : Nat, leader : Server]

VictoryOf(n) ==
    {[term |-> n.current_term, leader |-> n.id] :
        r \in {n.role} \cap {"Leader"}}

(* An entry some node has taken for committed, with the term it was in.    *)
Commitment == [index : Nat, entry : LogEntry, at : Nat]

CommitmentsOf(old, n) ==
    {[index |-> k, entry |-> EntryAt(n.log, k), at |-> n.current_term] :
        k \in {k \in old.commit_index + 1 .. n.commit_index : HasEntry(n.log, k)}}

(* The earliest claim for an index and an entry is the one that counts. *)
Claim(known, new) ==
    known \cup {c \in new :
                    \A k \in known : k.index = c.index => k.entry # c.entry}

Record(old, n) ==
    [ballots   |-> history.ballots \cup BallotOf(n),
     victories |-> history.victories \cup VictoryOf(n),
     committed |-> Claim(history.committed, CommitmentsOf(old, n))]

-----------------------------------------------------------------------------
(* One step of node i to n, consuming messages; the sends go on the wire.  *)

(* Mutant: actions already executed are executed again after the next step. *)
BecomeRepeating(i, n, consumed) ==
    /\ node' = [node EXCEPT ![i] = n]
    /\ wire' = (IF Redeliver THEN wire ELSE wire \ consumed) \cup n.sends
    /\ history' = Record(node[i], n)

Become(i, n, consumed) ==
    /\ node' = [node EXCEPT ![i] = [n EXCEPT !.sends = {}]]
    /\ wire' = (IF Redeliver THEN wire ELSE wire \ consumed) \cup n.sends
    /\ history' = Record(node[i], n)

Local(i, n) == Become(i, n, {}) /\ UNCHANGED <<crashes, losses>>

Receive(m, n) == Become(m.to, n, {m}) /\ UNCHANGED <<crashes, losses>>

(* A message that is not dropped brings the node to its term. *)
Known(m) == AdoptTerm(node[m.to], m.term)

Init ==
    /\ node = [i \in Server |-> WithLog(i, EmptyLog)]
    /\ wire = {}
    /\ history = [ballots |-> {}, victories |-> {}, committed |-> {}]
    /\ crashes = 0
    /\ losses = 0

-----------------------------------------------------------------------------
(* Ticks. *)

ElectionTimeout(i) ==
    /\ i \in Campaigners
    /\ node[i].current_term < MaxTerm
    /\ Waits(node[i])
    /\ IsVoter(node[i])
    /\ Local(i, TickTimeout(node[i]))

Heartbeat(i) ==
    /\ node[i].role = "Leader"
    /\ Local(i, TickHeartbeat(node[i]))

(* Requests; a node that does not accept them answers with an error. *)

ClientPropose(i, v) ==
    /\ AcceptsRequests(node[i])
    /\ LastIndex(node[i].log) < MaxIndex
    /\ Local(i, Propose(node[i], v))

AddServer(i, s) ==
    /\ AcceptsRequests(node[i])
    /\ ~ ConfigInProgress(node[i])
    /\ LastIndex(node[i].log) < MaxIndex
    /\ Local(i, ChangeMembership(node[i], node[i].voters \cup {s}))

RemoveServer(i, s) ==
    /\ AcceptsRequests(node[i])
    /\ ~ ConfigInProgress(node[i])
    /\ LastIndex(node[i].log) < MaxIndex
    /\ Local(i, ChangeMembership(node[i], node[i].voters \ {s}))

Transfer(i, s) ==
    /\ node[i].role = "Leader"
    /\ Local(i, TransferLeadership(node[i], s))

(* The application answers a snapshot hint, some time after it. *)
SnapshotEvent(i) ==
    \E index \in node[i].hints :
        Local(i, [HandleSnapshotEvent(node[i], index) EXCEPT !.hints = @ \ {index}])

-----------------------------------------------------------------------------
(* Messages. *)

ReceivePreVote(m) ==
    /\ m.kind = "PreVote"
    /\ \E ripe \in Ripeness(node[m.to]) :
            Receive(m, HandlePreVote(node[m.to], m, ripe))

ReceivePreVoteReply(m) ==
    m.kind = "PreVoteReply" /\ Receive(m, HandlePreVoteReply(node[m.to], m))

DropRequestVote(m) ==
    /\ \E ripe \in Ripeness(node[m.to]) : Ignored(node[m.to], m, ripe)
    /\ Receive(m, node[m.to])

ReceiveRequestVote(m) ==
    /\ m.kind = "RequestVote"
    /\ \E ripe \in Ripeness(node[m.to]) : ~ Ignored(node[m.to], m, ripe)
    /\ Receive(m, HandleRequestVote(Known(m), m))

ReceiveVoteReply(m) ==
    /\ m.kind = "RequestVoteReply"
    /\ \E ripe \in Ripeness(node[m.to]) : Receive(m, HandleVoteReply(Known(m), m, ripe))

ReceiveAppendEntries(m) ==
    m.kind = "AppendEntries" /\ Receive(m, HandleAppendEntries(Known(m), m))

ReceiveAppendReply(m) ==
    m.kind = "AppendEntriesReply" /\ Receive(m, HandleAppendReply(Known(m), m))

ReceiveInstallSnapshot(m) ==
    m.kind = "InstallSnapshot" /\ Receive(m, HandleInstallSnapshot(Known(m), m))

ReceiveInstallSnapshotReply(m) ==
    /\ m.kind = "InstallSnapshotReply"
    /\ Receive(m, HandleInstallSnapshotReply(Known(m), m))

ReceiveTimeoutNow(m) ==
    /\ m.kind = "TimeoutNow"
    /\ Known(m).current_term < MaxTerm
    /\ Receive(m, HandleTimeoutNow(Known(m), m))

Lose(m) ==
    /\ ~ Redeliver
    /\ losses < MaxLosses
    /\ wire' = wire \ {m}
    /\ losses' = losses + 1
    /\ UNCHANGED <<node, history, crashes>>

-----------------------------------------------------------------------------
(* Crashes.  The node comes back at once: a node that is down for longer   *)
(* is one that does nothing for a while.                                   *)

Recover(i, disk, consumed) ==
    /\ crashes < MaxCrashes
    /\ crashes' = crashes + 1
    /\ Become(i, WithLog(i, disk), consumed)
    /\ UNCHANGED losses

Crash(i) == Recover(i, node[i].disk, {})

(* A crash before the handler returned: none of its actions is executed.   *)
CrashHandling(m) ==
    /\ \E ripe \in Ripeness(node[m.to]) : ~ Ignored(node[m.to], m, ripe)
    /\ m.kind \notin {"PreVote", "PreVoteReply"}
    /\ \E disk \in PartialWrites(node[m.to], m) : Recover(m.to, disk, {m})

-----------------------------------------------------------------------------
Next ==
    \/ \E i \in Server : ElectionTimeout(i)
    \/ \E i \in Server : Heartbeat(i)
    \/ \E i \in Server, v \in Value : ClientPropose(i, v)
    \/ \E i \in Server, s \in Candidates : AddServer(i, s)
    \/ \E i \in Server, s \in Candidates : RemoveServer(i, s)
    \/ \E i \in Server, s \in Targets : Transfer(i, s)
    \/ \E i \in Server : SnapshotEvent(i)
    \/ \E i \in Server : Crash(i)
    \/ \E m \in wire : ReceivePreVote(m)
    \/ \E m \in wire : ReceivePreVoteReply(m)
    \/ \E m \in wire : DropRequestVote(m)
    \/ \E m \in wire : ReceiveRequestVote(m)
    \/ \E m \in wire : ReceiveVoteReply(m)
    \/ \E m \in wire : ReceiveAppendEntries(m)
    \/ \E m \in wire : ReceiveAppendReply(m)
    \/ \E m \in wire : ReceiveInstallSnapshot(m)
    \/ \E m \in wire : ReceiveInstallSnapshotReply(m)
    \/ \E m \in wire : ReceiveTimeoutNow(m)
    \/ \E m \in wire : Lose(m)
    \/ \E m \in wire : CrashHandling(m)

Spec == Init /\ [][Next]_vars

(***************************************************************************)
(* A leader ticks for ever, and of the messages one server keeps sending   *)
(* to another some arrive and are fed to step.  The conjuncts are weak     *)
(* fairness of Heartbeat and of the receive actions of a channel, written  *)
(* with what enables them: a heartbeat changes nothing when all it would   *)
(* send is on the wire already, and only the receive actions and Lose take *)
(* a message off the wire.                                                 *)
(***************************************************************************)
HeartbeatIsIdle(i) ==
    \/ node[i].role # "Leader"
    \/ LET beat == TickHeartbeat(node[i])
       IN  beat.progress = node[i].progress /\ beat.sends \subseteq wire

Channel(i, j) == {m \in wire : m.from = i /\ m.to = j}

Delivers(i, j) == losses' = losses /\ ~ (Channel(i, j) \subseteq wire')

Fairness ==
    \A i \in Server :
        /\ []<>HeartbeatIsIdle(i) \/ []<><<Heartbeat(i)>>_vars
        /\ \A j \in Server :
                []<>(Channel(i, j) = {}) \/ []<><<Delivers(i, j)>>_vars

=============================================================================
