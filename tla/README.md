# raft-io in TLA+

TLA+ specifications of `raft-io`, a Raft consensus library that does no I/O of
its own: a node is a state machine (`RaftNode::step`) that is fed events and
returns actions for its caller to execute. The code is under `src/src/`, its
examples under `src/examples/`, the protocol description in `src/docs/PROTOCOL.md`;
all are cited by line below.

## 1. The system

| Component | State | Operations | Here |
|---|---|---|---|
| `RaftNode` (`node.rs`) | role, term, vote, log, membership, commit and applied index, vote tallies, per-peer progress, pending hand-over, snapshot hint, three clocks | `step`: tick, the nine messages, propose, snapshot, add/remove server, transfer leadership; construction and recovery | `RaftNode`; the clocks in `Timing` |
| `RaftLog` trait, `MemoryLog` (`log.rs`) | snapshot boundary, entries above it, hard state | append, truncate, set hard state, apply snapshot, sync, reads | `RaftLog` |
| Messages and types (`message.rs`, `types.rs`) | - | - | records in `RaftLog`, `RaftNode` |
| `RaftConfig` (`config.rs`), `Rng` (`rng.rs`) | timeouts, heartbeat interval, batch size, snapshot threshold, peers | builders that normalise; a draw from a range | `Timing` |
| Caller, network, process | messages under way, what is durable | deliver, drop, repeat, crash, restart, ask | `RaftCluster` |
| A cluster in one process (`examples/`) | nodes, a mailbox each, a partition, the application's state | `step_round`, `absorb`, requests to the first leader, a new server, split and heal | `Rounds` |
| The application (`examples/kv_store.rs`) | a map | `PUT`, `DEL`, snapshot, restore | `KvStore`; what it is offered, `ReplicatedMap` |
| `WalLog` (`wal_log.rs`) | a write-ahead log of records and a `MemoryLog` rebuilt from it | the trait, replay, physical compaction, storage errors | `WalLog`, its promise to a node `LogStore` |
| `framing.rs`, `transport.rs`, `error.rs` | - | message encoding, a test outbox, error values | see section 7 |

**Interaction.** The caller feeds a node one event at a time. The node changes its
log through the trait, calls `sync` before it returns, and returns actions: `Send`,
`Apply`, `RestoreSnapshot`, `Snapshot`, `MembershipChanged`. The caller executes
them in order, and may crash before executing any. Nodes only interact through
messages, which the caller's network may delay, reorder, repeat or lose
(PROTOCOL.md section 1). The application answers a snapshot hint some time later
with an event of its own, in the examples at once.

**What is hard.** Votes and terms that must survive a crash between two messages.
Replies of old rounds counted in new ones. Delayed appends and snapshots that must
not undo newer ones. Commitment of entries of earlier terms. The snapshot boundary
inside a log. A membership in force from the moment it is appended, undone by
truncation, moved into a snapshot by compaction. A hand-over racing the client's
proposals, or to a server that is gone. Clocks that differ and the stickiness that
rests on them. That back-tracking ends and a healed cluster settles. A write that
fails half way. `PROJECT.json` lists each hazard at its line with the properties
that watch it.

## 2. The modules

    RaftLog <- RaftNode <- RaftCluster <- RaftProperties <- Scenario <- MCSafety, MCCompaction, ...
                 ^                              ^
                 |- Staging <- Scenario         |
                 |- Timing  <- Rounds ----------'
                 KvStore    <- Rounds <- RoundsProperties <- MCRounds, MCTimeouts
                 KvStore    <- ReplicatedMap    (instance in RoundsProperties)
    RaftLog <- LogStore (instance in WalLog) ; RaftLog <- WalLog <- MCWalLog

    Proofs:  RaftLog <- RaftLogTheorems <- WalReplay (and WalLog)
                              ^
                              |- RaftVotes (and RaftProperties) <- RaftEffects
                                     <- RaftLeaders <- RaftDeeds <- RaftCommits
                                     <- RoundsTheorems (and RoundsProperties)

* **RaftLog**: a log as a record. Each method of the trait is an operator; a mutator
  returns the new log. Entry indices are implicit (base index plus position).
* **RaftNode**: a node as a record, each method of `node.rs` a function from the node
  before to the node after, with the same name in TLA+ spelling and the same order of
  calls (`HandleAppendEntries` calls `AcceptLeader`, `StoreEntries`, `AdoptCommit` the
  way `handle_append_entries` does). `&mut Vec<Action>` is the field `sends`, and
  `app` and `hints` for what the caller does to the application. `disk` is the log as
  of the last `sync`. `PartialWrites` is what a crash in the middle of a handler
  leaves: `WalLog::append` writes a record per entry.
* **RaftCluster**: all nodes, the messages on the wire, a history (votes, leaders,
  commitments: never read by the nodes), counts of crashes and losses. One action per
  event of `step` and per message kind, each running the whole handler; `Crash` and
  `CrashHandling` restart a node through `WithLog`, which is recovery. A storage error
  is `CrashHandling` too: `step` returns no actions and the caller must stop the node
  (`error.rs:68`).
* **RaftProperties**: everything claimed of it. **Staging**, **Scenario**: how runs are
  set up.
* **Timing**: a node with its clocks. `Configured` gives each server a `RaftConfig`
  made by the builders; a timer is `election_elapsed`, the timeout drawn and
  `heartbeat_elapsed`. `Tick` and `Receive` are `tick` and `handle_message` with all
  the timeouts the generator could draw as outcomes; which handlers reset the timer is
  `ResetsTimer`.
* **Rounds**: the nodes, wire and history of `RaftCluster` with timers, FIFO mailboxes,
  a partition, and an application on each node. `turn` walks through `step_round`: each
  node is ticked, each mailbox is emptied, then the script may act: `Write`, `Join`,
  `HandOver`, `Partition`, `Heal`. With `turn = 0` the same steps come in any order, so
  that clocks run at any relative speed. `AnswerHint` comes before anything else, as in
  `absorb`. What is delivered comes out of the mailboxes; the wire, which keeps all that
  was ever sent, and the history are recorded for the refinement and never read. Of
  `RaftCluster` it takes the state and what a handler's outcome does to it (`Local`), not
  the actions: that the steps of `Rounds` are some of them is a theorem.
* **KvStore**: the application: a map, commands, the lines of a snapshot, restoration.
* **RoundsProperties**: what is claimed of `Rounds`, with two refinements:
  `ImplementsCluster`/`TakesClusterSteps` (every step with clocks and mailboxes is a
  step of `RaftCluster`, the wire being all that was ever sent) and `ImplementsMap`.
* **ReplicatedMap**: the service: a sequence of entries decided once and for all, and
  on every server a map that is the outcome of a prefix of it that only grows. The
  refinement takes `chosen` from the commitments, `applied` from `last_applied` and
  `map` from the application.
* **LogStore**: what a node relies on of any `RaftLog`: the log as it reads now
  (`log`), the logs a crash may leave (`possible`), those it has been since the last
  `sync`, entry by entry, and whether an operation has failed. In `RaftNode`, `disk` is
  the one after `sync`, and `PartialWrites` takes some of the others.
* **WalLog**: the log kept as records of `wal-db`, with the `MemoryLog` index on top.
  An action per mutator writes the records the code writes, or some of them and fails;
  `Reopen` is a crash, or the restart after an error, that keeps the synced records and
  some of those after them, followed by `open`, which replays them. A crash in the
  middle of a mutator leaves what a crash right after it may leave. `ImplementsStore`
  maps `possible` to the logs replay finds for every number of surviving records.
  `wal-db` itself is external: an append-only sequence, a sync mark, and
  `truncate_before`, which may free what it is told to or nothing.
* **RaftLogTheorems**, **RaftVotes**, **RaftEffects**, **RaftLeaders**, **RaftDeeds**,
  **RaftCommits**, **RoundsTheorems**, **WalReplay**: theorems and proofs (section 5).

Abstractions, all in the comments of the modules:

* *Time.* In `RaftNode` ticks are not counted: a follower's or candidate's timer may
  expire at any tick, and whether `election_elapsed` has reached the minimum timeout is
  chosen where it is read (`Ripeness`). A leader's `election_elapsed` does not move
  (`tick` only counts heartbeats), so what held when it won stays in `ripe`. That this
  covers every choice of timeouts and every relative speed of the nodes is what
  `ImplementsCluster` checks. In `Timing` ticks are counted; only a non-voter's count,
  which the code lets run on, stops at the timeout.
* *The wire* is a set. With `Redeliver` a message stays on it for ever: any message
  may come at any time, again, or never. Without it each is delivered once or lost;
  used for liveness. In `Rounds` it is a queue a node, and a partition drops what is
  sent across it.
* *Requests that are refused* change nothing and are not actions.
* *Numbers.* Terms and indices are `u64`; bounds keep them small and the subtractions
  that could underflow are covered by `TypeOK` and `ProgressInRange`.

## 3. The runs

| Run | Start | What may happen | Asks |
|---|---|---|---|
| safety | two candidates with grants, one voter, old votes on some disks; or three divergent logs, a leader of term 3, a rival about to win term 4 | replay, proposals, one crash anywhere (two candidates) | one vote a term, votes durable, one leader a term, log matching, leader completeness, state machine safety, progress bookkeeping |
| compaction | a leader with a snapshot due, a tail beyond it, a follower with nothing | snapshots, installation, replay, one crash | the tail survives, snapshots end at committed entries, terms never decrease |
| membership | a leader and one voter; or a leader that has just removed s3, and s3 about to win; or a follower about to be elected and asked to hand over | a server is added, the leader removed, leadership transferred; replay | configuration follows the log, one change at a time, majorities of the voters in force |
| join | a cluster of one that may have compacted; the server to join is empty or holds a divergent log | it is added, handed over to; one message lost | it catches up by back-tracking, snapshot and tail, everything is applied; the hand-over goes to a server with the whole log, and ends |
| rounds | three servers and a leader all follow, one key written | `step_round` for ever; writes, deletions, a hand-over, a partition around any one server, healing; snapshots | one replicated map; steps of `RaftCluster`; stickiness; the leader is kept; one leader in the end; voters catch up; hand-overs end |
| timeouts | power-up of two servers | ticks and messages in any order, every draw of a timeout, a partition, a third server joining, a snapshot | implements `RaftCluster`; a majority behind every campaign; stickiness; timers in range |
| wal_log | an empty write-ahead log | entries, votes, truncations, snapshots with or without a tail, sync, an error or a crash after any record | replay rebuilds the index; the store implements `LogStore` |
| stale_snapshot, reconfigure, wal_tail, no_flush, frozen_clock | see section 6 | | documentation the code does not keep to |

Sizes, in distinct states: safety 158,836, compaction 185,230, membership 53,366, join
66,434, rounds 88,301, timeouts 140,842, wal_log 112,614; each takes between a quarter
of a minute and a minute and a half with two workers.

The invariants `TypeOK`, `MatchIndexIsHeld` and `ProgressInRange` are checked in
several runs because different code moves what they relate (appends, snapshots,
membership changes); `FollowersAreLoyal` in two because rounds has the partitions that
heal and the elections of later terms, timeouts the clocks that run apart.

**Starting states.** A run from an empty cluster spends most of its states on a first
election. Most runs start later, in a state computed by the very functions of
`RaftNode` (`Staging`): `Elect` sends a real request to a real voter, for example.
Disks in them hold states earlier terms can leave (a vote, entries nobody else got).
`timeouts` and `wal_log` start from `Init`.

**Bounds.** `MaxTerm` stops timeouts and hand-overs beyond a term, `MaxIndex`
requests that would append beyond an index, `MaxCrashes` and `MaxLosses` failures,
`MaxCalls` requests and partitions, `MaxMail` ticks while a mailbox is that long (any
order only). Two candidates, one entry beyond the point of conflict, and one crash
suffice for each hazard: for every property of every run `PROJECT.json` names a
plausible bug (a missing sync, an uncut commit index, a floor left out, a tail dropped,
a map not cleared, ...) which the same run, at the same bounds, catches. Three servers
give majorities that overlap in one server; two suffice where only leader and follower
matter (join); `reconfigure` needs five. `MaxBatch` is 1, 2 or 3 so that batches are
split, overlap and exceed the remaining log. `wal_log` writes at most `MaxRecords` = 5
records: an entry, a truncation or vote, the two records of a snapshot, and one more.

In rounds two requests follow the first write: a write behind a partition and what
comes next, two partitions one after the other, a hand-over to a server cut off. The
snapshot threshold is 2, so a server that misses one write is brought back by a
snapshot. The deadlock check is on there, and a timeout at `MaxTerm` would be a
deadlock: the bound on terms is never reached. The three timeouts (3, 6 and 9 ticks,
heartbeats every 2) stand for draws that tell the servers apart, which randomisation
brings about in the long run; equal draws for ever split the vote for ever, and nothing
is claimed about them. Timeouts of 2 or 3 ticks with heartbeats every tick are the
smallest in the timeouts run at which a follower hears its leader more than once
between two timeouts.

`CHECK_DEADLOCK` is off in the safety runs, which stop when their bounds are used up,
and on in join and rounds, where a leader's heartbeat can always be ticked.

**Fairness.** In join (`Fairness`): a leader's caller goes on ticking it (PROTOCOL.md
requires ticks), and of the messages one server keeps sending another some get through
and are stepped. Loss is limited to `MaxLosses`, so it stops eventually. No fairness is
assumed of elections, clients, snapshots or crashes; the run starts with a leader and
has no election timeouts, as a stable leader is a hypothesis there. The conjuncts are
weak fairness of `Heartbeat` and of the receive actions of a channel, written with
`[]<>` and the condition under which they are disabled.

In rounds the stable leader is a result. All that is assumed is `WF_turn(NextTurn)`: the
turn passes on, that is, the caller goes on calling `step_round`, as `settle` and
`settle_until_converged` do. A mailbox is emptied in finitely many steps because no node
sends to itself. Requests, partitions and healing may or may not come; the liveness
properties are about behaviours whose network is whole from some point on
(`StaysWhole`).

## 4. What the checks show

* *Elections.* A vote is durable before it is sent: after a crash at any point,
  handlers included, the voter repeats it or says no. No campaign without a pre-vote
  majority unless by hand-over. One leader a term.
* *Clocks.* A follower that has heard its leader within the minimum timeout neither
  probes nor supports anybody, hand-overs apart, however fast other clocks run. Round
  by round, a leader its majority hears is deposed by nobody, also not by a server that
  comes back from a partition (but see frozen_clock, section 6). Once the network stays
  whole, one leader remains.
* *Logs.* Delayed, repeated and reordered appends only cut off conflicting suffixes;
  nothing committed is cut, terms do not decrease (two scans in the code rely on it),
  committed entries are in later leaders' logs, applications agree, and hold exactly
  the committed commands whether they applied them or restored a snapshot.
* *Application.* Through partitions, snapshots and changes of leader the maps are
  those of one sequence of commands, and no server's map goes back. Once the network
  stays whole, every voter holds what the leader holds, and applies it as soon as the
  leader has an entry of its own term (see no_flush).
* *Leader's bookkeeping.* `match_index` never promises more than the peer has on disk;
  `next_index` stays above it and within the log.
* *Compaction.* The tail beyond a snapshot survives exactly when it should.
* *Durable log.* After a crash between any two records, or an error after any of them,
  the log reads as one it was since the last `sync`, and as the node's own when it had
  just synced, so `disk` and `PartialWrites` in `RaftNode` ask no more than `WalLog`
  gives, as long as compaction spares the records of a live tail (section 6). The hard
  state survives compaction because it is written again.
* *Membership.* Configuration is always the one a restart would find; a leader that
  has removed itself commits on the others alone.
* *Hand-over.* `TimeoutNow` goes to a server that has everything, even when the client
  proposes in between; a hand-over to a live server ends, and so does one to a server
  that was cut off, once it is back or the leader is replaced. It does not end while
  the target is gone: nothing in `node.rs` aborts it, and the leader refuses requests
  (line 1538) until it is deposed or asked for another target.

## 5. What is proved

For any number of servers, any values, any bounds, with snapshots, crashes, and
messages lost, delayed, repeated and reordered:

| Theorem (module) | States | Assumes |
|---|---|---|
| `TypeCorrect` (`RaftVotes`) | `Spec => []TypeOK` | |
| `VotesDurable`, `VotesOnce` (`RaftVotes`) | a vote survives every crash; one vote a term | |
| `ConfigFollows` (`RaftLeaders`) | `Spec => []ConfigFollowsLog`: a node follows the configuration a restart would find | a server that cannot be removed |
| `ElectionSafe` (`RaftLeaders`) | one leader a term | fixed membership |
| `LeadersAppend` (`RaftLeaders`) | `Spec => LeaderAppendOnly` | |
| `TermsRise` (`RaftLeaders`) | terms do not decrease along a log | |
| `LogsMatch` (`RaftLeaders`) | `Spec => []LogMatching` | fixed membership |
| `LeadersComplete` (`RaftCommits`) | `Spec => []LeaderCompleteness`: what is committed is in the log of every later leader | fixed membership |
| `MachinesSafe` (`RaftCommits`) | `Spec => []StateMachineSafety`: one entry committed at an index; applications hold what is committed | fixed membership |
| `SnapshotsHold` (`RaftCommits`) | `Spec => []SnapshotsAreCommitted` | fixed membership |
| `MatchesHeld` (`RaftCommits`) | `Spec => []MatchIndexIsHeld`: peers hold what the leader believes | fixed membership |
| `ProgressStaysInRange` (`RaftCommits`) | `Spec => []ProgressInRange` | fixed membership |
| `CommittedStays` (`RaftCommits`) | `Spec => CommittedNeverTruncated` | fixed membership |
| `CommitsAreHeld` (`RaftCommits`) | `Spec => CommitsOnMajority`, and of any commit index at any time | fixed membership |
| `HandsOverSafely` (`RaftCommits`) | `Spec => HandsOverToCaughtUp` | fixed membership |
| `PreVotesFirst` (`RaftLeaders`) | `Spec => []PreVoteBeforeElection` | `Redeliver`, nobody a voter from the start is changed |
| `StepsAreSteps` (`RoundsTheorems`) | `RoundsSpec => TakesClusterSteps` | |
| `RoundsAreCluster` (`RoundsTheorems`) | `RoundsSpec => ImplementsCluster` | |
| `RoundsPreVotesFirst` (`RoundsTheorems`) | `RoundsSpec => []PreVoteBeforeElection` | the initial voters are founders |
| `FollowersStayLoyal` (`RoundsTheorems`) | `RoundsSpec => FollowersAreLoyal` | |
| `RoundsTyped` (`RoundsTheorems`) | `RoundsSpec => []RoundsTypeOK` | |
| `MapsAreReplays` (`RoundsTheorems`) | every node's map is that of the commands committed up to its `last_applied` | fixed membership |
| `MapImplemented` (`RoundsTheorems`) | `RoundsSpec /\ NobodyGoesBack => ImplementsMap` | fixed membership, no command is `None` |
| `WalTypeCorrect` (`WalReplay`) | type correctness of the durable log | |
| `ReplayExact` (`WalReplay`) | as long as nothing fails, replay of all records is the index | `SparesTail` |
| `WalImplementsStore` (`WalReplay`) | `WalLog` implements `LogStore` | `SparesTail` |

Where nothing is assumed, membership changes are included.

*Assumptions.* Those stated in the modules (the initial voters are servers, `MaxBatch`
is positive, `None` is neither a server nor a progress record, the bounds are natural
numbers), and three hypotheses of theorems:

* `InitialVoters \ Candidates # {}` (`ConfigFollows`): some initial voter is never the
  subject of a membership change, so no configuration is empty. It is needed: the code
  tells "no configuration in the snapshot" from a configuration by its being empty, and
  restarts with the bootstrap one then (`node.rs`, `with_log`).
* `FixedMembership` (`ElectionSafe`, `LogsMatch` and all about commitment): the servers are finitely many, all
  initial voters, and no change is proposed. It is needed: run `reconfigure` is a
  counterexample with changes, and a server outside `InitialVoters` bootstraps with
  itself added, a configuration of its own.
* `SparesTail`: what run `wal_tail` shows to be needed.

### Nodes: votes and types

The model is a set of functions on nodes, so the proofs follow the functions.
`RaftLogTheorems` says what the operators on logs return. `RaftVotes` shows of each
handler that it leads from a node of the type to one (the interesting cases are the
maxima, which exist because the sets are bounded, `MaxExists`; the cuts of sequences;
`RejectedNext` and `prev_log_index`, which stay natural numbers), and then of
each that it *leads* from a sound node (disk and log hold the node's own term and vote)
to a sound node that *honours* it (same id, no earlier term, in the same term no other
vote). Honouring is transitive, so lemmas compose like calls.

`OneVotePerTerm` alone is not inductive: it speaks of ballots already cast, and nothing
in it keeps a voter from forgetting. `VotesAreDurable` ties each ballot to its voter's
current term and vote and those to the disk; `Sound` adds that the volatile log has the
same hard state (the next `sync` copies it). `TypeOK` is needed because `term` and `from`
of a message reach the hard state of its receiver. `Inv == TypeOK /\ VotesInv` is kept
by every action (`NextKeepsInv`).

### What a turn does

Everything proved after that needs to know what a handler may do, and not how.
`RaftEffects` says so once: for every step that is not a mere loss of messages, one
server takes its *turn* (`Turns`, `NextMoves`), and the node after it and the messages
sent are an *outcome* of the node before and of what it read (`Outcome`, `Moves`). An
outcome names what is common to all handlers:

* `Standing`: terms do not go back; a leader of the same term was a leader or a
  candidate with a quorum of votes; a candidate has just raised its term;
* `Rewrites`: the log afterwards is a stretch of the log before, or that with one entry
  of the leader's own term, or a splice of it with what an append or snapshot of the
  node's term carries (`Takes`), and the disk is one of those as well;
* `Says`: which messages may be sent, and that appends and snapshots are stretches of
  the sender's log at its term;
* `Lawful`: voters and `config_index` are those `with_log` computes from the log.

Each handler is shown to have such an outcome; after that no handler is opened again.

### Configurations, elections, logs

*ConfigFollows.* `LawfulInv`: each node is lawful, on disk too, and so is every piece of
log on the wire. Truncation, compaction, installation and recovery compute the
configuration in four different ways; the proof shows that they agree.

*ElectionSafe.* `ElectionInv`: what is granted on the wire is in the history of ballots
(`GrantsRecorded`), what a candidate counts has been cast for it (`VotesCounted`), a
leader was elected by a majority and its victory is on record (`LeadersWon`,
`VictoriesBacked`). Two majorities meet (`MajoritiesMeet`, by the cardinalities), and
the voter they share votes once (`VotesOnce`).

*LogsMatch.* The log of a node, the log on its disk, and what an append or a snapshot
carries are *pieces* (`Pieces`): stretches of log with the term before them.
`LogMatching` is not inductive, as it does not say what is on the wire or on disk, nor why
two leaders do not write the same index twice. `MatchInv` says: any two pieces agree up to
where they have an entry of the same term (`PiecesAgree`); the term of every entry was won
(`TermsAreWon`); the leader of a term is ahead of every piece in entries of its term
(`LeadersAreAhead`), so what it appends is new; a candidate's term is in no piece. One
leader a term is a hypothesis of the step (`ElectionSafety'`), which `ElectionSafe` gives.

*LeadersAppend*, *TermsRise* follow from the outcomes directly: the second with `Rising`
of every piece and every splice.

### Commitment

The argument is about things no variable holds: what the log of a leader was when it was
one, what compaction has taken out of a log, and who has ever acknowledged what. Adding
them to the model as history would make the model, and each run, larger than the program.
Instead the invariant says that they exist: `Shadowed` is `\E f, l, a : Shadow(Now, f, l, a)`,
and each step is shown to lead from some `f`, `l`, `a` that fit to some that fit.

* `f[i]`: the whole log of node `i`, from index 1, of which `node[i].log` is the part not
  compacted away (`Holding`);
* `l[t]`: the log of the leader of term `t`, as long as it came to be; its domain is the
  terms of the victories on record;
* `a`: the acknowledgements (server, term, index), one for each reply that gave an index
  above 0 and one of a leader's own, for the end of its log, at each of its turns
  (`Replied`).

`Shadow` consists of: every entry of every log came, with all before it, from the leader of
its term (`Made`, `Owns`); what a server has acknowledged in term `t` it holds up to any
index that the leaders between `t` and its own term have kept (`StillHolds`); behind every
leader there is a majority that has reached its term and whose acknowledgements in earlier
terms its log respects (`Backed`), and behind every vote a candidate may still count such a
server (`Candidacies`); `match_index` was acknowledged (`Listens`); what is applied was
chosen, is on record, and is what application and snapshot hold (`Settled`, `Records`); and
the same of what messages carry, however old (`Reports`). *Chosen* is: acknowledged by a
majority in the term of the entry.

That chosen entries are in all later leaders' logs (`Complete`) is derived and not part of
the invariant: for the smallest later term whose leader lacks the entry, the majority
behind it and the majority that acknowledged share a server; the leaders in between have
kept the entry, so the server still held it when it voted, and the up-to-date test of its
vote gives it to the new leader (`ChosenStays`, `UpToDateKeeps`; the smallest term exists by
`SmallestExists`).

`RaftDeeds` is to this proof what `RaftEffects` is to the others: it goes through the
handlers once more, now for the progress table, the commit index, the application and
the claims of messages, all measured against a whole log (`Fit`, `Speaks`, `Tracks`,
`Applies`). The difficult places are those the code is careful about: the commit index
is stored cut at the end of the batch even when it goes back (`Applies` speaks of
`last_applied` and only bounds the commit index by it); a snapshot installed below
`last_applied` takes the application back (the hypothesis on the application is what the
snapshot holds, not what the node had); a reply after an ignored snapshot acknowledges
the smaller of the snapshot's index and the commit index (or the boundary, if that is
above both); a reply to an append that matched acknowledges the end of the batch and not
of the log; only entries of the leader's own term are counted.

`RaftCommits` then takes one turn of one node (`Scene`), gives the new `f`, `l` and `a`
(`Rewritten`, `Remade`, `Replied`), and shows `Shadow` of the cluster after it conjunct
by conjunct (`TurnKeepsOwns`, `TurnKeepsWord`, `TurnKeepsListening`, ...,
`TurnKeepsShadow`). `CommitInv` is `MatchInv /\ Shadowed`; the last theorems of the
module read it.

### Pre-votes, clocks and mailboxes

*PreVotesFirst.* `RaftLeaders` describes once more what a handler may do, now to all that
elections and clocks turn on: `Orderly(n, c)` says what a node and its messages keep to in
circumstances `c` (which terms are open, who has granted it a probe, whom it may take for
its leader, whether its timer has run, what it may ask and grant), and every function of
`RaftNode` keeps it. `PollInv`: whoever a node counts as granting its probe, or itself, has
sent such a grant to it, which with `Redeliver` the wire still shows, and its voters are at
least as many as the initial ones; so the quorum behind a campaign is the majority
`PreVoteBeforeElection` asks for.

*RoundsAreCluster.* `Rounds` decides by clocks what `RaftCluster` leaves open, and by
mailboxes what is delivered. Each of its steps is matched with an action of `RaftCluster`:
a tick that times out with `Timeout`, one that beats with `Heartbeat`, a delivery with the
receiving action of that kind of message, the requests with theirs, everything else with a
stutter. `RoundsInv` is what this needs: `ClockInv` (timers and `heard` within the
configuration), `MailInv` (a mailbox holds messages that are on the wire, to its owner;
nobody who is not running has any), `Recorded` (the history already has each node's vote and
victory, so a step that changes neither adds nothing), and `StandInv`: every node is
`Orderly` with the clock it has, so that a leader's `ripe` is what its stopped timer says
and `RaftCluster`'s choice of `ripe` is the right one; a follower's timer is not past the
minimum unless it has not heard its leader for that long (`Lately`); no term reaches
`MaxTerm`. It is kept by every step (`TickKeeps`, `DeliverKeeps`, `RequestsKeep`,
`AnswerKeeps`), and with it the theorems on `RaftCluster` hold of a cluster with clocks.

*FollowersStayLoyal* is an action property and needs `RoundsInv` before the step: a
follower that `Hears` has a timer below the minimum (`HearingIsFresh`), so its tick does not
time out (`TickIsLoyal`) and it has an active leader for whatever is delivered
(`DeliveryIsLoyal`), unless the message is forced or makes it forget its leader.

### The application's maps

*RoundsServe.* What a step has an application do is read off its handler, function by
function: a handler leaves snapshot, `last_applied`, `app` and hints `Still`, or goes
`Onward` (what is added to `app` lies between the old `last_applied` and the new one, and a
hint is the new one), or it has `Installed` the snapshot of a message: then the log begins
where `last_applied` is. So `Executed`, which looks at the log's base index to tell a
restoration from commands, always tells right. `RoundsTyped` needs no more than that: of
finitely many commands for a key one is the last (`LastWrite`), so a replay is a map.

*MapsAreReplays.* `MapInv` says that each map is the replay of the commands on record up to
`last_applied`; that a hint, being answered before anything else happens, is for just that
index; and that for every snapshot, on a node or on the wire, an application has handed over
an image with that index, which is the map of the commands up to it. All three are needed
together: a snapshot installed brings an image made by another application
(`ReplicaInstalled`), which is right since that application's map was when it answered its
hint; a batch applied is replayed on a map that was right (`ReplicaOnward`, from
`ReplayOnward`: two lots of commands, the later ones after the earlier, do what one lot
does). As the record only grows and reaches every index anybody has applied (`OnRecord`,
which is `CommitInv` seen from here), the commands up to an index never change
(`IssuedStays`).

*MapImplemented* adds that the record has no gaps (`Gapless`), so that it is a sequence. A
step of a node is then `Choose /\ Advance(i)` of `ReplicatedMap`, for a hint answered with
nothing to apply; steps of the script, and of messages and clocks without a node, are
stutters. What remains is that nobody goes back, which is a hypothesis here
(`NobodyGoesBack`) and false of `RaftCluster` (stale_snapshot, section 6). In rounds TLC
finds it true, as part of `ImplementsMap`: it is the order of the mailboxes that excludes a
batch shorter than what an earlier message of the same leader has committed.

### The durable log

`WalReplay`: after any number of records, what replay builds is a log, equal to the index
of the moment (`WalInvariance`). Compaction is the difficult step: the records dropped must
not matter to the replay of those that remain, which `SparesTail` ensures and without
which it is false (run `wal_tail`). `WalImplementsStore` has the refinement mapping of
`WalLog`: `possible` are the logs replay finds for every number of surviving records.
Replay is a recursive function; what it computes for longer and longer sequences is proved
through the smallest counterexample (`SmallestExists`), as the induction theorems of the
library cannot be applied here.

### Left to TLC

Liveness and fairness stay with TLC, since the proof system has no rules for `ENABLED` and
fairness here. So do, of `Rounds`, `NobodyGoesBack` (as part of `ImplementsMap`), whose proof
would have to follow every batch and rejection in order through two mailboxes, and
`LeaderKept`, which needs to know what everybody has heard in the current round. With membership changes, everything that assumes `FixedMembership` is only
checked, in the runs membership and join; `OneChangeAtATime` would say nothing under a fixed
membership, and without one it rests on majorities that meet, which the code does not
ensure (reconfigure, section 6). The properties that runs find violated are false.

## 6. Where code and documentation disagree

* **stale_snapshot.** `handle_append_entries` stores `leader_commit.min(match_index)`
  (`node.rs:1253`) even when that is less than the commit index it has. A delayed copy
  of a short batch with a newer `leader_commit` (the leader resends with its commit
  index of the moment) takes `commit_index` back below `last_applied`. The guard of
  `handle_install_snapshot` compares with `commit_index` only, so a stale snapshot
  passes and takes the application back, which `node.rs:1365` and `:147` exclude. It
  needs reordering: in rounds, whose mailboxes are queues, `ImplementsMap` holds.
* **wal_tail.** `WalLog::apply_snapshot` writes the snapshot after the records of the
  entries beyond it and then asks `truncate_before` to drop all records before the
  snapshot (`wal_log.rs:191`). Once the drop takes effect, replay finds the snapshot but
  not the tail, although it was synced and acknowledged, and the next entry appended
  is not contiguous for replay, so `open` fails. PROTOCOL.md:282 says compaction does
  not affect the recovered state. The test at `wal_log.rs:535` has such a tail and finds
  it, as `truncate_before` frees nothing of a short file. `SparesTail` separates the
  two: with it `wal_log` passes.
* **reconfigure.** `change_membership` does not wait for the leader to have committed an
  entry of its own term. After two changes by two leaders, each one server away from
  the same configuration, two disjoint majorities exist, and a leader is elected
  without a committed entry; PROTOCOL.md:234 says this can never happen.
* **no_flush.** `become_leader` (`node.rs:726`) appends no entry, and entries of earlier
  terms are not committed by counting. A leader that is cut off just as it commits
  leaves its successor with an entry it may not commit until a client writes again;
  the old leader stays one command ahead although the network has healed.
  `examples/partition_recovery.rs:126` asserts "every node should converge after
  healing" (they do there: the leader that remains has been written to in its own term),
  and `tests/kv_consumer.rs:315` waits for it. `VotersCatchUp` is what holds instead.
* **frozen_clock.** A leader's `election_elapsed` stands still at what it was when it
  won. If its votes came after the minimum timeout, it has no "active leader" by the
  test of `handle_pre_vote` (`node.rs:1125`) for its whole term and grants any probe of
  an up-to-date log. In a cluster of three that is a majority: a server that rejoins
  opens a later term, which PROTOCOL.md:136-138 say it cannot. Where the votes come in
  time, as in rounds, `LeaderKept` holds.

`handle_pre_vote_reply` also counts grants of earlier terms (PROTOCOL.md:203 says a node
ignores them); harmless, as the votes that follow are checked, and `PreVoteBeforeElection`
counts them like the code.

## 7. Not modelled

* Framing and the encodings of records, commands and snapshots: pure data, covered by
  the crate's round-trip and fuzz tests.
* `MemoryTransport`: an outbox between the actions and the mailboxes of `Rounds`.
* `SplitMix64` and the seed: which timeout of the range is drawn is left open.
* The texts of errors, and requests that are refused: they change nothing.
* A caller that goes on with a node or a log after a storage error, against
  `error.rs:68`.
* A `u32` of ticks that overflows in a non-voter nobody calls, and `u64` terms and
  indices.

## 8. What is left to do

1. **Proofs.** That nobody goes back in `Rounds`, from the order of the mailboxes. Of changes
   of membership one server at a time by one leader, where the majorities of neighbouring
   configurations meet.
2. **The two liveness models in one**: messages lost in rounds other than by partition.
