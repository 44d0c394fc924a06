--------------------------- MODULE RoundsProperties ---------------------------
(***************************************************************************)
(* What a cluster with clocks and mailboxes promises.                      *)
(***************************************************************************)
EXTENDS Rounds

(* Timers stay within the configuration, a mailbox holds messages to its    *)
(* owner, and a server not created yet has none.                            *)
RoundsTypeOK ==
    /\ TypeOK
    /\ \A i \in Server :
            /\ timer[i] \in Timer
            /\ timer[i].timeout \in Configured[i].election_timeout_min
                                        .. Configured[i].election_timeout_max
            /\ timer[i].elapsed <= timer[i].timeout
            /\ heard[i] \in 0 .. Configured[i].election_timeout_min
            /\ \A k \in DOMAIN mailbox[i] : mailbox[i][k] \in {m \in wire : m.to = i}
            /\ i \notin running => mailbox[i] = << >>
            /\ store[i] \in [Key -> Datum \cup {Absent}]

(* Clocks, mailboxes and rounds add nothing to the cluster: every step is   *)
(* one of module RaftCluster, so the timeouts it leaves open include all    *)
(* that real ones bring about.                                              *)
ImplementsCluster == Spec

TakesClusterSteps == [][Next]_vars

-----------------------------------------------------------------------------
(* Elections. *)

(* The node has heard from its leader within the minimum election timeout.  *)
Hears(i, leader) ==
    node[i].leader_id = leader /\ heard[i] < Configured[i].election_timeout_min

(* A follower that has just heard from its leader neither probes nor        *)
(* supports another candidate, except in a hand-over.                       *)
FollowersAreLoyal ==
    [][\A i \in running :
            /\ \E l \in running \ {i} : Hears(i, l)
            /\ heard'[i] < Configured[i].election_timeout_min
            =>
            /\ ~ node'[i].pre_voting
            /\ \A m \in wire' \ wire :
                    /\ m.from = i
                    /\ m.kind \in {"PreVoteReply", "RequestVoteReply"}
                    /\ m.vote_granted
                    => m.kind = "RequestVoteReply" /\ Head(mailbox[i]).force]_roundsVars

(* A leader that a majority of its voters, itself included, has just heard. *)
Established(i) ==
    /\ node[i].role = "Leader"
    /\ 2 * Cardinality({j \in node[i].voters : j = i \/ Hears(j, i)})
           > Cardinality(node[i].voters)
    /\ \A j \in running : node[j].current_term <= node[i].current_term

(* docs/PROTOCOL.md:136: a node that was cut off does not raise its term    *)
(* and "on rejoin it cannot force the established leader to step down".     *)
(* Round by round, only a hand-over opens a later term under such a leader. *)
LeaderKept ==
    [][turn # 0 => \A i, j \in running :
            Established(i) /\ node'[j].current_term > node[i].current_term =>
                mailbox[j] # << >> /\ Head(mailbox[j]).kind = "TimeoutNow"]_roundsVars

-----------------------------------------------------------------------------
(* The application. *)

Service == INSTANCE ReplicatedMap WITH
    chosen  <- {[index   |-> c.index,
                 command |-> IF c.entry.kind = "Normal" THEN c.entry.body ELSE None] :
                    c \in history.committed},
    applied <- [i \in Server |-> node[i].last_applied],
    map     <- store

(* tests/kv_consumer.rs:7: a node's map is that of "a single-threaded model *)
(* built by applying the committed command sequence in order", also when it *)
(* was restored from another node's snapshot; and nobody ever goes back.    *)
ImplementsMap == Service!Spec

-----------------------------------------------------------------------------
(* A network that stays whole. *)

StaysWhole == <>[](side = {})

(* The cluster comes to follow one leader, and keeps it. *)
SettlesOnLeader ==
    StaysWhole => <>[](\E i \in running :
        /\ node[i].role = "Leader"
        /\ \A j \in node[i].voters : node[j].leader_id = i)

(* Every voter comes to hold what the leader holds, and to apply it if the  *)
(* leader has an entry of its own term to commit.  What a voter holds       *)
(* beyond, of an earlier term, stays until that leader appends something.   *)
VotersCatchUp ==
    StaysWhole => <>[](\A i \in running : node[i].role = "Leader" =>
        \A j \in node[i].voters :
            /\ TermAt(node[j].log, LastIndex(node[i].log)) = LastTerm(node[i].log)
            /\ LastTerm(node[i].log) = node[i].current_term =>
                    /\ node[j].last_applied = LastIndex(node[i].log)
                    /\ store[j] = store[i])

(* A hand-over to a server that was cut off is over once it is back, and    *)
(* the leader takes requests again: it never times out by itself.           *)
HandOversEnd ==
    StaysWhole => <>[](\A i \in running : node[i].transfer_target = None)

(* examples/partition_recovery.rs:126: "every node should converge after    *)
(* healing".                                                                *)
EveryoneConverges ==
    StaysWhole => <>[](\A i, j \in running :
        /\ node[i].last_applied = node[j].last_applied
        /\ store[i] = store[j])
=============================================================================
