----------------------------- MODULE MCMembership -----------------------------
(***************************************************************************)
(* Two voters, s1 and s2, and a server to add, s3.                         *)
(*                                                                         *)
(* Growing: s1 has been elected by s2 in the last term.  It may add s3 and *)
(* remove itself.                                                          *)
(*                                                                         *)
(* Overtaken: s1 led, added s3 and then removed it again; but the removal  *)
(* has reached nobody, and s3 has been elected by s2, which has restarted, *)
(* and given a command.                                                    *)
(*                                                                         *)
(* HandingOver: s2 is about to be elected by s1 and may hand over to it;   *)
(* no more can be appended.                                                *)
(***************************************************************************)
EXTENDS Scenario

TwoVoters == {s1, s2}

MayChange == {s1, s3}

JustS1 == {s1}

Aged(i, term) == WithLog(i, DiskWith(<< >>, term, None))

Growing ==
    LET won == Elect(Aged(s1, 2), Aged(s2, 2))
    IN  StartsWith(Nodes(won.leader, won.voter, Aged(s3, 0)), {})

(* A follower stores what the leader has sent it; the leader hears so. *)
Stores(follower, leader) ==
    HandleAppendEntries(AdoptTerm(Quiet(follower), leader.current_term),
                        SentTo(leader, follower.id))

Acked(leader, follower) == HandleAppendReply(Quiet(leader), SentTo(follower, s1))

Won == Elect(Aged(s1, 1), Aged(s2, 1))

Added == ChangeMembership(Quiet(Won.leader), Three)

Voter == Stores(Won.voter, Added)

Newcomer == Stores(Aged(s3, 0), Added)

Committed == Acked(Acked(Added, Voter), Newcomer)

Informed == Stores(Newcomer, ReplicateToAll(Quiet(Committed)))

Removing == ChangeMembership(Quiet(Committed), TwoVoters)

Later == Elect(Quiet(Informed), WithLog(s2, Voter.disk))

Overtaken ==
    StartsWith(Nodes(Removing, Later.voter, Propose(Later.leader, v1)), {})

Full(i) == WithLog(i, DiskWith(Stored(<<1, 1>>, v1), 1, None))

HandingOver == StartsWith(Nodes(Full(s1), Full(s2), Aged(s3, 0)), {})

SpecMembership == (Growing \/ Overtaken \/ HandingOver) /\ [][Next]_vars
=============================================================================
