---------------------------- MODULE MCCompaction ----------------------------
(***************************************************************************)
(* s1 leads term 2 and has committed two entries with s2; its application  *)
(* has been asked for a snapshot of them.  A third entry has reached s2,   *)
(* whose answer is under way.  s3 holds none: it has rejected the first    *)
(* append, and the second attempt, with entries, is under way.             *)
(***************************************************************************)
EXTENDS Scenario

Held == DiskWith(Stored(<<1>>, v1), 1, s1)

Won == Elect(WithLog(s1, Held), WithLog(s2, Held))

Lagging == WithLog(s3, DiskWith(<< >>, 1, s1))

(* s2 and s3 answer the leader. *)
Acked(leader, sender) == HandleAppendReply(Quiet(leader), SentTo(sender, s1))

Stores(follower, leader) == HandleAppendEntries(Quiet(follower), SentTo(leader, s2))

Rejecting == HandleAppendEntries(AdoptTerm(Lagging, 2), SentTo(Won.leader, s3))

First == Stores(Won.voter, Won.leader)

Proposed == Propose(Quiet(Acked(Won.leader, First)), v1)

Second == Stores(First, Proposed)

ProposedAgain == Propose(Quiet(Acked(Proposed, Second)), v1)

Third == Stores(Second, ProposedAgain)

InitCompaction ==
    StartsWith(Nodes(Acked(ProposedAgain, Rejecting), Third, Quiet(Rejecting)), {})

SpecCompaction == InitCompaction /\ [][Next]_vars
=============================================================================
