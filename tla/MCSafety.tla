------------------------------- MODULE MCSafety -------------------------------
(***************************************************************************)
(* Elections and replication among three voters.                           *)
(*                                                                         *)
(* Two candidates: s1 and s2 are about to win a pre-vote round; the probe  *)
(* messages have been lost but for those to s3, whose grants are under     *)
(* way.  All hold the same entries.  s1 and s2 may have the vote of an     *)
(* earlier election on disk, one that s2 did not win.  One crash may come. *)
(*                                                                         *)
(* A rival, after a power cut: s1 led term 1 and s2 led term 2, each       *)
(* appending entries nobody else received.  s1, recovered first, has just  *)
(* been elected in term 3 by s3.  s2 denied its vote, and probes for term  *)
(* 4; s3 has granted the probe, having heard from no leader yet.           *)
(***************************************************************************)
EXTENDS Scenario

Full == DiskWith(Stored(<<1, 2>>, v1), 2, None)

Voted == SetHardState(Full, 3, s2)

TwoCandidates ==
    \E disks \in {<<Full, Full>>, <<Full, Voted>>, <<Voted, Voted>>} :
        LET a == WithLog(s1, disks[1])
            b == WithLog(s2, disks[2])
            c == WithLog(s3, Full)
        IN  StartsWith(Nodes(Quiet(StartPreVote(a)), Quiet(StartPreVote(b)), c),
                       {GrantOf(a, c), GrantOf(b, c)})

Won == Elect(WithLog(s1, DiskWith(Stored(<<1>>, v1), 2, None)),
             WithLog(s3, DiskWith(<< >>, 2, s2)))

Denier == WithLog(s2, DiskWith(Stored(<<2, 2>>, v1), 3, None))

Rival ==
    StartsAfter(Nodes(Won.leader, Quiet(StartPreVote(Denier)), Won.voter),
                {GrantOf(Denier, Won.voter)}, MaxCrashes)

SpecSafety == (TwoCandidates \/ Rival) /\ [][Next]_vars
=============================================================================
