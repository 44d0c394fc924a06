---------------------------- MODULE MCStaleSnapshot ----------------------------
(***************************************************************************)
(* s1 leads term 2.  It has committed four entries with s2, acknowledging  *)
(* them one at a time, and its application was asked for a snapshot after  *)
(* the second; s3 has received nothing yet.                                *)
(***************************************************************************)
EXTENDS Scenario

Won == Elect(WithLog(s1, DiskWith(Stored(<<1>>, v1), 1, s1)),
             WithLog(s2, DiskWith(Stored(<<1>>, v1), 1, s1)))

(* The leader's batch reaches s2, and the reply comes back. *)
Exchange(leader, follower) ==
    LET stored == HandleAppendEntries(follower, SentTo(leader, s2))
    IN  << Quiet(HandleAppendReply(Quiet(leader), SentTo(stored, s1))), Quiet(stored) >>

Proposed(pair) == Exchange(Propose(pair[1], v1), pair[2])

Committed == Proposed(Proposed(Proposed(Exchange(Won.leader, Won.voter))))

InitStaleSnapshot ==
    StartsWith(Nodes(Committed[1], Committed[2],
                     WithLog(s3, DiskWith(<< >>, 1, s1))), {})

SpecStaleSnapshot == InitStaleSnapshot /\ [][Next]_vars
=============================================================================
