-------------------------------- MODULE MCJoin --------------------------------
(***************************************************************************)
(* A cluster of one, s1, to which s2 is added.  s1 has committed two       *)
(* entries, may have compacted them by then, and may be asked to hand over *)
(* to s2.  s2 may be empty or have led term 1 with s1's vote, adding       *)
(* entries that s1, its own majority, never received.  Messages are        *)
(* delivered once, or lost.                                                *)
(***************************************************************************)
EXTENDS Scenario

Pair == {s1, s2}

JustS1 == {s1}

JustS2 == {s2}

Joins(disk, voted_for) ==
    LET sole    == StartPreVote(WithLog(s1, DiskWith(<< >>, 1, voted_for)))
        leading == Propose(Propose(sole, v1), v1)
    IN  StartsWith([i \in Server |-> IF i = s1 THEN leading ELSE WithLog(s2, disk)], {})

InitJoin ==
    \/ Joins(EmptyLog, None)
    \/ Joins(DiskWith(Stored(<<1, 1, 1>>, v1), 1, s2), s2)

SpecJoin == InitJoin /\ [][Next]_vars /\ Fairness
=============================================================================
