---------------------------- MODULE MCReconfigure ----------------------------
(***************************************************************************)
(* Four voters.  s1 led term 1 and added s5, but nobody else has received  *)
(* the entry.  s2 leads term 2, elected by s3 and s4, and may remove s1;   *)
(* its first round is lost.  s1 has heard of term 2 and probes for term 3: *)
(* s4 and s5, which have heard from no leader, have granted it.            *)
(***************************************************************************)
EXTENDS Scenario

CONSTANTS s4, s5

Four == {s1, s2, s3, s4}

Five == Four \cup {s5}

JustS1 == {s1}

Added == WithLog(s1, DiskWith(<< ConfigEntry(1, Five) >>, 2, None))

Asking == StartElection(WithLog(s2, SetHardState(EmptyLog, 1, s1)), FALSE)

Granting(i) ==
    LET request == SentTo(Asking, i)
    IN  HandleRequestVote(
            AdoptTerm(WithLog(i, SetHardState(EmptyLog, 1, s1)), request.term), request)

Counting(n, i) == HandleVoteReply(Quiet(n), SentTo(Granting(i), s2), FALSE)

Member(i) ==
    CASE i = s1 -> StartPreVote(Added)
      [] i = s2 -> Counting(Counting(Asking, s3), s4)
      [] i \in {s3, s4} -> Granting(i)
      [] i = s5 -> WithLog(s5, EmptyLog)

InitReconfigure ==
    StartsWith([i \in Server |-> Quiet(Member(i))],
               {GrantOf(Added, Quiet(Granting(s4))), GrantOf(Added, WithLog(s5, EmptyLog))})

SpecReconfigure == InitReconfigure /\ [][Next]_vars
=============================================================================
