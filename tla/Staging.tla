------------------------------- MODULE Staging -------------------------------
(***************************************************************************)
(* Elections and exchanges replayed through the handlers of RaftNode: the  *)
(* nodes model checking starts from.  A run from an empty cluster spends   *)
(* its states on electing the first leader; with these a run starts where  *)
(* its question begins.                                                    *)
(***************************************************************************)
EXTENDS RaftNode

(* Normal entries of the given terms. *)
Stored(terms, command) == [k \in DOMAIN terms |-> NormalEntry(terms[k], command)]

(* A disk with these entries, this term and this vote. *)
DiskWith(entries, term, voted_for) ==
    SetHardState(AppendTo(EmptyLog, entries), term, voted_for)

Quiet(n) == [n EXCEPT !.sends = {}]

SentTo(n, p) == CHOOSE m \in n.sends : m.to = p

(* i campaigns and wins with the vote of j: the leader, its first round    *)
(* not yet on the wire, and the voter.                                     *)
Elect(i, j) ==
    LET candidate == StartElection(i, FALSE)
        request   == SentTo(candidate, j.id)
        voter     == HandleRequestVote(AdoptTerm(j, request.term), request)
    IN  [leader |-> HandleVoteReply(Quiet(candidate), SentTo(voter, i.id), FALSE),
         voter  |-> Quiet(voter)]

(* What j, which knows no leader, answers to the probe of i. *)
GrantOf(i, j) ==
    SentTo(HandlePreVote(j, SentTo(StartPreVote(i), j.id), FALSE), i.id)
=============================================================================
