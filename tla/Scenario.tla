------------------------------- MODULE Scenario -------------------------------
(***************************************************************************)
(* The states model checking of a cluster starts from, set up from the     *)
(* nodes of module Staging.                                                *)
(***************************************************************************)
EXTENDS RaftProperties, Staging, TLC

CONSTANTS s1, s2, s3, v1

Three == {s1, s2, s3}

OneValue == {v1}

(* A cluster of these nodes, whose histories they carry in their logs, with *)
(* what they have not sent yet and the messages on the wire, after a number *)
(* of crashes.                                                              *)
StartsAfter(nodes, messages, count) ==
    /\ node = [i \in Server |-> Quiet(nodes[i])]
    /\ wire = messages \cup UNION {nodes[i].sends : i \in Server}
    /\ history =
        [ballots   |-> UNION {BallotOf(nodes[i]) : i \in Server},
         victories |-> UNION {VictoryOf(nodes[i]) : i \in Server},
         committed |-> UNION {CommitmentsOf(WithLog(i, EmptyLog), nodes[i]) :
                                i \in Server}]
    /\ crashes = count
    /\ losses = 0

StartsWith(nodes, messages) == StartsAfter(nodes, messages, 0)

(* The nodes of a cluster of three. *)
Nodes(a, b, c) == [i \in Server |-> IF i = s1 THEN a ELSE IF i = s2 THEN b ELSE c]
=============================================================================
