------------------------------- MODULE MCRounds -------------------------------
(***************************************************************************)
(* Round by round, as in the examples, from a leader all follow: s1 has    *)
(* been elected and has had a key written everywhere.  The ranges of the   *)
(* election timeouts do not overlap, as if every draw told the servers     *)
(* apart.                                                                  *)
(***************************************************************************)
EXTENDS RoundsProperties, Staging

CONSTANTS s1, s2, s3, key1, one

Three == {s1, s2, s3}

InOrder == [i \in Three |-> CASE i = s1 -> 1 [] i = s2 -> 2 [] i = s3 -> 3]

Commands == {Put(key1, one), Del(key1)}

Config(i, min, max) ==
    WithSnapshotThreshold(
        WithMaxBatch(
            WithHeartbeatInterval(
                WithElectionTimeout(NewConfig(i, InitialVoters), min, max), 2),
            MaxBatch),
        SnapshotThreshold)

Configs == [i \in Three |-> CASE i = s1 -> Config(i, 3, 3)
                               [] i = s2 -> Config(i, 6, 6)
                               [] i = s3 -> Config(i, 9, 0)]

EitherOne == {{s1}, {s2}, {s3}}

JustS3 == {{s3}}

JustS2 == {s2}

(* The leader's messages to both followers are delivered, and the answers. *)
Settled(leader, b, c) ==
    LET hears(n) == HandleAppendEntries(AdoptTerm(n, leader.current_term),
                                        SentTo(leader, n.id))
        told == HandleAppendReply(Quiet(leader), SentTo(hears(b), s1))
    IN  <<Quiet(HandleAppendReply(told, SentTo(hears(c), s1))),
          Quiet(hears(b)), Quiet(hears(c))>>

Fresh(i) == WithLog(i, EmptyLog)

Won == Elect(Fresh(s1), Fresh(s2))

Elected == Settled(Won.leader, Won.voter, Fresh(s3))

Written == Settled(Propose(Elected[1], Put(key1, one)), Elected[2], Elected[3])

Applied3 == Settled(ReplicateToAll(Written[1]), Written[2], Written[3])

(* The nodes once the key is written, s1 having won with this clock. *)
Led(ripe) ==
    [i \in Server |-> IF i = s1 THEN [Applied3[1] EXCEPT !.ripe = ripe]
                     ELSE Applied3[InOrder[i]]]

StartsLed(nodes, timers) ==
    /\ node = nodes
    /\ timer \in timers
    /\ heard = [i \in Server |-> 0]
    /\ mailbox = [i \in Server |-> << >>]
    /\ running = Founders
    /\ side = {}
    /\ turn = 1
    /\ store = [i \in Server |-> ApplyCommand(EmptyMap, Put(key1, one))]
    /\ images = {}
    /\ wire = {}
    /\ history =
        [ballots   |-> UNION {BallotOf(nodes[i]) : i \in Server},
         victories |-> UNION {VictoryOf(nodes[i]) : i \in Server},
         committed |-> UNION {CommitmentsOf(Fresh(i), nodes[i]) : i \in Server}]
    /\ crashes = 0
    /\ losses = 0
    /\ calls = 1

InitRounds == StartsLed(Led(FALSE), StartTimers)

SpecRounds == InitRounds /\ [][RoundsNext]_roundsVars /\ WF_turn(NextTurn)

-----------------------------------------------------------------------------
(* The votes for s1 came three ticks after it had asked for them, a tick     *)
(* before it would have given up.                                          *)
LateConfigs == [Configs EXCEPT ![s1] = Config(s1, 3, 4)]

InitLate ==
    StartsLed(Led(TRUE),
              {[t EXCEPT ![s1] = [@ EXCEPT !.elapsed = 3, !.timeout = 4]] : t \in StartTimers})

SpecLate == InitLate /\ [][RoundsNext]_roundsVars /\ WF_turn(NextTurn)
=============================================================================
