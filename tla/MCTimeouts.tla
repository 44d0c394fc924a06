------------------------------ MODULE MCTimeouts ------------------------------
(***************************************************************************)
(* From power-up with ticks and messages in any order: s1 and s2 with      *)
(* overlapping timeouts, and s3, created to join them.                     *)
(***************************************************************************)
EXTENDS RoundsProperties

CONSTANTS s1, s2, s3, key1, one

Three == {s1, s2, s3}

InOrder == [i \in Three |-> CASE i = s1 -> 1 [] i = s2 -> 2 [] i = s3 -> 3]

Two == {s1, s2}

JustS3 == {s3}

Commands == {Put(key1, one)}

Config(i) ==
    WithSnapshotThreshold(
        WithMaxBatch(
            WithHeartbeatInterval(
                WithElectionTimeout(NewConfig(i, InitialVoters), 2, 3), 1),
            MaxBatch),
        SnapshotThreshold)

Configs == [i \in Three |-> Config(i)]

JustS1 == {{s1}}

JustS2 == {s2}

InitFree == RoundsInit /\ turn = 0

SpecFree == InitFree /\ [][RoundsNext]_roundsVars
=============================================================================
