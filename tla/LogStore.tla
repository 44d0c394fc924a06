------------------------------- MODULE LogStore -------------------------------
(***************************************************************************)
(* What the RaftLog trait of src/log.rs promises a node about durability:  *)
(* the log as it reads now, and the logs it may read after a crash.  These *)
(* are the states it has passed through, entry by entry, since the last    *)
(* sync; after sync returns there is one.  RaftNode relies on it: `disk`   *)
(* is that one, PartialWrites takes some of the others.                    *)
(*                                                                         *)
(* An operation that fails may have come half way; after it the log is not *)
(* used again before a restart.                                            *)
(***************************************************************************)
EXTENDS RaftLog

CONSTANT Batches,       \* batches of entries a node may append
         HardStates,    \* hard states it may set
         Snapshots      \* snapshots it may take or be sent

VARIABLES log, possible, failed

Init == log = EmptyLog /\ possible = {EmptyLog} /\ failed = FALSE

(* What a node asks of its log: terms only grow, only existing entries are *)
(* truncated.                                                              *)
MayAppend(current, batch) ==
    /\ batch[1].term >= LastTerm(current)
    /\ \A k \in 2 .. Len(batch) : batch[k].term >= batch[k - 1].term

MayPersist(current, hard) ==
    \/ hard.term > current.hard.term
    \/ hard.term = current.hard.term /\ current.hard.voted_for = None

(* The logs reached on the way to new, up to the one at which it failed. *)
Reaches(steps, new) ==
    /\ ~ failed
    /\ log' = new
    /\ \E k \in 0 .. Len(steps) :
            /\ possible' = possible \cup {steps[j] : j \in 1 .. k}
            /\ failed' = (k < Len(steps))

AppendBatch(batch) ==
    /\ MayAppend(log, batch)
    /\ Reaches([k \in DOMAIN batch |-> AppendTo(log, SubSeq(batch, 1, k))],
               AppendTo(log, batch))

Becomes(new) == Reaches(<<new>>, new)

TruncateFrom(from) ==
    from \in log.base_index + 1 .. LastIndex(log) /\ Becomes(Truncate(log, from))

Persist(hard) ==
    /\ MayPersist(log, hard)
    /\ Becomes(SetHardState(log, hard.term, hard.voted_for))

(* Compaction may make everything durable, and may fail when all that      *)
(* matters has been written.                                               *)
Compact(snap) ==
    \/ Becomes(ApplySnapshot(log, snap))
    \/ /\ ~ failed
       /\ log' = ApplySnapshot(log, snap)
       /\ \/ possible' = {log'} /\ UNCHANGED failed
          \/ possible' = possible \cup {log'} /\ failed' = TRUE

Sync ==
    /\ ~ failed
    /\ UNCHANGED log
    /\ \/ possible' = {log} /\ UNCHANGED failed
       \/ failed' = TRUE /\ UNCHANGED possible

Recover == log' \in possible /\ possible' = {log'} /\ failed' = FALSE

Next ==
    \/ \E batch \in Batches : AppendBatch(batch)
    \/ \E from \in 1 .. LastIndex(log) : TruncateFrom(from)
    \/ \E hard \in HardStates : Persist(hard)
    \/ \E snap \in Snapshots : Compact(snap)
    \/ Sync
    \/ Recover

Spec == Init /\ [][Next]_<<log, possible, failed>>
=============================================================================
