-------------------------------- MODULE WalLog --------------------------------
(***************************************************************************)
(* WalLog (src/wal_log.rs): a log kept as the records of a write-ahead log *)
(* with a MemoryLog, `index`, on top of it for reading.                    *)
(*                                                                         *)
(*   index    the MemoryLog, a log value of module RaftLog                 *)
(*   wal      the records of wal-db, oldest first                          *)
(*   synced   how many of them are known to be on disk                     *)
(*   failed   whether an operation has returned an error                   *)
(*                                                                         *)
(* The index is changed first, and any of the writes that follow may fail: *)
(* Error::Storage.  Then the caller closes the log (src/error.rs:68: the   *)
(* node "must not continue"), and all that is left to do is to open it.    *)
(*                                                                         *)
(* A crash keeps the synced records and any number of the records after    *)
(* them, in order (wal-db drops a torn record by its checksum).  That      *)
(* covers a crash in the middle of an operation as well: it leaves what a  *)
(* crash right after it may leave.                                         *)
(*                                                                         *)
(* truncate_before belongs to wal-db.  It may free nothing, as when it     *)
(* fails or frees whole files only; else it frees the records it is told   *)
(* to and makes the others durable.  With SparesTail it never does so when *)
(* the log goes on beyond the snapshot.                                    *)
(***************************************************************************)
EXTENDS RaftLog

CONSTANTS
    SparesTail,                         \* what truncate_before may free
    Batches, HardStates, Snapshots,     \* the operands of the mutations
    MaxIndex,                           \* no append beyond this index
    MaxRecords                          \* no mutation beyond this many records

ASSUME WalAssumption ==
    /\ SparesTail \in BOOLEAN
    /\ Batches \subseteq Seq(LogEntry) \ {<< >>}
    /\ HardStates \subseteq HardState
    /\ Snapshots \subseteq Snapshot
    /\ {MaxIndex, MaxRecords} \subseteq Nat

VARIABLES index, wal, synced, failed

vars == <<index, wal, synced, failed>>

-----------------------------------------------------------------------------
(* Records and their replay. *)

EntryRecord(at, entry) == [tag |-> "Entry", at |-> at, entry |-> entry]
HardRecord(hard)       == [tag |-> "HardState", hard |-> hard]
TruncateRecord(from)   == [tag |-> "Truncate", from |-> from]
SnapshotRecord(snap)   == [tag |-> "Snapshot", snap |-> snap]

(* A log that cannot be opened: replay has hit an error. *)
Broken == [EmptyLog EXCEPT !.base_index = -1]

ReplayRecord(log, record) ==
    IF log = Broken THEN Broken
    ELSE CASE record.tag = "Entry" ->
                IF record.at = LastIndex(log) + 1
                THEN AppendTo(log, << record.entry >>) ELSE Broken
           [] record.tag = "HardState" ->
                SetHardState(log, record.hard.term, record.hard.voted_for)
           [] record.tag = "Truncate" ->
                IF record.from <= log.base_index THEN Broken
                ELSE Truncate(log, Smaller(record.from, LastIndex(log) + 1))
           [] record.tag = "Snapshot" -> ApplySnapshot(log, record.snap)

(* What open makes of the records it finds. *)
Replay(records) ==
    LET after[j \in 0 .. Len(records)] ==
            IF j = 0 THEN EmptyLog ELSE ReplayRecord(after[j - 1], records[j])
    IN  after[Len(records)]

(* The log a restart finds when it finds the first k records. *)
Found(k) == Replay(SubSeq(wal, 1, k))

(* What the node may rely on, and how it uses it. *)
Store == INSTANCE LogStore WITH
    log      <- index,
    possible <- {Found(k) : k \in synced .. Len(wal)}

-----------------------------------------------------------------------------
Init == index = EmptyLog /\ wal = << >> /\ synced = 0 /\ failed = FALSE

(* A mutation of the index and the records written for it, up to the first *)
(* that fails.                                                             *)
Write(new, records) ==
    /\ ~ failed
    /\ Len(wal) + Len(records) <= MaxRecords
    /\ index' = new
    /\ \E k \in 0 .. Len(records) :
            /\ wal' = wal \o SubSeq(records, 1, k)
            /\ failed' = (k < Len(records))
    /\ UNCHANGED synced

AppendBatch(batch) ==
    /\ Store!MayAppend(index, batch)
    /\ LastIndex(index) + Len(batch) <= MaxIndex
    /\ Write(AppendTo(index, batch),
             [k \in DOMAIN batch |-> EntryRecord(LastIndex(index) + k, batch[k])])

TruncateFrom(from) ==
    /\ from \in index.base_index + 1 .. LastIndex(index)
    /\ Write(Truncate(index, from), << TruncateRecord(from) >>)

(* Mutant: term and vote are written one after the other. *)
PersistInTwo(hard) ==
    /\ Store!MayPersist(index, hard)
    /\ Write(SetHardState(index, hard.term, hard.voted_for),
             << HardRecord([hard EXCEPT !.voted_for = None]), HardRecord(hard) >>)

Persist(hard) ==
    /\ Store!MayPersist(index, hard)
    /\ Write(SetHardState(index, hard.term, hard.voted_for), << HardRecord(hard) >>)

(* Mutant: the hard state is left to the records before the snapshot. *)
CompactWithoutHardState(snap) ==
    /\ snap.index > index.base_index
    /\ LET new   == ApplySnapshot(index, snap)
           final == << SnapshotRecord(snap) >>
       IN  \/ Write(new, final)
           \/ /\ ~ failed
              /\ SparesTail => new.entries = << >>
              /\ index' = new
              /\ wal' = final
              /\ synced' = 1
              /\ UNCHANGED failed

(* The snapshot, then the hard state, so that it survives the compaction   *)
(* of the records before the snapshot.                                     *)
Compact(snap) ==
    /\ snap.index > index.base_index
    /\ LET new   == ApplySnapshot(index, snap)
           final == << SnapshotRecord(snap), HardRecord(new.hard) >>
       IN  \/ Write(new, final)
           \/ /\ ~ failed
              /\ SparesTail => new.entries = << >>
              /\ index' = new
              /\ wal' = final
              /\ synced' = 2
              /\ UNCHANGED failed

Sync ==
    /\ ~ failed
    /\ \/ synced' = Len(wal) /\ UNCHANGED failed
       \/ failed' = TRUE /\ UNCHANGED synced
    /\ UNCHANGED <<index, wal>>

(* Mutant: the records a crash has lost are still taken for synced. *)
ReopenAsSynced ==
    \E k \in synced .. Len(wal) :
        /\ Found(k) # Broken
        /\ index' = Found(k)
        /\ wal' = SubSeq(wal, 1, k)
        /\ synced' = Len(wal)
        /\ failed' = FALSE

(* A crash, or an error, and open on what it has left. *)
Reopen ==
    \E k \in synced .. Len(wal) :
        /\ Found(k) # Broken
        /\ index' = Found(k)
        /\ wal' = SubSeq(wal, 1, k)
        /\ synced' = k
        /\ failed' = FALSE

Next ==
    \/ \E batch \in Batches : AppendBatch(batch)
    \/ \E from \in 1 .. MaxIndex : TruncateFrom(from)
    \/ \E hard \in HardStates : Persist(hard)
    \/ \E snap \in Snapshots : Compact(snap)
    \/ Sync
    \/ Reopen

Spec == Init /\ [][Next]_vars

-----------------------------------------------------------------------------
(* Properties. *)

(* The index is a log and the mark never passes the end of the records. *)
TypeOK ==
    /\ index \in Log
    /\ synced \in 0 .. Len(wal)
    /\ failed \in BOOLEAN

(* src/wal_log.rs:18 and docs/PROTOCOL.md:282: replay rebuilds the index    *)
(* exactly, and dropping the records before a snapshot does not affect it.  *)
ReplayIsIndex == ~ failed => Found(Len(wal)) = index

(* A crash finds one of the logs the node has had since the last sync, no   *)
(* record of it half applied, and the node's own one after sync; an error   *)
(* leaves nothing that a crash would not have left.                         *)
ImplementsStore == Store!Spec
=============================================================================
