------------------------------- MODULE RaftLog -------------------------------
(***************************************************************************)
(* The replicated log of one node, as a value: the RaftLog trait of        *)
(* src/log.rs with the behaviour of MemoryLog, the store every node reads  *)
(* through.  A log is a record                                             *)
(*                                                                         *)
(*   base_index, base_term  the snapshot boundary (0, 0 before a snapshot) *)
(*   entries                the live entries; the entry at position k has  *)
(*                          index base_index + k, so the index itself is   *)
(*                          not stored                                     *)
(*   snapshot_config, data  the snapshot's membership and state            *)
(*   hard                   the hard state: term and voted_for             *)
(*                                                                         *)
(* Mutators return the new log.  Whether a mutation is durable yet is the  *)
(* node's business (module RaftNode keeps the durable copy).               *)
(***************************************************************************)
EXTENDS Integers, Sequences, FiniteSets, FiniteSetsExt

CONSTANTS
    Server,     \* node ids
    Value,      \* application commands
    None        \* the Option::None of a node id

ASSUME NoneAssumption == None \notin Server

(* A term_at that finds nothing. *)
NoTerm == -1

Smaller(a, b) == IF a < b THEN a ELSE b
Larger(a, b) == IF a > b THEN a ELSE b

NormalEntry(term, command) == [term |-> term, kind |-> "Normal", body |-> command]
ConfigEntry(term, members) == [term |-> term, kind |-> "Config", body |-> members]

LogEntry ==
    [term : Nat, kind : {"Normal"}, body : Value]
        \cup [term : Nat, kind : {"Config"}, body : SUBSET Server]

HardState == [term : Nat, voted_for : Server \cup {None}]

(* One application state: the commands applied, each at its index. *)
Applied == [index : Nat, command : Value]

Log == [base_index      : Nat,
        base_term       : Nat,
        entries         : Seq(LogEntry),
        snapshot_config : SUBSET Server,
        data            : SUBSET Applied,
        hard            : HardState]

Snapshot == [index : Nat, term : Nat, config : SUBSET Server, data : SUBSET Applied]

(* A fresh MemoryLog: term 0, no vote, nothing stored. *)
EmptyLog == [base_index |-> 0, base_term |-> 0, entries |-> << >>,
             snapshot_config |-> {}, data |-> {},
             hard |-> [term |-> 0, voted_for |-> None]]

-----------------------------------------------------------------------------
(* Reads. *)

LastIndex(log) == log.base_index + Len(log.entries)

HasEntry(log, index) == index \in log.base_index + 1 .. LastIndex(log)

EntryAt(log, index) == log.entries[index - log.base_index]

LastTerm(log) ==
    IF log.entries = << >> THEN log.base_term
                           ELSE log.entries[Len(log.entries)].term

(* The snapshot boundary still answers with its own term. *)
TermAt(log, index) ==
    IF index = log.base_index THEN log.base_term
    ELSE IF HasEntry(log, index) THEN EntryAt(log, index).term ELSE NoTerm

EntriesOf(log, from, to) ==
    SubSeq(log.entries, Larger(from, log.base_index + 1) - log.base_index,
                        Smaller(to, LastIndex(log)) - log.base_index)

HasSnapshot(log) == log.base_index > 0

SnapshotOf(log) == [index |-> log.base_index, term |-> log.base_term,
                    config |-> log.snapshot_config, data |-> log.data]

(* The live configuration entries at or below index. *)
ConfigIndices(log, index) ==
    {k \in log.base_index + 1 .. Smaller(index, LastIndex(log)) :
        EntryAt(log, k).kind = "Config"}

(* The configuration entry in effect at index, 0 when there is none. *)
ConfigIndexAt(log, index) ==
    LET found == ConfigIndices(log, index)
    IN  IF found = {} THEN 0 ELSE Max(found)

ConfigAt(log, index, base_config) ==
    LET k == ConfigIndexAt(log, index)
    IN  IF k = 0 THEN base_config ELSE EntryAt(log, k).body

(* First index of the run of term that ends at upto. *)
FirstIndexOfTerm(log, term, upto) ==
    Max({k \in 0 .. upto : k <= 1 \/ TermAt(log, k - 1) # term})

(* The scan runs down from the end and gives up below term; 0 for none. *)
LastIndexOfTerm(log, term) ==
    LET reached == {k \in 1 .. LastIndex(log) : TermAt(log, k) \in 0 .. term}
    IN  IF reached # {} /\ TermAt(log, Max(reached)) = term
        THEN Max(reached) ELSE 0

-----------------------------------------------------------------------------
(* Mutations. *)

AppendTo(log, new) == [log EXCEPT !.entries = @ \o new]

Truncate(log, from) ==
    [log EXCEPT !.entries = SubSeq(@, 1, from - log.base_index - 1)]

SetHardState(log, term, voted_for) ==
    [log EXCEPT !.hard = [term |-> term, voted_for |-> voted_for]]

(* Mutants: a compaction that drops the whole tail, one that leaves the    *)
(* boundary term behind, one that leaves the old state behind.             *)
ApplySnapshotWithoutTail(log, snap) ==
    IF snap.index <= log.base_index THEN log
    ELSE [log EXCEPT !.entries = << >>, !.base_index = snap.index,
                     !.base_term = snap.term, !.snapshot_config = snap.config,
                     !.data = snap.data]

ApplySnapshotWithoutTerm(log, snap) ==
    IF snap.index <= log.base_index THEN log
    ELSE [log EXCEPT !.entries = SubSeq(@, snap.index - log.base_index + 1, Len(@)),
                     !.base_index = snap.index, !.snapshot_config = snap.config,
                     !.data = snap.data]

ApplySnapshotWithoutData(log, snap) ==
    IF snap.index <= log.base_index THEN log
    ELSE [log EXCEPT !.entries = SubSeq(@, snap.index - log.base_index + 1, Len(@)),
                     !.base_index = snap.index, !.base_term = snap.term,
                     !.snapshot_config = snap.config]

(* Compaction up to a snapshot no older than the one held changes nothing.  *)
(* The tail is kept only when the log agrees with the snapshot's last term. *)
ApplySnapshot(log, snap) ==
    IF snap.index <= log.base_index THEN log
    ELSE [log EXCEPT
            !.entries = IF TermAt(log, snap.index) = snap.term
                        THEN SubSeq(@, snap.index - log.base_index + 1, Len(@))
                        ELSE << >>,
            !.base_index = snap.index,
            !.base_term = snap.term,
            !.snapshot_config = snap.config,
            !.data = snap.data]
=============================================================================
