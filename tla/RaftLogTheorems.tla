--------------------------- MODULE RaftLogTheorems ---------------------------
(***************************************************************************)
(* What the operators of RaftLog return: for every log, every index and    *)
(* every entry.  The proofs about nodes and about the durable log cite it. *)
(***************************************************************************)
EXTENDS RaftLog, SequenceTheorems, WellFoundedInduction, TLAPS

(* A non-empty set of natural numbers has a smallest member: what takes the *)
(* place of induction in the proofs about replays and prefixes.             *)
LEMMA SmallestExists ==
    ASSUME NEW T, T \subseteq Nat, T # {}
    PROVE  \E t \in T : \A u \in T : t <= u
<1>1. PICK t \in T : \A u \in T : ~ (<<u, t>> \in OpToRel(<, Nat))
  BY NatLessThanWellFounded, WFMin
<1>2. \A u \in T : t <= u
  <2> SUFFICES ASSUME NEW u \in T, u < t PROVE FALSE
    OBVIOUS
  <2> QED BY <1>1 DEF OpToRel
<1> QED BY <1>2

(* A non-empty set of integers with an upper bound has a maximum.           *)
LEMMA MaxExists ==
    ASSUME NEW S, S \subseteq Int, S # {}, NEW b \in Int, \A x \in S : x <= b
    PROVE  Max(S) \in S /\ \A x \in S : x <= Max(S)
<1> DEFINE T == {b - x : x \in S}
<1>1. T \subseteq Nat /\ T # {}
  <2>1. \A x \in S : b - x \in Nat
    OBVIOUS
  <2> QED BY <2>1, Zenon
<1>2. PICK t \in T : \A u \in T : ~ (<<u, t>> \in OpToRel(<, Nat))
  BY <1>1, NatLessThanWellFounded, WFMin
<1>3. PICK x \in S : t = b - x
  OBVIOUS
<1>4. \A y \in S : x >= y
  <2> SUFFICES ASSUME NEW y \in S, y > x PROVE FALSE
    OBVIOUS
  <2>1. b - y \in T /\ b - y < t /\ b - y \in Nat /\ t \in Nat
    BY <1>1, <1>3
  <2> QED BY <1>2, <2>1 DEF OpToRel
<1> QED BY <1>3, <1>4 DEF Max

-----------------------------------------------------------------------------
(* Logs. *)

(* The smaller and the larger of two numbers is one of them. *)
LEMMA SmallerLarger ==
    ASSUME NEW a \in Int, NEW b \in Int
    PROVE  /\ Smaller(a, b) \in {a, b} /\ Smaller(a, b) <= a /\ Smaller(a, b) <= b
           /\ Larger(a, b) \in {a, b} /\ Larger(a, b) >= a /\ Larger(a, b) >= b
BY DEF Smaller, Larger

(* What a log holds. *)
LEMMA LogFields ==
    ASSUME NEW log \in Log
    PROVE  /\ log.base_index \in Nat /\ log.base_term \in Nat
           /\ log.entries \in Seq(LogEntry) /\ Len(log.entries) \in Nat
           /\ log.snapshot_config \subseteq Server
           /\ log.data \subseteq Applied
           /\ log.hard \in HardState
           /\ LastIndex(log) \in Nat
           /\ LastIndex(log) = log.base_index + Len(log.entries)
BY LenProperties DEF Log, LastIndex

(* An entry the log has is an entry. *)
LEMMA EntryTyped ==
    ASSUME NEW log \in Log, NEW k \in Int, HasEntry(log, k)
    PROVE  EntryAt(log, k) \in LogEntry
<1>1. k - log.base_index \in 1 .. Len(log.entries)
  BY LogFields DEF HasEntry
<1> QED BY <1>1, LogFields, ElementOfSeq DEF EntryAt

(* What an entry holds. *)
LEMMA EntryFields ==
    ASSUME NEW e \in LogEntry
    PROVE  /\ e.term \in Nat
           /\ e.kind = "Normal" => e.body \in Value
           /\ e.kind = "Config" => e.body \subseteq Server
BY DEF LogEntry

(* The term of the last entry, or of the boundary, is a term. *)
LEMMA LastTermTyped == ASSUME NEW log \in Log PROVE LastTerm(log) \in Nat
<1>1. CASE log.entries = << >>
  BY <1>1, LogFields DEF LastTerm
<1>2. CASE log.entries # << >>
  <2>1. Len(log.entries) \in 1 .. Len(log.entries)
    BY <1>2, LogFields, EmptySeq
  <2> QED BY <1>2, <2>1, LogFields, ElementOfSeq, EntryFields DEF LastTerm
<1> QED BY <1>1, <1>2

(* A stretch of a sequence is a sequence. *)
LEMMA StretchTyped ==
    ASSUME NEW S, NEW s \in Seq(S), NEW a \in Int, NEW b \in Int, a >= 1, b <= Len(s)
    PROVE  SubSeq(s, a, b) \in Seq(S)
<1>1. \A i \in a .. b : s[i] \in S
  BY LenProperties, ElementOfSeq
<1> QED BY <1>1, SubSeqProperties

(* A batch is a sequence of entries. *)
LEMMA EntriesOfTyped ==
    ASSUME NEW log \in Log, NEW from \in Nat, NEW to \in Int
    PROVE  EntriesOf(log, from, to) \in Seq(LogEntry)
<1> DEFINE a == Larger(from, log.base_index + 1) - log.base_index
           b == Smaller(to, LastIndex(log)) - log.base_index
<1>1. a \in Int /\ b \in Int /\ a >= 1 /\ b <= Len(log.entries)
  BY LogFields, SmallerLarger
<1> QED BY <1>1, LogFields, StretchTyped DEF EntriesOf

(* The configuration in effect is a set of servers, its index an index of   *)
(* the log, or 0.                                                           *)
LEMMA ConfigTyped ==
    ASSUME NEW log \in Log, NEW index \in Nat, NEW base \in SUBSET Server
    PROVE  /\ ConfigIndexAt(log, index) \in Nat
           /\ ConfigAt(log, index, base) \subseteq Server
<1> DEFINE found == ConfigIndices(log, index)
<1>1. CASE found = {}
  BY <1>1 DEF ConfigIndexAt, ConfigAt
<1>2. CASE found # {}
  <2>1. found \subseteq Int /\ \A k \in found : k <= LastIndex(log)
    BY LogFields, SmallerLarger DEF ConfigIndices
  <2>2. Max(found) \in found
    BY <1>2, <2>1, LogFields, MaxExists
  <2> DEFINE k == Max(found)
  <2>3. /\ k \in Nat /\ k # 0 /\ HasEntry(log, k)
        /\ EntryAt(log, k).kind = "Config"
    BY <2>2, LogFields, SmallerLarger DEF ConfigIndices, HasEntry
  <2>4. ConfigIndexAt(log, index) = k
    BY <1>2 DEF ConfigIndexAt
  <2> HIDE DEF k
  <2>5. EntryAt(log, k).body \subseteq Server
    BY <2>3, EntryTyped, EntryFields
  <2> QED BY <2>3, <2>4, <2>5 DEF ConfigAt
<1> QED BY <1>1, <1>2

(* The run of a term starts at an index. *)
LEMMA FirstIndexOfTermTyped ==
    ASSUME NEW log, NEW term, NEW upto \in Nat
    PROVE  FirstIndexOfTerm(log, term, upto) \in Nat
<1> DEFINE S == {k \in 0 .. upto : k <= 1 \/ TermAt(log, k - 1) # term}
<1>1. S \subseteq Int /\ S # {} /\ \A k \in S : k <= upto
  <2>1. 0 \in S
    OBVIOUS
  <2> QED BY <2>1
<1>2. \A k \in S : k \in Nat
  OBVIOUS
<1> HIDE DEF S
<1>3. Max(S) \in S
  <2>1. upto \in Int
    OBVIOUS
  <2> QED BY <1>1, <2>1, MaxExists, Zenon
<1> QED BY <1>2, <1>3 DEF FirstIndexOfTerm, S

(* The end of the run of a term is an index, 0 when there is none. *)
LEMMA LastIndexOfTermTyped ==
    ASSUME NEW log \in Log, NEW term
    PROVE  LastIndexOfTerm(log, term) \in Nat
<1> DEFINE S == {k \in 1 .. LastIndex(log) : TermAt(log, k) \in 0 .. term}
<1>1. S \subseteq Nat /\ S \subseteq Int /\ \A k \in S : k <= LastIndex(log)
  BY LogFields
<1> HIDE DEF S
<1>2. S # {} => Max(S) \in S
  <2>1. LastIndex(log) \in Int
    BY LogFields
  <2> QED BY <1>1, <2>1, MaxExists, Zenon
<1>3. S # {} => Max(S) \in Nat
  BY <1>1, <1>2
<1> QED BY <1>3 DEF LastIndexOfTerm, S

(* Appending entries to a log leaves a log. *)
LEMMA AppendToTyped ==
    ASSUME NEW log \in Log, NEW new \in Seq(LogEntry)
    PROVE  AppendTo(log, new) \in Log
<1>1. log.entries \o new \in Seq(LogEntry)
  BY LogFields, ConcatProperties
<1> QED BY <1>1 DEF AppendTo, Log

(* Cutting a log at an index of it, or right after it, leaves a log. *)
LEMMA TruncateTyped ==
    ASSUME NEW log \in Log, NEW from \in Int, from <= LastIndex(log) + 1
    PROVE  Truncate(log, from) \in Log
<1>1. SubSeq(log.entries, 1, from - log.base_index - 1) \in Seq(LogEntry)
  BY LogFields, StretchTyped
<1> QED BY <1>1 DEF Truncate, Log

(* A log takes any term and vote. *)
LEMMA SetHardStateTyped ==
    ASSUME NEW log \in Log, NEW term \in Nat, NEW voted_for \in Server \cup {None}
    PROVE  SetHardState(log, term, voted_for) \in Log
BY DEF SetHardState, Log, HardState

(* Compaction keeps a stretch of the entries, or none, above the snapshot. *)
LEMMA ApplySnapshotTyped ==
    ASSUME NEW log \in Log, NEW snap \in Snapshot
    PROVE  ApplySnapshot(log, snap) \in Log
<1>1. /\ snap.index \in Nat /\ snap.term \in Nat
      /\ snap.config \in SUBSET Server /\ snap.data \in SUBSET Applied
  BY DEF Snapshot
<1>2. CASE snap.index <= log.base_index
  BY <1>2 DEF ApplySnapshot
<1>3. CASE ~ (snap.index <= log.base_index)
  <2> DEFINE kept == SubSeq(log.entries, snap.index - log.base_index + 1,
                            Len(log.entries))
  <2>1. kept \in Seq(LogEntry)
    BY <1>1, <1>3, LogFields, StretchTyped
  <2>2. << >> \in Seq(LogEntry)
    BY EmptySeq
  <2> HIDE DEF kept
  <2>3. \A entries \in Seq(LogEntry) :
            [log EXCEPT !.entries = entries, !.base_index = snap.index,
                        !.base_term = snap.term, !.snapshot_config = snap.config,
                        !.data = snap.data] \in Log
    BY <1>1 DEF Log
  <2> QED BY <1>3, <2>1, <2>2, <2>3 DEF ApplySnapshot, kept
<1> QED BY <1>2, <1>3

(* A fresh log is one. *)
LEMMA EmptyLogTyped == EmptyLog \in Log
BY EmptySeq DEF EmptyLog, Log, HardState

(* What a log has compacted is a snapshot. *)
LEMMA SnapshotOfTyped == ASSUME NEW log \in Log PROVE SnapshotOf(log) \in Snapshot
BY LogFields DEF SnapshotOf, Snapshot

-----------------------------------------------------------------------------
(* Appending, step by step. *)

(* Appending nothing changes nothing. *)
LEMMA AppendToNothing == ASSUME NEW log \in Log PROVE AppendTo(log, << >>) = log
<1>1. log.entries \o << >> = log.entries
  BY LogFields, ConcatEmptySeq
<1> QED BY <1>1 DEF AppendTo, Log

(* Two appends are one of the two batches. *)
LEMMA AppendToTwice ==
    ASSUME NEW log \in Log, NEW s \in Seq(LogEntry), NEW t \in Seq(LogEntry)
    PROVE  AppendTo(AppendTo(log, s), t) = AppendTo(log, s \o t)
<1> DEFINE e == log.entries
<1>1. e \in Seq(LogEntry)
  BY LogFields
<1> HIDE DEF e
<1>2. (e \o s) \o t = e \o (s \o t)
  BY <1>1, ConcatAssociative
<1> QED BY <1>2 DEF AppendTo, Log, e

(* The end of the log moves by the length of the batch. *)
LEMMA AppendToLast ==
    ASSUME NEW log \in Log, NEW s \in Seq(LogEntry)
    PROVE  LastIndex(AppendTo(log, s)) = LastIndex(log) + Len(s)
<1>1. Len(log.entries \o s) = Len(log.entries) + Len(s)
  BY LogFields, ConcatProperties
<1>2. Len(log.entries) \in Nat /\ Len(s) \in Nat /\ log.base_index \in Nat
  BY LogFields, LenProperties
<1> QED BY <1>1, <1>2 DEF AppendTo, Log, LastIndex

=============================================================================
