----------------------------- MODULE RaftEffects -----------------------------
(***************************************************************************)
(* What one step of a node may do, function by function and then action by *)
(* action: to its log, its role and votes, its configuration, and what the *)
(* messages it sends say.  The proofs about elections and about logs rest  *)
(* on these outcomes and never look into a handler again.                  *)
(***************************************************************************)
EXTENDS RaftVotes

-----------------------------------------------------------------------------
(* Pieces of a log: a whole one, the entries of a message with what         *)
(* precedes them, the boundary a snapshot leaves.                           *)

IsPiece(a) ==
    a.base_index \in Nat /\ a.base_term \in Nat /\ a.entries \in Seq(LogEntry)

(* Two pieces hold the same at an index, as far as both have it. *)
Same(a, b, k) ==
    /\ TermAt(a, k) = TermAt(b, k)
    /\ HasEntry(a, k) /\ HasEntry(b, k) => EntryAt(a, k) = EntryAt(b, k)

(* LogMatching, of two pieces. *)
Agree(a, b) ==
    \A k \in Span(a) \cap Span(b) :
        TermAt(a, k) = TermAt(b, k) =>
            \A l \in Span(a) \cap Span(b) : l <= k => Same(a, b, l)

(* b is a stretch of a. *)
Part(b, a) ==
    /\ Span(b) \subseteq Span(a)
    /\ a.base_index <= b.base_index
    /\ \A k \in Span(b) : Same(b, a, k)

(* c is a up to an index at which a and f have the same term, and f beyond. *)
Spliced(c, a, f) ==
    \E j \in Span(a) \cap Span(f) :
        /\ TermAt(a, j) = TermAt(f, j)
        /\ a.base_index <= f.base_index
        /\ c.base_index = a.base_index
        /\ LastIndex(c) = LastIndex(f)
        /\ \A k \in Span(c) : IF k <= j THEN Same(c, a, k) ELSE Same(c, f, k)

(* b is a with one more entry, of that term. *)
Extended(b, a, term) ==
    /\ b.base_index = a.base_index
    /\ LastIndex(b) = LastIndex(a) + 1
    /\ \A k \in Span(a) : Same(b, a, k)
    /\ TermAt(b, LastIndex(b)) = term

(* The extent of a piece, and what it answers within it. *)
LEMMA PieceFields ==
    ASSUME NEW a, IsPiece(a)
    PROVE  /\ a.base_index \in Nat /\ LastIndex(a) \in Nat /\ Len(a.entries) \in Nat
           /\ LastIndex(a) = a.base_index + Len(a.entries)
           /\ a.base_index \in Span(a) /\ LastIndex(a) \in Span(a)
           /\ \A k : k \in Span(a) => k \in Nat /\ TermAt(a, k) \in Nat
           /\ \A k : HasEntry(a, k) => k \in Span(a) /\ EntryAt(a, k) \in LogEntry
<1>1. /\ a.base_index \in Nat /\ Len(a.entries) \in Nat
      /\ a.entries \in Seq(LogEntry) /\ a.base_term \in Nat
  BY LenProperties DEF IsPiece
<1>2. \A k : HasEntry(a, k) => k \in Span(a) /\ EntryAt(a, k) \in LogEntry
  <2> SUFFICES ASSUME NEW k, HasEntry(a, k)
               PROVE  k \in Span(a) /\ EntryAt(a, k) \in LogEntry
    OBVIOUS
  <2>1. k \in Int /\ k - a.base_index \in 1 .. Len(a.entries) /\ k \in Span(a)
    BY <1>1 DEF HasEntry, LastIndex, Span
  <2> QED BY <1>1, <2>1, ElementOfSeq DEF EntryAt
<1>3. \A k : k \in Span(a) => k \in Nat /\ TermAt(a, k) \in Nat
  BY <1>1, <1>2, EntryFields DEF Span, TermAt, HasEntry, LastIndex
<1> QED BY <1>1, <1>2, <1>3 DEF LastIndex, Span

(* A log is a piece, of entries with terms. *)
LEMMA LogIsPiece == ASSUME NEW log \in Log PROVE IsPiece(log)
BY LogFields DEF IsPiece

(* Two pieces agree in either order. *)
LEMMA AgreeSymmetric == ASSUME NEW a, NEW b, Agree(a, b) PROVE Agree(b, a)
BY DEF Agree, Same

(* A piece agrees with itself. *)
LEMMA AgreeReflexive == ASSUME NEW a PROVE Agree(a, a)
BY DEF Agree, Same

(* A stretch of a stretch is a stretch. *)
LEMMA PartReflexive == ASSUME NEW a, IsPiece(a) PROVE Part(a, a)
BY PieceFields DEF Part, Same

LEMMA PartTransitive ==
    ASSUME NEW a, NEW b, NEW c, IsPiece(a), IsPiece(b), IsPiece(c),
           Part(b, a), Part(c, b)
    PROVE  Part(c, a)
<1>1. \A k \in Span(c) : Same(c, a, k)
  <2> SUFFICES ASSUME NEW k \in Span(c) PROVE Same(c, a, k)
    OBVIOUS
  <2>1. k \in Span(b) /\ Same(c, b, k) /\ Same(b, a, k)
    BY DEF Part
  <2>2. HasEntry(c, k) => HasEntry(b, k)
    BY PieceFields, <2>1, SMTT(60) DEF Part, HasEntry, Span
  <2> QED BY <2>1, <2>2 DEF Same
<1>2. c.base_index >= a.base_index
  BY PieceFields, SMTT(60) DEF Part
<1> QED BY <1>1, <1>2, PieceFields DEF Part

(* What agrees with a piece agrees with a stretch of it. *)
LEMMA PartAgrees ==
    ASSUME NEW a, NEW b, NEW d, IsPiece(a), IsPiece(b), IsPiece(d),
           Part(b, a), Agree(a, d)
    PROVE  Agree(b, d)
<1> SUFFICES ASSUME NEW k \in Span(b) \cap Span(d), TermAt(b, k) = TermAt(d, k),
                    NEW l \in Span(b) \cap Span(d), l <= k
             PROVE  Same(b, d, l)
  BY DEF Agree
<1>1. /\ k \in Span(a) /\ l \in Span(a)
      /\ TermAt(a, k) = TermAt(d, k) /\ Same(b, a, l)
  BY DEF Part, Same
<1>2. Same(a, d, l)
  BY <1>1 DEF Agree
<1>3. HasEntry(b, l) => HasEntry(a, l)
  BY <1>1, PieceFields DEF Part, HasEntry, Span
<1> QED BY <1>1, <1>2, <1>3 DEF Same

(* What agrees with two pieces agrees with one spliced from them. *)
LEMMA SpliceAgrees ==
    ASSUME NEW a, NEW f, NEW c, NEW d,
           IsPiece(a), IsPiece(f), IsPiece(c), IsPiece(d),
           Spliced(c, a, f), Agree(a, d), Agree(f, d)
    PROVE  Agree(c, d)
<1> SUFFICES ASSUME NEW k \in Span(c) \cap Span(d), TermAt(c, k) = TermAt(d, k),
                    NEW l \in Span(c) \cap Span(d), l <= k
             PROVE  Same(c, d, l)
  BY DEF Agree
<1>1. PICK j \in Span(a) \cap Span(f) :
        /\ TermAt(a, j) = TermAt(f, j)
        /\ a.base_index <= f.base_index
        /\ c.base_index = a.base_index
        /\ LastIndex(c) = LastIndex(f)
        /\ \A i \in Span(c) : IF i <= j THEN Same(c, a, i) ELSE Same(c, f, i)
  BY DEF Spliced
<1>2. j \in Nat /\ k \in Nat /\ l \in Nat
  BY PieceFields
<1>3. \A i \in Span(c) : /\ i <= j => i \in Span(a) /\ (HasEntry(c, i) => HasEntry(a, i))
                         /\ i > j => i \in Span(f) /\ HasEntry(f, i)
  <2>1. /\ a.base_index \in Nat /\ f.base_index \in Nat /\ c.base_index \in Nat
        /\ LastIndex(a) \in Nat /\ LastIndex(f) \in Nat /\ LastIndex(c) \in Nat
    BY PieceFields
  <2>2. a.base_index <= j /\ j <= LastIndex(a) /\ f.base_index <= j /\ j <= LastIndex(f)
    BY <1>2, <2>1 DEF Span
  <2> QED BY <1>1, <1>2, <2>1, <2>2 DEF Span, HasEntry
<1>4. CASE k <= j
  <2>1. Same(c, a, k) /\ Same(c, a, l)
    BY <1>1, <1>2, <1>4
  <2>2. k \in Span(a) /\ l \in Span(a) /\ (HasEntry(c, l) => HasEntry(a, l))
    BY <1>2, <1>3, <1>4
  <2>3. TermAt(a, k) = TermAt(d, k)
    BY <2>1 DEF Same
  <2>4. Same(a, d, l)
    BY <2>2, <2>3 DEF Agree
  <2> QED BY <2>1, <2>2, <2>4 DEF Same
<1>5. CASE k > j
  <2>1. k \in Span(f) /\ TermAt(f, k) = TermAt(d, k)
    BY <1>1, <1>2, <1>3, <1>5 DEF Same
  <2>2. CASE l > j
    <3>1. Same(c, f, l) /\ l \in Span(f) /\ HasEntry(f, l)
      BY <1>1, <1>2, <1>3, <2>2
    <3>2. Same(f, d, l)
      BY <2>1, <3>1 DEF Agree
    <3> QED BY <3>1, <3>2 DEF Same
  <2>3. CASE l <= j
    <3>1. j \in Span(d)
      BY <1>2, <1>5, <2>3, PieceFields, SMTT(60) DEF Span
    <3>2. Same(f, d, j)
      BY <1>1, <1>2, <1>5, <2>1, <3>1 DEF Agree
    <3>3. TermAt(a, j) = TermAt(d, j)
      BY <1>1, <3>2 DEF Same
    <3>4. Same(c, a, l) /\ l \in Span(a) /\ (HasEntry(c, l) => HasEntry(a, l))
      BY <1>1, <1>2, <1>3, <2>3
    <3>5. Same(a, d, l)
      BY <1>1, <2>3, <3>1, <3>3, <3>4 DEF Agree
    <3> QED BY <3>4, <3>5 DEF Same
  <2> QED BY <1>2, <2>2, <2>3
<1> QED BY <1>2, <1>4, <1>5

(* An entry of a term that the other piece has nowhere beyond the end.      *)
LEMMA ExtendAgrees ==
    ASSUME NEW a, NEW b, NEW d, NEW term, IsPiece(a), IsPiece(b), IsPiece(d),
           Extended(b, a, term), Agree(a, d),
           \A k \in Span(d) : TermAt(d, k) = term => k <= LastIndex(a)
    PROVE  Agree(b, d)
<1> SUFFICES ASSUME NEW k \in Span(b) \cap Span(d), TermAt(b, k) = TermAt(d, k),
                    NEW l \in Span(b) \cap Span(d), l <= k
             PROVE  Same(b, d, l)
  BY DEF Agree
<1>1. k \in Nat /\ l \in Nat /\ LastIndex(a) \in Nat
  BY PieceFields
<1>2. k # LastIndex(a) + 1
  BY <1>1 DEF Extended
<1>3. k \in Span(a) /\ l \in Span(a)
  BY <1>1, <1>2, PieceFields DEF Extended, Span
<1>4. Same(b, a, k) /\ Same(b, a, l)
  BY <1>3 DEF Extended
<1>5. Same(a, d, l)
  BY <1>3, <1>4 DEF Agree, Same
<1>6. HasEntry(b, l) => HasEntry(a, l)
  BY <1>1, <1>3, PieceFields DEF Extended, HasEntry, Span
<1> QED BY <1>4, <1>5, <1>6 DEF Same

(* A boundary and entries found in a piece are a stretch of it. *)
LEMMA WindowIsPart ==
    ASSUME NEW a, NEW b, IsPiece(a), IsPiece(b),
           b.base_index \in Span(a), b.base_term = TermAt(a, b.base_index),
           LastIndex(b) <= LastIndex(a),
           \A k \in 1 .. Len(b.entries) :
                b.entries[k] = a.entries[b.base_index - a.base_index + k]
    PROVE  Part(b, a)
<1>1. /\ a.base_index \in Nat /\ b.base_index \in Nat
      /\ LastIndex(a) \in Nat /\ LastIndex(b) \in Nat
      /\ Len(a.entries) \in Nat /\ Len(b.entries) \in Nat
      /\ LastIndex(a) = a.base_index + Len(a.entries)
      /\ LastIndex(b) = b.base_index + Len(b.entries)
      /\ a.base_index <= b.base_index
  BY PieceFields DEF Span
<1>2. \A k \in Span(b) : Same(b, a, k)
  <2> SUFFICES ASSUME NEW k \in Span(b) PROVE Same(b, a, k)
    OBVIOUS
  <2>1. k \in Int /\ b.base_index <= k /\ k <= LastIndex(b)
    BY <1>1 DEF Span
  <2>2. CASE k = b.base_index
    BY <1>1, <2>2 DEF Same, TermAt, HasEntry
  <2>3. CASE k # b.base_index
    <3>1. HasEntry(b, k) /\ HasEntry(a, k) /\ k # a.base_index
      BY <1>1, <2>1, <2>3 DEF HasEntry
    <3>2. k - b.base_index \in 1 .. Len(b.entries)
      BY <1>1, <2>1, <2>3
    <3>3. b.base_index - a.base_index + (k - b.base_index) = k - a.base_index
      BY <1>1, <2>1
    <3>4. EntryAt(b, k) = EntryAt(a, k)
      BY <3>2, <3>3 DEF EntryAt
    <3> QED BY <2>3, <3>1, <3>4 DEF Same, TermAt
  <2> QED BY <2>2, <2>3
<1> QED BY <1>1, <1>2 DEF Part, Span

(* Pieces with the same boundary and entries are stretches of one another. *)
LEMMA SameEntriesIsPart ==
    ASSUME NEW a, NEW b, IsPiece(a), b.base_index = a.base_index,
           b.base_term = a.base_term, b.entries = a.entries
    PROVE  IsPiece(b) /\ Part(b, a) /\ LastIndex(b) = LastIndex(a)
BY PieceFields DEF IsPiece, Part, Span, Same, TermAt, HasEntry, EntryAt, LastIndex

(* Appending keeps what there is and adds the batch behind it. *)
LEMMA Appended ==
    ASSUME NEW log \in Log, NEW new \in Seq(LogEntry)
    PROVE  LET a == AppendTo(log, new)
           IN  /\ a \in Log /\ a.base_index = log.base_index
               /\ a.snapshot_config = log.snapshot_config
               /\ LastIndex(a) = LastIndex(log) + Len(new)
               /\ \A k \in Span(log) : Same(a, log, k)
               /\ \A k : HasEntry(log, k) => /\ HasEntry(a, k)
                                             /\ EntryAt(a, k) = EntryAt(log, k)
               /\ \A j \in 1 .. Len(new) :
                        /\ HasEntry(a, LastIndex(log) + j)
                        /\ EntryAt(a, LastIndex(log) + j) = new[j]
                        /\ TermAt(a, LastIndex(log) + j) = new[j].term
<1> DEFINE a == AppendTo(log, new)
<1>1. a \in Log /\ LastIndex(a) = LastIndex(log) + Len(new)
  BY AppendToTyped, AppendToLast
<1>2. /\ a.base_index = log.base_index /\ a.base_term = log.base_term
      /\ a.snapshot_config = log.snapshot_config /\ a.entries = log.entries \o new
  BY DEF AppendTo, Log
<1> HIDE DEF a
<1>3. /\ log.base_index \in Nat /\ LastIndex(log) \in Nat /\ Len(new) \in Nat
      /\ Len(log.entries) \in Nat /\ LastIndex(log) = log.base_index + Len(log.entries)
  BY LogFields, LenProperties
<1>4. \A i \in 1 .. Len(log.entries) + Len(new) :
        a.entries[i] = IF i <= Len(log.entries) THEN log.entries[i]
                                                ELSE new[i - Len(log.entries)]
  BY <1>2, LogFields, ConcatProperties
<1>5. \A k : HasEntry(log, k) => HasEntry(a, k) /\ EntryAt(a, k) = EntryAt(log, k)
  <2> SUFFICES ASSUME NEW k, HasEntry(log, k)
               PROVE  HasEntry(a, k) /\ EntryAt(a, k) = EntryAt(log, k)
    OBVIOUS
  <2>1. k \in Int /\ log.base_index < k /\ k <= LastIndex(log)
    BY <1>3 DEF HasEntry
  <2>2. HasEntry(a, k)
    BY <1>1, <1>2, <1>3, <2>1 DEF HasEntry
  <2>3. k - log.base_index \in 1 .. Len(log.entries)
    BY <1>3, <2>1
  <2> QED BY <1>2, <1>3, <1>4, <2>2, <2>3 DEF EntryAt
<1>6. \A k \in Span(log) : Same(a, log, k)
  BY <1>2, <1>3, <1>5 DEF Same, TermAt, Span, HasEntry
<1>7. ASSUME NEW j \in 1 .. Len(new)
      PROVE  /\ HasEntry(a, LastIndex(log) + j)
             /\ EntryAt(a, LastIndex(log) + j) = new[j]
             /\ TermAt(a, LastIndex(log) + j) = new[j].term
  <2>1. HasEntry(a, LastIndex(log) + j) /\ LastIndex(log) + j # a.base_index
    BY <1>1, <1>2, <1>3, SMTT(60) DEF HasEntry
  <2>2. (LastIndex(log) + j) - a.base_index = Len(log.entries) + j
    BY <1>2, <1>3
  <2>3. a.entries[Len(log.entries) + j] = new[j]
    <3>1. Len(log.entries) + j \in 1 .. Len(log.entries) + Len(new)
          /\ ~ (Len(log.entries) + j <= Len(log.entries))
          /\ Len(log.entries) + j - Len(log.entries) = j
      BY <1>3
    <3> QED BY <1>4, <3>1
  <2>4. EntryAt(a, LastIndex(log) + j) = new[j]
    <3>1. \A k, l : k - a.base_index = l => EntryAt(a, k) = a.entries[l]
      BY DEF EntryAt
    <3> DEFINE i == LastIndex(log) + j
               l == Len(log.entries) + j
    <3>2. i - a.base_index = l
      BY <2>2
    <3>3. a.entries[l] = new[j]
      BY <2>3
    <3> HIDE DEF i, l
    <3>4. EntryAt(a, i) = new[j]
      BY <3>1, <3>2, <3>3
    <3> QED BY <3>4 DEF i
  <2> QED BY <2>1, <2>4 DEF TermAt
<1> QED BY <1>1, <1>2, <1>5, <1>6, <1>7 DEF a

(* Truncation keeps what comes before the cut. *)
LEMMA Truncated ==
    ASSUME NEW log \in Log, NEW from \in log.base_index + 1 .. LastIndex(log) + 1
    PROVE  LET a == Truncate(log, from)
           IN  /\ a \in Log /\ a.base_index = log.base_index
               /\ a.snapshot_config = log.snapshot_config
               /\ LastIndex(a) = from - 1
               /\ Part(a, log)
<1> DEFINE a == Truncate(log, from)
<1>1. /\ log.base_index \in Nat /\ LastIndex(log) \in Nat /\ log.entries \in Seq(LogEntry)
      /\ Len(log.entries) \in Nat /\ LastIndex(log) = log.base_index + Len(log.entries)
  BY LogFields
<1>2. from \in Int /\ from - log.base_index - 1 \in 0 .. Len(log.entries)
  BY <1>1
<1>3. a \in Log
  BY <1>1, <1>2, TruncateTyped
<1>4. /\ a.base_index = log.base_index /\ a.base_term = log.base_term
      /\ a.snapshot_config = log.snapshot_config
      /\ a.entries = SubSeq(log.entries, 1, from - log.base_index - 1)
  BY DEF Truncate, Log
<1> HIDE DEF a
<1>5. /\ Len(a.entries) = from - log.base_index - 1
      /\ \A i \in 1 .. Len(a.entries) : a.entries[i] = log.entries[i]
  <2> DEFINE c == from - log.base_index - 1
  <2>1. c \in 0 .. Len(log.entries)
    BY <1>2
  <2> HIDE DEF c
  <2>2. \A i \in 1 .. c : log.entries[i] \in LogEntry
    BY <1>1, <2>1, ElementOfSeq
  <2>3. /\ Len(SubSeq(log.entries, 1, c)) = IF 1 <= c THEN c - 1 + 1 ELSE 0
        /\ \A i \in 1 .. c - 1 + 1 : SubSeq(log.entries, 1, c)[i] = log.entries[1 + i - 1]
    BY <2>1, <2>2, SubSeqProperties
  <2>4. Len(SubSeq(log.entries, 1, c)) = c
    BY <1>1, <2>1, <2>3
  <2>5. \A i \in 1 .. c : SubSeq(log.entries, 1, c)[i] = log.entries[i]
    BY <1>1, <2>1, <2>3
  <2> QED BY <1>4, <2>4, <2>5 DEF c
<1>6. LastIndex(a) = from - 1
  BY <1>1, <1>2, <1>4, <1>5 DEF LastIndex
<1>7. Part(a, log)
  <2>1. a.base_index \in Span(log) /\ a.base_term = TermAt(log, a.base_index)
    BY <1>1, <1>4 DEF Span, TermAt
  <2>2. LastIndex(a) <= LastIndex(log)
    BY <1>1, <1>6
  <2>3. \A i \in 1 .. Len(a.entries) :
            a.entries[i] = log.entries[a.base_index - log.base_index + i]
    BY <1>1, <1>4, <1>5, <1>2
  <2> QED BY <1>3, <2>1, <2>2, <2>3, LogIsPiece, WindowIsPart
<1> QED BY <1>3, <1>4, <1>6, <1>7 DEF a

-----------------------------------------------------------------------------
(* What a node sends and what it keeps. *)

(* What a message of replication says of the sender's log: the entries and  *)
(* the one before them, or the snapshot boundary.                           *)
Carried(m) ==
    IF m.kind = "AppendEntries"
    THEN [base_index |-> m.prev_log_index, base_term |-> m.prev_log_term,
          entries |-> m.entries]
    ELSE [base_index |-> m.snapshot.index, base_term |-> m.snapshot.term,
          entries |-> << >>]

Replicates(m) == m.kind \in {"AppendEntries", "InstallSnapshot"}

(* A stretch of the log, or nothing at an index beyond it. *)
Quotes(log, piece) ==
    \/ Part(piece, log)
    \/ /\ piece.entries = << >>
       /\ piece.base_term = 0
       /\ piece.base_index > LastIndex(log)

(* s speaks for n: it quotes the log of n in the term of n.  It asks for no *)
(* vote and grants none.                                                    *)
Told(n, s) ==
    /\ s.from = n.id
    /\ s.kind # "RequestVote"
    /\ s.kind = "RequestVoteReply" => ~ s.vote_granted
    /\ Replicates(s) => s.term = n.current_term /\ Quotes(n.log, Carried(s))
    /\ s.kind = "InstallSnapshot" => s.snapshot = SnapshotOf(n.log)

(* Only a leader replicates. *)
Tells(n, s) == Told(n, s) /\ (Replicates(s) => n.role = "Leader")

(* Log, term, vote and configuration stay. *)
Steady(n, m) ==
    /\ m.id = n.id
    /\ m.log = n.log
    /\ m.disk = n.disk
    /\ m.current_term = n.current_term
    /\ m.voted_for = n.voted_for
    /\ m.voters = n.voters
    /\ m.base_config = n.base_config
    /\ m.config_index = n.config_index

(* So do the role and the votes, unless the node becomes a follower. *)
Calm(n, m) ==
    /\ Steady(n, m)
    /\ \/ m.role = n.role /\ m.votes = n.votes
       \/ m.role = "Follower"
    /\ \A s \in m.sends : s \in n.sends \/ Tells(n, s)

(* The fields an effect speaks of. *)
Names ==
    {"id", "voters", "base_config", "config_index", "log", "disk", "role",
     "current_term", "voted_for", "votes", "sends"}

LEMMA NodeNames == ASSUME NEW n \in NodeRecord PROVE Names \subseteq DOMAIN n
BY DEF NodeRecord, Names

(* Calm steps compose. *)
LEMMA CalmReflexive == ASSUME NEW n PROVE Calm(n, n)
BY DEF Calm, Steady

LEMMA CalmTransitive ==
    ASSUME NEW a, NEW b, NEW c, Calm(a, b), Calm(b, c)
    PROVE  Calm(a, c)
<1>1. \A s \in c.sends : s \in a.sends \/ Tells(a, s)
  <2> SUFFICES ASSUME NEW s \in c.sends, s \notin a.sends PROVE Tells(a, s)
    OBVIOUS
  <2>1. s \in b.sends \/ Tells(b, s)
    BY DEF Calm
  <2>2. b.id = a.id /\ b.log = a.log /\ b.current_term = a.current_term
    BY DEF Calm, Steady
  <2>3. b.role = "Leader" => a.role = "Leader"
    BY DEF Calm
  <2>4. Tells(b, s) => Tells(a, s)
    BY <2>2, <2>3 DEF Tells, Told
  <2> QED BY <2>1, <2>4 DEF Calm
<1> QED BY <1>1 DEF Calm, Steady

-----------------------------------------------------------------------------
(* Configurations. *)

(* The configurations there can be: what the operator may not remove stays. *)
Configs == {c \in SUBSET Server : InitialVoters \ Candidates \subseteq c}

(* Every configuration entry of a piece is one of them. *)
LawfulPiece(a) ==
    \A k \in a.base_index + 1 .. LastIndex(a) :
        EntryAt(a, k).kind = "Config" => EntryAt(a, k).body \in Configs

(* The configuration a node falls back on, as with_log finds it. *)
BaseOf(id, log) ==
    IF HasSnapshot(log) /\ log.snapshot_config # {} THEN log.snapshot_config
                                                    ELSE InitialVoters \cup {id}

LawfulLog(log) ==
    /\ LawfulPiece(log)
    /\ HasSnapshot(log) => log.snapshot_config \in Configs

(* The configuration a node follows, and the one it falls back on. *)
Follows(n) ==
    /\ n.voters = ConfigAt(n.log, LastIndex(n.log), n.base_config)
    /\ n.config_index = ConfigIndexAt(n.log, LastIndex(n.log))

Lawful(n) ==
    /\ n.disk = n.log
    /\ LawfulLog(n.log)
    /\ n.base_config \in Configs
    /\ {} \notin Configs => n.base_config = BaseOf(n.id, n.log)
    /\ Follows(n)

LawfulMessage(m) ==
    /\ m.kind = "AppendEntries" => LawfulPiece(Carried(m))
    /\ m.kind = "InstallSnapshot" =>
            (m.snapshot.index > 0 => m.snapshot.config \in Configs)

(* The configuration entry in effect, if there is one.                      *)
LEMMA ConfigCases ==
    ASSUME NEW log \in Log, NEW index \in Nat
    PROVE  LET k == ConfigIndexAt(log, index)
           IN  \/ k = 0 /\ ConfigIndices(log, index) = {}
               \/ /\ k # 0 /\ HasEntry(log, k) /\ EntryAt(log, k).kind = "Config"
                  /\ k <= index /\ k \in Nat
                  /\ k \in ConfigIndices(log, index)
                  /\ \A j \in ConfigIndices(log, index) : j <= k
<1> DEFINE found == ConfigIndices(log, index)
<1>1. CASE found = {}
  BY <1>1 DEF ConfigIndexAt
<1>2. CASE found # {}
  <2>1. found \subseteq Int /\ \A k \in found : k <= LastIndex(log)
    <3> DEFINE top == Smaller(index, LastIndex(log))
    <3>1. log.base_index \in Nat /\ LastIndex(log) \in Nat
      BY LogFields
    <3>2. top \in Int /\ top <= LastIndex(log)
      BY <3>1 DEF Smaller
    <3>3. found \subseteq log.base_index + 1 .. top
      BY DEF ConfigIndices
    <3> HIDE DEF top, found
    <3> QED BY <3>1, <3>2, <3>3
  <2>2. Max(found) \in found /\ \A k \in found : k <= Max(found)
    BY <1>2, <2>1, LogFields, MaxExists
  <2> DEFINE k == Max(found)
  <2>3. /\ k \in Nat /\ k # 0 /\ HasEntry(log, k) /\ k <= index
        /\ EntryAt(log, k).kind = "Config"
    BY <2>2, LogFields, SmallerLarger DEF ConfigIndices, HasEntry
  <2>4. ConfigIndexAt(log, index) = k
    BY <1>2 DEF ConfigIndexAt
  <2> QED BY <2>2, <2>3, <2>4
<1> QED BY <1>1, <1>2

(* A lawful log puts a lawful configuration in effect. *)
LEMMA ConfigIsLawful ==
    ASSUME NEW log \in Log, NEW index \in Nat, NEW base \in Configs, LawfulPiece(log)
    PROVE  ConfigAt(log, index, base) \in Configs
BY ConfigCases DEF ConfigAt, LawfulPiece, HasEntry

(* A stretch of a lawful piece is lawful. *)
LEMMA PartIsLawful ==
    ASSUME NEW a, NEW b, IsPiece(a), IsPiece(b), Part(b, a), LawfulPiece(a)
    PROVE  LawfulPiece(b)
<1>1. \A k : HasEntry(b, k) => HasEntry(a, k) /\ EntryAt(b, k) = EntryAt(a, k)
  <2> SUFFICES ASSUME NEW k, HasEntry(b, k)
               PROVE  HasEntry(a, k) /\ EntryAt(b, k) = EntryAt(a, k)
    OBVIOUS
  <2>1. k \in Span(b) /\ Same(b, a, k)
    BY PieceFields DEF Part
  <2>2. HasEntry(a, k)
    BY <2>1, PieceFields DEF Part, HasEntry, Span
  <2> QED BY <2>1, <2>2 DEF Same
<1> QED BY <1>1 DEF LawfulPiece, HasEntry

(* Logs with the same boundary and entries put the same configuration in    *)
(* effect.                                                                  *)
LEMMA SameEntriesSameConfig ==
    ASSUME NEW a, NEW b, b.base_index = a.base_index, b.entries = a.entries
    PROVE  /\ LastIndex(b) = LastIndex(a)
           /\ \A index : ConfigIndexAt(b, index) = ConfigIndexAt(a, index)
           /\ \A index, base : ConfigAt(b, index, base) = ConfigAt(a, index, base)
<1>1. LastIndex(b) = LastIndex(a) /\ \A k : EntryAt(b, k) = EntryAt(a, k)
  BY DEF LastIndex, EntryAt
<1>2. \A index : ConfigIndices(b, index) = ConfigIndices(a, index)
  BY <1>1 DEF ConfigIndices
<1>3. \A index : ConfigIndexAt(b, index) = ConfigIndexAt(a, index)
  BY <1>2 DEF ConfigIndexAt
<1> QED BY <1>1, <1>3 DEF ConfigAt

(* A batch of commands changes no configuration. *)
LEMMA CommandsKeepConfig ==
    ASSUME NEW log \in Log, NEW new \in Seq(LogEntry), NEW base,
           \A j \in 1 .. Len(new) : new[j].kind # "Config"
    PROVE  LET a == AppendTo(log, new)
           IN  /\ ConfigIndexAt(a, LastIndex(a)) = ConfigIndexAt(log, LastIndex(log))
               /\ ConfigAt(a, LastIndex(a), base) = ConfigAt(log, LastIndex(log), base)
<1> DEFINE a == AppendTo(log, new)
<1>1. /\ a \in Log /\ a.base_index = log.base_index
      /\ LastIndex(a) = LastIndex(log) + Len(new)
      /\ \A k : HasEntry(log, k) => HasEntry(a, k) /\ EntryAt(a, k) = EntryAt(log, k)
      /\ \A j \in 1 .. Len(new) : EntryAt(a, LastIndex(log) + j) = new[j]
  BY Appended
<1>2. Len(new) \in Nat /\ LastIndex(log) \in Nat /\ LastIndex(a) \in Nat
      /\ log.base_index \in Nat
  BY <1>1, LenProperties, LogFields
<1> HIDE DEF a
<1>3. ConfigIndices(a, LastIndex(a)) = ConfigIndices(log, LastIndex(log))
  <2>1. /\ Smaller(LastIndex(a), LastIndex(a)) = LastIndex(a)
        /\ Smaller(LastIndex(log), LastIndex(log)) = LastIndex(log)
    BY DEF Smaller
  <2>2. ASSUME NEW k \in ConfigIndices(a, LastIndex(a))
        PROVE  k \in ConfigIndices(log, LastIndex(log))
    <3>1. /\ k \in a.base_index + 1 .. LastIndex(a) /\ EntryAt(a, k).kind = "Config"
      BY <2>1 DEF ConfigIndices
    <3>2. k <= LastIndex(log)
      <4> SUFFICES ASSUME k > LastIndex(log) PROVE FALSE
        BY <1>2, <3>1
      <4>1. k - LastIndex(log) \in 1 .. Len(new)
            /\ LastIndex(log) + (k - LastIndex(log)) = k
        BY <1>1, <1>2, <3>1
      <4> QED BY <1>1, <3>1, <4>1
    <3>3. HasEntry(log, k)
      BY <1>1, <1>2, <3>1, <3>2 DEF HasEntry
    <3> QED BY <1>1, <2>1, <3>1, <3>3 DEF ConfigIndices, HasEntry
  <2>3. ASSUME NEW k \in ConfigIndices(log, LastIndex(log))
        PROVE  k \in ConfigIndices(a, LastIndex(a))
    <3>1. HasEntry(log, k) /\ EntryAt(log, k).kind = "Config"
      BY <2>1 DEF ConfigIndices, HasEntry
    <3> QED BY <1>1, <2>1, <3>1 DEF ConfigIndices, HasEntry
  <2> QED BY <2>2, <2>3
<1>4. ConfigIndexAt(a, LastIndex(a)) = ConfigIndexAt(log, LastIndex(log))
  BY <1>3 DEF ConfigIndexAt
<1>5. ConfigIndexAt(log, LastIndex(log)) # 0 =>
        HasEntry(log, ConfigIndexAt(log, LastIndex(log)))
  BY <1>2, ConfigCases
<1>6. ConfigAt(a, LastIndex(a), base) = ConfigAt(log, LastIndex(log), base)
  BY <1>1, <1>4, <1>5 DEF ConfigAt
<1> QED BY <1>4, <1>6 DEF a

(* A configuration entry takes effect as it is appended. *)
LEMMA ConfigTakesEffect ==
    ASSUME NEW log \in Log, NEW entry \in LogEntry, entry.kind = "Config", NEW base
    PROVE  LET a == AppendTo(log, << entry >>)
           IN  /\ ConfigIndexAt(a, LastIndex(a)) = LastIndex(a)
               /\ ConfigAt(a, LastIndex(a), base) = entry.body
<1> DEFINE a == AppendTo(log, << entry >>)
<1>0. << entry >> \in Seq(LogEntry) /\ Len(<< entry >>) = 1 /\ << entry >>[1] = entry
  OBVIOUS
<1>1. /\ a \in Log /\ LastIndex(a) = LastIndex(log) + 1
      /\ HasEntry(a, LastIndex(a)) /\ EntryAt(a, LastIndex(a)) = entry
  <2>1. /\ a \in Log /\ LastIndex(a) = LastIndex(log) + Len(<< entry >>)
        /\ \A j \in 1 .. Len(<< entry >>) :
                /\ HasEntry(a, LastIndex(log) + j)
                /\ EntryAt(a, LastIndex(log) + j) = << entry >>[j]
    BY <1>0, Appended
  <2>2. 1 \in 1 .. Len(<< entry >>)
    BY <1>0
  <2> HIDE DEF a
  <2> QED BY <1>0, <2>1, <2>2
<1> HIDE DEF a
<1>2. LastIndex(a) \in Nat /\ LastIndex(log) \in Nat
  BY <1>1, LogFields
<1>3. LastIndex(a) \in ConfigIndices(a, LastIndex(a))
  BY <1>1, <1>2 DEF ConfigIndices, HasEntry, Smaller
<1>4. ConfigIndexAt(a, LastIndex(a)) = LastIndex(a)
  <2>1. /\ ConfigIndexAt(a, LastIndex(a)) <= LastIndex(a)
        /\ LastIndex(a) <= ConfigIndexAt(a, LastIndex(a))
        /\ ConfigIndexAt(a, LastIndex(a)) \in Nat
    BY <1>1, <1>2, <1>3, ConfigCases
  <2> QED BY <1>2, <2>1
<1>5. LastIndex(a) # 0
  BY <1>1, <1>2
<1> QED BY <1>1, <1>4, <1>5 DEF ConfigAt, a

-----------------------------------------------------------------------------
(* Replication by the leader is calm. *)

(* A batch quotes the log it was cut from. *)
LEMMA BatchQuotes ==
    ASSUME NEW log \in Log, NEW next \in Nat, NEW to \in Nat, next > log.base_index,
           NEW piece,
           piece.base_index = next - 1,
           piece.base_term = (IF TermAt(log, next - 1) = NoTerm THEN 0
                              ELSE TermAt(log, next - 1)),
           piece.entries = EntriesOf(log, next, to)
    PROVE  Quotes(log, piece)
<1> DEFINE a == next - log.base_index
           b == Smaller(to, LastIndex(log)) - log.base_index
           batch == SubSeq(log.entries, a, b)
<1>1. /\ log.base_index \in Nat /\ log.entries \in Seq(LogEntry)
      /\ Len(log.entries) \in Nat /\ LastIndex(log) \in Nat
      /\ LastIndex(log) = log.base_index + Len(log.entries)
  BY LogFields
<1>2. /\ a \in Int /\ b \in Int /\ a >= 1 /\ b <= Len(log.entries)
      /\ Larger(next, log.base_index + 1) = next
  BY <1>1, SmallerLarger DEF Larger
<1>3. piece.entries = batch
  BY <1>2 DEF EntriesOf
<1> HIDE DEF b
<1>4. \A i \in a .. b : log.entries[i] \in LogEntry
  BY <1>1, <1>2, ElementOfSeq
<1> HIDE DEF a
<1>5. /\ batch \in Seq(LogEntry)
      /\ Len(batch) = IF a <= b THEN b - a + 1 ELSE 0
      /\ \A i \in 1 .. b - a + 1 : batch[i] = log.entries[a + i - 1]
  BY <1>2, <1>4, SubSeqProperties
<1> HIDE DEF batch
<1>6. CASE next - 1 <= LastIndex(log)
  <2>1. next - 1 \in Span(log)
    BY <1>1, <1>6 DEF Span
  <2>2. TermAt(log, next - 1) \in Nat
    BY <2>1, TermTyped
  <2>3. piece.base_term = TermAt(log, next - 1)
    BY <2>2 DEF NoTerm
  <2>4. IsPiece(piece)
    BY <1>3, <1>5, <2>1, <2>2, <2>3, LogIsPiece, PieceFields DEF IsPiece
  <2>5. LastIndex(piece) <= LastIndex(log)
    <3>1. LastIndex(piece) = next - 1 + Len(batch)
      BY <1>3 DEF LastIndex
    <3>2. a = next - log.base_index
      BY DEF a
    <3>3. CASE a <= b
      <4>1. Len(batch) = b - a + 1
        BY <1>5, <3>3
      <4>2. \A x, y, z, i, j \in Int :
                i = x - y /\ j <= z => x - 1 + (j - i + 1) <= y + z
        OBVIOUS
      <4>3. log.base_index \in Int /\ Len(log.entries) \in Int /\ next \in Int
        BY <1>1
      <4>4. next - 1 + (b - a + 1) <= log.base_index + Len(log.entries)
        BY <1>2, <3>2, <4>2, <4>3
      <4> QED BY <1>1, <3>1, <4>1, <4>4
    <3>4. CASE ~ (a <= b)
      <4>1. Len(batch) = 0
        BY <1>5, <3>4
      <4>2. LastIndex(piece) = next - 1
        BY <3>1, <4>1
      <4> QED BY <1>6, <4>2
    <3> QED BY <3>3, <3>4
  <2>6. ASSUME NEW k \in 1 .. Len(piece.entries)
        PROVE  piece.entries[k] = log.entries[piece.base_index - log.base_index + k]
    <3>1. k \in 1 .. b - a + 1
      BY <1>2, <1>3, <1>5, <2>6
    <3>2. a + k - 1 = piece.base_index - log.base_index + k
      <4>1. k \in Int /\ a = next - log.base_index
        BY <1>2, <3>1 DEF a
      <4>2. log.base_index \in Int /\ next \in Int /\ piece.base_index = next - 1
        BY <1>1
      <4>3. \A x, y \in Int : (x - y) + k - 1 = (x - 1) - y + k
        BY <4>1
      <4> QED BY <4>1, <4>2, <4>3
    <3> QED BY <1>3, <1>5, <3>1, <3>2
  <2>7. Part(piece, log)
    BY <2>1, <2>3, <2>4, <2>5, <2>6, LogIsPiece, WindowIsPart
  <2> QED BY <2>7 DEF Quotes
<1>7. CASE next - 1 > LastIndex(log)
  <2>1. next - 1 \in Int /\ next - 1 \notin Span(log)
    BY <1>1, <1>7 DEF Span
  <2>2. TermAt(log, next - 1) = NoTerm
    BY <2>1, TermTyped
  <2>3. Len(batch) = 0
    BY <1>1, <1>2, <1>5, <1>7, SMTT(60) DEF a
  <2>4. piece.entries = << >>
    BY <1>3, <1>5, <2>3, EmptySeq
  <2> QED BY <1>7, <2>2, <2>4 DEF Quotes
<1> QED BY <1>1, <1>6, <1>7

(* A leader's batches and snapshots speak for it. *)
LEMMA AppendEntriesTold ==
    ASSUME NEW n \in NodeRecord, NEW p \in Tracked(n), n.role = "Leader",
           ~ Compacted(n, p)
    PROVE  Tells(n, AppendEntriesTo(n, p))
<1> DEFINE s == AppendEntriesTo(n, p)
           next == n.progress[p].next_index
           piece == Carried(s)
<1>1. next \in Nat /\ n.log \in Log /\ next > n.log.base_index
  BY TrackedTyped, NodeFields, LogFields DEF Compacted, Progress
<1>2. /\ s.kind = "AppendEntries" /\ s.from = n.id /\ s.term = n.current_term
      /\ piece.base_index = next - 1
      /\ piece.base_term = (IF TermAt(n.log, next - 1) = NoTerm THEN 0
                            ELSE TermAt(n.log, next - 1))
      /\ piece.entries = EntriesOf(n.log, next, next + MaxBatch - 1)
  BY DEF AppendEntriesTo, Carried
<1>3. next + MaxBatch - 1 \in Nat
  BY <1>1, ConfigAssumption
<1> HIDE DEF s, next, piece
<1>4. Quotes(n.log, piece)
  BY <1>1, <1>2, <1>3, BatchQuotes
<1> QED BY <1>2, <1>4 DEF Tells, Told, Replicates, piece, s

LEMMA InstallSnapshotTold ==
    ASSUME NEW n \in NodeRecord, NEW p, n.role = "Leader"
    PROVE  Tells(n, InstallSnapshotTo(n, p))
<1> DEFINE s == InstallSnapshotTo(n, p)
           piece == Carried(s)
<1>1. /\ s.kind = "InstallSnapshot" /\ s.from = n.id /\ s.term = n.current_term
      /\ s.snapshot = SnapshotOf(n.log)
  BY DEF InstallSnapshotTo
<1>2. /\ piece.base_index = n.log.base_index /\ piece.base_term = n.log.base_term
      /\ piece.entries = << >>
  BY DEF InstallSnapshotTo, SnapshotOf, Carried
<1> HIDE DEF piece
<1>3. Part(piece, n.log)
  <2>1. n.log \in Log /\ IsPiece(n.log)
    BY NodeFields, LogIsPiece
  <2>2. /\ n.log.base_index \in Span(n.log) /\ TermAt(n.log, n.log.base_index) = n.log.base_term
        /\ n.log.base_index <= LastIndex(n.log)
    BY <2>1, PieceFields DEF TermAt
  <2>3. IsPiece(piece) /\ Len(piece.entries) = 0 /\ LastIndex(piece) = n.log.base_index
    BY <1>2, <2>1, LogFields, EmptySeq DEF IsPiece, LastIndex
  <2> QED BY <1>2, <2>1, <2>2, <2>3, WindowIsPart
<1> QED BY <1>1, <1>3 DEF Tells, Told, Replicates, Quotes, piece, s

(* Sending appends. *)
LEMMA SendAppendCalm ==
    ASSUME NEW n \in NodeRecord, NEW peers \in SUBSET Tracked(n),
           peers # {} => n.role = "Leader"
    PROVE  Calm(n, SendAppend(n, peers))
<1> DEFINE m == SendAppend(n, peers)
           new == {IF Compacted(n, p) THEN InstallSnapshotTo(n, p)
                                      ELSE AppendEntriesTo(n, p) : p \in peers}
<1>1. \A s \in new : Tells(n, s)
  BY AppendEntriesTold, InstallSnapshotTold
<1> HIDE DEF new
<1>2. /\ m.sends = n.sends \cup new
      /\ Steady(n, m) /\ m.role = n.role /\ m.votes = n.votes
  BY NodeNames DEF SendAppend, Steady, Names, new
<1> HIDE DEF m
<1> QED BY <1>1, <1>2 DEF Calm, m

(* Both rounds of replication. *)
LEMMA ReplicateCalm ==
    ASSUME NEW n \in NodeRecord, n.role = "Leader"
    PROVE  Calm(n, ReplicateToAll(n)) /\ Calm(n, ReplicateToStreaming(n))
BY SendAppendCalm DEF ReplicateToAll, ReplicateToStreaming

(* Rebuilding the progress table. *)
LEMMA RebuildProgressCalm ==
    ASSUME NEW n \in NodeRecord PROVE Calm(n, RebuildProgress(n))
BY NodeNames DEF RebuildProgress, Calm, Steady, Names

(* Applying and hinting. *)
LEMMA DrainAppliesCalm ==
    ASSUME NEW n \in NodeRecord PROVE Calm(n, DrainApplies(n))
<1>1. \A m : Names \subseteq DOMAIN m => Calm(m, MaybeHintSnapshot(m))
  BY DEF MaybeHintSnapshot, Calm, Steady, Names
<1>2. ASSUME NEW applied, NEW app
      PROVE  LET m == [n EXCEPT !.last_applied = applied, !.app = app]
             IN  Names \subseteq DOMAIN m /\ Calm(n, m)
  BY NodeNames DEF Calm, Steady, Names
<1>3. ASSUME NEW applied, NEW app
      PROVE  Calm(n, MaybeHintSnapshot([n EXCEPT !.last_applied = applied, !.app = app]))
  BY <1>1, <1>2, CalmTransitive
<1> QED BY <1>3 DEF DrainApplies

(* Stepping down. *)
LEMMA StepDownCalm ==
    ASSUME NEW n \in NodeRecord PROVE Calm(n, StepDownToFollower(n))
BY NodeNames DEF StepDownToFollower, Calm, Steady, Names

(* Advancing the commit index: calm even when the leader steps down.        *)
LEMMA AdvanceCommitCalm ==
    ASSUME NEW n \in NodeRecord PROVE Calm(n, AdvanceCommit(n))
<1>1. CASE Committable(n) = {}
  BY <1>1, CalmReflexive DEF AdvanceCommit
<1>2. CASE Committable(n) # {}
  <2> DEFINE m == [n EXCEPT !.commit_index = Max(Committable(n))]
             c == DrainApplies(m)
  <2>1. Max(Committable(n)) \in Nat
    <3>1. /\ Committable(n) \subseteq Int
          /\ \A k \in Committable(n) : k <= LastIndex(n.log) /\ k \in Nat
      BY NodeFields, LogFields DEF Committable
    <3>2. LastIndex(n.log) \in Int
      BY NodeFields, LogFields
    <3>3. Max(Committable(n)) \in Committable(n)
      BY <1>2, <3>1, <3>2, MaxExists, Zenon
    <3> QED BY <3>1, <3>3
  <2>2. m \in NodeRecord
    BY <2>1 DEF NodeRecord
  <2>3. Calm(n, m)
    BY NodeNames DEF Calm, Steady, Names
  <2> HIDE DEF m
  <2>4. c \in NodeRecord /\ Calm(n, c)
    BY <2>2, <2>3, DrainAppliesTyped, DrainAppliesCalm, CalmTransitive
  <2> HIDE DEF c
  <2>5. Calm(n, StepDownToFollower(c))
    BY <2>4, StepDownCalm, CalmTransitive
  <2>6. AdvanceCommit(n) \in {c, StepDownToFollower(c)}
    BY <1>2 DEF AdvanceCommit, c, m
  <2> QED BY <2>4, <2>5, <2>6
<1> QED BY <1>1, <1>2

(* A leader's own rounds, once its log is stored. *)
LEMMA RoundCalm ==
    ASSUME NEW n \in NodeRecord, n.role = "Leader"
    PROVE  /\ Calm(n, AdvanceCommit(ReplicateToAll(n)))
           /\ Calm(n, AdvanceCommit(ReplicateToStreaming(n)))
<1>1. ReplicateToAll(n) \in NodeRecord /\ ReplicateToStreaming(n) \in NodeRecord
  BY ReplicateTyped
<1> QED BY <1>1, ReplicateCalm, AdvanceCommitCalm, CalmTransitive

(* Handing over. *)
LEMMA MaybeSendTimeoutNowCalm ==
    ASSUME NEW n \in NodeRecord, NEW target
    PROVE  Calm(n, MaybeSendTimeoutNow(n, target))
<1> DEFINE s == [kind |-> "TimeoutNow", from |-> n.id, to |-> target,
                 term |-> n.current_term]
           m == Send([n EXCEPT !.transfer_target = None], {s})
<1>1. Tells(n, s)
  BY DEF Tells, Told, Replicates
<1>2. Calm(n, m)
  <2> HIDE DEF s
  <2>1. m.sends = n.sends \cup {s} /\ Steady(n, m) /\ m.role = n.role
        /\ m.votes = n.votes
    BY NodeNames DEF Send, Steady, Names
  <2> HIDE DEF m
  <2> QED BY <1>1, <2>1 DEF Calm
<1> QED BY <1>2, CalmReflexive DEF MaybeSendTimeoutNow

LEMMA TransferLeadershipCalm ==
    ASSUME NEW n \in NodeRecord, NEW target \in Server
    PROVE  Calm(n, TransferLeadership(n, target))
<1>1. CASE n.role # "Leader" \/ target = n.id \/ target \notin n.voters
  BY <1>1, CalmReflexive DEF TransferLeadership
<1>2. CASE ~ (n.role # "Leader" \/ target = n.id \/ target \notin n.voters)
  <2> DEFINE a == [n EXCEPT !.transfer_target = target]
             b == MaybeSendTimeoutNow(a, target)
             peers == IF b.transfer_target = None THEN {} ELSE {target} \cap Tracked(b)
  <2>1. a \in NodeRecord
    BY DEF NodeRecord
  <2>2. Calm(n, a) /\ a.role = "Leader"
    BY <1>2, NodeNames DEF Calm, Steady, Names
  <2> HIDE DEF a
  <2>3. b \in NodeRecord /\ Calm(n, b)
    BY <2>1, <2>2, MaybeSendTimeoutNowTyped, MaybeSendTimeoutNowCalm, CalmTransitive
  <2>4. b.role = "Leader"
    BY <2>1, <2>2, NodeNames DEF MaybeSendTimeoutNow, Send, Names
  <2> HIDE DEF b
  <2>5. peers \in SUBSET Tracked(b)
    OBVIOUS
  <2>6. Calm(n, SendAppend(b, peers))
    BY <2>3, <2>4, <2>5, SendAppendCalm, CalmTransitive
  <2> QED BY <1>2, <2>6 DEF TransferLeadership, a, b
<1> QED BY <1>1, <1>2

(* A peer's progress is no part of an effect. *)
LEMMA ProgressUpdateCalm ==
    ASSUME NEW n \in NodeRecord, NEW p \in Tracked(n), NEW pr \in Progress
    PROVE  LET m == [n EXCEPT !.progress[p] = pr]
           IN  m \in NodeRecord /\ p \in Tracked(m) /\ Calm(n, m) /\ m.role = n.role
<1> DEFINE m == [n EXCEPT !.progress[p] = pr]
<1>1. m \in NodeRecord /\ p \in Tracked(m)
  BY ProgressUpdateTyped
<1>2. Calm(n, m) /\ m.role = n.role
  BY NodeNames DEF Calm, Steady, Names
<1> QED BY <1>1, <1>2

(* What follows an acknowledgement. *)
LEMMA AfterAckCalm ==
    ASSUME NEW n \in NodeRecord, NEW p \in Tracked(n)
    PROVE  Calm(n, AfterAck(n, p))
<1> DEFINE advanced == AdvanceCommit(n)
           told     == MaybeSendTimeoutNow(advanced, p)
<1>1. p \in Server
  BY DEF Tracked
<1>2. /\ advanced \in NodeRecord /\ Calm(n, advanced)
      /\ advanced.role = "Leader" => advanced.progress = n.progress
  BY AdvanceCommitTyped, AdvanceCommitCalm
<1> HIDE DEF advanced
<1>3. /\ told \in NodeRecord /\ told.progress = advanced.progress
      /\ told.role = advanced.role /\ Calm(n, told)
  BY <1>1, <1>2, MaybeSendTimeoutNowTyped, MaybeSendTimeoutNowCalm, CalmTransitive
<1> HIDE DEF told
<1>4. told.role = "Leader" => {p} \in SUBSET Tracked(told)
  BY <1>2, <1>3 DEF Tracked
<1>5. told.role = "Leader" => Calm(n, SendAppend(told, {p}))
  BY <1>3, <1>4, SendAppendCalm, CalmTransitive
<1> QED BY <1>3, <1>5 DEF AfterAck, told, advanced

(* handle_append_entries_reply. *)
LEMMA HandleAppendReplyCalm ==
    ASSUME NEW n \in NodeRecord, NEW m \in Message, m.kind = "AppendEntriesReply"
    PROVE  Calm(n, HandleAppendReply(n, m))
<1> DEFINE p     == m.from
           old   == n.progress[p]
           match == Larger(old.match_index, m.match_index)
           acked == [next_index  |-> Larger(old.next_index, match + 1),
                     match_index |-> match, state |-> "Replicate"]
           rejected == [old EXCEPT !.next_index = RejectedNext(n, m), !.state = "Probe"]
<1>1. CASE ~ Heeds(n, m)
  BY <1>1, CalmReflexive DEF HandleAppendReply
<1>2. CASE Heeds(n, m)
  <2>1. p \in Tracked(n) /\ n.role = "Leader"
    BY <1>2 DEF Heeds
  <2>2. old \in Progress /\ old.next_index \in Nat /\ old.match_index \in Nat
    BY <2>1, TrackedTyped
  <2>3. match \in Nat
    BY <2>2, AppendReplyFields, SmallerLarger
  <2> HIDE DEF match
  <2>4. acked \in Progress
    <3>1. Larger(old.next_index, match + 1) \in Nat
      BY <2>2, <2>3, SmallerLarger
    <3> QED BY <2>3, <3>1 DEF Progress
  <2>5. rejected \in Progress
    BY <2>1, <2>2, RejectedNextTyped DEF Progress
  <2> HIDE DEF acked, rejected
  <2>6. Calm(n, AfterAck([n EXCEPT !.progress[p] = acked], p))
    BY <2>1, <2>4, ProgressUpdateCalm, AfterAckCalm, CalmTransitive
  <2>7. Calm(n, SendAppend([n EXCEPT !.progress[p] = rejected], {p}))
    <3> DEFINE r == [n EXCEPT !.progress[p] = rejected]
    <3>1. r \in NodeRecord /\ {p} \in SUBSET Tracked(r) /\ Calm(n, r) /\ r.role = "Leader"
      BY <2>1, <2>5, ProgressUpdateCalm
    <3> HIDE DEF r
    <3>2. Calm(n, SendAppend(r, {p}))
      BY <3>1, SendAppendCalm, CalmTransitive
    <3> QED BY <3>2 DEF r
  <2>8. HandleAppendReply(n, m) =
            IF m.success THEN AfterAck([n EXCEPT !.progress[p] = acked], p)
            ELSE SendAppend([n EXCEPT !.progress[p] = rejected], {p})
    BY <1>2 DEF HandleAppendReply, acked, rejected, match
  <2> QED BY <2>6, <2>7, <2>8
<1> QED BY <1>1, <1>2

(* handle_install_snapshot_reply. *)
LEMMA HandleInstallSnapshotReplyCalm ==
    ASSUME NEW n \in NodeRecord, NEW m \in Message, m.kind = "InstallSnapshotReply"
    PROVE  Calm(n, HandleInstallSnapshotReply(n, m))
<1> DEFINE p     == m.from
           match == Larger(n.progress[p].match_index, m.last_index)
           acked == [next_index |-> match + 1, match_index |-> match,
                     state |-> "Replicate"]
<1>1. CASE ~ Heeds(n, m)
  BY <1>1, CalmReflexive DEF HandleInstallSnapshotReply
<1>2. CASE Heeds(n, m)
  <2>1. p \in Tracked(n)
    BY <1>2 DEF Heeds
  <2>2. match \in Nat
    BY <2>1, TrackedTyped, InstallSnapshotReplyFields, SmallerLarger
  <2> HIDE DEF match
  <2>3. acked \in Progress
    BY <2>2 DEF Progress
  <2> HIDE DEF acked
  <2>4. Calm(n, AfterAck([n EXCEPT !.progress[p] = acked], p))
    BY <2>1, <2>3, ProgressUpdateCalm, AfterAckCalm, CalmTransitive
  <2>5. HandleInstallSnapshotReply(n, m) = AfterAck([n EXCEPT !.progress[p] = acked], p)
    BY <1>2 DEF HandleInstallSnapshotReply, acked, match
  <2> QED BY <2>4, <2>5
<1> QED BY <1>1, <1>2

(* An answer to a probe, and a vote that is refused. *)
LEMMA HandlePreVoteCalm ==
    ASSUME NEW n \in NodeRecord, NEW m, NEW ripe
    PROVE  Calm(n, HandlePreVote(n, m, ripe))
<1> DEFINE s == [kind |-> "PreVoteReply", from |-> n.id, to |-> m.from,
                 term |-> n.current_term, vote_granted |-> CanGrantPreVote(n, m, ripe)]
<1>1. Tells(n, s)
  BY DEF Tells, Told, Replicates
<1>2. HandlePreVote(n, m, ripe) = Send(n, {s})
  BY DEF HandlePreVote, VoteReply
<1> HIDE DEF s
<1>3. Calm(n, Send(n, {s}))
  BY <1>1, NodeNames DEF Send, Calm, Steady, Names
<1> QED BY <1>2, <1>3
-----------------------------------------------------------------------------
(* What a handler as a whole may do. *)

(* Logs that differ in the hard state and the data at most. *)
SameLog(a, b) ==
    /\ b.base_index = a.base_index
    /\ b.base_term = a.base_term
    /\ b.entries = a.entries
    /\ b.snapshot_config = a.snapshot_config

(* Everything but the election and the hard state stays, and is durable. *)
Kept(n, m) ==
    /\ m.id = n.id
    /\ SameLog(n.log, m.log)
    /\ m.disk = m.log
    /\ m.voters = n.voters
    /\ m.base_config = n.base_config
    /\ m.config_index = n.config_index

(* A node leads, or is a candidate, because it did before, because it has   *)
(* voted for itself in a new term, or because of one more vote it was sent; *)
(* and it leads when its votes are a quorum.                                *)
Stands(n, m, read) ==
    \/ m.role = "Follower"
    \/ m.role = n.role /\ m.votes = n.votes /\ m.current_term = n.current_term
    \/ /\ m.current_term > n.current_term
       /\ m.voted_for = m.id
       /\ m.votes = {m.id}
       /\ m.role = "Leader" => 1 >= Quorum(m)
    \/ /\ n.role = "Candidate"
       /\ m.current_term = n.current_term
       /\ \E r \in read : /\ r.kind = "RequestVoteReply"
                          /\ r.vote_granted
                          /\ r.to = n.id
                          /\ r.term = n.current_term
                          /\ m.votes = n.votes \cup {r.from}
       /\ m.role = "Leader" => Cardinality(m.votes) >= Quorum(m)

(* What a log loses at its end lies at or beyond an index at which it did   *)
(* not agree with the message.                                              *)
Spares(new, old, f) ==
    \/ LastIndex(new) >= LastIndex(old)
    \/ \E y \in Span(old) \cap Span(Carried(f)) :
            /\ y <= LastIndex(new) + 1
            /\ TermAt(old, y) # TermAt(Carried(f), y)

(* A log that a handler took from another, and from what a message carries. *)
Takes(new, old, f) ==
    /\ Spares(new, old, f)
    /\ \/ Part(new, Carried(f))
       \/ \E c : IsPiece(c) /\ Spliced(c, old, Carried(f)) /\ Part(new, c)

(* A log is compacted; extended by a leader with an entry of its term; or   *)
(* made by a follower from what a message of its term carries.              *)
Rewrites(n, m, read) ==
    \/ /\ Part(m.log, n.log)
       /\ LastIndex(m.log) = LastIndex(n.log)
    \/ /\ n.role = "Leader"
       /\ m.current_term = n.current_term
       /\ Extended(m.log, n.log, n.current_term)
    \/ /\ m.role = "Follower"
       /\ \E f \in read :
            /\ Replicates(f)
            /\ f.term = m.current_term
            /\ Takes(m.log, n.log, f)

(* What is sent speaks for the node as it is now, asks for a vote, or is    *)
(* the vote the node holds.                                                 *)
Says(m, s) ==
    \/ Told(m, s)
    \/ s.kind = "RequestVote" /\ s.from = m.id /\ s.term = m.current_term
    \/ /\ s.kind = "RequestVoteReply"
       /\ s.from = m.id
       /\ s.term = m.current_term
       /\ s.to = m.voted_for

(* n becomes m, having read some messages. *)
Outcome(n, m, read) ==
    /\ m.id = n.id
    /\ m.disk = m.log
    /\ n.current_term <= m.current_term
    /\ Stands(n, m, read)
    /\ Rewrites(n, m, read)
    /\ \A s \in m.sends : Says(m, s)
    /\ Lawful(n) /\ (\A f \in read : LawfulMessage(f)) => Lawful(m)

(* A node between two handlers. *)
Ready(n) == n \in NodeRecord /\ n.sends = {} /\ n.disk = n.log

(* Logs that differ in the hard state at most read alike. *)
LEMMA SameLogReads ==
    ASSUME NEW a, NEW b, SameLog(a, b)
    PROVE  /\ LastIndex(b) = LastIndex(a) /\ Span(b) = Span(a)
           /\ \A k : /\ HasEntry(b, k) = HasEntry(a, k)
                     /\ EntryAt(b, k) = EntryAt(a, k)
                     /\ TermAt(b, k) = TermAt(a, k)
           /\ \A index : ConfigIndexAt(b, index) = ConfigIndexAt(a, index)
           /\ \A index, base : ConfigAt(b, index, base) = ConfigAt(a, index, base)
<1>1. LastIndex(b) = LastIndex(a) /\ Span(b) = Span(a)
  BY DEF SameLog, LastIndex, Span
<1>2. \A k : HasEntry(b, k) = HasEntry(a, k)
  BY <1>1 DEF HasEntry, SameLog
<1>3. \A k : EntryAt(b, k) = EntryAt(a, k)
  BY DEF EntryAt, SameLog
<1>4. \A k : TermAt(b, k) = TermAt(a, k)
  BY <1>2, <1>3 DEF TermAt, SameLog
<1> QED BY <1>1, <1>2, <1>3, <1>4, SameEntriesSameConfig DEF SameLog

(* A node that keeps its configuration stays lawful. *)
LEMMA KeptIsLawful ==
    ASSUME NEW n, NEW m, Kept(n, m), Lawful(n)
    PROVE  Lawful(m)
<1>1. /\ LastIndex(m.log) = LastIndex(n.log)
      /\ \A k : HasEntry(m.log, k) = HasEntry(n.log, k)
      /\ \A k : EntryAt(m.log, k) = EntryAt(n.log, k)
      /\ \A index : ConfigIndexAt(m.log, index) = ConfigIndexAt(n.log, index)
      /\ \A index, base : ConfigAt(m.log, index, base) = ConfigAt(n.log, index, base)
  BY SameLogReads DEF Kept
<1>2. HasSnapshot(m.log) = HasSnapshot(n.log)
      /\ m.log.snapshot_config = n.log.snapshot_config
  BY DEF HasSnapshot, Kept, SameLog
<1>3. Follows(m)
  BY <1>1 DEF Follows, Kept, Lawful
<1>4. LawfulLog(m.log)
  BY <1>1, <1>2 DEF LawfulLog, LawfulPiece, HasEntry, Lawful
<1>5. BaseOf(m.id, m.log) = BaseOf(n.id, n.log)
  BY <1>2 DEF BaseOf, Kept
<1> QED BY <1>3, <1>4, <1>5 DEF Lawful, Kept

(* Its log is the same stretch. *)
LEMMA KeptIsPart ==
    ASSUME NEW n \in NodeRecord, NEW m \in NodeRecord, Kept(n, m)
    PROVE  Part(m.log, n.log) /\ LastIndex(m.log) = LastIndex(n.log)
BY NodeFields, LogIsPiece, SameEntriesIsPart DEF Kept, SameLog

(* A calm step is an outcome, and may follow one. *)
LEMMA SteadyIsKept ==
    ASSUME NEW n, NEW m, n.disk = n.log, Steady(n, m)
    PROVE  Kept(n, m)
BY DEF Steady, Kept, SameLog

LEMMA CalmIsOutcome ==
    ASSUME NEW n, Ready(n), NEW m \in NodeRecord, Calm(n, m), NEW read
    PROVE  Outcome(n, m, read)
<1>1. n \in NodeRecord /\ n.disk = n.log /\ n.sends = {}
  BY DEF Ready
<1>2. Kept(n, m)
  BY <1>1, SteadyIsKept DEF Calm
<1>3. Stands(n, m, read)
  BY DEF Stands, Calm, Steady
<1>4. Rewrites(n, m, read)
  BY <1>1, <1>2, KeptIsPart DEF Rewrites
<1>5. \A s \in m.sends : Says(m, s)
  BY <1>1 DEF Calm, Steady, Says, Tells, Told
<1>6. /\ m.id = n.id /\ m.disk = m.log /\ n.current_term = m.current_term
      /\ n.current_term \in Nat
  BY <1>1, NodeFields DEF Calm, Steady
<1> QED BY <1>2, <1>3, <1>4, <1>5, <1>6, KeptIsLawful DEF Outcome

LEMMA CalmFollows ==
    ASSUME NEW n, NEW k, NEW m, NEW read, Outcome(n, k, read), Calm(k, m)
    PROVE  Outcome(n, m, read)
<1>1. /\ m.id = k.id /\ m.log = k.log /\ m.disk = k.disk
      /\ m.current_term = k.current_term /\ m.voted_for = k.voted_for
      /\ m.voters = k.voters
  BY DEF Calm, Steady
<1>2. (m.role = k.role /\ m.votes = k.votes) \/ m.role = "Follower"
  BY DEF Calm
<1>3. Quorum(m) = Quorum(k)
  BY <1>1 DEF Quorum
<1>4. Stands(n, m, read)
  BY <1>1, <1>2, <1>3 DEF Outcome, Stands
<1>5. Rewrites(n, m, read)
  BY <1>1, <1>2 DEF Outcome, Rewrites
<1>6. \A s \in m.sends : Says(m, s)
  <2>1. \A s : Says(k, s) => Says(m, s)
    BY <1>1 DEF Says, Told
  <2>2. \A s : Tells(k, s) => Says(k, s)
    BY DEF Says, Tells
  <2> QED BY <2>1, <2>2 DEF Outcome, Calm
<1>7. Kept(k, m)
  BY SteadyIsKept DEF Calm, Outcome
<1> QED BY <1>1, <1>4, <1>5, <1>6, <1>7, KeptIsLawful DEF Outcome

-----------------------------------------------------------------------------
(* Elections. *)

(* Persisting the hard state touches nothing else. *)
LEMMA PersistKeeps ==
    ASSUME NEW n \in NodeRecord
    PROVE  LET m == PersistHardState(n)
           IN  /\ m \in NodeRecord
               /\ Kept(n, m)
               /\ m.role = n.role /\ m.votes = n.votes
               /\ m.current_term = n.current_term /\ m.voted_for = n.voted_for
               /\ m.sends = n.sends
<1> DEFINE log == SetHardState(n.log, n.current_term, n.voted_for)
           m   == PersistHardState(n)
<1>1. SameLog(n.log, log)
  BY NodeFields DEF SetHardState, SameLog, Log
<1> HIDE DEF log
<1>2. m = [[n EXCEPT !.log = log] EXCEPT !.disk = [n EXCEPT !.log = log].log]
  BY DEF PersistHardState, Sync, log
<1>3. /\ m.id = n.id /\ m.voters = n.voters /\ m.base_config = n.base_config
      /\ m.config_index = n.config_index /\ m.log = log /\ m.disk = log
      /\ m.role = n.role /\ m.votes = n.votes
      /\ m.current_term = n.current_term /\ m.voted_for = n.voted_for
      /\ m.sends = n.sends
  BY <1>2, NodeNames DEF Names
<1>4. m \in NodeRecord
  BY PersistHardStateTyped
<1> HIDE DEF m
<1> QED BY <1>1, <1>3, <1>4 DEF Kept, m

(* A later term finds a follower that has not voted. *)
LEMMA BecomeFollowerKeeps ==
    ASSUME NEW n, Ready(n), NEW term \in Nat, term > n.current_term,
           NEW leader \in Server \cup {None}
    PROVE  LET m == BecomeFollower(n, term, leader)
           IN  /\ Ready(m) /\ Kept(n, m)
               /\ m.role = "Follower" /\ m.current_term = term
              
<1> DEFINE later == [n EXCEPT !.role = "Follower", !.leader_id = leader,
                              !.transfer_target = None, !.pre_voting = FALSE,
                              !.pre_votes = {}, !.votes = {},
                              !.progress = NoProgress, !.ripe = FALSE,
                              !.current_term = term, !.voted_for = None]
           m == PersistHardState(later)
<1>1. n \in NodeRecord /\ n.sends = {} /\ n.disk = n.log
  BY DEF Ready
<1>2. later \in NodeRecord
  BY <1>1 DEF NodeRecord, Role, NoProgress
<1>3. /\ later.id = n.id /\ later.voters = n.voters /\ later.base_config = n.base_config
      /\ later.config_index = n.config_index /\ later.log = n.log
      /\ later.role = "Follower"
      /\ later.current_term = term /\ later.sends = {}
  BY <1>1, NodeNames DEF Names
<1>4. BecomeFollower(n, term, leader) = m
  BY DEF BecomeFollower
<1> HIDE DEF later
<1>5. /\ m \in NodeRecord /\ Kept(later, m) /\ m.role = "Follower"
      /\ m.current_term = term /\ m.sends = {}
  BY <1>2, <1>3, PersistKeeps
<1> HIDE DEF m
<1>6. Kept(n, m)
  BY <1>3, <1>5 DEF Kept
<1> QED BY <1>4, <1>5, <1>6 DEF Ready, Kept

LEMMA AdoptTermKeeps ==
    ASSUME NEW n, Ready(n), NEW term \in Nat
    PROVE  LET k == AdoptTerm(n, term)
           IN  /\ Ready(k) /\ term <= k.current_term
               /\ \/ k = n
                  \/ /\ Kept(n, k) /\ k.role = "Follower"
                     /\ k.current_term > n.current_term
<1>1. n.current_term \in Nat
  BY NodeFields DEF Ready
<1>2. CASE term > n.current_term
  BY <1>1, <1>2, BecomeFollowerKeeps DEF AdoptTerm
<1>3. CASE ~ (term > n.current_term)
  BY <1>1, <1>3 DEF AdoptTerm
<1> QED BY <1>2, <1>3

(* What is done at the adopted term is an outcome of the whole.             *)
LEMMA AfterAdopting ==
    ASSUME NEW n, Ready(n), NEW term \in Nat, NEW k, k = AdoptTerm(n, term),
           NEW m \in NodeRecord, NEW read, Outcome(k, m, read)
    PROVE  Outcome(n, m, read)
<1>1. CASE k = n
  BY <1>1, Zenon
<1>2. CASE k # n
  <2>1. /\ Ready(k) /\ Kept(n, k) /\ k.role = "Follower"
        /\ k.current_term > n.current_term
    BY <1>2, AdoptTermKeeps
  <2>2. /\ k \in NodeRecord /\ n \in NodeRecord /\ n.current_term \in Nat
        /\ k.current_term \in Nat /\ m.current_term \in Nat
    BY <2>1, NodeFields DEF Ready
  <2>3. Outcome(k, m, read)
    OBVIOUS
  <2>4. n.current_term < m.current_term /\ k.current_term <= m.current_term
    BY <2>1, <2>2, <2>3 DEF Outcome
  <2>5. Stands(n, m, read)
    BY <2>1, <2>3, <2>4 DEF Outcome, Stands
  <2>6. Rewrites(n, m, read)
    <3>1. /\ k.log \in Log /\ m.log \in Log /\ n.log \in Log
          /\ IsPiece(k.log) /\ IsPiece(m.log) /\ IsPiece(n.log)
      BY <2>2, NodeFields, LogIsPiece
    <3>2. Part(k.log, n.log) /\ LastIndex(k.log) = LastIndex(n.log)
      BY <2>1, <2>2, KeptIsPart
    <3>3. Part(m.log, k.log) => Part(m.log, n.log)
      BY <3>1, <3>2, PartTransitive
    <3>4. ASSUME NEW c, NEW f, Spliced(c, k.log, f)
          PROVE  Spliced(c, n.log, f)
      <4>1. /\ Span(k.log) = Span(n.log) /\ k.log.base_index = n.log.base_index
            /\ \A i : TermAt(k.log, i) = TermAt(n.log, i)
            /\ \A i : HasEntry(k.log, i) = HasEntry(n.log, i)
            /\ \A i : EntryAt(k.log, i) = EntryAt(n.log, i)
        BY <2>1, SameLogReads DEF Kept, SameLog
      <4>2. \A i : Same(c, k.log, i) => Same(c, n.log, i)
        BY <4>1 DEF Same
      <4> QED BY <3>4, <4>1, <4>2 DEF Spliced
    <3>5. ASSUME NEW f, Takes(m.log, k.log, f) PROVE Takes(m.log, n.log, f)
      <4>1. /\ LastIndex(k.log) = LastIndex(n.log) /\ Span(k.log) = Span(n.log)
            /\ \A i : TermAt(k.log, i) = TermAt(n.log, i)
        BY <2>1, SameLogReads DEF Kept, SameLog
      <4>2. Spares(m.log, n.log, f)
        BY <3>5, <4>1 DEF Takes, Spares
      <4> QED BY <3>4, <3>5, <4>2 DEF Takes
    <3>6. Rewrites(k, m, read)
      BY <2>3 DEF Outcome
    <3>7. CASE Part(m.log, k.log) /\ LastIndex(m.log) = LastIndex(k.log)
      BY <3>2, <3>3, <3>7 DEF Rewrites
    <3>8. CASE /\ m.role = "Follower"
               /\ \E f \in read : /\ Replicates(f) /\ f.term = m.current_term
                                  /\ Takes(m.log, k.log, f)
      BY <3>5, <3>8 DEF Rewrites
    <3> QED BY <2>1, <3>6, <3>7, <3>8 DEF Rewrites
  <2>7. Lawful(n) => Lawful(k)
    BY <2>1, KeptIsLawful
  <2> QED BY <2>1, <2>2, <2>3, <2>4, <2>5, <2>6, <2>7 DEF Outcome, Kept
<1> QED BY <1>1, <1>2

(* Winning: a leader, and then replication and commitment as ever. *)
LEMMA BecomeLeaderCalm ==
    ASSUME NEW n \in NodeRecord
    PROVE  \E w \in NodeRecord :
                /\ Steady(n, w) /\ w.role = "Leader" /\ w.votes = n.votes
                /\ w.sends = n.sends
                /\ Calm(w, BecomeLeader(n))
<1> DEFINE w == [n EXCEPT !.role = "Leader", !.leader_id = n.id,
                          !.transfer_target = None, !.pre_voting = FALSE,
                          !.pre_votes = {}]
           ready == RebuildProgress(w)
<1>1. w \in NodeRecord
  BY NodeFields DEF NodeRecord, Role
<1>2. Steady(n, w) /\ w.role = "Leader" /\ w.votes = n.votes /\ w.sends = n.sends
  BY NodeNames DEF Steady, Names
<1> HIDE DEF w
<1>3. ready \in NodeRecord /\ Calm(w, ready) /\ ready.role = "Leader"
  BY <1>1, <1>2, NodeNames, RebuildProgressTyped, RebuildProgressCalm
     DEF RebuildProgress, Names
<1> HIDE DEF ready
<1>4. Calm(w, AdvanceCommit(ReplicateToAll(ready)))
  BY <1>3, RoundCalm, CalmTransitive
<1>5. BecomeLeader(n) = AdvanceCommit(ReplicateToAll(ready))
  BY DEF BecomeLeader, ready, w
<1> QED BY <1>1, <1>2, <1>4, <1>5

(* A campaign. *)
LEMMA CandidateIsOutcome ==
    ASSUME NEW n, Ready(n), NEW m \in NodeRecord, Kept(n, m),
           m.current_term = n.current_term + 1, m.voted_for = m.id,
           m.votes = {m.id}, m.role = "Leader" => 1 >= Quorum(m),
           \A s \in m.sends : Says(m, s), NEW read
    PROVE  Outcome(n, m, read)
<1>1. n \in NodeRecord /\ n.current_term \in Nat
  BY NodeFields DEF Ready
<1>2. Stands(n, m, read)
  BY <1>1 DEF Stands
<1>3. Rewrites(n, m, read)
  BY <1>1, KeptIsPart DEF Rewrites
<1> QED BY <1>1, <1>2, <1>3, KeptIsLawful DEF Outcome, Kept

LEMMA StartElectionOutcome ==
    ASSUME NEW n, Ready(n), NEW force \in BOOLEAN, NEW read
    PROVE  Outcome(n, StartElection(n, force), read)
<1> DEFINE r == [n EXCEPT !.role = "Candidate", !.current_term = @ + 1,
                          !.voted_for = n.id, !.leader_id = None,
                          !.transfer_target = None, !.pre_voting = FALSE,
                          !.pre_votes = {}, !.progress = NoProgress,
                          !.votes = {n.id}, !.ripe = FALSE]
           candidate == PersistHardState(r)
           asking    == Send(candidate, RequestVotes(candidate, force))
<1>1. n \in NodeRecord /\ n.sends = {} /\ n.disk = n.log /\ n.current_term \in Nat
  BY NodeFields DEF Ready
<1>2. r \in NodeRecord
  BY <1>1, CampaignTyped
<1>3. /\ r.id = n.id /\ r.voters = n.voters /\ r.base_config = n.base_config
      /\ r.config_index = n.config_index /\ r.log = n.log
      /\ r.role = "Candidate" /\ r.votes = {n.id} /\ r.voted_for = n.id
      /\ r.current_term = n.current_term + 1 /\ r.sends = {}
  BY <1>1, NodeNames DEF Names
<1> HIDE DEF r
<1>4. /\ candidate \in NodeRecord /\ Kept(r, candidate)
      /\ candidate.role = "Candidate" /\ candidate.votes = {n.id}
      /\ candidate.current_term = n.current_term + 1 /\ candidate.voted_for = n.id
      /\ candidate.sends = {}
  BY <1>2, <1>3, PersistKeeps
<1> HIDE DEF candidate
<1>5. Kept(n, candidate)
  BY <1>3, <1>4 DEF Kept
<1>6. CASE 1 >= Quorum(n)
  <2>1. PICK w \in NodeRecord :
            /\ Steady(candidate, w) /\ w.role = "Leader" /\ w.votes = candidate.votes
            /\ w.sends = candidate.sends
            /\ Calm(w, BecomeLeader(candidate))
    BY <1>4, BecomeLeaderCalm
  <2>2. Kept(n, w)
    BY <1>5, <2>1 DEF Steady, Kept
  <2>3. w.votes = {w.id} /\ w.voted_for = w.id /\ w.current_term = n.current_term + 1
        /\ w.sends = {}
    BY <1>4, <1>5, <2>1 DEF Steady, Kept
  <2>4. Quorum(w) = Quorum(n)
    BY <2>2 DEF Quorum, Kept
  <2>5. Outcome(n, w, read)
    BY <1>6, <2>2, <2>3, <2>4, CandidateIsOutcome
  <2>6. StartElection(n, force) = BecomeLeader(candidate)
    BY <1>6 DEF StartElection, candidate, r
  <2> QED BY <2>1, <2>5, <2>6, CalmFollows
<1>7. CASE ~ (1 >= Quorum(n))
  <2>1. asking \in NodeRecord
    BY <1>4, RequestVotesTyped, SendTyped
  <2>2. /\ Steady(candidate, asking) /\ asking.role = candidate.role
        /\ asking.votes = candidate.votes
        /\ asking.sends = RequestVotes(candidate, force)
    BY <1>4, NodeNames DEF Send, Steady, Names
  <2>3. \A s \in RequestVotes(candidate, force) :
            /\ s.kind = "RequestVote" /\ s.from = candidate.id
            /\ s.term = candidate.current_term
    BY DEF RequestVotes
  <2> HIDE DEF asking
  <2>4. \A s \in asking.sends : Says(asking, s)
    BY <2>2, <2>3 DEF Says, Steady
  <2>5. Kept(n, asking)
    BY <1>5, <2>2 DEF Steady, Kept
  <2>6. asking.votes = {asking.id} /\ asking.voted_for = asking.id
        /\ asking.current_term = n.current_term + 1 /\ asking.role = "Candidate"
    BY <1>4, <1>5, <2>2 DEF Steady, Kept
  <2>7. Outcome(n, asking, read)
    BY <2>1, <2>4, <2>5, <2>6, CandidateIsOutcome
  <2>8. StartElection(n, force) = asking
    BY <1>7 DEF StartElection, asking, candidate, r
  <2> QED BY <2>7, <2>8
<1> QED BY <1>6, <1>7

(* A calm step may come first. *)
LEMMA CalmPrecedes ==
    ASSUME NEW n, Ready(n), NEW k, Ready(k), Calm(n, k),
           NEW m, NEW read, Outcome(k, m, read)
    PROVE  Outcome(n, m, read)
<1>1. /\ k.id = n.id /\ k.log = n.log /\ k.current_term = n.current_term
      /\ n.disk = n.log
  BY DEF Calm, Steady, Ready
<1>2. (k.role = n.role /\ k.votes = n.votes) \/ k.role = "Follower"
  BY DEF Calm
<1>3. Stands(n, m, read)
  BY <1>1, <1>2 DEF Outcome, Stands
<1>4. Rewrites(n, m, read)
  BY <1>1, <1>2 DEF Outcome, Rewrites
<1>5. Lawful(n) => Lawful(k)
  BY <1>1, SteadyIsKept, KeptIsLawful DEF Calm
<1> QED BY <1>1, <1>3, <1>4, <1>5 DEF Outcome

(* A follower of a later term, and nothing more. *)
LEMMA KeptFollower ==
    ASSUME NEW n, Ready(n), NEW m, Ready(m), Kept(n, m), m.role = "Follower",
           n.current_term <= m.current_term, NEW read
    PROVE  Outcome(n, m, read)
<1>1. n \in NodeRecord /\ m \in NodeRecord /\ m.sends = {}
  BY DEF Ready
<1>2. Rewrites(n, m, read)
  BY <1>1, KeptIsPart DEF Rewrites
<1>3. Stands(n, m, read)
  BY DEF Stands
<1>4. \A s \in m.sends : Says(m, s)
  BY <1>1
<1> QED BY <1>2, <1>3, <1>4, KeptIsLawful DEF Outcome, Kept

(* Probing, and a probe that is answered. *)
LEMMA StartPreVoteOutcome ==
    ASSUME NEW n, Ready(n), NEW read
    PROVE  Outcome(n, StartPreVote(n), read)
<1> DEFINE probing == [n EXCEPT !.role = "Follower", !.leader_id = None,
                                !.pre_voting = TRUE, !.pre_votes = {n.id}]
           asking  == Send(probing, PreVotes(probing))
<1>1. n \in NodeRecord /\ n.sends = {} /\ n.disk = n.log
  BY DEF Ready
<1>2. probing \in NodeRecord
  BY <1>1, NodeFields DEF NodeRecord, Role
<1>3. /\ Calm(n, probing) /\ Kept(n, probing) /\ probing.role = "Follower"
      /\ probing.current_term = n.current_term /\ probing.sends = {}
      /\ probing.disk = probing.log
  BY <1>1, NodeNames DEF Calm, Steady, Kept, SameLog, Names
<1> HIDE DEF probing
<1>4. Ready(probing)
  BY <1>2, <1>3 DEF Ready
<1>5. CASE 1 >= Quorum(n)
  <2>1. Outcome(probing, StartElection(probing, FALSE), read)
    BY <1>4, StartElectionOutcome
  <2>2. StartElection(probing, FALSE) \in NodeRecord
    BY <1>2, StartElectionTyped
  <2> DEFINE m == StartElection(probing, FALSE)
  <2>3. StartPreVote(n) = m
    BY <1>5 DEF StartPreVote, probing
  <2> HIDE DEF m
  <2>4. Outcome(probing, m, read) /\ m \in NodeRecord
    BY <2>1, <2>2 DEF m
  <2>5. Outcome(n, m, read)
    BY <1>1, <1>3, <1>4, <2>4, CalmPrecedes
  <2> QED BY <2>3, <2>5
<1>6. CASE ~ (1 >= Quorum(n))
  <2>1. asking \in NodeRecord
    BY <1>2, PreVotesTyped, SendTyped
  <2>2. \A s \in PreVotes(probing) : Tells(probing, s)
    BY DEF PreVotes, Tells, Told, Replicates
  <2>3. Calm(probing, asking)
    BY <1>2, <2>2, NodeNames DEF Send, Calm, Steady, Names
  <2> HIDE DEF asking
  <2>4. Outcome(n, asking, read)
    BY <1>1, <1>3, <2>1, <2>3, CalmTransitive, CalmIsOutcome DEF Ready
  <2>5. StartPreVote(n) = asking
    BY <1>6 DEF StartPreVote, asking, probing
  <2> QED BY <2>4, <2>5
<1> QED BY <1>5, <1>6

LEMMA HandlePreVoteReplyOutcome ==
    ASSUME NEW n, Ready(n), NEW m \in Message, NEW read
    PROVE  Outcome(n, HandlePreVoteReply(n, m), read)
<1> DEFINE counted == [n EXCEPT !.pre_votes = @ \cup {m.from}]
<1>1. n \in NodeRecord /\ n.sends = {} /\ n.disk = n.log /\ m.term \in Nat
      /\ m.from \in Server
  BY MessageFields DEF Ready
<1>2. Outcome(n, n, read)
  BY <1>1, CalmReflexive, CalmIsOutcome
<1>3. m.term > n.current_term => Outcome(n, BecomeFollower(n, m.term, None), read)
  <2> DEFINE k == BecomeFollower(n, m.term, None)
  <2> SUFFICES ASSUME m.term > n.current_term PROVE Outcome(n, k, read)
    OBVIOUS
  <2>1. Ready(k) /\ Kept(n, k) /\ k.role = "Follower" /\ k.current_term = m.term
    BY <1>1, BecomeFollowerKeeps
  <2> HIDE DEF k
  <2> QED BY <1>1, <2>1, KeptFollower, NodeFields DEF Ready
<1>4. /\ counted \in NodeRecord
      /\ Calm(n, counted) /\ counted.sends = {} /\ counted.disk = counted.log
      /\ counted.role = n.role
  <2>1. n.pre_votes \cup {m.from} \in SUBSET Server
    BY <1>1, NodeFields
  <2>2. counted \in NodeRecord
    BY <1>1, <2>1 DEF NodeRecord
  <2>3. Calm(n, counted) /\ counted.sends = {} /\ counted.disk = counted.log
        /\ counted.role = n.role /\ counted.votes = n.votes
    BY <1>1, NodeNames DEF Calm, Steady, Names
  <2> QED BY <2>2, <2>3
<1> HIDE DEF counted
<1>5. Outcome(n, counted, read)
  BY <1>4, CalmIsOutcome
<1>6. Outcome(n, StartElection(counted, FALSE), read)
  <2>1. Ready(counted)
    BY <1>4 DEF Ready
  <2> DEFINE k == StartElection(counted, FALSE)
  <2>2. Outcome(counted, k, read) /\ k \in NodeRecord
    BY <1>4, <2>1, StartElectionOutcome, StartElectionTyped
  <2> HIDE DEF k
  <2>3. Outcome(n, k, read)
    BY <1>1, <1>4, <2>1, <2>2, CalmPrecedes
  <2> QED BY <2>3 DEF k
<1> QED BY <1>2, <1>3, <1>5, <1>6 DEF HandlePreVoteReply, counted

(* A hand-over is a campaign. *)
LEMMA HandleTimeoutNowOutcome ==
    ASSUME NEW n, Ready(n), NEW m, NEW read
    PROVE  Outcome(n, HandleTimeoutNow(n, m), read)
<1>1. Outcome(n, n, read)
  BY CalmReflexive, CalmIsOutcome DEF Ready
<1> QED BY <1>1, StartElectionOutcome DEF HandleTimeoutNow

(* A vote is granted once it is on the disk. *)
LEMMA HandleRequestVoteOutcome ==
    ASSUME NEW n, Ready(n), NEW m \in Message, NEW read
    PROVE  Outcome(n, HandleRequestVote(n, m), read)
<1> DEFINE refusal == [kind |-> "RequestVoteReply", from |-> n.id, to |-> m.from,
                       term |-> n.current_term, vote_granted |-> FALSE]
           voting  == [n EXCEPT !.voted_for = m.from]
           voter   == PersistHardState(voting)
           grant   == [kind |-> "RequestVoteReply", from |-> n.id, to |-> m.from,
                       term |-> n.current_term, vote_granted |-> TRUE]
           granted == Send(voter, {grant})
<1>1. n \in NodeRecord /\ n.sends = {} /\ n.disk = n.log /\ m.from \in Server
      /\ n.current_term \in Nat
  BY MessageFields, NodeFields DEF Ready
<1>2. Outcome(n, Send(n, {refusal}), read)
  <2>1. Tells(n, refusal)
    BY DEF Tells, Told, Replicates
  <2>2. Send(n, {refusal}) \in NodeRecord
    <3>1. refusal \in Message
      BY <1>1, NodeFields DEF Message, RequestVoteReply
    <3> HIDE DEF refusal
    <3> QED BY <1>1, <3>1, SendTyped
  <2> HIDE DEF refusal
  <2>3. Calm(n, Send(n, {refusal}))
    BY <1>1, <2>1, NodeNames DEF Send, Calm, Steady, Names
  <2> QED BY <2>2, <2>3, CalmIsOutcome
<1>3. /\ voting \in NodeRecord /\ Kept(n, voting)
      /\ voting.role = n.role /\ voting.votes = n.votes
      /\ voting.current_term = n.current_term /\ voting.voted_for = m.from
      /\ voting.sends = {} /\ voting.id = n.id
  <2>1. voting \in NodeRecord
    BY <1>1 DEF NodeRecord
  <2> QED BY <1>1, <2>1, NodeNames DEF Kept, SameLog, Names
<1> HIDE DEF voting
<1>4. /\ voter \in NodeRecord /\ Kept(n, voter)
      /\ voter.role = n.role /\ voter.votes = n.votes
      /\ voter.current_term = n.current_term /\ voter.voted_for = m.from
      /\ voter.sends = {} /\ voter.id = n.id
  <2>1. /\ voter \in NodeRecord /\ Kept(voting, voter)
        /\ voter.role = n.role /\ voter.votes = n.votes
        /\ voter.current_term = n.current_term /\ voter.voted_for = m.from
        /\ voter.sends = {}
    BY <1>3, PersistKeeps
  <2> HIDE DEF voter
  <2> QED BY <1>3, <2>1 DEF Kept, SameLog
<1> HIDE DEF voter
<1>5. grant \in Message
  BY <1>1, NodeFields DEF Message, RequestVoteReply
<1>6. /\ granted \in NodeRecord /\ Kept(n, granted)
      /\ granted.role = n.role /\ granted.votes = n.votes
      /\ granted.current_term = n.current_term /\ granted.voted_for = m.from
      /\ granted.sends = {grant} /\ granted.id = n.id
  <2> HIDE DEF grant
  <2>1. granted \in NodeRecord
    BY <1>4, <1>5, SendTyped
  <2>2. Steady(voter, granted) /\ granted.role = n.role /\ granted.votes = n.votes
        /\ granted.sends = {grant}
    BY <1>4, NodeNames DEF Send, Steady, Names
  <2> HIDE DEF granted
  <2> QED BY <1>4, <2>1, <2>2 DEF Kept, Steady
<1> HIDE DEF granted
<1>7. \A s \in granted.sends : Says(granted, s)
  BY <1>6 DEF Says
<1>8. Outcome(n, granted, read)
  <2>1. Rewrites(n, granted, read)
    BY <1>1, <1>6, KeptIsPart DEF Rewrites
  <2>2. Stands(n, granted, read)
    BY <1>6 DEF Stands
  <2> HIDE DEF grant
  <2> QED BY <1>1, <1>6, <1>7, <2>1, <2>2, KeptIsLawful DEF Outcome, Kept
<1>9. HandleRequestVote(n, m) \in {granted, Send(n, {refusal})}
  <2>1. CASE CanGrantVote(n, m)
    <3>1. HandleRequestVote(n, m) = Send(voter, VoteReply(voting, "RequestVoteReply", m, TRUE))
          \/ HandleRequestVote(n, m) = Send(voter, VoteReply(n, "RequestVoteReply", m, TRUE))
      BY <2>1 DEF HandleRequestVote, voter, voting
    <3> QED BY <1>3, <3>1 DEF VoteReply, granted
  <2>2. CASE ~ CanGrantVote(n, m)
    BY <2>2 DEF HandleRequestVote, VoteReply
  <2> QED BY <2>1, <2>2
<1> QED BY <1>2, <1>8, <1>9

(* A vote that is counted, and the last one needed. *)
LEMMA HandleVoteReplyOutcome ==
    ASSUME NEW n, Ready(n), NEW m \in Message, m.kind = "RequestVoteReply",
           m.to = n.id, NEW ripe \in BOOLEAN, NEW read, m \in read
    PROVE  Outcome(n, HandleVoteReply(n, m, ripe), read)
<1> DEFINE counted == [n EXCEPT !.votes = @ \cup {m.from}]
           timed   == [counted EXCEPT !.ripe = ripe]
<1>1. n \in NodeRecord /\ n.sends = {} /\ n.disk = n.log /\ m.from \in Server
      /\ n.current_term \in Nat
  BY MessageFields, NodeFields DEF Ready
<1>2. CASE \/ n.role # "Candidate" \/ m.term # n.current_term
           \/ ~ m.vote_granted     \/ m.from \in n.votes
  BY <1>1, <1>2, CalmReflexive, CalmIsOutcome DEF HandleVoteReply
<1>3. CASE ~ (\/ n.role # "Candidate" \/ m.term # n.current_term
              \/ ~ m.vote_granted     \/ m.from \in n.votes)
  <2>1. n.votes \cup {m.from} \in SUBSET Server
    BY <1>1, NodeFields
  <2>2. /\ counted \in NodeRecord /\ Steady(n, counted) /\ counted.role = n.role
        /\ counted.votes = n.votes \cup {m.from} /\ counted.sends = {}
    <3>1. counted \in NodeRecord
      BY <1>1, <2>1 DEF NodeRecord
    <3> QED BY <1>1, <3>1, NodeNames DEF Steady, Names
  <2> HIDE DEF counted
  <2>3. /\ timed \in NodeRecord /\ Steady(n, timed)
        /\ timed.votes = n.votes \cup {m.from} /\ timed.sends = {}
    <3>1. timed \in NodeRecord
      BY <2>2 DEF NodeRecord
    <3>2. Steady(counted, timed) /\ timed.votes = counted.votes /\ timed.sends = {}
      BY <2>2, NodeNames DEF Steady, Names
    <3> HIDE DEF timed
    <3> QED BY <2>2, <3>1, <3>2 DEF Steady
  <2> HIDE DEF timed
  <2>4. ASSUME NEW k \in NodeRecord, Steady(n, k),
               k.role = "Leader" => Cardinality(k.votes) >= Quorum(k),
               k.votes = n.votes \cup {m.from}, k.sends = {}
        PROVE  Outcome(n, k, read)
    <3>1. Stands(n, k, read)
      BY <1>3, <2>4 DEF Stands, Steady
    <3>2. Kept(n, k)
      BY <1>1, <2>4, SteadyIsKept
    <3>3. Rewrites(n, k, read)
      BY <1>1, <2>4, <3>2, KeptIsPart DEF Rewrites
    <3> QED BY <1>1, <2>4, <3>1, <3>2, <3>3, KeptIsLawful DEF Outcome, Kept, Steady
  <2>5. CASE Cardinality(counted.votes) >= Quorum(n)
    <3>1. PICK w \in NodeRecord :
              /\ Steady(timed, w) /\ w.role = "Leader" /\ w.votes = timed.votes
              /\ w.sends = timed.sends
              /\ Calm(w, BecomeLeader(timed))
      BY <2>3, BecomeLeaderCalm
    <3>2. Steady(n, w) /\ w.votes = n.votes \cup {m.from} /\ w.sends = {}
      BY <2>3, <3>1 DEF Steady
    <3>3. Cardinality(w.votes) >= Quorum(w)
      <4>1. Quorum(w) = Quorum(n) /\ w.votes = counted.votes
        BY <2>2, <3>2 DEF Quorum, Steady
      <4> QED BY <2>5, <4>1
    <3>4. Outcome(n, w, read)
      BY <2>4, <3>2, <3>3
    <3>5. HandleVoteReply(n, m, ripe) = BecomeLeader(timed)
      BY <1>3, <2>5 DEF HandleVoteReply, timed, counted
    <3> QED BY <3>1, <3>4, <3>5, CalmFollows
  <2>6. CASE ~ (Cardinality(counted.votes) >= Quorum(n))
    <3>1. HandleVoteReply(n, m, ripe) = counted
      BY <1>3, <2>6 DEF HandleVoteReply, counted
    <3>2. counted.role # "Leader"
      BY <1>3, <2>2
    <3> QED BY <2>2, <2>4, <3>1, <3>2
  <2> QED BY <2>5, <2>6
<1> QED BY <1>2, <1>3

-----------------------------------------------------------------------------
(* Requests. *)

(* The entries of a log with a batch appended are those of both. *)
LEMMA AppendIsLawful ==
    ASSUME NEW log \in Log, NEW new \in Seq(LogEntry), LawfulPiece(log),
           \A j \in 1 .. Len(new) : new[j].kind = "Config" => new[j].body \in Configs
    PROVE  LawfulPiece(AppendTo(log, new))
<1> DEFINE a == AppendTo(log, new)
<1>1. /\ a.base_index = log.base_index /\ LastIndex(a) = LastIndex(log) + Len(new)
      /\ \A k : HasEntry(log, k) => EntryAt(a, k) = EntryAt(log, k)
      /\ \A j \in 1 .. Len(new) : EntryAt(a, LastIndex(log) + j) = new[j]
  BY Appended
<1> HIDE DEF a
<1>2. /\ LastIndex(log) \in Nat /\ Len(new) \in Nat /\ log.base_index \in Nat
  BY LogFields, LenProperties
<1> SUFFICES ASSUME NEW k, HasEntry(a, k), EntryAt(a, k).kind = "Config"
             PROVE  EntryAt(a, k).body \in Configs
  BY DEF LawfulPiece, HasEntry, a
<1>3. k \in Int /\ log.base_index < k /\ k <= LastIndex(log) + Len(new)
  BY <1>1, <1>2 DEF HasEntry
<1>4. CASE k <= LastIndex(log)
  BY <1>1, <1>2, <1>3, <1>4 DEF HasEntry, LawfulPiece
<1>5. CASE k > LastIndex(log)
  <2>1. k - LastIndex(log) \in 1 .. Len(new) /\ LastIndex(log) + (k - LastIndex(log)) = k
    BY <1>2, <1>3, <1>5
  <2> QED BY <1>1, <2>1
<1> QED BY <1>2, <1>3, <1>4, <1>5

(* One more entry extends a log. *)
LEMMA OneMore ==
    ASSUME NEW log \in Log, NEW entry \in LogEntry
    PROVE  LET a == AppendTo(log, << entry >>)
           IN  /\ a \in Log /\ Extended(a, log, entry.term)
               /\ a.base_index = log.base_index
               /\ a.snapshot_config = log.snapshot_config
               /\ LawfulPiece(log) /\ (entry.kind = "Config" => entry.body \in Configs)
                    => LawfulPiece(a)
<1> DEFINE new == << entry >>
           a   == AppendTo(log, new)
<1>1. new \in Seq(LogEntry) /\ Len(new) = 1 /\ \A j \in 1 .. Len(new) : new[j] = entry
  OBVIOUS
<1>2. 1 \in 1 .. Len(new)
  BY <1>1
<1> HIDE DEF new
<1>3. /\ a \in Log /\ a.base_index = log.base_index
      /\ a.snapshot_config = log.snapshot_config
      /\ LastIndex(a) = LastIndex(log) + Len(new)
      /\ \A k \in Span(log) : Same(a, log, k)
      /\ \A j \in 1 .. Len(new) : TermAt(a, LastIndex(log) + j) = new[j].term
  BY <1>1, Appended
<1>4. Extended(a, log, entry.term)
  <2>1. LastIndex(a) = LastIndex(log) + 1
    BY <1>1, <1>3
  <2>2. TermAt(a, LastIndex(a)) = entry.term
    BY <1>1, <1>2, <1>3, <2>1
  <2> QED BY <1>3, <2>1, <2>2 DEF Extended
<1>5. LawfulPiece(log) /\ (entry.kind = "Config" => entry.body \in Configs)
        => LawfulPiece(a)
  BY <1>1, AppendIsLawful
<1> QED BY <1>3, <1>4, <1>5 DEF new

(* A leader stores an entry, and it is durable. *)
LEMMA StoreOutcome ==
    ASSUME NEW n, Ready(n), n.role = "Leader", NEW m \in NodeRecord, NEW entry \in LogEntry,
           entry.term = n.current_term, entry.kind = "Config" => entry.body \in Configs,
           m.id = n.id, m.log = AppendTo(n.log, << entry >>), m.disk = m.log,
           m.role = "Leader", m.votes = n.votes, m.current_term = n.current_term,
           m.base_config = n.base_config, m.sends = {},
           Lawful(n) => Follows(m), NEW read
    PROVE  Outcome(n, m, read)
<1>1. n \in NodeRecord /\ n.log \in Log /\ n.current_term \in Nat
  BY NodeFields DEF Ready
<1>2. /\ Extended(m.log, n.log, n.current_term)
      /\ m.log.base_index = n.log.base_index
      /\ m.log.snapshot_config = n.log.snapshot_config
      /\ LawfulPiece(n.log) => LawfulPiece(m.log)
  BY <1>1, OneMore
<1>3. Stands(n, m, read)
  BY DEF Stands
<1>4. Rewrites(n, m, read)
  BY <1>2 DEF Rewrites
<1>5. Lawful(n) => Lawful(m)
  <2> SUFFICES ASSUME Lawful(n) PROVE Lawful(m)
    OBVIOUS
  <2>1. HasSnapshot(m.log) = HasSnapshot(n.log)
    BY <1>2 DEF HasSnapshot
  <2>2. LawfulLog(m.log)
    BY <1>2, <2>1 DEF Lawful, LawfulLog
  <2>3. BaseOf(m.id, m.log) = BaseOf(n.id, n.log)
    BY <1>2, <2>1 DEF BaseOf
  <2> QED BY <2>2, <2>3 DEF Lawful
<1> QED BY <1>1, <1>3, <1>4, <1>5 DEF Outcome

LEMMA ProposeOutcome ==
    ASSUME NEW n, Ready(n), n.role = "Leader", NEW command \in Value, NEW read
    PROVE  Outcome(n, Propose(n, command), read)
<1> DEFINE entry  == NormalEntry(n.current_term, command)
           log    == AppendTo(n.log, << entry >>)
           stored == Sync([n EXCEPT !.log = log])
<1>1. n \in NodeRecord /\ n.log \in Log /\ n.current_term \in Nat /\ n.sends = {}
  BY NodeFields DEF Ready
<1>2. entry \in LogEntry /\ entry.term = n.current_term /\ entry.kind # "Config"
  BY <1>1 DEF NormalEntry, LogEntry
<1> HIDE DEF entry
<1>3. << entry >> \in Seq(LogEntry) /\ \A j \in 1 .. Len(<< entry >>) : << entry >>[j] = entry
  BY <1>2
<1>4. log \in Log
  BY <1>1, <1>3, AppendToTyped
<1>5. /\ ConfigIndexAt(log, LastIndex(log)) = ConfigIndexAt(n.log, LastIndex(n.log))
      /\ ConfigAt(log, LastIndex(log), n.base_config)
            = ConfigAt(n.log, LastIndex(n.log), n.base_config)
  <2>1. \A j \in 1 .. Len(<< entry >>) : << entry >>[j].kind # "Config"
    BY <1>2, <1>3
  <2> QED BY <1>1, <1>3, <2>1, CommandsKeepConfig
<1> HIDE DEF log
<1>6. stored \in NodeRecord
  BY <1>1, <1>4, StoreTyped
<1>7. /\ stored.id = n.id /\ stored.log = log /\ stored.disk = log
      /\ stored.role = n.role /\ stored.votes = n.votes
      /\ stored.current_term = n.current_term /\ stored.base_config = n.base_config
      /\ stored.voters = n.voters /\ stored.config_index = n.config_index
      /\ stored.sends = {}
  BY <1>1, NodeNames DEF Sync, Names
<1> HIDE DEF stored
<1>8. Lawful(n) => Follows(stored)
  BY <1>5, <1>7 DEF Lawful, Follows
<1>9. Outcome(n, stored, read)
  BY <1>2, <1>6, <1>7, <1>8, StoreOutcome DEF log
<1>10. Calm(stored, AdvanceCommit(ReplicateToStreaming(stored)))
  BY <1>6, <1>7, RoundCalm
<1>11. Propose(n, command) = AdvanceCommit(ReplicateToStreaming(stored))
  BY DEF Propose, stored, log, entry
<1> QED BY <1>9, <1>10, <1>11, CalmFollows

LEMMA ChangeMembershipOutcome ==
    ASSUME NEW n, Ready(n), n.role = "Leader", NEW members \in Configs, NEW read
    PROVE  Outcome(n, ChangeMembership(n, members), read)
<1> DEFINE entry  == ConfigEntry(n.current_term, members)
           log    == AppendTo(n.log, << entry >>)
           stored == Sync([n EXCEPT !.log = log])
           adopted == [stored EXCEPT !.voters = members, !.config_index = LastIndex(log)]
           ready == RebuildProgress(adopted)
<1>1. n \in NodeRecord /\ n.log \in Log /\ n.current_term \in Nat /\ n.sends = {}
      /\ members \in SUBSET Server
  BY NodeFields DEF Ready, Configs
<1>2. entry \in LogEntry /\ entry.term = n.current_term /\ entry.kind = "Config"
      /\ entry.body = members
  BY <1>1 DEF ConfigEntry, LogEntry
<1> HIDE DEF entry
<1>3. log \in Log /\ LastIndex(log) \in Nat
  <2>1. << entry >> \in Seq(LogEntry)
    BY <1>2
  <2> QED BY <1>1, <2>1, AppendToTyped, LogFields
<1>4. /\ ConfigIndexAt(log, LastIndex(log)) = LastIndex(log)
      /\ ConfigAt(log, LastIndex(log), n.base_config) = members
  BY <1>1, <1>2, ConfigTakesEffect
<1> HIDE DEF log
<1>5. stored \in NodeRecord
  BY <1>1, <1>3, StoreTyped
<1>6. /\ stored.id = n.id /\ stored.log = log /\ stored.disk = log
      /\ stored.role = n.role /\ stored.votes = n.votes
      /\ stored.current_term = n.current_term /\ stored.base_config = n.base_config
      /\ stored.sends = {}
  BY <1>1, NodeNames DEF Sync, Names
<1> HIDE DEF stored
<1>7. adopted \in NodeRecord
  BY <1>1, <1>3, <1>5 DEF NodeRecord
<1>8. /\ adopted.id = n.id /\ adopted.log = log /\ adopted.disk = log
      /\ adopted.role = n.role /\ adopted.votes = n.votes
      /\ adopted.current_term = n.current_term /\ adopted.base_config = n.base_config
      /\ adopted.voters = members /\ adopted.config_index = LastIndex(log)
      /\ adopted.sends = {}
  BY <1>5, <1>6, NodeNames DEF Names
<1> HIDE DEF adopted
<1>9. Follows(adopted)
  BY <1>4, <1>8 DEF Follows
<1>10. Outcome(n, adopted, read)
  BY <1>2, <1>7, <1>8, <1>9, StoreOutcome DEF log
<1>11. ready \in NodeRecord /\ Calm(adopted, ready) /\ ready.role = "Leader"
  BY <1>7, <1>8, NodeNames, RebuildProgressTyped, RebuildProgressCalm
     DEF RebuildProgress, Names
<1> HIDE DEF ready
<1>12. Calm(adopted, AdvanceCommit(ReplicateToAll(ready)))
  BY <1>11, RoundCalm, CalmTransitive
<1>13. ChangeMembership(n, members) \in {n, AdvanceCommit(ReplicateToAll(ready))}
  <2>1. SetConfig(stored, members, LastIndex(stored.log)) = ready
    BY <1>6, <1>8 DEF SetConfig, adopted, ready
  <2> QED BY <2>1 DEF ChangeMembership, stored, log, entry
<1>14. Outcome(n, n, read)
  BY <1>1, CalmReflexive, CalmIsOutcome
<1> QED BY <1>10, <1>12, <1>13, <1>14, CalmFollows

(* The configuration read back from the log is the one to follow.           *)
LEMMA RefreshConfigFollows ==
    ASSUME NEW n \in NodeRecord
    PROVE  \E a \in NodeRecord :
                /\ a.id = n.id /\ a.log = n.log /\ a.disk = n.disk /\ a.role = n.role
                /\ a.votes = n.votes /\ a.current_term = n.current_term
                /\ a.voted_for = n.voted_for /\ a.base_config = n.base_config
                /\ a.sends = n.sends
                /\ Follows(a)
                /\ Calm(a, RefreshConfig(n))
<1> DEFINE last   == LastIndex(n.log)
           voters == ConfigAt(n.log, last, n.base_config)
           index  == ConfigIndexAt(n.log, last)
           a == [n EXCEPT !.voters = voters, !.config_index = index]
<1>1. voters \in SUBSET Server /\ index \in Nat
  BY NodeFields, LogFields, ConfigTyped
<1> HIDE DEF voters, index
<1>2. a \in NodeRecord
  BY <1>1 DEF NodeRecord
<1>3. /\ a.id = n.id /\ a.log = n.log /\ a.disk = n.disk /\ a.role = n.role
      /\ a.votes = n.votes /\ a.current_term = n.current_term
      /\ a.voted_for = n.voted_for /\ a.base_config = n.base_config
      /\ a.sends = n.sends /\ a.voters = voters /\ a.config_index = index
  BY NodeNames DEF Names
<1> HIDE DEF a
<1>4. Follows(a)
  BY <1>3 DEF Follows, voters, index
<1>5. RefreshConfig(n) \in {a, RebuildProgress(a)}
  BY DEF RefreshConfig, SetConfig, a, voters, index
<1> QED BY <1>2, <1>3, <1>4, <1>5, RebuildProgressCalm, CalmReflexive

(* A snapshot taken or installed: the log from there on, or the boundary    *)
(* alone.                                                                   *)
LEMMA SnapshotApplied ==
    ASSUME NEW log \in Log, NEW snap \in Snapshot, snap.index > log.base_index
    PROVE  LET a == ApplySnapshot(log, snap)
           IN  /\ a \in Log
               /\ a.base_index = snap.index /\ a.base_term = snap.term
               /\ a.snapshot_config = snap.config
               /\ \/ /\ TermAt(log, snap.index) = snap.term
                     /\ Part(a, log) /\ LastIndex(a) = LastIndex(log)
                  \/ /\ TermAt(log, snap.index) # snap.term
                     /\ a.entries = << >>
<1> DEFINE a == ApplySnapshot(log, snap)
           from == snap.index - log.base_index + 1
<1>1. /\ snap.index \in Nat /\ snap.term \in Nat /\ log.base_index \in Nat
      /\ log.entries \in Seq(LogEntry) /\ Len(log.entries) \in Nat
      /\ LastIndex(log) = log.base_index + Len(log.entries)
  BY LogFields DEF Snapshot
<1>2. a \in Log
  BY ApplySnapshotTyped
<1>3. ~ (snap.index <= log.base_index)
  BY <1>1
<1>4. /\ a.base_index = snap.index /\ a.base_term = snap.term
      /\ a.snapshot_config = snap.config
      /\ a.entries = IF TermAt(log, snap.index) = snap.term
                     THEN SubSeq(log.entries, from, Len(log.entries)) ELSE << >>
  BY <1>1, <1>3 DEF ApplySnapshot, Log
<1> HIDE DEF a
<1>5. ASSUME TermAt(log, snap.index) = snap.term
      PROVE  Part(a, log) /\ LastIndex(a) = LastIndex(log)
  <2>1. snap.index \in Span(log) /\ snap.index <= LastIndex(log)
    BY <1>1, <1>5, TermTyped DEF Span
  <2>2. from \in Int /\ 1 <= from /\ from <= Len(log.entries) + 1
    BY <1>1, <1>3, <2>1
  <2>3. \A i \in from .. Len(log.entries) : log.entries[i] \in LogEntry
    BY <1>1, <2>2, ElementOfSeq
  <2> HIDE DEF from
  <2>4. /\ Len(a.entries) = IF from <= Len(log.entries)
                            THEN Len(log.entries) - from + 1 ELSE 0
        /\ \A i \in 1 .. Len(log.entries) - from + 1 :
                a.entries[i] = log.entries[from + i - 1]
    BY <1>1, <1>4, <1>5, <2>2, <2>3, SubSeqProperties
  <2>5. Len(a.entries) = Len(log.entries) - from + 1
    BY <1>1, <2>2, <2>4
  <2>6. LastIndex(a) = LastIndex(log)
    <3>1. LastIndex(a) = snap.index + Len(a.entries)
      BY <1>4 DEF LastIndex
    <3>2. \A x, y, z \in Int : x + (z - (x - y + 1) + 1) = y + z
      OBVIOUS
    <3> QED BY <1>1, <2>5, <3>1, <3>2 DEF from
  <2>7. ASSUME NEW i \in 1 .. Len(a.entries)
        PROVE  a.entries[i] = log.entries[a.base_index - log.base_index + i]
    <3>1. from + i - 1 = snap.index - log.base_index + i
      <4>1. \A x, y, z \in Int : (x - y + 1) + z - 1 = x - y + z
        OBVIOUS
      <4> QED BY <1>1, <4>1 DEF from
    <3> QED BY <1>4, <2>4, <2>5, <3>1
  <2>8. a.base_index \in Span(log) /\ a.base_term = TermAt(log, a.base_index)
    BY <1>4, <1>5, <2>1
  <2>9. LastIndex(a) <= LastIndex(log) /\ IsPiece(a) /\ IsPiece(log)
    BY <1>1, <1>2, <2>6, LogIsPiece
  <2>10. Part(a, log)
    BY <2>7, <2>8, <2>9, WindowIsPart
  <2> QED BY <2>6, <2>10
<1> QED BY <1>2, <1>4, <1>5 DEF a

(* A boundary with nothing behind it has no configuration entry. *)
LEMMA BareIsLawful ==
    ASSUME NEW a, IsPiece(a), a.entries = << >>
    PROVE  LawfulPiece(a) /\ Span(a) = {a.base_index} /\ LastIndex(a) = a.base_index
<1>1. LastIndex(a) = a.base_index /\ a.base_index \in Nat
  BY PieceFields, EmptySeq DEF IsPiece, LastIndex
<1> QED BY <1>1 DEF LawfulPiece, HasEntry, Span

(* The snapshot of an application that answered a hint. *)
LEMMA HandleSnapshotEventOutcome ==
    ASSUME NEW n, Ready(n), NEW index \in Nat, NEW read
    PROVE  Outcome(n, HandleSnapshotEvent(n, index), read)
<1> DEFINE refused == \/ index > n.commit_index
                      \/ index > n.last_applied
                      \/ index <= n.log.base_index
                      \/ TermAt(n.log, index) = NoTerm
           config == ConfigAt(n.log, index, n.base_config)
           data   == {a \in n.app : a.index <= index}
           snap   == [index |-> index, term |-> TermAt(n.log, index),
                      config |-> config, data |-> data]
           at     == Larger(n.snapshot_hinted_at, index)
           log    == ApplySnapshot(n.log, snap)
           compacted == [n EXCEPT !.base_config = config, !.log = log,
                                  !.snapshot_hinted_at = at]
           synced == Sync(compacted)
<1>1. n \in NodeRecord /\ n.log \in Log /\ n.sends = {} /\ n.disk = n.log
      /\ n.current_term \in Nat
  BY NodeFields DEF Ready
<1>2. CASE refused
  BY <1>1, <1>2, CalmReflexive, CalmIsOutcome DEF HandleSnapshotEvent
<1>3. CASE ~ refused
  <2>1. TermAt(n.log, index) \in Nat /\ index > n.log.base_index
    BY <1>1, <1>3, LogFields, TermTyped
  <2>2. config \in SUBSET Server
    BY <1>1, NodeFields, ConfigTyped
  <2>3. data \in SUBSET Applied
    BY <1>1, NodeFields
  <2>4. at \in Nat
    BY <1>1, NodeFields, SmallerLarger
  <2>5. Lawful(n) => config \in Configs
    BY <1>1, ConfigIsLawful DEF Lawful, LawfulLog
  <2> HIDE DEF config, data, at
  <2>6. snap \in Snapshot
    BY <2>1, <2>2, <2>3 DEF Snapshot
  <2>7. /\ log \in Log /\ log.base_index = index /\ log.snapshot_config = config
        /\ Part(log, n.log) /\ LastIndex(log) = LastIndex(n.log)
    BY <1>1, <2>1, <2>6, SnapshotApplied
  <2> HIDE DEF snap, log
  <2>8. compacted \in NodeRecord
    BY <1>1, <2>2, <2>4, <2>7 DEF NodeRecord
  <2>9. /\ compacted.id = n.id /\ compacted.log = log
        /\ compacted.role = n.role /\ compacted.votes = n.votes
        /\ compacted.current_term = n.current_term
        /\ compacted.base_config = config /\ compacted.sends = {}
    BY <1>1, NodeNames DEF Names
  <2> HIDE DEF compacted
  <2>10. synced \in NodeRecord
    BY <2>8, SyncTyped
  <2>11. /\ synced.id = n.id /\ synced.log = log /\ synced.disk = log
         /\ synced.role = n.role /\ synced.votes = n.votes
         /\ synced.current_term = n.current_term
         /\ synced.base_config = config /\ synced.sends = {}
    BY <2>8, <2>9, NodeNames DEF Sync, Names
  <2> HIDE DEF synced
  <2>12. PICK a \in NodeRecord :
            /\ a.id = synced.id /\ a.log = synced.log /\ a.disk = synced.disk
            /\ a.role = synced.role
            /\ a.votes = synced.votes /\ a.current_term = synced.current_term
            /\ a.voted_for = synced.voted_for /\ a.base_config = synced.base_config
            /\ a.sends = synced.sends
            /\ Follows(a)
            /\ Calm(a, RefreshConfig(synced))
    BY <2>10, RefreshConfigFollows
  <2>13. Stands(n, a, read)
    BY <2>11, <2>12 DEF Stands
  <2>14. Rewrites(n, a, read)
    BY <2>7, <2>11, <2>12 DEF Rewrites
  <2>15. Lawful(n) => Lawful(a)
    <3> SUFFICES ASSUME Lawful(n) PROVE Lawful(a)
      OBVIOUS
    <3>1. HasSnapshot(log)
      BY <1>1, <2>1, <2>7, LogFields DEF HasSnapshot
    <3>2. LawfulPiece(log)
      BY <1>1, <2>7, LogIsPiece, PartIsLawful DEF Lawful, LawfulLog
    <3>3. {} \notin Configs => BaseOf(n.id, log) = config
      BY <2>5, <2>7, <3>1 DEF BaseOf
    <3> QED BY <2>5, <2>7, <2>11, <2>12, <3>1, <3>2, <3>3 DEF Lawful, LawfulLog
  <2>16. Outcome(n, a, read)
    BY <1>1, <2>11, <2>12, <2>13, <2>14, <2>15 DEF Outcome
  <2>17. HandleSnapshotEvent(n, index) = RefreshConfig(synced)
    BY <1>3 DEF HandleSnapshotEvent, synced, compacted, log, at, snap, data, config
  <2> QED BY <2>12, <2>16, <2>17, CalmFollows
<1> QED BY <1>2, <1>3

-----------------------------------------------------------------------------
(* Replication on the follower. *)

(* What a batch carries is a piece. *)
LEMMA CarriedIsPiece ==
    ASSUME NEW m \in Message, Replicates(m)
    PROVE  /\ IsPiece(Carried(m))
           /\ m.kind = "AppendEntries" =>
                /\ Carried(m).base_index = m.prev_log_index
                /\ Carried(m).base_term = m.prev_log_term
                /\ Carried(m).entries = m.entries
           /\ m.kind = "InstallSnapshot" =>
                /\ Carried(m).base_index = m.snapshot.index
                /\ Carried(m).base_term = m.snapshot.term
                /\ Carried(m).entries = << >>
<1>1. CASE m.kind = "AppendEntries"
  BY <1>1, AppendEntriesFields DEF Carried, IsPiece
<1>2. CASE m.kind = "InstallSnapshot"
  <2>1. m.snapshot.index \in Nat /\ m.snapshot.term \in Nat
    BY <1>2, InstallSnapshotFields DEF Snapshot
  <2> QED BY <1>2, <2>1, EmptySeq DEF Carried, IsPiece
<1> QED BY <1>1, <1>2 DEF Replicates

(* The log agrees with the matching prefix of a batch on the terms. *)
LEMMA MatchingPrefixHolds ==
    ASSUME NEW n \in NodeRecord, NEW m \in Message, m.kind = "AppendEntries"
    PROVE  \A j \in 1 .. MatchingPrefix(n, m) :
                TermAt(n.log, m.prev_log_index + j) = m.entries[j].term
<1> DEFINE S == {k \in 0 .. Len(m.entries) :
                    \A j \in 1 .. k :
                        TermAt(n.log, m.prev_log_index + j) = m.entries[j].term}
<1>1. Len(m.entries) \in Nat
  BY AppendEntriesFields
<1>2. 0 \in S /\ S \subseteq 0 .. Len(m.entries)
  BY <1>1
<1>3. \A k \in S : \A j \in 1 .. k :
            TermAt(n.log, m.prev_log_index + j) = m.entries[j].term
  OBVIOUS
<1> HIDE DEF S
<1>4. S \subseteq Int /\ S # {} /\ Len(m.entries) \in Int
      /\ \A k \in S : k <= Len(m.entries)
  BY <1>1, <1>2
<1>5. Max(S) \in S
  BY <1>4, MaxExists, Zenon
<1>6. MatchingPrefix(n, m) \in S
  BY <1>5 DEF MatchingPrefix, S
<1> QED BY <1>3, <1>6

(* It is the longest one: the next entry of the batch is not in the log.    *)
LEMMA MatchingPrefixEnds ==
    ASSUME NEW n \in NodeRecord, NEW m \in Message, m.kind = "AppendEntries",
           MatchingPrefix(n, m) < Len(m.entries)
    PROVE  TermAt(n.log, m.prev_log_index + (MatchingPrefix(n, m) + 1))
                # m.entries[MatchingPrefix(n, m) + 1].term
<1> DEFINE S == {k \in 0 .. Len(m.entries) :
                    \A j \in 1 .. k :
                        TermAt(n.log, m.prev_log_index + j) = m.entries[j].term}
           l == MatchingPrefix(n, m)
<1>1. Len(m.entries) \in Nat
  BY AppendEntriesFields
<1>2. l \in S /\ \A k \in S : k <= l
  <2>1. S \subseteq Int /\ \A k \in S : k <= Len(m.entries)
    BY <1>1
  <2>2. 0 \in S
    BY <1>1
  <2>3. l = Max(S)
    BY DEF MatchingPrefix
  <2> HIDE DEF S, l
  <2>4. S # {} /\ Len(m.entries) \in Int
    BY <1>1, <2>2
  <2>5. Max(S) \in S /\ \A k \in S : k <= Max(S)
    BY <2>1, <2>4, MaxExists, Zenon
  <2> QED BY <2>3, <2>5
<1>3. l \in Nat /\ l + 1 \in 0 .. Len(m.entries)
  BY <1>1, MatchingPrefixTyped
<1>4. \A j \in 1 .. l : TermAt(n.log, m.prev_log_index + j) = m.entries[j].term
  BY MatchingPrefixHolds
<1> SUFFICES ASSUME TermAt(n.log, m.prev_log_index + (l + 1)) = m.entries[l + 1].term
             PROVE  FALSE
  OBVIOUS
<1> HIDE DEF l
<1>5. \A j \in 1 .. l + 1 : j \in 1 .. l \/ j = l + 1
  BY <1>3
<1>6. l + 1 \in S
  BY <1>3, <1>4, <1>5
<1> QED BY <1>2, <1>3, <1>6

(* The entries of a spliced piece are those of the two. *)
LEMMA SpliceIsLawful ==
    ASSUME NEW a, NEW f, NEW c, IsPiece(a), IsPiece(f), IsPiece(c),
           Spliced(c, a, f), LawfulPiece(a), LawfulPiece(f)
    PROVE  LawfulPiece(c)
<1>1. PICK j \in Span(a) \cap Span(f) :
        /\ a.base_index <= f.base_index
        /\ c.base_index = a.base_index
        /\ LastIndex(c) = LastIndex(f)
        /\ \A i \in Span(c) : IF i <= j THEN Same(c, a, i) ELSE Same(c, f, i)
  BY DEF Spliced
<1>2. /\ a.base_index \in Nat /\ f.base_index \in Nat /\ c.base_index \in Nat
      /\ LastIndex(a) \in Nat /\ LastIndex(f) \in Nat /\ LastIndex(c) \in Nat
      /\ a.base_index <= j /\ j <= LastIndex(a)
      /\ f.base_index <= j /\ j <= LastIndex(f) /\ j \in Nat
  BY PieceFields DEF Span
<1> SUFFICES ASSUME NEW k, HasEntry(c, k), EntryAt(c, k).kind = "Config"
             PROVE  EntryAt(c, k).body \in Configs
  BY DEF LawfulPiece, HasEntry
<1>3. k \in Span(c) /\ k \in Nat
  BY PieceFields
<1>4. CASE k <= j
  <2>1. HasEntry(a, k) /\ Same(c, a, k)
    BY <1>1, <1>2, <1>3, <1>4 DEF HasEntry
  <2> QED BY <2>1 DEF Same, LawfulPiece, HasEntry
<1>5. CASE k > j
  <2>1. HasEntry(f, k) /\ Same(c, f, k)
    BY <1>1, <1>2, <1>3, <1>5 DEF HasEntry
  <2> QED BY <2>1 DEF Same, LawfulPiece, HasEntry
<1> QED BY <1>2, <1>3, <1>4, <1>5

(* Where the batch and the log part ways, or the log ends. *)
LEMMA ForkPoint ==
    ASSUME NEW n \in NodeRecord, NEW m \in Message, m.kind = "AppendEntries",
           m.prev_log_index >= n.log.base_index, PrevOk(n, m),
           MatchingPrefix(n, m) # Len(m.entries)
    PROVE  LET j    == m.prev_log_index + MatchingPrefix(n, m)
               kept == IF Diverges(n, m) THEN Truncate(n.log, j + 1) ELSE n.log
           IN  /\ j \in Span(n.log) /\ j \in Span(Carried(m))
               /\ TermAt(n.log, j) = TermAt(Carried(m), j)
               /\ kept \in Log /\ Part(kept, n.log) /\ LastIndex(kept) = j
               /\ kept.base_index = n.log.base_index
               /\ kept.snapshot_config = n.log.snapshot_config
               /\ ~ Diverges(n, m) => kept = n.log
               /\ \A new : LastIndex(new) \in Int /\ LastIndex(new) >= j
                        => Spares(new, n.log, m)
<1> DEFINE matched == MatchingPrefix(n, m)
           j    == m.prev_log_index + matched
           kept == IF Diverges(n, m) THEN Truncate(n.log, j + 1) ELSE n.log
           f    == Carried(m)
<1>1. /\ matched \in Nat /\ matched <= Len(m.entries) /\ Len(m.entries) \in Nat
      /\ m.prev_log_index \in Nat /\ m.prev_log_term \in Nat
      /\ m.entries \in Seq(LogEntry)
      /\ n.log \in Log /\ n.log.base_index \in Nat /\ LastIndex(n.log) \in Nat
  BY MatchingPrefixTyped, AppendEntriesFields, NodeFields, LogFields
<1>2. \A i \in 1 .. matched :
            TermAt(n.log, m.prev_log_index + i) = m.entries[i].term
  BY MatchingPrefixHolds
<1>0. matched < Len(m.entries)
  BY <1>1
<1>3. Diverges(n, m) <=> j + 1 <= LastIndex(n.log)
  BY <1>0 DEF Diverges
<1>30. TermAt(n.log, m.prev_log_index + (matched + 1)) # m.entries[matched + 1].term
  BY <1>0, MatchingPrefixEnds
<1> HIDE DEF matched
<1>4. /\ f.base_index = m.prev_log_index /\ f.base_term = m.prev_log_term
      /\ f.entries = m.entries /\ IsPiece(f)
  BY CarriedIsPiece DEF Replicates
<1> HIDE DEF f
<1>5. LastIndex(f) = m.prev_log_index + Len(m.entries)
  BY <1>4 DEF LastIndex
<1>6. j \in Span(f) /\ j \in Nat
  BY <1>1, <1>4, <1>5 DEF Span
<1>7. TermAt(n.log, j) = TermAt(f, j)
  <2>1. CASE matched = 0
    <3>1. j = m.prev_log_index
      BY <1>1, <2>1
    <3> QED BY <1>4, <3>1 DEF PrevOk, TermAt
  <2>2. CASE matched # 0
    <3>1. matched \in 1 .. matched /\ j # f.base_index
      BY <1>1, <1>4, <2>2
    <3>2. HasEntry(f, j)
      BY <1>1, <1>4, <1>5, <2>2 DEF HasEntry
    <3>3. EntryAt(f, j) = m.entries[matched]
      <4>1. j - m.prev_log_index = matched
        BY <1>1
      <4> QED BY <1>4, <4>1 DEF EntryAt
    <3> QED BY <1>2, <3>1, <3>2, <3>3 DEF TermAt
  <2> QED BY <2>1, <2>2
<1>8. j \in Span(n.log)
  <2>1. TermAt(f, j) \in Nat
    BY <1>4, <1>6, PieceFields
  <2> QED BY <1>1, <1>6, <1>7, <2>1, TermTyped
<1>31. TermAt(n.log, j + 1) # TermAt(f, j + 1)
  <2>1. j + 1 = m.prev_log_index + (matched + 1)
    BY <1>1
  <2>2. EntryAt(f, j + 1) = m.entries[matched + 1]
    <3>1. (j + 1) - m.prev_log_index = matched + 1
      BY <1>1
    <3> QED BY <1>4, <3>1 DEF EntryAt
  <2>3. HasEntry(f, j + 1) /\ j + 1 # f.base_index
    BY <1>0, <1>1, <1>4, <1>5 DEF HasEntry
  <2>4. TermAt(f, j + 1) = m.entries[matched + 1].term
    BY <2>2, <2>3 DEF TermAt
  <2> QED BY <1>30, <2>1, <2>4
<1>32. j + 1 \in Span(f)
  BY <1>0, <1>1, <1>4, <1>5 DEF Span
<1> HIDE DEF j
<1>9. n.log.base_index <= j /\ j <= LastIndex(n.log) /\ j \in Nat
  BY <1>1, <1>6, <1>8 DEF Span
<1>33. ASSUME NEW new, LastIndex(new) \in Int, LastIndex(new) >= j
       PROVE  Spares(new, n.log, m)
  <2>1. CASE Diverges(n, m)
    <3>1. j + 1 \in Span(n.log)
      BY <1>1, <1>3, <1>9, <2>1 DEF j, Span
    <3>2. j + 1 <= LastIndex(new) + 1
      BY <1>9, <1>33
    <3> QED BY <1>31, <1>32, <3>1, <3>2 DEF Spares, f
  <2>2. CASE ~ Diverges(n, m)
    <3>1. j = LastIndex(n.log)
      BY <1>1, <1>3, <1>9, <2>2 DEF j
    <3> QED BY <1>33, <3>1 DEF Spares
  <2> QED BY <2>1, <2>2
<1>10. CASE Diverges(n, m)
  <2>1. j + 1 \in n.log.base_index + 1 .. LastIndex(n.log) + 1 /\ (j + 1) - 1 = j
    BY <1>1, <1>9
  <2>2. kept = Truncate(n.log, j + 1)
    BY <1>10
  <2> HIDE DEF kept
  <2>3. kept \in Log /\ Part(kept, n.log) /\ LastIndex(kept) = j
        /\ kept.base_index = n.log.base_index
        /\ kept.snapshot_config = n.log.snapshot_config
    BY <1>1, <2>1, <2>2, Truncated
  <2> QED BY <1>6, <1>7, <1>8, <1>10, <1>33, <2>3 DEF kept, j, f, matched
<1>11. CASE ~ Diverges(n, m)
  <2>1. kept = n.log /\ j = LastIndex(n.log)
    BY <1>1, <1>3, <1>9, <1>11 DEF j
  <2>2. Part(kept, n.log)
    BY <1>1, <2>1, LogIsPiece, PartReflexive
  <2> HIDE DEF kept
  <2> QED BY <1>1, <1>6, <1>7, <1>8, <1>11, <1>33, <2>1, <2>2 DEF kept, j, f, matched
<1> QED BY <1>10, <1>11

(* What a sequence holds beyond its first k elements. *)
LEMMA TailOf ==
    ASSUME NEW s \in Seq(LogEntry), NEW k \in Nat, k < Len(s)
    PROVE  LET t == SubSeq(s, k + 1, Len(s))
           IN  /\ t \in Seq(LogEntry) /\ t # << >> /\ Len(t) = Len(s) - k
               /\ \A i \in 1 .. Len(t) : k + i \in 1 .. Len(s) /\ t[i] = s[k + i]
<1> DEFINE t == SubSeq(s, k + 1, Len(s))
<1>1. Len(s) \in Nat
  BY LenProperties
<1>2. \A i \in k + 1 .. Len(s) : s[i] \in LogEntry
  BY <1>1, ElementOfSeq
<1>3. /\ t \in Seq(LogEntry)
      /\ Len(t) = IF k + 1 <= Len(s) THEN Len(s) - (k + 1) + 1 ELSE 0
      /\ \A i \in 1 .. Len(s) - (k + 1) + 1 : t[i] = s[(k + 1) + i - 1]
  BY <1>1, <1>2, SubSeqProperties
<1> HIDE DEF t
<1>4. Len(t) = Len(s) - k
  BY <1>1, <1>3
<1>5. ASSUME NEW i \in 1 .. Len(t) PROVE k + i \in 1 .. Len(s) /\ t[i] = s[k + i]
  <2>1. i \in 1 .. Len(s) - (k + 1) + 1 /\ (k + 1) + i - 1 = k + i
    BY <1>1, <1>4
  <2> QED BY <1>1, <1>3, <1>4, <2>1
<1>6. t # << >>
  <2>1. Len(t) # 0
    BY <1>1, <1>4
  <2> QED BY <2>1, EmptySeq
<1> QED BY <1>3, <1>4, <1>5, <1>6 DEF t

(* A log cut at an index of f, with what f holds beyond. *)
LEMMA TailIsSpliced ==
    ASSUME NEW old \in Log, NEW f, IsPiece(f), NEW k \in Nat, k < Len(f.entries),
           NEW j, j = f.base_index + k, old.base_index <= f.base_index,
           j \in Span(old), j \in Span(f), TermAt(old, j) = TermAt(f, j),
           NEW kept \in Log, Part(kept, old), LastIndex(kept) = j,
           kept.base_index = old.base_index
    PROVE  Spliced(AppendTo(kept, SubSeq(f.entries, k + 1, Len(f.entries))), old, f)
<1> DEFINE t == SubSeq(f.entries, k + 1, Len(f.entries))
           s == AppendTo(kept, t)
<1>1. /\ f.base_index \in Nat /\ Len(f.entries) \in Nat /\ old.base_index \in Nat
      /\ LastIndex(f) = f.base_index + Len(f.entries) /\ f.entries \in Seq(LogEntry)
      /\ j \in Nat
  BY PieceFields, LogFields DEF IsPiece
<1>2. /\ t \in Seq(LogEntry) /\ Len(t) = Len(f.entries) - k
      /\ \A i \in 1 .. Len(t) : t[i] = f.entries[k + i]
  BY <1>1, TailOf
<1> HIDE DEF t
<1>3. /\ s \in Log /\ s.base_index = old.base_index
      /\ LastIndex(s) = LastIndex(kept) + Len(t)
      /\ \A i \in Span(kept) : Same(s, kept, i)
      /\ \A i \in 1 .. Len(t) :
            /\ HasEntry(s, LastIndex(kept) + i)
            /\ EntryAt(s, LastIndex(kept) + i) = t[i]
            /\ TermAt(s, LastIndex(kept) + i) = t[i].term
  BY <1>2, Appended
<1> HIDE DEF s
<1>4. LastIndex(s) = LastIndex(f)
  <2> DEFINE b == f.base_index
             l == Len(f.entries)
  <2>1. b \in Nat /\ l \in Nat
    BY <1>1
  <2>2. LastIndex(s) = (b + k) + (l - k) /\ LastIndex(f) = b + l
    BY <1>1, <1>2, <1>3
  <2> HIDE DEF b, l
  <2>3. (b + k) + (l - k) = b + l
    BY <2>1
  <2> QED BY <2>2, <2>3
<1>5. \A i \in Span(s) : i \in Int /\ old.base_index <= i /\ i <= LastIndex(f)
  BY <1>1, <1>3, <1>4 DEF Span
<1>6. ASSUME NEW i \in Span(s), i <= j PROVE Same(s, old, i)
  <2>1. i \in Span(kept)
    BY <1>1, <1>5, <1>6 DEF Span
  <2>2. Same(s, kept, i) /\ Same(kept, old, i)
    BY <1>3, <2>1 DEF Part
  <2>3. HasEntry(s, i) => HasEntry(kept, i)
    BY <1>1, <1>3, <1>5, <1>6 DEF HasEntry
  <2> QED BY <2>2, <2>3 DEF Same
<1>7. ASSUME NEW i \in Span(s), ~ (i <= j) PROVE Same(s, f, i)
  <2>1. i - j \in 1 .. Len(t) /\ i = j + (i - j)
    BY <1>1, <1>2, <1>5, <1>7, SMTT(60)
  <2>2. /\ EntryAt(s, i) = f.entries[k + (i - j)]
        /\ TermAt(s, i) = f.entries[k + (i - j)].term
    BY <1>2, <1>3, <2>1
  <2>3. i - f.base_index = k + (i - j)
    BY <1>1, <1>5
  <2>4. EntryAt(f, i) = f.entries[k + (i - j)]
    BY <2>3 DEF EntryAt
  <2>5. HasEntry(f, i) /\ i # f.base_index
    BY <1>1, <1>5, <1>7 DEF HasEntry
  <2> QED BY <2>2, <2>4, <2>5 DEF Same, TermAt
<1> QED BY <1>3, <1>4, <1>6, <1>7 DEF Spliced, s, t

(* The batch goes into the log at hand and is not all there already. *)
Adds(n, m) ==
    /\ m.prev_log_index >= n.log.base_index
    /\ PrevOk(n, m)
    /\ MatchingPrefix(n, m) # Len(m.entries)

(* What append_from_leader keeps of the log, and what it adds. *)
KeptLog(n, m) ==
    IF Diverges(n, m) THEN Truncate(n.log, m.prev_log_index + MatchingPrefix(n, m) + 1)
                      ELSE n.log

Missing(n, m) == SubSeq(m.entries, MatchingPrefix(n, m) + 1, Len(m.entries))

(* The log up to the fork and the batch from there on. *)
LEMMA StoredIsSpliced ==
    ASSUME NEW n \in NodeRecord, NEW m \in Message, m.kind = "AppendEntries", Adds(n, m)
    PROVE  LET s == AppendTo(KeptLog(n, m), Missing(n, m))
           IN  /\ s \in Log /\ Spliced(s, n.log, Carried(m))
               /\ s.base_index = n.log.base_index
               /\ s.snapshot_config = n.log.snapshot_config
               /\ Spares(s, n.log, m)
               /\ Missing(n, m) \in Seq(LogEntry) /\ Missing(n, m) # << >>
               /\ \A i \in 1 .. Len(Missing(n, m)) :
                        \E l \in DOMAIN m.entries : Missing(n, m)[i] = m.entries[l]
<1> DEFINE matched == MatchingPrefix(n, m)
           j == m.prev_log_index + matched
           f == Carried(m)
           kept == KeptLog(n, m)
           missing == Missing(n, m)
<1>1. /\ j \in Span(n.log) /\ j \in Span(f)
      /\ TermAt(n.log, j) = TermAt(f, j)
      /\ kept \in Log /\ Part(kept, n.log) /\ LastIndex(kept) = j
      /\ kept.base_index = n.log.base_index
      /\ kept.snapshot_config = n.log.snapshot_config
      /\ \A new : LastIndex(new) \in Int /\ LastIndex(new) >= j => Spares(new, n.log, m)
  BY ForkPoint DEF Adds, KeptLog
<1>2. /\ matched \in Nat /\ matched < Len(m.entries)
      /\ m.entries \in Seq(LogEntry) /\ n.log \in Log
      /\ DOMAIN m.entries = 1 .. Len(m.entries)
      /\ n.log.base_index <= m.prev_log_index
  <2>1. matched \in 0 .. Len(m.entries) /\ Len(m.entries) \in Nat
        /\ m.entries \in Seq(LogEntry) /\ n.log \in Log
        /\ m.prev_log_index \in Nat /\ n.log.base_index \in Nat
    BY MatchingPrefixTyped, AppendEntriesFields, NodeFields, LogFields
  <2> QED BY <2>1, LenProperties DEF Adds
<1>3. f.base_index = m.prev_log_index /\ f.entries = m.entries /\ IsPiece(f)
  BY CarriedIsPiece DEF Replicates
<1>4. missing = SubSeq(m.entries, matched + 1, Len(m.entries))
  BY DEF Missing
<1> HIDE DEF matched, kept, missing
<1>5. j = f.base_index + matched /\ n.log.base_index <= f.base_index
  BY <1>2, <1>3
<1> HIDE DEF f, j
<1>6. Spliced(AppendTo(kept, missing), n.log, f)
  <2>1. matched < Len(f.entries)
    BY <1>2, <1>3
  <2>2. Spliced(AppendTo(kept, SubSeq(f.entries, matched + 1, Len(f.entries))),
                n.log, f)
    BY <1>1, <1>2, <1>3, <1>5, <2>1, TailIsSpliced
  <2> QED BY <1>3, <1>4, <2>2
<1>7. /\ missing \in Seq(LogEntry) /\ missing # << >>
      /\ \A i \in 1 .. Len(missing) :
            matched + i \in 1 .. Len(m.entries) /\ missing[i] = m.entries[matched + i]
  <2> DEFINE t == SubSeq(m.entries, matched + 1, Len(m.entries))
  <2>1. /\ t \in Seq(LogEntry) /\ t # << >>
        /\ \A i \in 1 .. Len(t) :
            matched + i \in 1 .. Len(m.entries) /\ t[i] = m.entries[matched + i]
    BY <1>2, TailOf
  <2>2. missing = t
    BY <1>4
  <2> HIDE DEF t
  <2> QED BY <2>1, <2>2
<1>8. LET s == AppendTo(kept, missing)
      IN  /\ s \in Log /\ s.base_index = kept.base_index
          /\ s.snapshot_config = kept.snapshot_config
  BY <1>1, <1>7, Appended
<1>9. \A i \in 1 .. Len(missing) : \E l \in DOMAIN m.entries : missing[i] = m.entries[l]
  BY <1>2, <1>7
<1>10. Spares(AppendTo(kept, missing), n.log, m)
  <2>1. LastIndex(AppendTo(kept, missing)) = LastIndex(f)
    BY <1>6 DEF Spliced
  <2>2. LastIndex(f) \in Nat /\ LastIndex(f) >= j
    BY <1>1, <1>3, PieceFields DEF Span
  <2> QED BY <1>1, <2>1, <2>2
<1> QED BY <1>1, <1>6, <1>7, <1>8, <1>9, <1>10 DEF f, kept, missing

(* append_from_leader: nothing to add, or the spliced log made durable. *)
LEMMA AppendFromLeaderSplices ==
    ASSUME NEW n, Ready(n), NEW m \in Message, m.kind = "AppendEntries",
           m.prev_log_index >= n.log.base_index, PrevOk(n, m)
    PROVE  LET a == AppendFromLeader(n, m)
           IN  \/ a = n
               \/ /\ a \in NodeRecord
                  /\ a.disk = a.log
                  /\ a.id = n.id /\ a.role = n.role /\ a.votes = n.votes
                  /\ a.current_term = n.current_term /\ a.base_config = n.base_config
                  /\ a.voters = n.voters /\ a.config_index = n.config_index
                  /\ a.sends = {}
                  /\ Adds(n, m) /\ a.log = AppendTo(KeptLog(n, m), Missing(n, m))
                  /\ Spliced(a.log, n.log, Carried(m)) /\ Spares(a.log, n.log, m)
                  /\ a.log.base_index = n.log.base_index
                  /\ a.log.snapshot_config = n.log.snapshot_config
                  /\ ~ Diverges(n, m) /\ ~ CarriesConfig(m) =>
                        /\ ConfigIndexAt(a.log, LastIndex(a.log))
                                = ConfigIndexAt(n.log, LastIndex(n.log))
                        /\ ConfigAt(a.log, LastIndex(a.log), n.base_config)
                                = ConfigAt(n.log, LastIndex(n.log), n.base_config)
<1> DEFINE kept == KeptLog(n, m)
           missing == Missing(n, m)
           s == AppendTo(kept, missing)
           a == Sync([n EXCEPT !.log = s])
<1>1. n \in NodeRecord /\ n.log \in Log /\ n.sends = {}
  BY NodeFields DEF Ready
<1>2. AppendFromLeader(n, m) = IF missing = << >> THEN n ELSE a
  BY DEF AppendFromLeader, KeptLog, Missing
<1>3. CASE MatchingPrefix(n, m) = Len(m.entries)
  <2>1. Len(m.entries) \in Nat /\ m.entries \in Seq(LogEntry)
    BY AppendEntriesFields
  <2>2. missing = << >>
    BY <1>3, <2>1, SubSeqEmpty DEF Missing
  <2> QED BY <1>2, <2>2
<1>4. CASE MatchingPrefix(n, m) # Len(m.entries)
  <2>1. Adds(n, m)
    BY <1>4 DEF Adds
  <2>2. /\ s \in Log /\ Spliced(s, n.log, Carried(m))
        /\ s.base_index = n.log.base_index
        /\ s.snapshot_config = n.log.snapshot_config
        /\ Spares(s, n.log, m)
        /\ missing \in Seq(LogEntry) /\ missing # << >>
        /\ \A i \in 1 .. Len(missing) :
                \E l \in DOMAIN m.entries : missing[i] = m.entries[l]
    BY <1>1, <2>1, StoredIsSpliced
  <2>3. ~ Diverges(n, m) => s = AppendTo(n.log, missing)
    BY DEF KeptLog
  <2>8. s = AppendTo(KeptLog(n, m), Missing(n, m))
    OBVIOUS
  <2> HIDE DEF missing
  <2>4. ASSUME ~ Diverges(n, m), ~ CarriesConfig(m)
        PROVE  /\ ConfigIndexAt(s, LastIndex(s)) = ConfigIndexAt(n.log, LastIndex(n.log))
               /\ ConfigAt(s, LastIndex(s), n.base_config)
                        = ConfigAt(n.log, LastIndex(n.log), n.base_config)
    <3>1. \A i \in 1 .. Len(missing) : missing[i].kind # "Config"
      BY <2>2, <2>4 DEF CarriesConfig
    <3>2. s = AppendTo(n.log, missing)
      BY <2>3, <2>4
    <3> HIDE DEF s
    <3> QED BY <1>1, <2>2, <3>1, <3>2, CommandsKeepConfig
  <2> HIDE DEF s
  <2>5. a \in NodeRecord
    BY <1>1, <2>2, StoreTyped
  <2>6. /\ a.log = s /\ a.disk = s
        /\ a.id = n.id /\ a.role = n.role /\ a.votes = n.votes
        /\ a.current_term = n.current_term /\ a.base_config = n.base_config
        /\ a.voters = n.voters /\ a.config_index = n.config_index
        /\ a.sends = {}
    BY <1>1, NodeNames DEF Sync, Names
  <2>7. AppendFromLeader(n, m) = a
    BY <1>2, <2>2
  <2> HIDE DEF a
  <2> QED BY <2>1, <2>2, <2>4, <2>5, <2>6, <2>7, <2>8
<1> QED BY <1>3, <1>4

-----------------------------------------------------------------------------
(* Replication, on the follower. *)

(* An answer says nothing of a log. *)
LEMMA ReplyCalm ==
    ASSUME NEW n \in NodeRecord, NEW answers,
           \A s \in answers : /\ s.from = n.id
                              /\ s.kind \in {"AppendEntriesReply", "InstallSnapshotReply"}
    PROVE  Calm(n, Send(n, answers))
<1>1. \A s \in answers : Tells(n, s)
  BY DEF Tells, Told, Replicates
<1> QED BY <1>1, NodeNames DEF Send, Calm, Steady, Names

(* Recognising a leader makes a follower. *)
LEMMA AcceptLeaderCalm ==
    ASSUME NEW n, Ready(n), NEW m \in Message
    PROVE  LET k == AcceptLeader(n, m)
           IN  Ready(k) /\ Calm(n, k) /\ k.role = "Follower" /\ k.log = n.log
<1> DEFINE k == AcceptLeader(n, m)
<1>1. n \in NodeRecord /\ n.sends = {} /\ n.disk = n.log
  BY DEF Ready
<1>2. k \in NodeRecord
  BY <1>1, AcceptLeaderTyped
<1>3. /\ k.role = "Follower" /\ k.log = n.log /\ k.disk = n.disk /\ k.sends = n.sends
      /\ Calm(n, k)
  BY <1>1, NodeNames DEF AcceptLeader, Calm, Steady, Names
<1> QED BY <1>1, <1>2, <1>3 DEF Ready

(* The commit index moves and entries are applied. *)
LEMMA AdoptCommitCalm ==
    ASSUME NEW n \in NodeRecord, NEW m \in Message, m.kind = "AppendEntries",
           NEW covered \in Nat
    PROVE  Calm(n, AdoptCommit(n, m, covered))
<1> DEFINE c == [n EXCEPT !.commit_index = Smaller(m.leader_commit, covered)]
<1>1. Smaller(m.leader_commit, covered) \in Nat
  BY AppendEntriesFields, SmallerLarger
<1>2. c \in NodeRecord
  BY <1>1 DEF NodeRecord
<1>3. Calm(n, c)
  BY NodeNames DEF Calm, Steady, Names
<1> HIDE DEF c
<1>4. Calm(n, DrainApplies(c))
  BY <1>2, <1>3, DrainAppliesCalm, CalmTransitive
<1>5. AdoptCommit(n, m, covered) \in {n, DrainApplies(c)}
  BY DEF AdoptCommit, c
<1> QED BY <1>4, <1>5, CalmReflexive

(* A follower takes over what a message of its term carries. *)
LEMMA TakeOverOutcome ==
    ASSUME NEW n, Ready(n), NEW f, Replicates(f), f.term = n.current_term,
           NEW read, f \in read, NEW b \in NodeRecord,
           b.id = n.id, b.disk = b.log, b.role = "Follower",
           b.current_term = n.current_term, b.sends = {},
           \/ Part(b.log, n.log) /\ LastIndex(b.log) = LastIndex(n.log)
           \/ Takes(b.log, n.log, f),
           Lawful(n) /\ LawfulMessage(f) => Lawful(b)
    PROVE  Outcome(n, b, read)
<1>1. n.current_term \in Nat
  BY NodeFields DEF Ready
<1>2. Stands(n, b, read)
  BY DEF Stands
<1>3. Rewrites(n, b, read)
  BY DEF Rewrites
<1>4. \A s \in b.sends : Says(b, s)
  OBVIOUS
<1>5. Lawful(n) /\ (\A g \in read : LawfulMessage(g)) => Lawful(b)
  OBVIOUS
<1> QED BY <1>1, <1>2, <1>3, <1>4, <1>5 DEF Outcome

(* The log as it was or spliced, and the configuration read back from it.   *)
LEMMA StoredOutcome ==
    ASSUME NEW n, Ready(n), NEW m \in Message, m.kind = "AppendEntries",
           m.term = n.current_term, NEW read, m \in read, NEW b \in NodeRecord,
           b.id = n.id, b.disk = b.log, b.role = "Follower",
           b.current_term = n.current_term, b.sends = {},
           b.base_config = n.base_config,
           \/ b.log = n.log
           \/ /\ Spliced(b.log, n.log, Carried(m)) /\ Spares(b.log, n.log, m)
              /\ b.log.base_index = n.log.base_index
              /\ b.log.snapshot_config = n.log.snapshot_config,
           Lawful(n) => Follows(b)
    PROVE  Outcome(n, b, read)
<1>1. /\ n.log \in Log /\ b.log \in Log /\ IsPiece(n.log) /\ IsPiece(b.log)
      /\ Replicates(m) /\ IsPiece(Carried(m))
  BY NodeFields, LogIsPiece, CarriedIsPiece DEF Ready, Replicates
<1>2. \/ Part(b.log, n.log) /\ LastIndex(b.log) = LastIndex(n.log)
      \/ Takes(b.log, n.log, m)
  BY <1>1, PartReflexive DEF Takes
<1>3. ASSUME Lawful(n), LawfulMessage(m) PROVE Lawful(b)
  <2>1. LawfulPiece(n.log) /\ LawfulPiece(Carried(m))
    BY <1>3 DEF Lawful, LawfulLog, LawfulMessage
  <2>2. LawfulPiece(b.log)
    BY <1>1, <2>1, SpliceIsLawful
  <2>3. HasSnapshot(b.log) = HasSnapshot(n.log)
        /\ b.log.snapshot_config = n.log.snapshot_config
    BY DEF HasSnapshot
  <2>4. LawfulLog(b.log)
    BY <1>3, <2>2, <2>3 DEF Lawful, LawfulLog
  <2>5. BaseOf(b.id, b.log) = BaseOf(n.id, n.log)
    BY <2>3 DEF BaseOf
  <2> QED BY <1>3, <2>4, <2>5 DEF Lawful
<1> QED BY <1>1, <1>2, <1>3, TakeOverOutcome

(* A follower stores a batch: the configuration is read back when one came  *)
(* or went, and otherwise need not be.                                      *)
LEMMA StoreEntriesOutcome ==
    ASSUME NEW n, Ready(n), n.role = "Follower",
           NEW m \in Message, m.kind = "AppendEntries",
           m.term = n.current_term, m.prev_log_index >= n.log.base_index, PrevOk(n, m),
           NEW read, m \in read
    PROVE  Outcome(n, StoreEntries(n, m), read)
<1> DEFINE a == AppendFromLeader(n, m)
<1>1. n \in NodeRecord /\ n.sends = {} /\ n.disk = n.log
  BY DEF Ready
<1>2. a = n \/ /\ a \in NodeRecord
               /\ a.disk = a.log
               /\ a.id = n.id /\ a.role = n.role /\ a.votes = n.votes
               /\ a.current_term = n.current_term /\ a.base_config = n.base_config
               /\ a.voters = n.voters /\ a.config_index = n.config_index
               /\ a.sends = {}
               /\ Spliced(a.log, n.log, Carried(m)) /\ Spares(a.log, n.log, m)
               /\ a.log.base_index = n.log.base_index
               /\ a.log.snapshot_config = n.log.snapshot_config
               /\ ~ Diverges(n, m) /\ ~ CarriesConfig(m) =>
                     /\ ConfigIndexAt(a.log, LastIndex(a.log))
                             = ConfigIndexAt(n.log, LastIndex(n.log))
                     /\ ConfigAt(a.log, LastIndex(a.log), n.base_config)
                             = ConfigAt(n.log, LastIndex(n.log), n.base_config)
  BY AppendFromLeaderSplices
<1> HIDE DEF a
<1>3. /\ a \in NodeRecord /\ a.id = n.id /\ a.disk = a.log /\ a.role = "Follower"
      /\ a.current_term = n.current_term /\ a.sends = {}
      /\ a.base_config = n.base_config
      /\ \/ a.log = n.log
         \/ /\ Spliced(a.log, n.log, Carried(m)) /\ Spares(a.log, n.log, m)
            /\ a.log.base_index = n.log.base_index
            /\ a.log.snapshot_config = n.log.snapshot_config
  BY <1>1, <1>2
<1>4. CASE Diverges(n, m) \/ CarriesConfig(m)
  <2>1. StoreEntries(n, m) = RefreshConfig(a)
    BY <1>4 DEF StoreEntries, a
  <2>2. PICK b \in NodeRecord :
            /\ b.id = a.id /\ b.log = a.log /\ b.disk = a.disk /\ b.role = a.role
            /\ b.votes = a.votes /\ b.current_term = a.current_term
            /\ b.voted_for = a.voted_for /\ b.base_config = a.base_config
            /\ b.sends = a.sends
            /\ Follows(b)
            /\ Calm(b, RefreshConfig(a))
    BY <1>3, RefreshConfigFollows
  <2>3. /\ b.id = n.id /\ b.disk = b.log /\ b.role = "Follower"
        /\ b.current_term = n.current_term /\ b.sends = {}
        /\ b.base_config = n.base_config
        /\ \/ b.log = n.log
           \/ /\ Spliced(b.log, n.log, Carried(m)) /\ Spares(b.log, n.log, m)
              /\ b.log.base_index = n.log.base_index
              /\ b.log.snapshot_config = n.log.snapshot_config
    BY <1>3, <2>2
  <2>4. Outcome(n, b, read)
    BY <2>2, <2>3, StoredOutcome
  <2> QED BY <2>1, <2>2, <2>4, CalmFollows
<1>5. CASE ~ (Diverges(n, m) \/ CarriesConfig(m))
  <2>1. StoreEntries(n, m) = a
    BY <1>5 DEF StoreEntries, a
  <2>2. Lawful(n) => Follows(a)
    <3>1. CASE a = n
      BY <3>1 DEF Lawful
    <3>2. CASE a # n
      BY <1>2, <1>5, <3>2 DEF Lawful, Follows
    <3> QED BY <3>1, <3>2
  <2>3. Outcome(n, a, read)
    BY <1>3, <2>2, StoredOutcome
  <2> QED BY <2>1, <2>3
<1> QED BY <1>4, <1>5

(* handle_append_entries, on each of its four ways out. *)
LEMMA HandleAppendEntriesOutcome ==
    ASSUME NEW n, Ready(n), NEW m \in Message, m.kind = "AppendEntries",
           m.term <= n.current_term, NEW read, m \in read
    PROVE  Outcome(n, HandleAppendEntries(n, m), read)
<1> DEFINE base  == n.log.base_index
           match == m.prev_log_index + Len(m.entries)
           ours  == AcceptLeader(n, m)
           early == AdoptCommit(ours, m, base)
           store == StoreEntries(ours, m)
           late  == AdoptCommit(store, m, match)
<1>1. /\ n \in NodeRecord /\ n.log \in Log /\ base \in Nat /\ match \in Nat
      /\ m.prev_log_index \in Nat /\ m.term \in Nat /\ n.current_term \in Nat
  <2>1. n \in NodeRecord
    BY DEF Ready
  <2>2. m.term \in Nat
    BY MessageFields
  <2> QED BY <2>1, <2>2, NodeFields, LogFields, AppendEntriesFields
<1>2. Ready(ours) /\ Calm(n, ours) /\ ours.role = "Follower" /\ ours.log = n.log
  BY AcceptLeaderCalm
<1>3. ours \in NodeRecord /\ ours.id = n.id /\ ours.current_term = n.current_term
      /\ ours.log.base_index = base
  BY <1>2 DEF Ready, Calm, Steady
<1>4. \A s \in AppendReply(n, m, FALSE, 0, 0, 0) :
            s.from = n.id /\ s.kind = "AppendEntriesReply"
  BY DEF AppendReply
<1>5. \A index : \A s \in AppendReply(n, m, TRUE, index, 0, 0) :
            s.from = n.id /\ s.kind = "AppendEntriesReply"
  BY DEF AppendReply
<1>6. \A s \in ConflictReply(n, m) : s.from = n.id /\ s.kind = "AppendEntriesReply"
  BY DEF ConflictReply, AppendReply
<1> HIDE DEF match, base, ours
<1>7. HandleAppendEntries(n, m) =
        IF m.term < n.current_term
        THEN Send(n, AppendReply(n, m, FALSE, 0, 0, 0))
        ELSE IF m.prev_log_index < base
        THEN Send(early, AppendReply(n, m, TRUE, base, 0, 0))
        ELSE IF ~ PrevOk(n, m) THEN Send(ours, ConflictReply(n, m))
        ELSE Send(late, AppendReply(n, m, TRUE, match, 0, 0))
  BY DEF HandleAppendEntries, match, base, ours
<1>8. Outcome(n, ours, read)
  BY <1>2, <1>3, CalmIsOutcome
<1>9. CASE m.term < n.current_term
  <2>1. Calm(n, Send(n, AppendReply(n, m, FALSE, 0, 0, 0)))
    BY <1>1, <1>4, ReplyCalm
  <2>2. Outcome(n, n, read)
    BY <1>1, CalmReflexive, CalmIsOutcome
  <2> QED BY <1>7, <1>9, <2>1, <2>2, CalmFollows
<1>10. CASE ~ (m.term < n.current_term) /\ m.prev_log_index < base
  <2>1. early \in NodeRecord /\ Calm(ours, early)
    BY <1>1, <1>3, AdoptCommitTyped, AdoptCommitCalm
  <2>2. early.id = n.id
    BY <1>3, <2>1 DEF Calm, Steady
  <2> HIDE DEF early
  <2>3. Calm(early, Send(early, AppendReply(n, m, TRUE, base, 0, 0)))
    BY <1>5, <2>1, <2>2, ReplyCalm
  <2>4. Outcome(n, early, read)
    BY <1>8, <2>1, CalmFollows
  <2>5. Outcome(n, Send(early, AppendReply(n, m, TRUE, base, 0, 0)), read)
    BY <2>3, <2>4, CalmFollows
  <2> QED BY <1>7, <1>10, <2>5
<1>11. CASE ~ (m.term < n.current_term) /\ ~ (m.prev_log_index < base) /\ ~ PrevOk(n, m)
  <2>1. Calm(ours, Send(ours, ConflictReply(n, m)))
    BY <1>3, <1>6, ReplyCalm
  <2>2. Outcome(n, Send(ours, ConflictReply(n, m)), read)
    BY <1>8, <2>1, CalmFollows
  <2> QED BY <1>7, <1>11, <2>2
<1>12. CASE ~ (m.term < n.current_term) /\ ~ (m.prev_log_index < base) /\ PrevOk(n, m)
  <2>1. m.term = ours.current_term /\ m.prev_log_index >= ours.log.base_index
    <3>1. m.prev_log_index >= base /\ m.term = n.current_term
      BY <1>1, <1>12
    <3> QED BY <1>3, <3>1
  <2>2. PrevOk(ours, m)
    BY <1>2, <1>12 DEF PrevOk
  <2>3. Outcome(ours, store, read)
    BY <1>2, <2>1, <2>2, StoreEntriesOutcome
  <2>4. Outcome(n, store, read)
    BY <1>2, <2>3, CalmPrecedes
  <2>5. store \in NodeRecord /\ store.id = n.id
    BY <1>3, <2>4, StoreEntriesTyped DEF Outcome
  <2> HIDE DEF store
  <2>6. late \in NodeRecord /\ Calm(store, late)
    BY <1>1, <2>5, AdoptCommitTyped, AdoptCommitCalm
  <2>7. late.id = n.id
    BY <2>5, <2>6 DEF Calm, Steady
  <2> HIDE DEF late
  <2>8. Outcome(n, late, read)
    BY <2>4, <2>6, CalmFollows
  <2>9. Calm(late, Send(late, AppendReply(n, m, TRUE, match, 0, 0)))
    BY <1>5, <2>6, <2>7, ReplyCalm
  <2>10. Outcome(n, Send(late, AppendReply(n, m, TRUE, match, 0, 0)), read)
    BY <2>8, <2>9, CalmFollows
  <2> QED BY <1>7, <1>12, <2>10
<1> QED BY <1>9, <1>10, <1>11, <1>12

(* handle_install_snapshot: the boundary of the leader, and the tail behind *)
(* it when the log agrees there.                                            *)
LEMMA InstalledOutcome ==
    ASSUME NEW n, Ready(n), n.role = "Follower",
           NEW m \in Message, m.kind = "InstallSnapshot", m.term = n.current_term,
           m.snapshot.index > n.log.base_index, NEW read, m \in read,
           NEW k \in NodeRecord, k.id = n.id, k.role = "Follower",
           k.current_term = n.current_term, k.sends = {},
           k.base_config = (IF m.snapshot.config = {} THEN n.base_config
                                                      ELSE m.snapshot.config),
           k.log = ApplySnapshot(n.log, m.snapshot), k.disk = k.log
    PROVE  Outcome(n, RefreshConfig(k), read)
<1> DEFINE snap == m.snapshot
<1>1. /\ n.log \in Log /\ snap \in Snapshot /\ snap.index \in Nat
      /\ n.log.base_index \in Nat
  <2>1. n \in NodeRecord /\ snap \in Snapshot
    BY InstallSnapshotFields DEF Ready
  <2> QED BY <2>1, NodeFields, LogFields DEF Snapshot
<1>2. /\ k.log \in Log
      /\ k.log.base_index = snap.index /\ k.log.base_term = snap.term
      /\ k.log.snapshot_config = snap.config
      /\ \/ Part(k.log, n.log) /\ LastIndex(k.log) = LastIndex(n.log)
         \/ TermAt(n.log, snap.index) # snap.term /\ k.log.entries = << >>
  BY <1>1, SnapshotApplied
<1>3. /\ Replicates(m) /\ IsPiece(Carried(m)) /\ IsPiece(k.log) /\ IsPiece(n.log)
      /\ Carried(m).base_index = snap.index /\ Carried(m).base_term = snap.term
      /\ Carried(m).entries = << >>
  BY <1>1, <1>2, CarriedIsPiece, LogIsPiece DEF Replicates
<1>4. \/ Part(k.log, n.log) /\ LastIndex(k.log) = LastIndex(n.log)
      \/ Takes(k.log, n.log, m)
  <2> SUFFICES ASSUME TermAt(n.log, snap.index) # snap.term, k.log.entries = << >>
               PROVE  Takes(k.log, n.log, m)
    BY <1>2
  <2>1. Part(k.log, Carried(m))
    BY <1>2, <1>3, SameEntriesIsPart
  <2>2. LastIndex(k.log) = snap.index /\ Span(Carried(m)) = {snap.index}
    BY <1>2, <1>3, BareIsLawful
  <2>3. TermAt(Carried(m), snap.index) = snap.term
    BY <1>3 DEF TermAt
  <2>4. LastIndex(n.log) \in Nat
    BY <1>1, LogFields
  <2>5. CASE snap.index > LastIndex(n.log)
    BY <1>1, <2>1, <2>2, <2>4, <2>5 DEF Takes, Spares
  <2>6. CASE ~ (snap.index > LastIndex(n.log))
    <3>1. snap.index \in Span(n.log) /\ snap.index <= LastIndex(k.log) + 1
      BY <1>1, <2>2, <2>4, <2>6 DEF Span
    <3> QED BY <2>1, <2>2, <2>3, <3>1 DEF Takes, Spares
  <2> QED BY <2>5, <2>6
<1>5. snap.index > 0
  BY <1>1
<1>6. PICK b \in NodeRecord :
            /\ b.id = k.id /\ b.log = k.log /\ b.disk = k.disk /\ b.role = k.role
            /\ b.votes = k.votes /\ b.current_term = k.current_term
            /\ b.voted_for = k.voted_for /\ b.base_config = k.base_config
            /\ b.sends = k.sends
            /\ Follows(b)
            /\ Calm(b, RefreshConfig(k))
  BY RefreshConfigFollows
<1>7. ASSUME Lawful(n), LawfulMessage(m) PROVE Lawful(b)
  <2>1. snap.config \in Configs
    BY <1>5, <1>7 DEF LawfulMessage
  <2>2. LawfulPiece(k.log)
    <3>1. CASE Part(k.log, n.log)
      BY <1>3, <1>7, <3>1, PartIsLawful DEF Lawful, LawfulLog
    <3>2. CASE k.log.entries = << >>
      BY <1>3, <3>2, BareIsLawful
    <3> QED BY <1>2, <3>1, <3>2
  <2>3. LawfulLog(b.log)
    BY <1>2, <1>6, <2>1, <2>2 DEF LawfulLog
  <2>4. b.base_config \in Configs
    BY <1>6, <1>7, <2>1 DEF Lawful
  <2>5. {} \notin Configs => b.base_config = BaseOf(b.id, b.log)
    <3> SUFFICES ASSUME {} \notin Configs PROVE b.base_config = BaseOf(b.id, b.log)
      OBVIOUS
    <3>1. snap.config # {}
      BY <2>1
    <3>2. HasSnapshot(b.log) /\ b.log.snapshot_config = snap.config
      BY <1>2, <1>5, <1>6 DEF HasSnapshot
    <3>3. b.base_config = snap.config
      BY <1>6, <3>1
    <3> QED BY <3>1, <3>2, <3>3 DEF BaseOf
  <2> QED BY <1>6, <2>3, <2>4, <2>5 DEF Lawful
<1>8. Outcome(n, b, read)
  <2>1. /\ b.id = n.id /\ b.disk = b.log /\ b.role = "Follower"
        /\ b.current_term = n.current_term /\ b.sends = {}
        /\ \/ Part(b.log, n.log) /\ LastIndex(b.log) = LastIndex(n.log)
           \/ Takes(b.log, n.log, m)
    BY <1>4, <1>6
  <2> QED BY <1>3, <1>7, <2>1, TakeOverOutcome
<1> QED BY <1>6, <1>8, CalmFollows

LEMMA HandleInstallSnapshotOutcome ==
    ASSUME NEW n, Ready(n), NEW m \in Message, m.kind = "InstallSnapshot",
           m.term <= n.current_term, NEW read, m \in read
    PROVE  Outcome(n, HandleInstallSnapshot(n, m), read)
<1> DEFINE snap == m.snapshot
           ours == AcceptLeader(n, m)
           log  == ApplySnapshot(n.log, snap)
           config == IF snap.config = {} THEN ours.base_config ELSE snap.config
           at   == Larger(ours.snapshot_hinted_at, snap.index)
           copied == [ours EXCEPT !.base_config = config, !.log = log,
                                  !.commit_index = snap.index,
                                  !.last_applied = snap.index,
                                  !.snapshot_hinted_at = at, !.app = snap.data]
           synced == Sync(copied)
           installed == RefreshConfig(synced)
           installs == snap.index > n.log.base_index /\ snap.index > n.commit_index
           after == IF installs THEN installed ELSE ours
           reply(last_index) ==
                {[kind |-> "InstallSnapshotReply", from |-> n.id, to |-> m.from,
                  term |-> n.current_term, last_index |-> last_index]}
           agreed == Larger(after.log.base_index, Smaller(snap.index, after.commit_index))
<1>1. snap \in Snapshot
  BY InstallSnapshotFields
<1>2. /\ snap.index \in Nat /\ snap.config \in SUBSET Server
      /\ snap.data \in SUBSET Applied
  BY <1>1 DEF Snapshot
<1>3. n \in NodeRecord /\ n.log \in Log
  BY NodeFields DEF Ready
<1>4. /\ Ready(ours) /\ Calm(n, ours) /\ ours.role = "Follower" /\ ours.log = n.log
      /\ ours \in NodeRecord /\ ours.sends = {} /\ ours.id = n.id
      /\ ours.current_term = n.current_term
  BY AcceptLeaderCalm DEF Ready, Calm, Steady
<1>5. log \in Log
  BY <1>1, <1>3, ApplySnapshotTyped
<1>6. config \in SUBSET Server /\ at \in Nat
  BY <1>2, <1>4, NodeFields, SmallerLarger
<1>7. \A index : \A s \in reply(index) :
            s.from = n.id /\ s.kind = "InstallSnapshotReply"
  OBVIOUS
<1>8. HandleInstallSnapshot(n, m) =
        IF m.term < n.current_term THEN Send(n, reply(0)) ELSE Send(after, reply(agreed))
  BY DEF HandleInstallSnapshot
<1>9. config = (IF m.snapshot.config = {} THEN ours.base_config ELSE m.snapshot.config)
  OBVIOUS
<1>10. log = ApplySnapshot(ours.log, m.snapshot)
  BY <1>4
<1> HIDE DEF ours, log, config, at, reply, agreed
<1>11. synced \in NodeRecord
  <2>1. copied \in NodeRecord
    BY <1>2, <1>4, <1>5, <1>6 DEF NodeRecord
  <2> HIDE DEF copied
  <2> QED BY <2>1, SyncTyped
<1>12. /\ synced.id = n.id /\ synced.role = "Follower"
       /\ synced.current_term = n.current_term /\ synced.sends = {}
       /\ synced.base_config = config /\ synced.log = log /\ synced.disk = log
  BY <1>4, NodeNames DEF Sync, Names
<1> HIDE DEF synced
<1>13. ASSUME installs, m.term = n.current_term
       PROVE  Outcome(ours, installed, read) /\ installed \in NodeRecord
  <2>1. m.snapshot.index > ours.log.base_index /\ m.term = ours.current_term
    BY <1>4, <1>13
  <2>2. installed \in NodeRecord
    BY <1>11, RefreshConfigTyped
  <2>3. Outcome(ours, installed, read)
    BY <1>4, <1>9, <1>10, <1>11, <1>12, <2>1, InstalledOutcome
  <2> QED BY <2>2, <2>3
<1>14. ASSUME m.term = n.current_term
       PROVE  Outcome(n, after, read) /\ after \in NodeRecord /\ after.id = n.id
  <2>1. Outcome(ours, ours, read)
    BY <1>4, CalmReflexive, CalmIsOutcome
  <2>2. Outcome(ours, after, read) /\ after \in NodeRecord
    BY <1>4, <1>13, <1>14, <2>1
  <2> HIDE DEF after
  <2>3. Outcome(n, after, read)
    BY <1>4, <2>2, CalmPrecedes
  <2> QED BY <2>2, <2>3 DEF Outcome
<1> HIDE DEF after
<1>15. ASSUME m.term = n.current_term PROVE Outcome(n, Send(after, reply(agreed)), read)
  <2>1. Calm(after, Send(after, reply(agreed)))
    BY <1>7, <1>14, <1>15, ReplyCalm
  <2> QED BY <1>14, <1>15, <2>1, CalmFollows
<1>16. Outcome(n, Send(n, reply(0)), read)
  <2>1. Calm(n, Send(n, reply(0)))
    BY <1>3, <1>7, ReplyCalm
  <2> QED BY <1>3, <2>1, CalmReflexive, CalmIsOutcome, CalmFollows
<1>17. m.term < n.current_term \/ m.term = n.current_term
  BY <1>3, NodeFields, MessageFields
<1> QED BY <1>8, <1>15, <1>16, <1>17

-----------------------------------------------------------------------------
(* Recovery. *)

(* What a node comes back with. *)
LEMMA WithLogFields ==
    ASSUME NEW id \in Server, NEW log \in Log
    PROVE  LET r == WithLog(id, log)
           IN  /\ r \in NodeRecord
               /\ r.id = id /\ r.log = log /\ r.disk = log /\ r.role = "Follower"
               /\ r.current_term = log.hard.term /\ r.sends = {}
               /\ r.votes = {} /\ r.commit_index = log.base_index
               /\ r.base_config = BaseOf(id, log)
               /\ Follows(r)
<1>1. WithLog(id, log) \in NodeRecord
  BY WithLogTyped
<1> QED BY <1>1 DEF WithLog, BaseOf, Follows

(* It follows its log. *)
LEMMA WithLogLawful ==
    ASSUME NEW id \in Server, NEW log \in Log, LawfulLog(log)
    PROVE  Lawful(WithLog(id, log))
<1>1. BaseOf(id, log) \in Configs
  BY ConfigAssumption DEF BaseOf, Configs, LawfulLog
<1> QED BY <1>1, WithLogFields DEF Lawful

(* A node restarts from its log, or from what a message left of it.         *)
LEMMA RestartOutcome ==
    ASSUME NEW n, Ready(n), NEW disk \in Log, n.current_term <= disk.hard.term,
           NEW read,
           \/ disk = n.disk
           \/ \E f \in read : /\ Replicates(f) /\ f.term = disk.hard.term
                              /\ Takes(disk, n.log, f),
           Lawful(n) /\ (\A f \in read : LawfulMessage(f)) => LawfulLog(disk)
    PROVE  Outcome(n, WithLog(n.id, disk), read)
<1> DEFINE r == WithLog(n.id, disk)
<1>1. n.id \in Server
  BY NodeFields DEF Ready
<1>2. /\ r.id = n.id /\ r.log = disk /\ r.disk = disk /\ r.role = "Follower"
      /\ r.current_term = disk.hard.term /\ r.sends = {}
  BY <1>1, WithLogFields
<1>3. LawfulLog(disk) => Lawful(r)
  BY <1>1, WithLogLawful
<1> HIDE DEF r
<1>4. Stands(n, r, read)
  BY <1>2 DEF Stands
<1>5. Rewrites(n, r, read)
  <2>1. n.disk = n.log /\ Part(n.log, n.log)
    BY NodeFields, LogIsPiece, PartReflexive DEF Ready
  <2> QED BY <1>2, <2>1 DEF Rewrites
<1>6. \A s \in r.sends : Says(r, s)
  BY <1>2
<1>7. r.disk = r.log /\ n.current_term <= r.current_term
  BY <1>2
<1> QED BY <1>2, <1>3, <1>4, <1>5, <1>6, <1>7 DEF Outcome, r

(* A crash between two handlers. *)
LEMMA CrashOutcome ==
    ASSUME NEW n, Ready(n), Sound(n), NEW read
    PROVE  Outcome(n, WithLog(n.id, n.disk), read)
<1>1. n.disk = n.log /\ n.log \in Log /\ n.disk.hard.term = n.current_term
      /\ n.current_term \in Nat
  BY NodeFields DEF Ready, Sound, HardOf
<1>2. n.current_term <= n.disk.hard.term
  BY <1>1
<1>3. Lawful(n) => LawfulLog(n.disk)
  BY <1>1 DEF Lawful
<1> QED BY <1>1, <1>2, <1>3, RestartOutcome

(* What store_entries does to the log. *)
LEMMA StoreEntriesLog ==
    ASSUME NEW n, Ready(n), NEW m \in Message, m.kind = "AppendEntries",
           m.prev_log_index >= n.log.base_index, PrevOk(n, m)
    PROVE  LET s == StoreEntries(n, m)
           IN  /\ s.current_term = n.current_term
               /\ \/ s.log = n.log
                  \/ Adds(n, m) /\ s.log = AppendTo(KeptLog(n, m), Missing(n, m))
<1> DEFINE a == AppendFromLeader(n, m)
<1>1. /\ a \in NodeRecord /\ a.current_term = n.current_term
      /\ \/ a.log = n.log
         \/ Adds(n, m) /\ a.log = AppendTo(KeptLog(n, m), Missing(n, m))
  <2>1. \/ a = n
        \/ /\ a \in NodeRecord /\ a.current_term = n.current_term
           /\ Adds(n, m) /\ a.log = AppendTo(KeptLog(n, m), Missing(n, m))
    BY AppendFromLeaderSplices
  <2> HIDE DEF a
  <2> QED BY <2>1 DEF Ready
<1> HIDE DEF a
<1>2. PICK b \in NodeRecord :
        /\ b.log = a.log /\ b.current_term = a.current_term /\ Calm(b, RefreshConfig(a))
  BY <1>1, RefreshConfigFollows
<1>3. RefreshConfig(a).log = a.log /\ RefreshConfig(a).current_term = a.current_term
  BY <1>2 DEF Calm, Steady
<1>4. StoreEntries(n, m) \in {a, RefreshConfig(a)}
  BY DEF StoreEntries, a
<1> QED BY <1>1, <1>3, <1>4

(* The fork is a matter of the log alone. *)
LEMMA SameLogSameFork ==
    ASSUME NEW n, NEW k, k.log = n.log, NEW m
    PROVE  /\ Adds(k, m) = Adds(n, m)
           /\ KeptLog(k, m) = KeptLog(n, m)
           /\ Missing(k, m) = Missing(n, m)
<1>1. MatchingPrefix(k, m) = MatchingPrefix(n, m)
  BY DEF MatchingPrefix
<1>2. PrevOk(k, m) = PrevOk(n, m) /\ Diverges(k, m) = Diverges(n, m)
  BY <1>1 DEF PrevOk, Diverges
<1> QED BY <1>1, <1>2 DEF Adds, KeptLog, Missing

(* What handle_append_entries does to the log. *)
LEMMA HandleAppendEntriesStores ==
    ASSUME NEW n, Ready(n), NEW m \in Message, m.kind = "AppendEntries",
           m.term <= n.current_term
    PROVE  LET h == HandleAppendEntries(n, m)
           IN  /\ h.current_term = n.current_term
               /\ \/ h.log = n.log
                  \/ /\ m.term = n.current_term
                     /\ Adds(n, m)
                     /\ h.log = AppendTo(KeptLog(n, m), Missing(n, m))
<1> DEFINE base  == n.log.base_index
           match == m.prev_log_index + Len(m.entries)
           ours  == AcceptLeader(n, m)
           early == AdoptCommit(ours, m, base)
           store == StoreEntries(ours, m)
           late  == AdoptCommit(store, m, match)
           h     == HandleAppendEntries(n, m)
<1>1. /\ n \in NodeRecord /\ n.log \in Log /\ base \in Nat /\ match \in Nat
      /\ m.prev_log_index \in Nat /\ m.term \in Nat /\ n.current_term \in Nat
  <2>1. n \in NodeRecord /\ m.term \in Nat
    BY MessageFields DEF Ready
  <2> QED BY <2>1, NodeFields, LogFields, AppendEntriesFields
<1>2. /\ Ready(ours) /\ Calm(n, ours) /\ ours.role = "Follower" /\ ours.log = n.log
      /\ ours \in NodeRecord /\ ours.current_term = n.current_term
  BY AcceptLeaderCalm DEF Ready, Calm, Steady
<1>4. \A x, answers : x \in NodeRecord =>
            /\ Send(x, answers).log = x.log
            /\ Send(x, answers).current_term = x.current_term
  BY NodeNames DEF Send, Names
<1> HIDE DEF match, ours
<1>5. early \in NodeRecord /\ early.log = n.log /\ early.current_term = n.current_term
  <2>1. early \in NodeRecord
    BY <1>1, <1>2, AdoptCommitTyped
  <2>2. Calm(ours, early)
    BY <1>1, <1>2, AdoptCommitCalm
  <2>3. early.log = ours.log /\ early.current_term = ours.current_term
    BY <2>2 DEF Calm, Steady
  <2> QED BY <1>2, <2>1, <2>3
<1>6. store \in NodeRecord
  BY <1>2, StoreEntriesTyped
<1> HIDE DEF store
<1>7. late \in NodeRecord /\ late.log = store.log /\ late.current_term = store.current_term
  <2>1. late \in NodeRecord
    BY <1>1, <1>6, AdoptCommitTyped
  <2>2. Calm(store, late)
    BY <1>1, <1>6, AdoptCommitCalm
  <2> QED BY <2>1, <2>2 DEF Calm, Steady
<1> HIDE DEF early, late, base
<1>8. \/ h.log = n.log /\ h.current_term = n.current_term
      \/ /\ ~ (m.term < n.current_term) /\ ~ (m.prev_log_index < base) /\ PrevOk(n, m)
         /\ h.log = store.log /\ h.current_term = store.current_term
  BY <1>1, <1>2, <1>4, <1>5, <1>7
     DEF HandleAppendEntries, match, base, ours, early, store, late
<1>9. CASE ~ (m.term < n.current_term) /\ ~ (m.prev_log_index < base) /\ PrevOk(n, m)
  <2>1. m.prev_log_index >= ours.log.base_index /\ m.term = n.current_term
    <3>1. m.prev_log_index >= base /\ m.term = n.current_term
      BY <1>1, <1>9 DEF base
    <3> QED BY <1>2, <3>1 DEF base
  <2>2. PrevOk(ours, m)
    BY <1>2, <1>9 DEF PrevOk
  <2>3. /\ store.current_term = n.current_term
        /\ \/ store.log = n.log
           \/ Adds(ours, m) /\ store.log = AppendTo(KeptLog(ours, m), Missing(ours, m))
    BY <1>2, <2>1, <2>2, StoreEntriesLog DEF store
  <2> QED BY <1>2, <1>8, <2>1, <2>3, SameLogSameFork
<1> QED BY <1>8, <1>9

(* A log with its last entries missing is a stretch of it.                  *)
LEMMA CutIsPart ==
    ASSUME NEW log \in Log, NEW k \in Int, k <= Len(log.entries)
    PROVE  LET cut == [log EXCEPT !.entries = SubSeq(@, 1, k)]
           IN  /\ cut \in Log /\ Part(cut, log) /\ cut.hard = log.hard
               /\ cut.base_index = log.base_index
               /\ cut.snapshot_config = log.snapshot_config
               /\ k >= 0 => LastIndex(cut) = log.base_index + k
<1> DEFINE l == IF k < 0 THEN 0 ELSE k
           from == log.base_index + l + 1
           cut == [log EXCEPT !.entries = SubSeq(@, 1, k)]
<1>1. /\ log.base_index \in Nat /\ Len(log.entries) \in Nat
      /\ LastIndex(log) = log.base_index + Len(log.entries)
  BY LogFields
<1>2. l \in Nat /\ l <= Len(log.entries) /\ (k >= 0 => l = k)
  BY <1>1
<1>3. SubSeq(log.entries, 1, k) = SubSeq(log.entries, 1, l)
  <2>1. CASE k < 0
    <3>1. SubSeq(log.entries, 1, k) = << >>
      BY <2>1, SubSeqEmpty
    <3>2. SubSeq(log.entries, 1, 0) = << >>
      BY SubSeqEmpty
    <3> QED BY <2>1, <3>1, <3>2
  <2>2. CASE ~ (k < 0)
    BY <2>2
  <2> QED BY <2>1, <2>2
<1> HIDE DEF l
<1>4. from - log.base_index - 1 = l /\ from - 1 = log.base_index + l
  BY <1>1, <1>2
<1>5. from \in log.base_index + 1 .. LastIndex(log) + 1
  BY <1>1, <1>2
<1> HIDE DEF from
<1>6. cut = Truncate(log, from)
  BY <1>3, <1>4 DEF Truncate
<1>7. cut.hard = log.hard
  BY DEF Log
<1> HIDE DEF cut
<1>8. /\ cut \in Log /\ Part(cut, log) /\ cut.base_index = log.base_index
      /\ cut.snapshot_config = log.snapshot_config /\ LastIndex(cut) = from - 1
  BY <1>5, <1>6, Truncated
<1> QED BY <1>2, <1>4, <1>7, <1>8 DEF cut

(* A crash in the middle of a handler. *)
LEMMA CrashHandlingOutcome ==
    ASSUME NEW n, Ready(n), Sound(n), NEW m \in Message, NEW read, m \in read,
           NEW disk \in PartialWrites(n, m)
    PROVE  Outcome(n, WithLog(n.id, disk), read)
<1> DEFINE known == AdoptTerm(n, m.term)
           after == HandleAppendEntries(known, m)
           new   == after.log
           j     == m.prev_log_index + MatchingPrefix(known, m)
           r     == WithLog(n.id, disk)
<1>1. m.term \in Nat /\ n.id \in Server
  BY MessageFields, NodeFields DEF Ready
<1>2. /\ Ready(known) /\ m.term <= known.current_term /\ known.id = n.id
      /\ Leads(n, known) /\ Sound(known)
  <2>1. Leads(n, known)
    BY <1>1, AdoptTermHonours
  <2> QED BY <1>1, <2>1, AdoptTermKeeps DEF Leads, Honours
<1>3. disk \in Log
  <2>1. n \in NodeRecord
    BY DEF Ready
  <2> QED BY <2>1, PartialWritesTyped
<1>4. r \in NodeRecord
  BY <1>1, <1>3, WithLogFields
<1>5. \/ disk = known.disk
      \/ /\ m.kind = "AppendEntries" /\ new # known.log
         /\ \E k \in m.prev_log_index + MatchingPrefix(known, m) - new.base_index
                        .. Len(new.entries) :
                disk = [new EXCEPT !.entries = SubSeq(@, 1, k)]
  BY DEF PartialWrites
<1> HIDE DEF known
<1>6. known \in NodeRecord /\ known.current_term \in Nat
  BY <1>2, NodeFields DEF Ready
<1>7. ASSUME disk = known.disk PROVE Outcome(known, WithLog(known.id, disk), read)
  <2>1. Outcome(known, WithLog(known.id, known.disk), read)
    BY <1>2, CrashOutcome
  <2> QED BY <1>7, <2>1
<1>8. ASSUME disk # known.disk PROVE Outcome(known, WithLog(known.id, disk), read)
  <2>1. m.kind = "AppendEntries" /\ new # known.log
    BY <1>5, <1>8
  <2>2. /\ after \in NodeRecord /\ Leads(known, after) /\ Outcome(known, after, read)
    BY <1>2, <1>6, <2>1, HandleAppendEntriesTyped, HandleAppendEntriesKeepsVote,
       HandleAppendEntriesOutcome
  <2>0. /\ after.current_term = known.current_term /\ m.term = known.current_term
        /\ Adds(known, m) /\ new = AppendTo(KeptLog(known, m), Missing(known, m))
    BY <1>2, <2>1, HandleAppendEntriesStores
  <2>3. PICK k \in m.prev_log_index + MatchingPrefix(known, m) - new.base_index
                        .. Len(new.entries) :
                disk = [new EXCEPT !.entries = SubSeq(@, 1, k)]
    BY <1>5, <1>8
  <2> HIDE DEF after
  <2>4. new \in Log
    BY <2>2, NodeFields
  <2>7. known.log \in Log /\ Replicates(m) /\ IsPiece(new)
    BY <1>6, <2>1, <2>4, NodeFields, LogIsPiece DEF Replicates
  <2>14. Spliced(new, known.log, Carried(m)) /\ new.base_index = known.log.base_index
    BY <1>6, <2>0, <2>1, StoredIsSpliced
  <2>5. k \in Int /\ k <= Len(new.entries) /\ k >= 0 /\ new.base_index + k >= j
        /\ new.base_index + k \in Int
    <3>1. /\ m.prev_log_index \in Int /\ MatchingPrefix(known, m) \in Nat
          /\ new.base_index \in Int /\ Len(new.entries) \in Int
      BY <1>6, <2>1, <2>4, AppendEntriesFields, MatchingPrefixTyped, LogFields
    <3>2. m.prev_log_index >= new.base_index
      BY <2>0, <2>14 DEF Adds
    <3> HIDE DEF new
    <3> QED BY <2>3, <3>1, <3>2
  <2>6. /\ Part(disk, new) /\ disk.hard = new.hard
        /\ disk.base_index = new.base_index
        /\ disk.snapshot_config = new.snapshot_config
        /\ LastIndex(disk) = new.base_index + k
    BY <2>3, <2>4, <2>5, CutIsPart
  <2>15. Spares(disk, known.log, m)
    <3>1. \A x : LastIndex(x) \in Int /\ LastIndex(x) >= j => Spares(x, known.log, m)
      BY <1>6, <2>0, <2>1, ForkPoint DEF Adds
    <3> QED BY <2>5, <2>6, <3>1
  <2>8. Takes(disk, known.log, m)
    BY <2>6, <2>7, <2>14, <2>15 DEF Takes
  <2>9. m.term = disk.hard.term /\ known.current_term = disk.hard.term
    <3>1. disk.hard.term = after.current_term
      BY <2>2, <2>6 DEF Leads, Sound, Honours, HardOf
    <3> QED BY <2>0, <3>1
  <2>10. ASSUME Lawful(known), \A f \in read : LawfulMessage(f)
         PROVE  LawfulLog(disk)
    <3>1. LawfulLog(new)
      BY <2>2, <2>10 DEF Outcome, Lawful
    <3>2. LawfulPiece(disk)
      BY <1>3, <2>4, <2>6, <3>1, LogIsPiece, PartIsLawful DEF LawfulLog
    <3> QED BY <2>6, <3>1, <3>2 DEF LawfulLog, HasSnapshot
  <2>11. \E f \in read : /\ Replicates(f) /\ f.term = disk.hard.term
                          /\ Takes(disk, known.log, f)
    BY <2>7, <2>8, <2>9
  <2>12. known.current_term <= disk.hard.term
    BY <1>6, <2>9
  <2> QED BY <1>2, <1>3, <2>10, <2>11, <2>12, RestartOutcome
<1>9. Outcome(known, r, read)
  <2>1. Outcome(known, WithLog(known.id, disk), read)
    BY <1>7, <1>8
  <2> QED BY <1>2, <2>1
<1> QED BY <1>1, <1>4, <1>9, AfterAdopting DEF known

-----------------------------------------------------------------------------
(* The cluster. *)

(* What a timer, a request, an application or a restart makes of n. *)
Asked(n, m) ==
    \/ Waits(n) /\ m = TickTimeout(n)
    \/ n.role = "Leader" /\ m = TickHeartbeat(n)
    \/ \E v \in Value : n.role = "Leader" /\ m = Propose(n, v)
    \/ /\ n.role = "Leader"
       /\ \E s \in Candidates, members \in SUBSET Server : m = ChangeMembership(n, members)
    \/ \E s \in Server : m = TransferLeadership(n, s)
    \/ \E index \in n.hints :
            m = [HandleSnapshotEvent(n, index) EXCEPT !.hints = @ \ {index}]
    \/ m = WithLog(n.id, n.disk)

(* What message r makes of n: every handler, and a crash in the middle. *)
Answers(n, r, m) ==
    LET k == AdoptTerm(n, r.term)
    IN  \/ m = n
        \/ r.kind = "PreVote" /\ \E ripe \in BOOLEAN : m = HandlePreVote(n, r, ripe)
        \/ r.kind = "PreVoteReply" /\ m = HandlePreVoteReply(n, r)
        \/ r.kind = "RequestVote" /\ m = HandleRequestVote(k, r)
        \/ /\ r.kind = "RequestVoteReply"
           /\ \E ripe \in BOOLEAN : m = HandleVoteReply(k, r, ripe)
        \/ r.kind = "AppendEntries" /\ m = HandleAppendEntries(k, r)
        \/ r.kind = "AppendEntriesReply" /\ m = HandleAppendReply(k, r)
        \/ r.kind = "InstallSnapshot" /\ m = HandleInstallSnapshot(k, r)
        \/ r.kind = "InstallSnapshotReply" /\ m = HandleInstallSnapshotReply(k, r)
        \/ r.kind = "TimeoutNow" /\ m = HandleTimeoutNow(k, r)
        \/ \E disk \in PartialWrites(n, r) : m = WithLog(n.id, disk)

Handled(n, m, read) ==
    Asked(n, m) \/ \E r \in read : r.to = n.id /\ Answers(n, r, m)

(* Node i becomes m, having read messages on the wire, and m's go there. *)
Turns(i, m) ==
    /\ m \in NodeRecord
    /\ Handled(node[i], m, wire)
    /\ node' = [node EXCEPT ![i] = [m EXCEPT !.sends = {}]]
    /\ wire' \subseteq wire \cup m.sends
    /\ history' = Record(node[i], m)
    /\ Outcome(node[i], m, wire)

(* Nothing happens but to the network, or one node makes a step. *)
Moves ==
    \/ UNCHANGED <<node, history>> /\ wire' \subseteq wire
    \/ \E i \in Server : \E m : Turns(i, m)

(* What a step of node i relies on. *)
LEMMA NodeReady ==
    ASSUME Inv, NEW i \in Server, Lawful(node[i])
    PROVE  /\ Ready(node[i]) /\ Sound(node[i]) /\ node[i].id = i
           /\ node[i] \in NodeRecord
BY NodeBefore DEF Inv, TypeOK, Ready, Lawful

(* A node that becomes an outcome makes a move. *)
LEMMA BecomeMoves ==
    ASSUME NEW i \in Server, NEW m \in NodeRecord, Outcome(node[i], m, wire),
           Handled(node[i], m, wire), NEW consumed, Become(i, m, consumed)
    PROVE  Moves
BY DEF Become, Turns, Moves

(* Members a change may propose. *)
LEMMA MembersAreLawful ==
    ASSUME NEW n \in NodeRecord, Lawful(n), NEW s \in Candidates
    PROVE  n.voters \cup {s} \in Configs /\ n.voters \ {s} \in Configs
<1>1. LastIndex(n.log) \in Nat /\ n.log \in Log
  BY NodeFields, LogFields
<1>2. n.voters \in Configs
  BY <1>1, ConfigIsLawful DEF Lawful, LawfulLog, Follows
<1> QED BY <1>2, BoundsAssumption DEF Configs

(* Ticks and requests. *)
LEMMA LocalActionsMove ==
    ASSUME Inv, NEW i \in Server, Lawful(node[i])
    PROVE  /\ ElectionTimeout(i) => Moves
           /\ Heartbeat(i) => Moves
           /\ \A v \in Value : ClientPropose(i, v) => Moves
           /\ \A s \in Candidates : AddServer(i, s) => Moves
           /\ \A s \in Candidates : RemoveServer(i, s) => Moves
           /\ \A s \in Targets : Transfer(i, s) => Moves
           /\ SnapshotEvent(i) => Moves
           /\ Crash(i) => Moves
<1> DEFINE n == node[i]
<1>1. n \in NodeRecord /\ Ready(n) /\ Sound(n) /\ n.id = i /\ Lawful(n)
  BY NodeReady
<1> HIDE DEF n
<1>2. ASSUME NEW m \in NodeRecord, Outcome(n, m, wire), Asked(n, m), Local(i, m)
      PROVE  Moves
  BY <1>2, BecomeMoves DEF Local, Handled, n
<1>3. ElectionTimeout(i) => Moves
  <2>1. TickTimeout(n) \in NodeRecord /\ Outcome(n, TickTimeout(n), wire)
    BY <1>1, StartPreVoteTyped, StartPreVoteOutcome DEF TickTimeout
  <2>2. Waits(n) => Asked(n, TickTimeout(n))
    BY DEF Asked
  <2> QED BY <1>2, <2>1, <2>2 DEF ElectionTimeout, n
<1>4. Heartbeat(i) => Moves
  <2> SUFFICES ASSUME n.role = "Leader", Local(i, TickHeartbeat(n)) PROVE Moves
    BY DEF Heartbeat, n
  <2>1. TickHeartbeat(n) \in NodeRecord /\ Calm(n, TickHeartbeat(n))
    BY <1>1, ReplicateTyped, ReplicateCalm DEF TickHeartbeat
  <2>2. Asked(n, TickHeartbeat(n))
    BY DEF Asked
  <2> QED BY <1>1, <1>2, <2>1, <2>2, CalmIsOutcome
<1>5. \A v \in Value : ClientPropose(i, v) => Moves
  <2> SUFFICES ASSUME NEW v \in Value, n.role = "Leader", Local(i, Propose(n, v))
               PROVE  Moves
    BY DEF ClientPropose, AcceptsRequests, n
  <2>1. Propose(n, v) \in NodeRecord /\ Outcome(n, Propose(n, v), wire)
    BY <1>1, ProposeTyped, ProposeOutcome
  <2>2. Asked(n, Propose(n, v))
    BY DEF Asked
  <2> QED BY <1>2, <2>1, <2>2
<1>6. ASSUME NEW members \in Configs, n.role = "Leader", Candidates # {},
             Local(i, ChangeMembership(n, members))
      PROVE  Moves
  <2>1. members \in SUBSET Server
    BY DEF Configs
  <2>2. /\ ChangeMembership(n, members) \in NodeRecord
        /\ Outcome(n, ChangeMembership(n, members), wire)
    BY <1>1, <1>6, <2>1, ChangeMembershipTyped, ChangeMembershipOutcome
  <2>3. Asked(n, ChangeMembership(n, members))
    BY <1>6, <2>1 DEF Asked
  <2> QED BY <1>2, <1>6, <2>2, <2>3
<1>7. \A s \in Candidates : AddServer(i, s) => Moves
  BY <1>1, <1>6, MembersAreLawful DEF AddServer, AcceptsRequests, n
<1>8. \A s \in Candidates : RemoveServer(i, s) => Moves
  BY <1>1, <1>6, MembersAreLawful DEF RemoveServer, AcceptsRequests, n
<1>9. \A s \in Targets : Transfer(i, s) => Moves
  <2> SUFFICES ASSUME NEW s \in Targets, Local(i, TransferLeadership(n, s)) PROVE Moves
    BY DEF Transfer, n
  <2>1. s \in Server
    BY BoundsAssumption
  <2>2. /\ TransferLeadership(n, s) \in NodeRecord
        /\ Calm(n, TransferLeadership(n, s))
    BY <1>1, <2>1, TransferLeadershipTyped, TransferLeadershipCalm
  <2>3. Asked(n, TransferLeadership(n, s))
    BY <2>1 DEF Asked
  <2> QED BY <1>1, <1>2, <2>2, <2>3, CalmIsOutcome
<1>10. SnapshotEvent(i) => Moves
  <2> SUFFICES ASSUME SnapshotEvent(i) PROVE Moves
    OBVIOUS
  <2>1. PICK index \in n.hints :
            Local(i, [HandleSnapshotEvent(n, index) EXCEPT !.hints = @ \ {index}])
    BY DEF SnapshotEvent, n
  <2> DEFINE a == HandleSnapshotEvent(n, index)
             b == [a EXCEPT !.hints = @ \ {index}]
  <2>2. a \in NodeRecord /\ Outcome(n, a, wire)
    BY <1>1, NodeFields, HandleSnapshotEventTyped, HandleSnapshotEventOutcome
  <2> HIDE DEF a
  <2>3. b \in NodeRecord /\ Calm(a, b)
    <3>1. b \in NodeRecord
      BY <2>2 DEF NodeRecord
    <3>2. Calm(a, b)
      BY <2>2, NodeNames DEF Calm, Steady, Names
    <3> QED BY <3>1, <3>2
  <2>4. Outcome(n, b, wire)
    BY <2>2, <2>3, CalmFollows
  <2>5. Local(i, b)
    BY <2>1 DEF a
  <2>6. Asked(n, b)
    BY DEF Asked, a
  <2> QED BY <1>2, <2>3, <2>4, <2>5, <2>6
<1>11. Crash(i) => Moves
  <2> SUFFICES ASSUME Become(i, WithLog(i, n.disk), {}) PROVE Moves
    BY DEF Crash, Recover, n
  <2>1. WithLog(i, n.disk) \in NodeRecord
    BY <1>1, NodeFields, WithLogTyped
  <2>2. Outcome(n, WithLog(i, n.disk), wire)
    BY <1>1, CrashOutcome
  <2>3. Handled(n, WithLog(i, n.disk), wire)
    BY <1>1 DEF Handled, Asked
  <2> QED BY <2>1, <2>2, <2>3, BecomeMoves DEF n
<1> QED BY <1>3, <1>4, <1>5, <1>7, <1>8, <1>9, <1>10, <1>11

(* What a receive action relies on. *)
LEMMA KnownReady ==
    ASSUME Inv, NEW m \in wire, \A i \in Server : Lawful(node[i])
    PROVE  /\ m \in Message /\ m.to \in Server
           /\ Ready(node[m.to]) /\ Sound(node[m.to]) /\ node[m.to].id = m.to
           /\ node[m.to] \in NodeRecord
           /\ Ready(Known(m)) /\ Known(m) \in NodeRecord /\ Known(m).id = m.to
           /\ m.term <= Known(m).current_term
           /\ \A a \in NodeRecord :
                Outcome(Known(m), a, wire) => Outcome(node[m.to], a, wire)
<1>1. /\ m \in Message /\ m.to \in Server /\ m.term \in Nat
      /\ Leads(node[m.to], Known(m))
  BY ReceiverKnown
<1>2. /\ Ready(node[m.to]) /\ Sound(node[m.to]) /\ node[m.to].id = m.to
      /\ node[m.to] \in NodeRecord
  BY <1>1, NodeReady
<1>3. Ready(Known(m)) /\ Known(m) \in NodeRecord /\ m.term <= Known(m).current_term
  BY <1>1, <1>2, AdoptTermKeeps DEF Known, Ready
<1>4. Known(m).id = m.to
  BY <1>1, <1>2 DEF Leads, Honours
<1>5. \A a \in NodeRecord : Outcome(Known(m), a, wire) => Outcome(node[m.to], a, wire)
  BY <1>1, <1>2, AfterAdopting DEF Known
<1> QED BY <1>1, <1>2, <1>3, <1>4, <1>5

(* Messages of the elections. *)
LEMMA ElectionMessagesMove ==
    ASSUME Inv, NEW m \in wire, \A i \in Server : Lawful(node[i])
    PROVE  /\ ReceivePreVote(m) => Moves
           /\ ReceivePreVoteReply(m) => Moves
           /\ DropRequestVote(m) => Moves
           /\ ReceiveRequestVote(m) => Moves
           /\ ReceiveVoteReply(m) => Moves
           /\ ReceiveTimeoutNow(m) => Moves
<1> DEFINE n == node[m.to]
           k == Known(m)
<1>1. /\ m \in Message /\ m.to \in Server
      /\ Ready(n) /\ n \in NodeRecord
      /\ Ready(k) /\ k \in NodeRecord /\ k.id = m.to
      /\ \A a \in NodeRecord : Outcome(k, a, wire) => Outcome(n, a, wire)
      /\ n.id = m.to
  BY KnownReady
<1>10. k = AdoptTerm(n, m.term)
  BY DEF Known
<1>2. Ripeness(n) \subseteq BOOLEAN
  BY <1>1, RipenessTyped
<1> HIDE DEF n, k
<1>3. ASSUME NEW a \in NodeRecord, Outcome(n, a, wire), Receive(m, a),
             Answers(n, m, a)
      PROVE  Moves
  <2>1. Handled(n, a, wire)
    BY <1>1, <1>3 DEF Handled
  <2> QED BY <1>1, <1>3, <2>1, BecomeMoves DEF Receive, n
<1>4. ReceivePreVote(m) => Moves
  <2> SUFFICES ASSUME NEW ripe \in BOOLEAN, m.kind = "PreVote",
                      Receive(m, HandlePreVote(n, m, ripe))
               PROVE  Moves
    BY <1>2 DEF ReceivePreVote, n
  <2>1. HandlePreVote(n, m, ripe) \in NodeRecord /\ Calm(n, HandlePreVote(n, m, ripe))
    BY <1>1, HandlePreVoteTyped, HandlePreVoteCalm
  <2>2. Answers(n, m, HandlePreVote(n, m, ripe))
    BY DEF Answers
  <2> QED BY <1>1, <1>3, <2>1, <2>2, CalmIsOutcome
<1>5. ReceivePreVoteReply(m) => Moves
  <2>1. /\ HandlePreVoteReply(n, m) \in NodeRecord
        /\ Outcome(n, HandlePreVoteReply(n, m), wire)
    BY <1>1, HandlePreVoteReplyTyped, HandlePreVoteReplyOutcome
  <2>2. m.kind = "PreVoteReply" => Answers(n, m, HandlePreVoteReply(n, m))
    BY DEF Answers
  <2> QED BY <1>3, <2>1, <2>2 DEF ReceivePreVoteReply, n
<1>6. DropRequestVote(m) => Moves
  <2>1. Outcome(n, n, wire)
    BY <1>1, CalmReflexive, CalmIsOutcome
  <2>2. Answers(n, m, n)
    BY DEF Answers
  <2> QED BY <1>1, <1>3, <2>1, <2>2 DEF DropRequestVote, n
<1>7. ReceiveRequestVote(m) => Moves
  <2>1. /\ HandleRequestVote(k, m) \in NodeRecord
        /\ Outcome(k, HandleRequestVote(k, m), wire)
    BY <1>1, HandleRequestVoteTyped, HandleRequestVoteOutcome
  <2>2. m.kind = "RequestVote" => Answers(n, m, HandleRequestVote(k, m))
    BY <1>10 DEF Answers
  <2> QED BY <1>1, <1>3, <2>1, <2>2 DEF ReceiveRequestVote, k
<1>8. ReceiveVoteReply(m) => Moves
  <2> SUFFICES ASSUME NEW ripe \in BOOLEAN, m.kind = "RequestVoteReply",
                      Receive(m, HandleVoteReply(k, m, ripe))
               PROVE  Moves
    BY <1>2 DEF ReceiveVoteReply, n, k
  <2>1. /\ HandleVoteReply(k, m, ripe) \in NodeRecord
        /\ Outcome(k, HandleVoteReply(k, m, ripe), wire)
    BY <1>1, HandleVoteReplyTyped, HandleVoteReplyOutcome
  <2>2. Answers(n, m, HandleVoteReply(k, m, ripe))
    BY <1>10 DEF Answers
  <2> QED BY <1>1, <1>3, <2>1, <2>2
<1>9. ReceiveTimeoutNow(m) => Moves
  <2>1. /\ HandleTimeoutNow(k, m) \in NodeRecord
        /\ Outcome(k, HandleTimeoutNow(k, m), wire)
    BY <1>1, HandleTimeoutNowTyped, HandleTimeoutNowOutcome
  <2>2. m.kind = "TimeoutNow" => Answers(n, m, HandleTimeoutNow(k, m))
    BY <1>10 DEF Answers
  <2> QED BY <1>1, <1>3, <2>1, <2>2 DEF ReceiveTimeoutNow, k
<1> QED BY <1>4, <1>5, <1>6, <1>7, <1>8, <1>9

(* Messages of replication. *)
LEMMA ReplicationMessagesMove ==
    ASSUME Inv, NEW m \in wire, \A i \in Server : Lawful(node[i])
    PROVE  /\ ReceiveAppendEntries(m) => Moves
           /\ ReceiveAppendReply(m) => Moves
           /\ ReceiveInstallSnapshot(m) => Moves
           /\ ReceiveInstallSnapshotReply(m) => Moves
           /\ CrashHandling(m) => Moves
<1> DEFINE n == node[m.to]
           k == Known(m)
<1>1. /\ m \in Message /\ m.to \in Server
      /\ Ready(n) /\ Sound(n) /\ n.id = m.to
      /\ Ready(k) /\ k \in NodeRecord /\ m.term <= k.current_term
      /\ \A a \in NodeRecord : Outcome(k, a, wire) => Outcome(n, a, wire)
  BY KnownReady
<1>8. k = AdoptTerm(n, m.term)
  BY DEF Known
<1> HIDE DEF n, k
<1>2. ASSUME NEW a \in NodeRecord, Outcome(k, a, wire), Receive(m, a),
             Answers(n, m, a)
      PROVE  Moves
  <2>1. Handled(n, a, wire)
    BY <1>1, <1>2 DEF Handled
  <2> QED BY <1>1, <1>2, <2>1, BecomeMoves DEF Receive, n
<1>3. ReceiveAppendEntries(m) => Moves
  <2> SUFFICES ASSUME m.kind = "AppendEntries", Receive(m, HandleAppendEntries(k, m))
               PROVE  Moves
    BY DEF ReceiveAppendEntries, k
  <2>1. /\ HandleAppendEntries(k, m) \in NodeRecord
        /\ Outcome(k, HandleAppendEntries(k, m), wire)
    BY <1>1, HandleAppendEntriesTyped, HandleAppendEntriesOutcome
  <2>2. Answers(n, m, HandleAppendEntries(k, m))
    BY <1>8 DEF Answers
  <2> QED BY <1>2, <2>1, <2>2
<1>4. ReceiveAppendReply(m) => Moves
  <2> SUFFICES ASSUME m.kind = "AppendEntriesReply", Receive(m, HandleAppendReply(k, m))
               PROVE  Moves
    BY DEF ReceiveAppendReply, k
  <2>1. HandleAppendReply(k, m) \in NodeRecord /\ Calm(k, HandleAppendReply(k, m))
    BY <1>1, HandleAppendReplyTyped, HandleAppendReplyCalm
  <2>2. Answers(n, m, HandleAppendReply(k, m))
    BY <1>8 DEF Answers
  <2> QED BY <1>1, <1>2, <2>1, <2>2, CalmIsOutcome
<1>5. ReceiveInstallSnapshot(m) => Moves
  <2> SUFFICES ASSUME m.kind = "InstallSnapshot", Receive(m, HandleInstallSnapshot(k, m))
               PROVE  Moves
    BY DEF ReceiveInstallSnapshot, k
  <2>1. /\ HandleInstallSnapshot(k, m) \in NodeRecord
        /\ Outcome(k, HandleInstallSnapshot(k, m), wire)
    BY <1>1, HandleInstallSnapshotTyped, HandleInstallSnapshotOutcome
  <2>2. Answers(n, m, HandleInstallSnapshot(k, m))
    BY <1>8 DEF Answers
  <2> QED BY <1>2, <2>1, <2>2
<1>6. ReceiveInstallSnapshotReply(m) => Moves
  <2> SUFFICES ASSUME m.kind = "InstallSnapshotReply",
                      Receive(m, HandleInstallSnapshotReply(k, m))
               PROVE  Moves
    BY DEF ReceiveInstallSnapshotReply, k
  <2>1. /\ HandleInstallSnapshotReply(k, m) \in NodeRecord
        /\ Calm(k, HandleInstallSnapshotReply(k, m))
    BY <1>1, HandleInstallSnapshotReplyTyped, HandleInstallSnapshotReplyCalm
  <2>2. Answers(n, m, HandleInstallSnapshotReply(k, m))
    BY <1>8 DEF Answers
  <2> QED BY <1>1, <1>2, <2>1, <2>2, CalmIsOutcome
<1>7. CrashHandling(m) => Moves
  <2> SUFFICES ASSUME NEW disk \in PartialWrites(n, m),
                      Become(m.to, WithLog(m.to, disk), {m})
               PROVE  Moves
    BY DEF CrashHandling, Recover, n
  <2>1. disk \in Log
    BY <1>1, PartialWritesTyped DEF Ready
  <2>2. WithLog(m.to, disk) \in NodeRecord
    BY <1>1, <2>1, WithLogTyped
  <2>3. Outcome(n, WithLog(m.to, disk), wire)
    BY <1>1, CrashHandlingOutcome
  <2>4. Handled(n, WithLog(m.to, disk), wire)
    <3>1. Answers(n, m, WithLog(n.id, disk))
      BY DEF Answers
    <3> QED BY <1>1, <3>1 DEF Handled
  <2> QED BY <1>1, <2>2, <2>3, <2>4, BecomeMoves DEF n
<1> QED BY <1>3, <1>4, <1>5, <1>6, <1>7

(* Every step of the cluster is a move. *)
LEMMA NextMoves ==
    ASSUME Inv, \A i \in Server : Lawful(node[i]), [Next]_vars
    PROVE  Moves
<1>1. CASE UNCHANGED vars
  BY <1>1 DEF vars, Moves
<1>2. ASSUME NEW m \in wire, Lose(m) PROVE Moves
  BY <1>2 DEF Lose, Moves
<1>3. CASE Next
  BY <1>2, <1>3, LocalActionsMove, ElectionMessagesMove, ReplicationMessagesMove DEF Next
<1> QED BY <1>1, <1>3

(* Each node after a move: one as it was, or the outcome without its sends. *)
LEMMA AfterTurn ==
    ASSUME TypeOK, NEW i \in Server, NEW m, Turns(i, m)
    PROVE  LET k == [m EXCEPT !.sends = {}]
           IN  /\ \A j \in Server : node'[j] = IF j = i THEN k ELSE node[j]
               /\ k \in NodeRecord
               /\ k.id = m.id /\ k.log = m.log /\ k.disk = m.disk /\ k.role = m.role
               /\ k.votes = m.votes /\ k.current_term = m.current_term
               /\ k.voted_for = m.voted_for /\ k.voters = m.voters
               /\ k.base_config = m.base_config /\ k.config_index = m.config_index
<1>1. m \in NodeRecord /\ node' = [node EXCEPT ![i] = [m EXCEPT !.sends = {}]]
  BY DEF Turns
<1> DEFINE k == [m EXCEPT !.sends = {}]
<1>2. k \in NodeRecord
  BY <1>1 DEF NodeRecord
<1>3. /\ k.id = m.id /\ k.log = m.log /\ k.disk = m.disk /\ k.role = m.role
      /\ k.votes = m.votes /\ k.current_term = m.current_term
      /\ k.voted_for = m.voted_for /\ k.voters = m.voters
      /\ k.base_config = m.base_config /\ k.config_index = m.config_index
  BY <1>1, NodeNames DEF Names
<1> HIDE DEF k
<1>4. \A j \in Server : node'[j] = IF j = i THEN k ELSE node[j]
  BY <1>1 DEF k, TypeOK
<1> QED BY <1>2, <1>3, <1>4 DEF k


=============================================================================
