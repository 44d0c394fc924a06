----------------------------- MODULE RaftDeeds -----------------------------
(***************************************************************************)
(* What a handler does to the progress table, the commit index and the     *)
(* application, and what its messages claim of them: measured against the  *)
(* whole log of the node, from index 1, which compaction hides.            *)
(***************************************************************************)
EXTENDS RaftLeaders

-----------------------------------------------------------------------------
(* Whole logs. *)

(* A log nothing was compacted away from. *)
Whole(s) == [base_index |-> 0, base_term |-> 0, entries |-> s]

(* s is all that has ever been in this log, up to its end. *)
Holding(log, s) == Part(log, Whole(s)) /\ LastIndex(log) = Len(s)

(* The commands among the entries at the indices K, and among the first. *)
CommandsIn(s, K) ==
    {[index |-> k, command |-> s[k].body] : k \in {k \in K : s[k].kind = "Normal"}}

Commands(s, x) == CommandsIn(s, 1 .. x)

LEMMA WholeFields ==
    ASSUME NEW s \in Seq(LogEntry)
    PROVE  /\ IsPiece(Whole(s)) /\ Len(s) \in Nat
           /\ LastIndex(Whole(s)) = Len(s) /\ Span(Whole(s)) = 0 .. Len(s)
           /\ \A k : HasEntry(Whole(s), k) <=> k \in 1 .. Len(s)
           /\ \A k \in 1 .. Len(s) : /\ s[k] \in LogEntry
                                     /\ EntryAt(Whole(s), k) = s[k]
                                     /\ TermAt(Whole(s), k) = s[k].term
           /\ TermAt(Whole(s), 0) = 0
<1>1. Len(s) \in Nat /\ \A k \in 1 .. Len(s) : s[k] \in LogEntry
  BY LenProperties, ElementOfSeq
<1>2. LastIndex(Whole(s)) = Len(s) /\ Span(Whole(s)) = 0 .. Len(s)
  BY <1>1 DEF LastIndex, Span, Whole
<1>3. \A k : HasEntry(Whole(s), k) <=> k \in 1 .. Len(s)
  BY <1>1, <1>2 DEF HasEntry, Whole
<1>4. \A k \in 1 .. Len(s) : EntryAt(Whole(s), k) = s[k]
  BY <1>1 DEF EntryAt, Whole
<1>5. \A k \in 1 .. Len(s) : TermAt(Whole(s), k) = s[k].term
  BY <1>1, <1>3, <1>4 DEF TermAt, Whole
<1>6. TermAt(Whole(s), 0) = 0 /\ IsPiece(Whole(s))
  BY DEF TermAt, Whole, IsPiece
<1> QED BY <1>1, <1>2, <1>3, <1>4, <1>5, <1>6

(* A log reads as the whole it is part of. *)
LEMMA PartReads ==
    ASSUME NEW s \in Seq(LogEntry), NEW a, IsPiece(a), Part(a, Whole(s))
    PROVE  /\ LastIndex(a) <= Len(s) /\ LastIndex(a) \in Nat /\ a.base_index \in Nat
           /\ a.base_index <= LastIndex(a)
           /\ \A k \in Span(a) : /\ k \in 0 .. Len(s)
                                 /\ k > 0 => TermAt(a, k) = s[k].term
                                 /\ k = 0 => TermAt(a, k) = 0
           /\ \A k : HasEntry(a, k) => k \in 1 .. Len(s) /\ EntryAt(a, k) = s[k]
<1>1. /\ IsPiece(Whole(s)) /\ Len(s) \in Nat /\ Span(Whole(s)) = 0 .. Len(s)
      /\ \A k : HasEntry(Whole(s), k) <=> k \in 1 .. Len(s)
      /\ \A k \in 1 .. Len(s) : /\ EntryAt(Whole(s), k) = s[k]
                                /\ TermAt(Whole(s), k) = s[k].term
      /\ TermAt(Whole(s), 0) = 0
  BY WholeFields
<1>2. /\ a.base_index \in Nat /\ LastIndex(a) \in Nat /\ LastIndex(a) \in Span(a)
      /\ LastIndex(a) = a.base_index + Len(a.entries) /\ Len(a.entries) \in Nat
      /\ \A k : HasEntry(a, k) => k \in Span(a)
  BY PieceFields
<1>3. \A k \in Span(a) : k \in 0 .. Len(s) /\ TermAt(a, k) = TermAt(Whole(s), k)
  BY <1>1 DEF Part, Same
<1>4. \A k \in Span(a) : (k > 0 => TermAt(a, k) = s[k].term) /\ (k = 0 => TermAt(a, k) = 0)
  BY <1>1, <1>3
<1>5. \A k : HasEntry(a, k) => k \in 1 .. Len(s)
  BY <1>1, <1>2, <1>3 DEF HasEntry
<1>6. \A k : HasEntry(a, k) => EntryAt(a, k) = s[k]
  BY <1>1, <1>2, <1>5 DEF Part, Same
<1> QED BY <1>1, <1>2, <1>3, <1>4, <1>5, <1>6

(* What is above the boundary is there. *)
LEMMA HoldingReads ==
    ASSUME NEW s \in Seq(LogEntry), NEW log \in Log, Holding(log, s),
           NEW k \in Nat, k > log.base_index, k <= Len(s)
    PROVE  HasEntry(log, k) /\ EntryAt(log, k) = s[k] /\ TermAt(log, k) = s[k].term
<1>1. HasEntry(log, k) /\ k # log.base_index
  BY LogFields DEF HasEntry, Holding
<1>2. EntryAt(log, k) = s[k]
  BY <1>1, LogIsPiece, PartReads DEF Holding
<1> QED BY <1>1, <1>2 DEF TermAt

(* The commands up to an index, and those that follow. *)
LEMMA MoreCommands ==
    ASSUME NEW s, NEW x \in Nat, NEW y \in Nat, x <= y
    PROVE  Commands(s, y) = Commands(s, x) \cup CommandsIn(s, x + 1 .. y)
<1>1. 1 .. y = 1 .. x \cup (x + 1 .. y)
  OBVIOUS
<1>2. ASSUME NEW K, NEW M
      PROVE  CommandsIn(s, K \cup M) = CommandsIn(s, K) \cup CommandsIn(s, M)
  BY DEF CommandsIn
<1> QED BY <1>1, <1>2 DEF Commands

(* The same entries give the same commands. *)
LEMMA SameCommands ==
    ASSUME NEW s, NEW r, NEW x \in Nat, \A k \in 1 .. x : s[k] = r[k]
    PROVE  Commands(s, x) = Commands(r, x)
BY Zenon DEF Commands, CommandsIn

-----------------------------------------------------------------------------
(* What a node is measured against: the whole of its log; the indices up to *)
(* which that is known to be decided, and up to which it is on record as    *)
(* committed; what each server has acknowledged, and in which term; and     *)
(* what was applied before the step.                                        *)
Ledger(e) ==
    /\ e.whole \in Seq(LogEntry)
    /\ e.sure \subseteq 0 .. Len(e.whole)
    /\ \A x \in e.sure : \A y \in 0 .. x : y \in e.sure
    /\ e.told \subseteq Nat
    /\ \A x \in e.told : \A y \in 0 .. x : y \in e.told
    /\ e.low \in Nat
    /\ \A b \in e.acks : b.index \in Nat

Ack(q, t, x) == [server |-> q, term |-> t, index |-> x]

(* Server q has acknowledged, in term t, to hold the log up to x. *)
Acked(a, q, t, x) ==
    x = 0 \/ \E b \in a : b.server = q /\ b.term = t /\ x <= b.index

(* A leader tracks the others, and believes no more than it was told. *)
Tracks(n, e) ==
    /\ n.progress[n.id] = None
    /\ n.role # "Leader" => Tracked(n) = {}
    /\ \A p \in Tracked(n) :
            /\ Acked(e.acks, p, n.current_term, n.progress[p].match_index)
            /\ n.progress[p].match_index < n.progress[p].next_index
            /\ n.progress[p].next_index <= LastIndex(n.log) + 1

(* What is applied is decided; the application and the snapshot hold it.    *)
Applies(n, e) ==
    /\ n.log.base_index <= n.commit_index
    /\ n.commit_index <= n.last_applied
    /\ n.last_applied \in e.sure
    /\ n.last_applied <= Larger(e.low, n.commit_index)
    /\ n.log.base_index \in e.told
    /\ n.app = Commands(e.whole, n.last_applied)
    /\ n.log.data = Commands(e.whole, n.log.base_index)

(* What a message claims of its sender. *)
Speaks(n, x, e) ==
    /\ Replicates(x) => n.role = "Leader" /\ x.to # x.from
    /\ x.kind = "AppendEntries" =>
            x.prev_log_index <= LastIndex(n.log) /\ x.leader_commit <= n.last_applied
    /\ x.kind = "RequestVote" =>
            /\ n.role = "Candidate"
            /\ x.last_log_index = LastIndex(n.log)
            /\ x.last_log_term = LastTerm(n.log)
    /\ x.kind = "RequestVoteReply" /\ x.vote_granted =>
            \E r \in e.read : /\ r.kind = "RequestVote"
                              /\ r.from = n.voted_for
                              /\ r.term = n.current_term
                              /\ CandidateLogUpToDate(n, r)
    /\ x.kind = "AppendEntriesReply" =>
            /\ x.term = n.current_term
            /\ x.match_index > 0 =>
                \E f \in e.read :
                    /\ Replicates(f) /\ f.term = n.current_term
                    /\ \/ x.match_index <= n.last_applied
                       \/ /\ f.kind = "AppendEntries"
                          /\ x.match_index = LastIndex(Carried(f))
                          /\ TermAt(n.log, x.match_index)
                                = TermAt(Carried(f), x.match_index)
    /\ x.kind = "InstallSnapshotReply" =>
            /\ x.term = n.current_term
            /\ x.last_index > 0 =>
                /\ x.last_index <= n.last_applied
                /\ \E f \in e.read : Replicates(f) /\ f.term = n.current_term
    /\ x.kind = "TimeoutNow" =>
            /\ n.role = "Leader" /\ x.term = n.current_term /\ x.to # n.id
            /\ Acked(e.acks, x.to, n.current_term, LastIndex(n.log))
Fit(n, e) ==
    /\ n \in NodeRecord
    /\ n.voters = Server
    /\ Holding(n.log, e.whole)
    /\ Tracks(n, e)
    /\ Applies(n, e)
    /\ \A x \in n.sends : Speaks(n, x, e)
-----------------------------------------------------------------------------
(* The rounds of a leader. *)

(* What a message claims stays true as more is applied. *)
LEMMA SpeaksOn ==
    ASSUME NEW e, NEW n \in NodeRecord, NEW m \in NodeRecord,
           m.id = n.id, m.log = n.log, m.role = n.role,
           m.current_term = n.current_term, m.voted_for = n.voted_for,
           n.last_applied <= m.last_applied,
           NEW x \in Message, Speaks(n, x, e)
    PROVE  Speaks(m, x, e)
<1>1. n.last_applied \in Nat /\ m.last_applied \in Nat
  BY NodeFields
<1>2. x.kind = "AppendEntries" => x.leader_commit <= m.last_applied
  BY <1>1, AppendEntriesFields DEF Speaks
<1>3. x.kind = "AppendEntriesReply" /\ x.match_index <= n.last_applied
        => x.match_index <= m.last_applied
  BY <1>1, AppendReplyFields
<1>4. x.kind = "InstallSnapshotReply" => x.last_index <= m.last_applied
  BY <1>1, InstallSnapshotReplyFields DEF Speaks
<1>5. \A r : CandidateLogUpToDate(n, r) => CandidateLogUpToDate(m, r)
  BY DEF CandidateLogUpToDate
<1> QED BY <1>2, <1>3, <1>4, <1>5 DEF Speaks

(* A node that changes nothing of this stays fit when what it adds to say   *)
(* is true.                                                                 *)
LEMMA FitStays ==
    ASSUME NEW e, NEW n, Fit(n, e), NEW m \in NodeRecord,
           m.id = n.id, m.voters = n.voters, m.log = n.log, m.role = n.role,
           m.current_term = n.current_term, m.voted_for = n.voted_for,
           m.commit_index = n.commit_index, m.last_applied = n.last_applied,
           m.app = n.app, Tracks(m, e),
           \A x \in m.sends : x \in n.sends \/ Speaks(m, x, e)
    PROVE  Fit(m, e)
<1>1. n \in NodeRecord /\ n.last_applied \in Nat /\ n.sends \subseteq Message
  BY NodeFields DEF Fit
<1>2. \A x \in n.sends : Speaks(m, x, e)
  BY <1>1, SpeaksOn DEF Fit
<1>3. Applies(m, e)
  BY DEF Applies, Fit
<1> QED BY <1>2, <1>3 DEF Fit

(* A batch ends with the log at the latest. *)
LEMMA BatchLength ==
    ASSUME NEW log \in Log, NEW next \in Nat, NEW to \in Nat,
           next > log.base_index, next <= LastIndex(log) + 1
    PROVE  /\ Len(EntriesOf(log, next, to)) \in Nat
           /\ next + Len(EntriesOf(log, next, to)) <= LastIndex(log) + 1
<1> DEFINE a == next - log.base_index
           b == Smaller(to, LastIndex(log)) - log.base_index
<1>1. /\ log.base_index \in Nat /\ log.entries \in Seq(LogEntry)
      /\ Len(log.entries) \in Nat /\ LastIndex(log) \in Nat
      /\ LastIndex(log) = log.base_index + Len(log.entries)
  BY LogFields
<1>2. /\ a \in Int /\ b \in Int /\ a >= 1 /\ b <= Len(log.entries)
      /\ Larger(next, log.base_index + 1) = next
  BY <1>1, SmallerLarger DEF Larger
<1>3. a <= Len(log.entries) + 1 /\ next = log.base_index + a
  BY <1>1
<1>4. EntriesOf(log, next, to) = SubSeq(log.entries, a, b)
  BY <1>2 DEF EntriesOf
<1> HIDE DEF a, b
<1>5. \A i \in a .. b : log.entries[i] \in LogEntry
  BY <1>1, <1>2, ElementOfSeq
<1>6. Len(SubSeq(log.entries, a, b)) = IF a <= b THEN b - a + 1 ELSE 0
  BY <1>2, <1>5, SubSeqProperties
<1> DEFINE l == Len(SubSeq(log.entries, a, b))
<1>7. l \in Nat /\ a + l <= Len(log.entries) + 1
  BY <1>1, <1>2, <1>3, <1>6
<1> HIDE DEF l
<1>8. next + l <= LastIndex(log) + 1
  <2> DEFINE z == Len(log.entries)
             y == LastIndex(log)
             x == log.base_index
  <2>1. x \in Nat /\ z \in Nat /\ y = x + z
    BY <1>1
  <2>2. next = x + a /\ a \in Int
    BY <1>2, <1>3
  <2>3. l \in Nat /\ a + l <= z + 1
    BY <1>7
  <2> HIDE DEF x, y, z
  <2>4. next + l <= y + 1
    BY <2>1, <2>2, <2>3
  <2> QED BY <2>4 DEF y
<1> QED BY <1>4, <1>7, <1>8 DEF l

(* What is sent moves next ahead, not past the end of the log. *)
LEMMA ProgressAfterSendInRange ==
    ASSUME NEW n \in NodeRecord, NEW p \in Tracked(n),
           n.progress[p].match_index < n.progress[p].next_index,
           n.progress[p].next_index <= LastIndex(n.log) + 1
    PROVE  LET pr == ProgressAfterSend(n, p)
           IN  /\ pr # None
               /\ pr.match_index = n.progress[p].match_index
               /\ pr.match_index < pr.next_index
               /\ pr.next_index <= LastIndex(n.log) + 1
<1> DEFINE old == n.progress[p]
           pr  == ProgressAfterSend(n, p)
           l   == Len(AppendEntriesTo(n, p).entries)
<1>1. /\ old \in Progress /\ old.next_index \in Nat /\ old.match_index \in Nat
      /\ n.log \in Log /\ LastIndex(n.log) \in Nat
  BY TrackedTyped, NodeFields, LogFields
<1>2. pr # None
  BY ProgressAfterSendTyped, ProgressAssumption
<1>3. CASE Compacted(n, p)
  BY <1>1, <1>2, <1>3 DEF ProgressAfterSend, Progress
<1>4. CASE ~ Compacted(n, p)
  <2>1. l \in Nat /\ old.next_index + l <= LastIndex(n.log) + 1
    <3>1. old.next_index > n.log.base_index
      BY <1>1, <1>4, LogFields DEF Compacted
    <3>2. old.next_index + MaxBatch - 1 \in Nat
      BY <1>1, ConfigAssumption
    <3>3. AppendEntriesTo(n, p).entries
            = EntriesOf(n.log, old.next_index, old.next_index + MaxBatch - 1)
      BY DEF AppendEntriesTo
    <3> HIDE DEF old
    <3> QED BY <1>1, <3>1, <3>2, <3>3, BatchLength DEF old
  <2>2. pr = old \/ pr = [old EXCEPT !.next_index = @ + l]
    BY <1>4 DEF ProgressAfterSend
  <2> HIDE DEF old, l, pr
  <2>3. /\ pr.match_index = old.match_index
        /\ pr.next_index = old.next_index \/ pr.next_index = old.next_index + l
    BY <1>1, <2>2 DEF Progress
  <2>4. old.match_index < old.next_index /\ old.next_index <= LastIndex(n.log) + 1
    BY DEF old
  <2> QED BY <1>1, <1>2, <2>1, <2>3, <2>4 DEF old, pr
<1> QED BY <1>3, <1>4

(* Sending appends. *)
LEMMA SendAppendFits ==
    ASSUME NEW e, NEW n, Fit(n, e), n.role = "Leader", NEW peers \in SUBSET Tracked(n)
    PROVE  Fit(SendAppend(n, peers), e)
<1> DEFINE m     == SendAppend(n, peers)
           to(p) == IF Compacted(n, p) THEN InstallSnapshotTo(n, p)
                                       ELSE AppendEntriesTo(n, p)
           new   == {to(p) : p \in peers}
<1>1. /\ n \in NodeRecord /\ n.id \in Server /\ n.commit_index \in Nat
      /\ n.progress \in [Server -> Progress \cup {None}]
      /\ n.log \in Log /\ LastIndex(n.log) \in Nat
  BY NodeFields, LogFields DEF Fit
<1>2. m \in NodeRecord
  BY <1>1, SendAppendTyped
<1>3. /\ m.id = n.id /\ m.voters = n.voters /\ m.log = n.log /\ m.role = n.role
      /\ m.current_term = n.current_term /\ m.voted_for = n.voted_for
      /\ m.commit_index = n.commit_index /\ m.last_applied = n.last_applied
      /\ m.app = n.app /\ m.sends = n.sends \cup new
      /\ \A p \in Server : m.progress[p] = IF p \in peers THEN ProgressAfterSend(n, p)
                                                         ELSE n.progress[p]
  BY <1>1 DEF SendAppend, NodeRecord
<1> HIDE DEF m, new
<1>4. ASSUME NEW p \in Tracked(n)
      PROVE  /\ p \in Server /\ p # n.id
             /\ n.progress[p].match_index < n.progress[p].next_index
             /\ n.progress[p].next_index <= LastIndex(n.log) + 1
             /\ Acked(e.acks, p, n.current_term, n.progress[p].match_index)
  BY DEF Fit, Tracks, Tracked
<1>5. Tracked(m) = Tracked(n) /\ n.id \notin peers
  <2>1. \A p \in peers : p \in Tracked(n) /\ p # n.id /\ ProgressAfterSend(n, p) # None
    BY <1>1, <1>4, ProgressAfterSendInRange
  <2> QED BY <1>3, <2>1 DEF Tracked
<1>6. Tracks(m, e)
  <2>1. m.progress[m.id] = None
    BY <1>1, <1>3, <1>5 DEF Fit, Tracks
  <2>2. ASSUME NEW p \in Tracked(m)
        PROVE  /\ Acked(e.acks, p, m.current_term, m.progress[p].match_index)
               /\ m.progress[p].match_index < m.progress[p].next_index
               /\ m.progress[p].next_index <= LastIndex(m.log) + 1
    <3>1. CASE p \in peers
      <4>1. m.progress[p] = ProgressAfterSend(n, p)
        BY <1>3, <1>4, <3>1
      <4> QED BY <1>1, <1>3, <1>4, <3>1, <4>1, ProgressAfterSendInRange
    <3>2. CASE p \notin peers
      BY <1>3, <1>4, <1>5, <3>2
    <3> QED BY <3>1, <3>2
  <2> QED BY <1>3, <2>1, <2>2 DEF Tracks
<1>7. ASSUME NEW p \in peers PROVE Speaks(m, to(p), e)
  <2>1. p # n.id /\ n.role = "Leader"
    BY <1>4
  <2>2. CASE Compacted(n, p)
    <3> DEFINE s == InstallSnapshotTo(n, p)
    <3>1. s.kind = "InstallSnapshot" /\ s.to = p /\ s.from = n.id
      BY DEF InstallSnapshotTo
    <3> HIDE DEF s
    <3>2. Speaks(m, s, e)
      BY <1>3, <2>1, <3>1 DEF Speaks
    <3> QED BY <2>2, <3>2 DEF s
  <2>3. CASE ~ Compacted(n, p)
    <3> DEFINE s == AppendEntriesTo(n, p)
    <3>1. /\ s.kind = "AppendEntries" /\ s.to = p /\ s.from = n.id
          /\ s.prev_log_index = n.progress[p].next_index - 1
          /\ s.leader_commit = n.commit_index
      BY DEF AppendEntriesTo
    <3>2. s.prev_log_index <= LastIndex(n.log)
      <4>1. n.progress[p].next_index \in Nat
        BY <1>1, TrackedTyped
      <4> QED BY <1>1, <1>4, <3>1, <4>1
    <3> HIDE DEF s
    <3>3. s.leader_commit <= n.last_applied
      BY <3>1 DEF Fit, Applies
    <3>4. Speaks(m, s, e)
      BY <1>3, <2>1, <3>1, <3>2, <3>3 DEF Speaks
    <3> QED BY <2>3, <3>4 DEF s
  <2> QED BY <2>2, <2>3
<1>8. \A x \in m.sends : x \in n.sends \/ Speaks(m, x, e)
  BY <1>3, <1>7 DEF new
<1> QED BY <1>2, <1>3, <1>6, <1>8, FitStays DEF m

-----------------------------------------------------------------------------
(* Commitment and application. *)

(* Applying up to a decided commit index. *)
LEMMA DrainAppliesFits ==
    ASSUME NEW e, Ledger(e), NEW n \in NodeRecord, n.voters = Server,
           Holding(n.log, e.whole), Tracks(n, e), \A x \in n.sends : Speaks(n, x, e),
           n.log.base_index <= n.commit_index, n.commit_index \in e.sure,
           n.log.base_index <= n.last_applied, n.last_applied \in e.sure,
           n.last_applied <= Larger(e.low, n.commit_index),
           n.log.base_index \in e.told,
           n.app = Commands(e.whole, n.last_applied),
           n.log.data = Commands(e.whole, n.log.base_index)
    PROVE  LET d == DrainApplies(n)
           IN  /\ Fit(d, e) /\ d.role = n.role /\ d.progress = n.progress
               /\ d.current_term = n.current_term /\ d.log = n.log /\ d.id = n.id
               /\ d.transfer_target = n.transfer_target
<1> DEFINE c   == n.commit_index
           la  == n.last_applied
           due == {k \in la + 1 .. c : HasEntry(n.log, k) /\ EntryAt(n.log, k).kind = "Normal"}
           add == {[index |-> k, command |-> EntryAt(n.log, k).body] : k \in due}
           d   == DrainApplies(n)
           top == Larger(la, c)
<1>1. /\ c \in Nat /\ la \in Nat /\ n.log \in Log /\ n.log.base_index \in Nat
      /\ n.sends \subseteq Message /\ e.low \in Nat
      /\ e.whole \in Seq(LogEntry) /\ c <= Len(e.whole) /\ Len(e.whole) \in Nat
  <2>1. Len(e.whole) \in Nat /\ e.whole \in Seq(LogEntry) /\ e.low \in Nat
    BY LenProperties DEF Ledger
  <2>2. c <= Len(e.whole)
    BY <2>1 DEF Ledger
  <2> QED BY <2>1, <2>2, NodeFields, LogFields
<1>2. /\ d \in NodeRecord
      /\ d.id = n.id /\ d.voters = n.voters /\ d.log = n.log /\ d.role = n.role
      /\ d.current_term = n.current_term /\ d.voted_for = n.voted_for
      /\ d.commit_index = c /\ d.last_applied = top /\ d.app = n.app \cup add
      /\ d.progress = n.progress /\ d.transfer_target = n.transfer_target
      /\ d.sends = n.sends
  <2> DEFINE core == [n EXCEPT !.last_applied = top, !.app = @ \cup add]
  <2>1. d \in NodeRecord
    BY DrainAppliesTyped
  <2>2. d = MaybeHintSnapshot(core)
    BY Zenon DEF DrainApplies
  <2>3. /\ core.id = n.id /\ core.voters = n.voters /\ core.log = n.log
        /\ core.role = n.role /\ core.current_term = n.current_term
        /\ core.voted_for = n.voted_for /\ core.commit_index = c
        /\ core.last_applied = top /\ core.app = n.app \cup add
        /\ core.progress = n.progress /\ core.transfer_target = n.transfer_target
        /\ core.sends = n.sends
    BY DEF NodeRecord
  <2>4. /\ d.id = core.id /\ d.voters = core.voters /\ d.log = core.log
        /\ d.role = core.role /\ d.current_term = core.current_term
        /\ d.voted_for = core.voted_for /\ d.commit_index = core.commit_index
        /\ d.last_applied = core.last_applied /\ d.app = core.app
        /\ d.progress = core.progress /\ d.transfer_target = core.transfer_target
        /\ d.sends = core.sends
    <3> HIDE DEF add, d, top, c
    <3> QED BY <2>2 DEF MaybeHintSnapshot, NodeRecord
  <2> QED BY <2>1, <2>3, <2>4
<1> HIDE DEF d, add
<1>3. top \in e.sure /\ la <= top /\ c <= top /\ top <= Larger(e.low, c)
  BY <1>1 DEF Larger
<1>4. ASSUME NEW k \in la + 1 .. c
      PROVE  HasEntry(n.log, k) /\ EntryAt(n.log, k) = e.whole[k]
  <2>1. k \in Nat /\ k > n.log.base_index /\ k <= Len(e.whole)
    BY <1>1
  <2> QED BY <1>1, <2>1, HoldingReads
<1>5. add = CommandsIn(e.whole, la + 1 .. c)
  BY <1>4, Zenon DEF add, CommandsIn
<1>6. n.app \cup add = Commands(e.whole, top)
  <2>1. CASE la <= c
    <3>1. top = c
      BY <1>1, <2>1 DEF Larger
    <3>2. n.app = Commands(e.whole, la)
      OBVIOUS
    <3>3. Commands(e.whole, c) = Commands(e.whole, la) \cup CommandsIn(e.whole, la + 1 .. c)
      <4> HIDE DEF la, c
      <4> QED BY <1>1, <2>1, MoreCommands
    <3> HIDE DEF la, c, top
    <3> QED BY <1>5, <3>1, <3>2, <3>3
  <2>2. CASE ~ (la <= c)
    <3>1. top = la /\ la + 1 .. c = {}
      BY <1>1, <2>2 DEF Larger
    <3>2. add = {}
      BY <1>5, <3>1 DEF CommandsIn
    <3> QED BY <3>1, <3>2
  <2> QED BY <2>1, <2>2
<1> HIDE DEF c, la, top
<1>7. Applies(d, e)
  BY <1>1, <1>2, <1>3, <1>6 DEF Applies, c, la
<1>8. Tracks(d, e)
  BY <1>2 DEF Tracks, Tracked
<1>9. \A x \in d.sends : Speaks(d, x, e)
  BY <1>1, <1>2, <1>3, SpeaksOn DEF la
<1> QED BY <1>2, <1>7, <1>8, <1>9 DEF Fit, d

(* An index of term t that a majority has acknowledged is decided. *)
Counts(t, e) ==
    \A k \in 1 .. Len(e.whole) :
        /\ e.whole[k].term = t
        /\ \E Q \in Majorities : \A q \in Q : Acked(e.acks, q, t, k)
        => k \in e.sure

LEMMA QuorumOfAll ==
    ASSUME FixedMembership, NEW n, n.voters = Server, NEW votes \in SUBSET Server,
           Cardinality(votes) >= Quorum(n)
    PROVE  votes \in Majorities
<1>1. Cardinality(Server) \in Nat /\ Cardinality(votes) \in Nat
  BY FS_CardinalityType, FS_Subset DEF FixedMembership
<1>2. Quorum(n) = Cardinality(Server) \div 2 + 1
  BY DEF Quorum
<1>3. 2 * (Cardinality(Server) \div 2 + 1) > Cardinality(Server)
  BY <1>1
<1> QED BY <1>1, <1>2, <1>3 DEF Majorities

(* Who holds an entry has acknowledged it. *)
LEMMA HoldersHaveAcked ==
    ASSUME NEW e, Ledger(e), NEW n, Fit(n, e), NEW k \in Nat, k > 0, k <= LastIndex(n.log),
           Acked(e.acks, n.id, n.current_term, LastIndex(n.log)),
           NEW q \in Holders(n, k)
    PROVE  q \in Server /\ Acked(e.acks, q, n.current_term, k)
<1>1. n \in NodeRecord /\ n.id \in Server /\ LastIndex(n.log) \in Nat
  BY NodeFields, LogFields DEF Fit
<1>2. \A b \in e.acks : b.index \in Nat
  BY DEF Ledger
<1>3. CASE q = n.id
  BY <1>1, <1>2, <1>3 DEF Acked
<1>4. CASE q \in Tracked(n) /\ n.progress[q].match_index >= k
  <2>1. n.progress[q].match_index \in Nat /\ q \in Server
    BY <1>1, <1>4, TrackedTyped
  <2>2. Acked(e.acks, q, n.current_term, n.progress[q].match_index)
    BY <1>4 DEF Fit, Tracks
  <2> QED BY <1>2, <1>4, <2>1, <2>2 DEF Acked
<1> QED BY <1>3, <1>4 DEF Holders

(* Advancing the commit index: a voter that leads goes on leading. *)
LEMMA AdvanceCommitFits ==
    ASSUME FixedMembership, NEW e, Ledger(e), NEW n, Fit(n, e), n.role = "Leader",
           Acked(e.acks, n.id, n.current_term, LastIndex(n.log)),
           Counts(n.current_term, e)
    PROVE  LET m == AdvanceCommit(n)
           IN  /\ Fit(m, e) /\ m.role = "Leader" /\ m.progress = n.progress
               /\ m.current_term = n.current_term /\ m.log = n.log /\ m.id = n.id
               /\ m.transfer_target = n.transfer_target
<1>1. /\ n \in NodeRecord /\ n.id \in Server /\ n.commit_index \in Nat /\ n.log \in Log
      /\ LastIndex(n.log) \in Nat /\ n.log.base_index \in Nat /\ n.voters = Server
      /\ e.whole \in Seq(LogEntry) /\ n.last_applied \in Nat
  BY NodeFields, LogFields DEF Fit, Ledger
<1>2. CASE Committable(n) = {}
  BY <1>2 DEF AdvanceCommit
<1>3. CASE Committable(n) # {}
  <2> DEFINE top == Max(Committable(n))
             a   == [n EXCEPT !.commit_index = top]
             c   == DrainApplies(a)
  <2>1. top \in Committable(n)
    <3>1. /\ Committable(n) \subseteq Int
          /\ \A k \in Committable(n) : k <= LastIndex(n.log)
      BY <1>1 DEF Committable
    <3>2. LastIndex(n.log) \in Int
      BY <1>1
    <3>3. Max(Committable(n)) \in Committable(n)
      BY <1>3, <3>1, <3>2, MaxExists, Zenon
    <3> QED BY <3>3
  <2> HIDE DEF top
  <2>2. /\ top \in Nat /\ top > n.commit_index /\ top <= LastIndex(n.log) /\ top > 0
        /\ TermAt(n.log, top) = n.current_term
        /\ Cardinality(Holders(n, top)) >= Quorum(n)
    BY <1>1, <2>1 DEF Committable
  <2>3. Holders(n, top) \in Majorities
    <3>1. Holders(n, top) \in SUBSET Server
      BY <1>1 DEF Holders, Tracked
    <3> QED BY <1>1, <2>2, <3>1, QuorumOfAll
  <2>4. \A q \in Holders(n, top) : Acked(e.acks, q, n.current_term, top)
    BY <2>2, HoldersHaveAcked
  <2>5. /\ top \in 1 .. Len(e.whole) /\ e.whole[top].term = n.current_term
        /\ n.log.base_index < top
    <3>1. Len(e.whole) \in Nat /\ LastIndex(n.log) = Len(e.whole)
          /\ n.log.base_index <= n.commit_index /\ Holding(n.log, e.whole)
      BY <1>1, LenProperties DEF Fit, Holding, Applies
    <3>2. n.log.base_index < top
      BY <1>1, <2>2, <3>1
    <3> QED BY <1>1, <2>2, <3>1, <3>2, HoldingReads
  <2>6. top \in e.sure
    BY <2>3, <2>4, <2>5 DEF Counts
  <2>7. /\ a \in NodeRecord /\ a.id = n.id /\ a.voters = n.voters /\ a.log = n.log
        /\ a.role = n.role /\ a.current_term = n.current_term
        /\ a.voted_for = n.voted_for /\ a.commit_index = top
        /\ a.last_applied = n.last_applied /\ a.app = n.app
        /\ a.progress = n.progress /\ a.sends = n.sends
        /\ a.transfer_target = n.transfer_target
    BY <1>1, <2>2, SMTT(60) DEF NodeRecord
  <2> HIDE DEF a
  <2>8. /\ Holding(a.log, e.whole) /\ Tracks(a, e) /\ a.voters = Server
        /\ \A x \in a.sends : Speaks(a, x, e)
    BY <2>7 DEF Fit, Tracks, Tracked, Speaks, CandidateLogUpToDate
  <2>9. /\ a.log.base_index <= a.commit_index /\ a.commit_index \in e.sure
        /\ a.log.base_index <= a.last_applied /\ a.last_applied \in e.sure
        /\ a.log.base_index \in e.told
        /\ a.app = Commands(e.whole, a.last_applied)
        /\ a.log.data = Commands(e.whole, a.log.base_index)
        /\ a.last_applied <= Larger(e.low, a.commit_index)
    <3>1. /\ n.log.base_index <= n.commit_index /\ n.commit_index <= n.last_applied
          /\ n.last_applied \in e.sure /\ n.log.base_index \in e.told
          /\ n.app = Commands(e.whole, n.last_applied)
          /\ n.log.data = Commands(e.whole, n.log.base_index)
          /\ n.last_applied <= Larger(e.low, n.commit_index)
      BY DEF Fit, Applies
    <3>2. e.low \in Nat
      BY DEF Ledger
    <3>3. n.last_applied <= Larger(e.low, top)
      BY <1>1, <2>2, <3>1, <3>2 DEF Larger
    <3> QED BY <1>1, <2>2, <2>5, <2>6, <2>7, <3>1, <3>3
  <2>10. /\ Fit(c, e) /\ c.role = a.role /\ c.progress = a.progress
         /\ c.current_term = a.current_term /\ c.log = a.log /\ c.id = a.id
         /\ c.transfer_target = a.transfer_target
    BY <2>7, <2>8, <2>9, DrainAppliesFits
  <2> HIDE DEF c
  <2>11. IsVoter(c)
    BY <1>1, <2>7, <2>10 DEF IsVoter, Fit
  <2>12. AdvanceCommit(n) = c
    BY <1>3, <2>11 DEF AdvanceCommit, c, a, top
  <2> QED BY <2>7, <2>10, <2>12
<1> QED BY <1>2, <1>3

-----------------------------------------------------------------------------
(* Elections. *)

(* What is required of a node before its step. *)
Based(n, e) ==
    /\ n \in NodeRecord
    /\ n.voters = Server
    /\ Tracks(n, e)
    /\ Applies(n, e)

(* A leader's word, for a node that leads when the step is done: it has     *)
(* acknowledged its own log, and what its peers acknowledge counts.         *)
Leading(n, e) ==
    n.role = "Leader" =>
        /\ Acked(e.acks, n.id, n.current_term, LastIndex(n.log))
        /\ Counts(n.current_term, e)

(* A silent node with its log is fit. *)
LEMMA BasedIsFit ==
    ASSUME NEW e, NEW n, Based(n, e), Holding(n.log, e.whole), n.sends = {}
    PROVE  Fit(n, e)
BY DEF Based, Fit

LEMMA SameLogHolds ==
    ASSUME NEW a, NEW b, SameLog(a, b), NEW s, Holding(a, s)
    PROVE  Holding(b, s)
<1>1. /\ LastIndex(b) = LastIndex(a) /\ Span(b) = Span(a)
      /\ b.base_index = a.base_index
      /\ \A k : /\ HasEntry(b, k) = HasEntry(a, k)
                /\ EntryAt(b, k) = EntryAt(a, k)
                /\ TermAt(b, k) = TermAt(a, k)
  BY SameLogReads DEF SameLog
<1> QED BY <1>1 DEF Holding, Part, Same

(* Whoever keeps log, commit index and application stays based.             *)
LEMMA BasedStays ==
    ASSUME NEW e, NEW n, Based(n, e), NEW m \in NodeRecord,
           m.voters = n.voters, SameLog(n.log, m.log), m.log.data = n.log.data,
           m.commit_index = n.commit_index, m.last_applied = n.last_applied,
           m.app = n.app, Tracks(m, e)
    PROVE  Based(m, e)
BY DEF Based, Applies, SameLog

(* Writing the hard state. *)
LEMMA PersistFields ==
    ASSUME NEW n \in NodeRecord
    PROVE  LET m == PersistHardState(n)
           IN  /\ SameLog(n.log, m.log) /\ m.log.data = n.log.data
               /\ m.id = n.id /\ m.voters = n.voters /\ m.role = n.role
               /\ m.current_term = n.current_term /\ m.voted_for = n.voted_for
               /\ m.commit_index = n.commit_index /\ m.last_applied = n.last_applied
               /\ m.app = n.app /\ m.progress = n.progress /\ m.sends = n.sends
               /\ m.votes = n.votes
BY NodeFields DEF PersistHardState, Sync, SetHardState, SameLog, NodeRecord, Log

(* A fresh table, or none. *)
LEMMA FreshTracks ==
    ASSUME NEW e, NEW n \in NodeRecord, n.progress = NoProgress
    PROVE  Tracks(n, e)
BY NodeFields DEF Tracks, Tracked, NoProgress

(* A voter that leads does not step down as it commits. *)
LEMMA AdvanceCommitLeads ==
    ASSUME NEW n \in NodeRecord, n.voters = Server
    PROVE  LET m == AdvanceCommit(n)
           IN  /\ m.role = n.role /\ m.log = n.log /\ m.id = n.id
               /\ m.current_term = n.current_term
<1> DEFINE a == [n EXCEPT !.commit_index = Max(Committable(n))]
           c == DrainApplies(a)
<1>1. /\ a.role = n.role /\ a.log = n.log /\ a.id = n.id /\ a.voters = n.voters
      /\ a.current_term = n.current_term /\ n.id \in Server
      /\ Names \subseteq DOMAIN a
  BY NodeNames, NodeFields DEF NodeRecord
<1> HIDE DEF a
<1>2. /\ c.role = a.role /\ c.log = a.log /\ c.id = a.id /\ c.voters = a.voters
      /\ c.current_term = a.current_term
  <2> DEFINE add == {[index |-> k, command |-> EntryAt(a.log, k).body] :
                        k \in {k \in a.last_applied + 1 .. a.commit_index :
                                 HasEntry(a.log, k) /\ EntryAt(a.log, k).kind = "Normal"}}
             d == [a EXCEPT !.last_applied = Larger(@, a.commit_index), !.app = @ \cup add]
  <2>1. c = MaybeHintSnapshot(d)
    BY Zenon DEF DrainApplies
  <2>2. /\ d.role = a.role /\ d.log = a.log /\ d.id = a.id /\ d.voters = a.voters
        /\ d.current_term = a.current_term /\ Names \subseteq DOMAIN d
    <3> HIDE DEF add
    <3> QED BY <1>1 DEF Names
  <2> HIDE DEF d, c
  <2>3. /\ c.role = d.role /\ c.log = d.log /\ c.id = d.id /\ c.voters = d.voters
        /\ c.current_term = d.current_term
    BY <2>1, <2>2 DEF MaybeHintSnapshot, Names
  <2> QED BY <2>2, <2>3
<1> HIDE DEF c
<1>3. IsVoter(c)
  BY <1>1, <1>2 DEF IsVoter
<1>4. AdvanceCommit(n) = n \/ AdvanceCommit(n) = c
  BY <1>3 DEF AdvanceCommit, c, a
<1> QED BY <1>1, <1>2, <1>4

(* The table of a new leader knows of nothing matched. *)
LEMMA RebuildProgressFits ==
    ASSUME NEW e, NEW n, Fit(n, e), n.role = "Leader", Tracked(n) = {}
    PROVE  LET m == RebuildProgress(n)
           IN  /\ Fit(m, e) /\ m.role = n.role /\ m.log = n.log /\ m.id = n.id
               /\ m.current_term = n.current_term /\ m.voters = n.voters
<1> DEFINE m == RebuildProgress(n)
<1>1. /\ n \in NodeRecord /\ n.id \in Server /\ n.log \in Log /\ LastIndex(n.log) \in Nat
  BY NodeFields, LogFields DEF Fit
<1>2. /\ m \in NodeRecord
      /\ m.id = n.id /\ m.voters = n.voters /\ m.log = n.log /\ m.role = n.role
      /\ m.current_term = n.current_term /\ m.voted_for = n.voted_for
      /\ m.commit_index = n.commit_index /\ m.last_applied = n.last_applied
      /\ m.app = n.app /\ m.sends = n.sends
  <2>1. m \in NodeRecord
    BY <1>1, RebuildProgressTyped
  <2> QED BY <1>1, <2>1 DEF RebuildProgress, NodeRecord
<1>3. m.progress = [p \in Server |->
            IF p \notin Peers(n) THEN None
            ELSE IF p \in Tracked(n) THEN n.progress[p]
            ELSE [next_index  |-> LastIndex(n.log) + 1,
                  match_index |-> 0,
                  state       |-> "Probe"]]
  BY <1>1 DEF RebuildProgress, NodeRecord
<1>4. \A p \in Server : m.progress[p] = IF p \notin Peers(n) THEN None
            ELSE [next_index  |-> LastIndex(n.log) + 1,
                  match_index |-> 0,
                  state       |-> "Probe"]
  BY <1>3
<1> HIDE DEF m
<1>5. Tracks(m, e)
  <2>1. m.progress[m.id] = None
    BY <1>1, <1>2, <1>4 DEF Peers
  <2>2. \A p \in Tracked(m) : /\ m.progress[p].match_index = 0
                              /\ m.progress[p].next_index = LastIndex(m.log) + 1
    BY <1>2, <1>4 DEF Tracked
  <2>3. m.role = "Leader"
    BY <1>2
  <2> QED BY <1>1, <1>2, <2>1, <2>2, <2>3 DEF Tracks, Acked
<1>6. Fit(m, e)
  BY <1>2, <1>5, FitStays
<1> QED BY <1>2, <1>6 DEF m

(* Winning: a round of appends, and what can be committed. *)
LEMMA BecomeLeaderLeads ==
    ASSUME NEW n \in NodeRecord, n.voters = Server
    PROVE  LET m == BecomeLeader(n)
           IN  /\ m.role = "Leader" /\ m.log = n.log /\ m.id = n.id
               /\ m.current_term = n.current_term
<1> DEFINE w == [n EXCEPT !.role = "Leader", !.leader_id = n.id,
                          !.transfer_target = None,
                          !.pre_voting = FALSE, !.pre_votes = {}]
           r == ReplicateToAll(RebuildProgress(w))
<1>1. /\ w \in NodeRecord
      /\ w.role = "Leader" /\ w.log = n.log /\ w.id = n.id /\ w.voters = n.voters
      /\ w.current_term = n.current_term
  <2>1. w \in NodeRecord
    BY ZenonT(60) DEF NodeRecord, Role
  <2> QED BY <2>1 DEF NodeRecord
<1> HIDE DEF w
<1>2. /\ r \in NodeRecord
      /\ r.role = w.role /\ r.log = w.log /\ r.id = w.id /\ r.voters = w.voters
      /\ r.current_term = w.current_term
  <2>1. RebuildProgress(w) \in NodeRecord /\ r \in NodeRecord
    BY <1>1, RebuildProgressTyped, ReplicateTyped
  <2> QED BY <1>1, <2>1, ZenonT(60) DEF ReplicateToAll, SendAppend, RebuildProgress, NodeRecord
<1> HIDE DEF r
<1>3. BecomeLeader(n) = AdvanceCommit(r)
  BY DEF BecomeLeader, r, w
<1> QED BY <1>1, <1>2, <1>3, AdvanceCommitLeads

LEMMA BecomeLeaderFits ==
    ASSUME FixedMembership, NEW e, Ledger(e), NEW n, Based(n, e),
           Holding(n.log, e.whole), n.role = "Candidate", n.sends = {},
           Leading(BecomeLeader(n), e)
    PROVE  Fit(BecomeLeader(n), e)
<1> DEFINE w == [n EXCEPT !.role = "Leader", !.leader_id = n.id,
                          !.transfer_target = None,
                          !.pre_voting = FALSE, !.pre_votes = {}]
           b == RebuildProgress(w)
           r == SendAppend(b, Tracked(b))
<1>1. n \in NodeRecord /\ n.voters = Server /\ Tracked(n) = {}
  BY DEF Based, Tracks
<1>2. /\ w \in NodeRecord
      /\ w.id = n.id /\ w.voters = n.voters /\ w.log = n.log /\ w.role = "Leader"
      /\ w.current_term = n.current_term
      /\ w.commit_index = n.commit_index /\ w.last_applied = n.last_applied
      /\ w.app = n.app /\ w.progress = n.progress /\ w.sends = n.sends
  <2>1. w \in NodeRecord
    BY <1>1, ZenonT(60) DEF NodeRecord, Role
  <2> QED BY <1>1, <2>1 DEF NodeRecord
<1> HIDE DEF w
<1>3. Tracked(w) = {}
  BY <1>1, <1>2 DEF Tracked
<1>4. Based(w, e)
  <2>1. Tracks(w, e)
    BY <1>1, <1>2, <1>3 DEF Based, Tracks
  <2> QED BY <1>2, <2>1, BasedStays DEF SameLog
<1>5. Fit(w, e)
  BY <1>2, <1>4, BasedIsFit
<1>6. /\ Fit(b, e) /\ b.role = "Leader" /\ b.log = w.log /\ b.id = w.id
      /\ b.current_term = w.current_term
  BY <1>2, <1>3, <1>5, RebuildProgressFits
<1> HIDE DEF b
<1>7. Fit(r, e) /\ r.role = "Leader" /\ r.log = b.log /\ r.id = b.id
      /\ r.current_term = b.current_term
  <2>1. Fit(r, e)
    BY <1>6, SendAppendFits
  <2> QED BY <1>6, <2>1 DEF SendAppend, Fit, NodeRecord
<1> HIDE DEF r
<1>8. BecomeLeader(n) = AdvanceCommit(r)
  BY DEF BecomeLeader, ReplicateToAll, r, b, w
<1>9. /\ Acked(e.acks, r.id, r.current_term, LastIndex(r.log))
      /\ Counts(r.current_term, e)
  <2>1. LET m == BecomeLeader(n)
        IN  /\ m.role = "Leader" /\ m.log = n.log /\ m.id = n.id
            /\ m.current_term = n.current_term
    BY <1>1, BecomeLeaderLeads
  <2> QED BY <1>2, <1>6, <1>7, <2>1 DEF Leading
<1>10. Fit(AdvanceCommit(r), e)
  BY <1>7, <1>9, AdvanceCommitFits
<1> QED BY <1>8, <1>10

(* What is sent without a claim. *)
Silent == {"PreVote", "PreVoteReply"}

LEMMA SilentSpeaks ==
    ASSUME NEW n, NEW e, NEW x, x.kind \in Silent
    PROVE  Speaks(n, x, e)
BY DEF Speaks, Silent, Replicates

(* A silent node sends what is true. *)
LEMMA SendFits ==
    ASSUME NEW e, NEW n, Based(n, e), Holding(n.log, e.whole), n.sends = {},
           NEW messages, Send(n, messages) \in NodeRecord,
           \A x \in messages : Speaks(n, x, e)
    PROVE  Fit(Send(n, messages), e)
<1> DEFINE m == Send(n, messages)
<1>1. Fit(n, e) /\ n \in NodeRecord
  BY BasedIsFit DEF Based
<1>2. /\ m.id = n.id /\ m.voters = n.voters /\ m.log = n.log /\ m.role = n.role
      /\ m.current_term = n.current_term /\ m.voted_for = n.voted_for
      /\ m.commit_index = n.commit_index /\ m.last_applied = n.last_applied
      /\ m.app = n.app /\ m.progress = n.progress /\ m.sends = messages
  BY <1>1 DEF Send, NodeRecord
<1> HIDE DEF m
<1>3. Tracks(m, e)
  BY <1>2 DEF Based, Tracks, Tracked
<1>4. \A x \in m.sends : Speaks(m, x, e)
  BY <1>2 DEF Speaks, CandidateLogUpToDate
<1> QED BY <1>1, <1>2, <1>3, <1>4, FitStays DEF m

(* A campaign: the requests name the end of the log. *)
LEMMA StartElectionFits ==
    ASSUME FixedMembership, NEW e, Ledger(e), NEW n, Based(n, e), n.sends = {},
           NEW force \in BOOLEAN, Leading(StartElection(n, force), e),
           Holding(n.log, e.whole) \/ Holding(StartElection(n, force).log, e.whole)
    PROVE  /\ Fit(StartElection(n, force), e)
           /\ SameLog(n.log, StartElection(n, force).log)
<1> DEFINE campaign == [n EXCEPT !.role = "Candidate", !.current_term = @ + 1,
                                 !.voted_for = n.id, !.leader_id = None,
                                 !.transfer_target = None, !.pre_voting = FALSE,
                                 !.pre_votes = {}, !.progress = NoProgress,
                                 !.votes = {n.id}, !.ripe = FALSE]
           c == PersistHardState(campaign)
           h == StartElection(n, force)
<1>1. n \in NodeRecord /\ n.voters = Server
  BY DEF Based
<1>2. /\ campaign \in NodeRecord
      /\ campaign.id = n.id /\ campaign.voters = n.voters /\ campaign.log = n.log
      /\ campaign.role = "Candidate"
      /\ campaign.commit_index = n.commit_index
      /\ campaign.last_applied = n.last_applied
      /\ campaign.app = n.app /\ campaign.progress = NoProgress
      /\ campaign.sends = n.sends
  <2>1. campaign \in NodeRecord
    BY <1>1, CampaignTyped
  <2> QED BY <1>1, <2>1 DEF NodeRecord
<1> HIDE DEF campaign
<1>3. /\ c \in NodeRecord
      /\ SameLog(n.log, c.log) /\ c.log.data = n.log.data
      /\ c.id = n.id /\ c.voters = n.voters /\ c.role = "Candidate"
      /\ c.commit_index = n.commit_index /\ c.last_applied = n.last_applied
      /\ c.app = n.app /\ c.progress = NoProgress /\ c.sends = {}
  <2>1. c \in NodeRecord
    BY <1>2, PersistHardStateTyped
  <2> QED BY <1>2, <2>1, PersistFields
<1> HIDE DEF c
<1>4. Based(c, e)
  <2>1. Tracks(c, e)
    BY <1>3, FreshTracks
  <2> QED BY <1>3, <2>1, BasedStays
<1>5. h = IF 1 >= Quorum(n) THEN BecomeLeader(c) ELSE Send(c, RequestVotes(c, force))
  BY DEF StartElection, c, campaign
<1> HIDE DEF h
<1>6. h.log = c.log
  <2>1. BecomeLeader(c).log = c.log
    BY <1>1, <1>3, BecomeLeaderLeads
  <2>2. Send(c, RequestVotes(c, force)).log = c.log
    BY <1>3 DEF Send, NodeRecord
  <2> QED BY <1>5, <2>1, <2>2
<1>7. Holding(c.log, e.whole)
  <2>1. CASE Holding(n.log, e.whole)
    BY <1>3, <2>1, SameLogHolds
  <2>2. CASE Holding(h.log, e.whole)
    BY <1>6, <2>2
  <2> QED BY <2>1, <2>2 DEF h
<1>8. Fit(h, e)
  <2>1. CASE 1 >= Quorum(n)
    <3>1. h = BecomeLeader(c)
      BY <1>5, <2>1
    <3>2. Leading(BecomeLeader(c), e)
      BY <3>1 DEF h
    <3> QED BY <1>3, <1>4, <1>7, <3>1, <3>2, BecomeLeaderFits
  <2>2. CASE ~ (1 >= Quorum(n))
    <3>1. h = Send(c, RequestVotes(c, force))
      BY <1>5, <2>2
    <3>2. Send(c, RequestVotes(c, force)) \in NodeRecord
      BY <1>3, RequestVotesTyped, SendTyped
    <3>3. \A x \in RequestVotes(c, force) : Speaks(c, x, e)
      BY <1>3 DEF RequestVotes, Speaks, Replicates
    <3> QED BY <1>3, <1>4, <1>7, <3>1, <3>2, <3>3, SendFits
  <2> QED BY <2>1, <2>2
<1> QED BY <1>3, <1>6, <1>8 DEF h

(* A probe, of a node that does not lead. *)
LEMMA StartPreVoteFits ==
    ASSUME FixedMembership, NEW e, Ledger(e), NEW n, Based(n, e), n.sends = {},
           n.role # "Leader", Leading(StartPreVote(n), e),
           Holding(n.log, e.whole) \/ Holding(StartPreVote(n).log, e.whole)
    PROVE  /\ Fit(StartPreVote(n), e)
           /\ SameLog(n.log, StartPreVote(n).log)
<1> DEFINE probing == [n EXCEPT !.role = "Follower", !.leader_id = None,
                                !.pre_voting = TRUE, !.pre_votes = {n.id}]
           h == StartPreVote(n)
<1>1. n \in NodeRecord /\ n.voters = Server /\ Tracked(n) = {}
  BY DEF Based, Tracks
<1>2. /\ probing \in NodeRecord
      /\ probing.id = n.id /\ probing.voters = n.voters /\ probing.log = n.log
      /\ probing.role = "Follower"
      /\ probing.commit_index = n.commit_index
      /\ probing.last_applied = n.last_applied
      /\ probing.app = n.app /\ probing.progress = n.progress
      /\ probing.sends = n.sends
  <2>1. probing \in NodeRecord
    BY <1>1, ZenonT(60) DEF NodeRecord, Role
  <2> QED BY <1>1, <2>1 DEF NodeRecord
<1> HIDE DEF probing
<1>3. Based(probing, e)
  <2>1. Tracks(probing, e)
    BY <1>1, <1>2 DEF Based, Tracks, Tracked
  <2> QED BY <1>2, <2>1, BasedStays DEF SameLog
<1>4. h = IF 1 >= Quorum(n) THEN StartElection(probing, FALSE)
                            ELSE Send(probing, PreVotes(probing))
  BY DEF StartPreVote, probing
<1> HIDE DEF h
<1>5. CASE 1 >= Quorum(n)
  <2>1. h = StartElection(probing, FALSE)
    BY <1>4, <1>5
  <2>2. /\ Leading(StartElection(probing, FALSE), e)
        /\ \/ Holding(probing.log, e.whole)
           \/ Holding(StartElection(probing, FALSE).log, e.whole)
    BY <1>2, <2>1 DEF h
  <2>3. probing.sends = {}
    BY <1>2
  <2>4. /\ Fit(StartElection(probing, FALSE), e)
        /\ SameLog(probing.log, StartElection(probing, FALSE).log)
    BY <1>3, <2>2, <2>3, StartElectionFits
  <2> QED BY <1>2, <2>1, <2>4 DEF h
<1>6. CASE ~ (1 >= Quorum(n))
  <2>1. h = Send(probing, PreVotes(probing))
    BY <1>4, <1>6
  <2>2. Send(probing, PreVotes(probing)) \in NodeRecord
    BY <1>2, PreVotesTyped, SendTyped
  <2>3. \A x \in PreVotes(probing) : Speaks(probing, x, e)
    BY SilentSpeaks DEF PreVotes, Silent
  <2>4. h.log = probing.log
    BY <1>2, <2>1 DEF Send, NodeRecord
  <2>5. Holding(probing.log, e.whole)
    BY <1>2, <2>4 DEF h
  <2>6. Fit(h, e)
    BY <1>2, <1>3, <2>1, <2>2, <2>3, <2>5, SendFits
  <2> QED BY <1>2, <2>4, <2>6 DEF h, SameLog
<1> QED BY <1>5, <1>6

(* A later term finds a follower that tracks nobody. *)
LEMMA BecomeFollowerBased ==
    ASSUME NEW e, NEW n, Based(n, e), n.sends = {},
           NEW term \in Nat, term > n.current_term
    PROVE  LET m == BecomeFollower(n, term, None)
           IN  /\ Based(m, e) /\ m.sends = {} /\ SameLog(n.log, m.log)
               /\ m.role = "Follower" /\ m.current_term = term /\ m.id = n.id
               /\ m.last_applied = n.last_applied
<1> DEFINE b == [n EXCEPT !.role = "Follower", !.leader_id = None,
                          !.transfer_target = None, !.pre_voting = FALSE,
                          !.pre_votes = {}, !.votes = {},
                          !.progress = NoProgress, !.ripe = FALSE]
           a == [b EXCEPT !.current_term = term, !.voted_for = None]
           m == PersistHardState(a)
<1>1. n \in NodeRecord
  BY DEF Based
<1>2. BecomeFollower(n, term, None) = m
  BY DEF BecomeFollower
<1>3. /\ b \in NodeRecord
      /\ b.id = n.id /\ b.voters = n.voters /\ b.log = n.log /\ b.role = "Follower"
      /\ b.commit_index = n.commit_index /\ b.last_applied = n.last_applied
      /\ b.app = n.app /\ b.progress = NoProgress /\ b.sends = n.sends
  <2>1. NoProgress \in [Server -> Progress \cup {None}]
    BY DEF NoProgress
  <2>2. b \in NodeRecord
    BY <1>1, <2>1 DEF NodeRecord, Role
  <2> QED BY <1>1, <2>2 DEF NodeRecord
<1> HIDE DEF b
<1>4. /\ a \in NodeRecord
      /\ a.id = b.id /\ a.voters = b.voters /\ a.log = b.log /\ a.role = b.role
      /\ a.commit_index = b.commit_index /\ a.last_applied = b.last_applied
      /\ a.app = b.app /\ a.progress = b.progress /\ a.sends = b.sends
      /\ a.current_term = term
  <2>1. a \in NodeRecord
    BY <1>3 DEF NodeRecord
  <2> QED BY <1>3, <2>1 DEF NodeRecord
<1> HIDE DEF a
<1>5. /\ m \in NodeRecord
      /\ SameLog(a.log, m.log) /\ m.log.data = a.log.data
      /\ m.id = a.id /\ m.voters = a.voters /\ m.role = a.role
      /\ m.commit_index = a.commit_index /\ m.last_applied = a.last_applied
      /\ m.app = a.app /\ m.progress = a.progress /\ m.sends = a.sends
      /\ m.current_term = a.current_term
  <2>1. m \in NodeRecord
    BY <1>4, PersistHardStateTyped
  <2> QED BY <1>4, <2>1, PersistFields
<1> HIDE DEF m
<1>6. Tracks(m, e)
  BY <1>3, <1>4, <1>5, FreshTracks
<1>7. SameLog(n.log, m.log)
  BY <1>3, <1>4, <1>5
<1>8. Based(m, e)
  BY <1>3, <1>4, <1>5, <1>6, <1>7, BasedStays
<1> QED BY <1>2, <1>3, <1>4, <1>5, <1>7, <1>8

LEMMA AdoptTermBased ==
    ASSUME NEW e, NEW n, Based(n, e), n.sends = {}, NEW term \in Nat
    PROVE  LET k == AdoptTerm(n, term)
           IN  /\ Based(k, e) /\ k.sends = {} /\ SameLog(n.log, k.log)
               /\ k.id = n.id /\ term <= k.current_term
               /\ k.last_applied = n.last_applied
               /\ k = n \/ (k.role = "Follower" /\ k.current_term = term)
<1>1. n.current_term \in Nat
  BY NodeFields DEF Based
<1>2. CASE term > n.current_term
  BY <1>1, <1>2, BecomeFollowerBased DEF AdoptTerm
<1>3. CASE ~ (term > n.current_term)
  BY <1>1, <1>3 DEF AdoptTerm, SameLog
<1> QED BY <1>2, <1>3


(* A vote is granted to a candidate that is not behind. *)
LEMMA HandleRequestVoteFits ==
    ASSUME NEW e, NEW n, Based(n, e), n.sends = {},
           NEW r \in e.read, r \in Message, r.kind = "RequestVote",
           r.term <= n.current_term,
           Holding(n.log, e.whole) \/ Holding(HandleRequestVote(n, r).log, e.whole)
    PROVE  /\ Fit(HandleRequestVote(n, r), e)
           /\ SameLog(n.log, HandleRequestVote(n, r).log)
<1> DEFINE h == HandleRequestVote(n, r)
           v == [n EXCEPT !.voted_for = r.from]
           p == PersistHardState(v)
           yes == VoteReply(p, "RequestVoteReply", r, TRUE)
           no  == VoteReply(n, "RequestVoteReply", r, FALSE)
<1>1. n \in NodeRecord /\ r.from \in Server /\ r.term \in Nat /\ n.current_term \in Nat
  BY MessageFields, NodeFields DEF Based
<1>2. CASE CanGrantVote(n, r)
  <2>1. /\ v \in NodeRecord
        /\ v.id = n.id /\ v.voters = n.voters /\ v.log = n.log /\ v.role = n.role
        /\ v.commit_index = n.commit_index /\ v.last_applied = n.last_applied
        /\ v.app = n.app /\ v.progress = n.progress /\ v.sends = n.sends
        /\ v.current_term = n.current_term /\ v.voted_for = r.from
    BY <1>1 DEF NodeRecord
  <2> HIDE DEF v
  <2>2. /\ p \in NodeRecord
        /\ SameLog(v.log, p.log) /\ p.log.data = v.log.data
        /\ p.id = v.id /\ p.voters = v.voters /\ p.role = v.role
        /\ p.commit_index = v.commit_index /\ p.last_applied = v.last_applied
        /\ p.app = v.app /\ p.progress = v.progress /\ p.sends = v.sends
        /\ p.current_term = v.current_term /\ p.voted_for = v.voted_for
    <3>1. p \in NodeRecord
      BY <2>1, PersistHardStateTyped
    <3> QED BY <2>1, <3>1, PersistFields
  <2> HIDE DEF p
  <2>3. VoteReply(n, "RequestVoteReply", r, TRUE) = yes
    BY <2>1, <2>2 DEF VoteReply
  <2>4. h = Send(p, yes)
    BY <1>2, <2>3 DEF HandleRequestVote, p, v
  <2>5. Based(p, e)
    <3>1. LastIndex(p.log) = LastIndex(n.log)
      BY <2>1, <2>2, SameLogReads
    <3>2. Tracks(p, e)
      BY <2>1, <2>2, <3>1 DEF Based, Tracks, Tracked
    <3> QED BY <2>1, <2>2, <3>2, BasedStays
  <2>6. Send(p, yes) \in NodeRecord
    <3>1. yes \in SUBSET Message
      BY <2>2, VoteReplyTyped
    <3> QED BY <2>2, <3>1, SendTyped
  <2>7. h.log = p.log
    BY <2>2, <2>4 DEF Send, NodeRecord
  <2>8. Holding(p.log, e.whole)
    BY <2>1, <2>2, <2>7, SameLogHolds
  <2>9. ASSUME NEW x \in yes PROVE Speaks(p, x, e)
    <3>1. x.kind = "RequestVoteReply"
      BY DEF VoteReply
    <3>2. r.term = p.current_term
      BY <1>1, <1>2, <2>1, <2>2 DEF CanGrantVote
    <3>3. CandidateLogUpToDate(p, r)
      <4>1. LastIndex(p.log) = LastIndex(n.log) /\ LastTerm(p.log) = LastTerm(n.log)
        BY <2>1, <2>2, SameLogReads DEF SameLog, LastTerm
      <4>2. CandidateLogUpToDate(n, r)
        BY <1>2 DEF CanGrantVote
      <4> QED BY <4>1, <4>2 DEF CandidateLogUpToDate
    <3>4. r.from = p.voted_for
      BY <2>1, <2>2
    <3> QED BY <3>1, <3>2, <3>3, <3>4 DEF Speaks, Replicates
  <2>10. p.sends = {}
    BY <2>1, <2>2
  <2>11. Fit(h, e)
    BY <2>4, <2>5, <2>6, <2>8, <2>9, <2>10, SendFits
  <2> QED BY <2>1, <2>2, <2>7, <2>11
<1>3. CASE ~ CanGrantVote(n, r)
  <2>1. h = Send(n, no)
    BY <1>3 DEF HandleRequestVote
  <2>2. Send(n, no) \in NodeRecord
    <3>1. no \in SUBSET Message
      BY <1>1, VoteReplyTyped
    <3> QED BY <1>1, <3>1, SendTyped
  <2>3. h.log = n.log
    BY <1>1, <2>1 DEF Send, NodeRecord
  <2>4. \A x \in no : Speaks(n, x, e)
    BY DEF VoteReply, Speaks, Replicates
  <2>5. Fit(h, e)
    BY <2>1, <2>2, <2>3, <2>4, SendFits
  <2> QED BY <2>3, <2>5 DEF SameLog
<1> QED BY <1>2, <1>3

(* A vote that is counted, and the last one needed. *)
LEMMA HandleVoteReplyFits ==
    ASSUME FixedMembership, NEW e, Ledger(e), NEW n, Based(n, e), n.sends = {},
           NEW r \in Message, NEW ripe \in BOOLEAN,
           Leading(HandleVoteReply(n, r, ripe), e),
           Holding(n.log, e.whole) \/ Holding(HandleVoteReply(n, r, ripe).log, e.whole)
    PROVE  /\ Fit(HandleVoteReply(n, r, ripe), e)
           /\ HandleVoteReply(n, r, ripe).log = n.log
<1> DEFINE h == HandleVoteReply(n, r, ripe)
           c == [n EXCEPT !.votes = @ \cup {r.from}]
           t == [c EXCEPT !.ripe = ripe]
<1>1. n \in NodeRecord /\ r.from \in Server /\ n.voters = Server
  BY MessageFields DEF Based
<1>2. /\ c \in NodeRecord
      /\ c.id = n.id /\ c.voters = n.voters /\ c.log = n.log /\ c.role = n.role
      /\ c.commit_index = n.commit_index /\ c.last_applied = n.last_applied
      /\ c.app = n.app /\ c.progress = n.progress /\ c.sends = n.sends
      /\ c.current_term = n.current_term
  BY <1>1 DEF NodeRecord
<1>3. /\ t \in NodeRecord
      /\ t.id = n.id /\ t.voters = n.voters /\ t.log = n.log /\ t.role = n.role
      /\ t.commit_index = n.commit_index /\ t.last_applied = n.last_applied
      /\ t.app = n.app /\ t.progress = n.progress /\ t.sends = n.sends
      /\ t.current_term = n.current_term
  <2> HIDE DEF c
  <2>1. t \in NodeRecord
    BY <1>2 DEF NodeRecord
  <2> QED BY <1>2, <2>1 DEF NodeRecord
<1>4. \/ h = n
      \/ h = c
      \/ n.role = "Candidate" /\ h = BecomeLeader(t)
  BY Zenon DEF HandleVoteReply
<1> HIDE DEF h, c, t
<1>5. Based(c, e) /\ Based(t, e)
  <2>1. Tracks(c, e)
    BY <1>2 DEF Based, Tracks, Tracked
  <2>2. Tracks(t, e)
    BY <1>3 DEF Based, Tracks, Tracked
  <2>3. Based(c, e)
    BY <1>2, <2>1, BasedStays DEF SameLog
  <2>4. Based(t, e)
    BY <1>3, <2>2, BasedStays DEF SameLog
  <2> QED BY <2>3, <2>4
<1>6. h.log = n.log
  <2>1. BecomeLeader(t).log = t.log
    BY <1>1, <1>3, BecomeLeaderLeads
  <2> QED BY <1>2, <1>3, <1>4, <2>1
<1>7. Holding(n.log, e.whole)
  BY <1>6 DEF h
<1>8. CASE h = n
  BY <1>6, <1>7, <1>8, BasedIsFit DEF h
<1>9. CASE h = c
  <2>1. Fit(c, e)
    BY <1>2, <1>5, <1>7, BasedIsFit
  <2> QED BY <1>6, <1>9, <2>1 DEF h
<1>10. CASE n.role = "Candidate" /\ h = BecomeLeader(t)
  <2>1. Leading(BecomeLeader(t), e)
    BY <1>10 DEF h
  <2>2. /\ t.role = "Candidate" /\ t.sends = {} /\ Holding(t.log, e.whole)
    BY <1>3, <1>7, <1>10
  <2>3. Fit(BecomeLeader(t), e)
    BY <1>5, <2>1, <2>2, BecomeLeaderFits
  <2> QED BY <1>6, <1>10, <2>3 DEF h
<1> QED BY <1>4, <1>8, <1>9, <1>10

(* An answer to a probe, a probe that is answered, a hand-over. *)
LEMMA HandlePreVoteFits ==
    ASSUME NEW e, NEW n, Based(n, e), n.sends = {},
           NEW r \in Message, NEW ripe \in BOOLEAN,
           Holding(n.log, e.whole) \/ Holding(HandlePreVote(n, r, ripe).log, e.whole)
    PROVE  /\ Fit(HandlePreVote(n, r, ripe), e)
           /\ HandlePreVote(n, r, ripe).log = n.log
<1> DEFINE answer == VoteReply(n, "PreVoteReply", r, CanGrantPreVote(n, r, ripe))
           h == HandlePreVote(n, r, ripe)
<1>1. n \in NodeRecord
  BY DEF Based
<1>2. h = Send(n, answer) /\ h \in NodeRecord
  BY <1>1, HandlePreVoteTyped DEF HandlePreVote
<1>3. h.log = n.log
  BY <1>1, <1>2 DEF Send, NodeRecord
<1>4. \A x \in answer : Speaks(n, x, e)
  BY SilentSpeaks DEF VoteReply, Silent
<1> HIDE DEF answer, h
<1>5. Fit(h, e)
  BY <1>2, <1>3, <1>4, SendFits DEF h
<1> QED BY <1>3, <1>5 DEF h

LEMMA HandlePreVoteReplyFits ==
    ASSUME FixedMembership, NEW e, Ledger(e), NEW n, Based(n, e), n.sends = {},
           NEW r \in Message, Leading(HandlePreVoteReply(n, r), e),
           Holding(n.log, e.whole) \/ Holding(HandlePreVoteReply(n, r).log, e.whole)
    PROVE  /\ Fit(HandlePreVoteReply(n, r), e)
           /\ SameLog(n.log, HandlePreVoteReply(n, r).log)
<1> DEFINE h == HandlePreVoteReply(n, r)
           c == [n EXCEPT !.pre_votes = @ \cup {r.from}]
           b == BecomeFollower(n, r.term, None)
           s == StartElection(c, FALSE)
<1>1. n \in NodeRecord /\ r.from \in Server /\ r.term \in Nat
  BY MessageFields DEF Based
<1>2. /\ c \in NodeRecord
      /\ c.id = n.id /\ c.voters = n.voters /\ c.log = n.log /\ c.role = n.role
      /\ c.commit_index = n.commit_index /\ c.last_applied = n.last_applied
      /\ c.app = n.app /\ c.progress = n.progress /\ c.sends = n.sends
      /\ c.current_term = n.current_term
  BY <1>1 DEF NodeRecord
<1>3. \/ h = n
      \/ r.term > n.current_term /\ h = b
      \/ h = c
      \/ h = s
  BY Zenon DEF HandlePreVoteReply
<1> HIDE DEF c, h, b
<1>4. Based(c, e) /\ SameLog(n.log, c.log) /\ SameLog(n.log, n.log)
  <2>1. Tracks(c, e)
    BY <1>2 DEF Based, Tracks, Tracked
  <2> QED BY <1>2, <2>1, BasedStays DEF SameLog
<1>5. ASSUME NEW k, Based(k, e), k.sends = {}, SameLog(n.log, k.log), h = k
      PROVE  Fit(h, e) /\ SameLog(n.log, h.log)
  <2>1. Holding(k.log, e.whole)
    BY <1>5, SameLogHolds DEF h
  <2> QED BY <1>5, <2>1, BasedIsFit
<1>6. CASE h = n
  BY <1>4, <1>5, <1>6 DEF h
<1>7. CASE h = c
  BY <1>2, <1>4, <1>5, <1>7 DEF h
<1>8. CASE r.term > n.current_term /\ h = b
  <2>1. Based(b, e) /\ b.sends = {} /\ SameLog(n.log, b.log)
    BY <1>1, <1>8, BecomeFollowerBased DEF b
  <2> QED BY <1>5, <1>8, <2>1 DEF h
<1>9. CASE h = s
  <2>1. /\ Leading(StartElection(c, FALSE), e) /\ c.sends = {}
        /\ Holding(c.log, e.whole) \/ Holding(StartElection(c, FALSE).log, e.whole)
    BY <1>2, <1>9 DEF h
  <2> HIDE DEF s
  <2>2. /\ Fit(StartElection(c, FALSE), e)
        /\ SameLog(c.log, StartElection(c, FALSE).log)
    BY <1>4, <2>1, StartElectionFits
  <2> QED BY <1>2, <1>9, <2>2 DEF h, s
<1> QED BY <1>3, <1>6, <1>7, <1>8, <1>9 DEF h

LEMMA HandleTimeoutNowFits ==
    ASSUME FixedMembership, NEW e, Ledger(e), NEW n, Based(n, e), n.sends = {},
           NEW r, Leading(HandleTimeoutNow(n, r), e),
           Holding(n.log, e.whole) \/ Holding(HandleTimeoutNow(n, r).log, e.whole)
    PROVE  /\ Fit(HandleTimeoutNow(n, r), e)
           /\ SameLog(n.log, HandleTimeoutNow(n, r).log)
<1>1. CASE HandleTimeoutNow(n, r) = n
  BY <1>1, BasedIsFit DEF SameLog
<1>2. CASE HandleTimeoutNow(n, r) = StartElection(n, TRUE)
  BY <1>2, StartElectionFits
<1> QED BY <1>1, <1>2 DEF HandleTimeoutNow

-----------------------------------------------------------------------------
(* Requests. *)

(* A leader stores a command and sends it on. *)
LEMMA ProposeFits ==
    ASSUME FixedMembership, NEW e, Ledger(e), NEW n, Based(n, e), n.sends = {},
           n.role = "Leader", NEW v \in Value,
           Leading(Propose(n, v), e), Holding(Propose(n, v).log, e.whole)
    PROVE  Fit(Propose(n, v), e)
<1> DEFINE log == AppendTo(n.log, << NormalEntry(n.current_term, v) >>)
           s == Sync([n EXCEPT !.log = log])
           r == SendAppend(s, {p \in Tracked(s) : s.progress[p].state = "Replicate"})
           h == Propose(n, v)
<1>1. /\ n \in NodeRecord /\ n.voters = Server /\ n.log \in Log
      /\ LastIndex(n.log) \in Nat /\ n.current_term \in Nat
  BY NodeFields, LogFields DEF Based
<1>2. /\ log \in Log /\ log.base_index = n.log.base_index /\ log.data = n.log.data
      /\ LastIndex(log) = LastIndex(n.log) + 1
  <2>1. NormalEntry(n.current_term, v) \in LogEntry
    BY <1>1 DEF NormalEntry, LogEntry
  <2>2. << NormalEntry(n.current_term, v) >> \in Seq(LogEntry)
    BY <2>1
  <2>3. Len(<< NormalEntry(n.current_term, v) >>) = 1
    OBVIOUS
  <2>4. log \in Log /\ LastIndex(log) = LastIndex(n.log) + 1
    BY <1>1, <2>2, <2>3, AppendToTyped, AppendToLast
  <2> QED BY <1>1, <2>4 DEF AppendTo, Log
<1> HIDE DEF log
<1>3. /\ s \in NodeRecord
      /\ s.id = n.id /\ s.voters = n.voters /\ s.log = log /\ s.role = n.role
      /\ s.commit_index = n.commit_index /\ s.last_applied = n.last_applied
      /\ s.app = n.app /\ s.progress = n.progress /\ s.sends = n.sends
      /\ s.current_term = n.current_term
  <2>1. s \in NodeRecord
    BY <1>1, <1>2, StoreTyped
  <2> QED BY <1>1, <2>1 DEF Sync, NodeRecord
<1> HIDE DEF s
<1>4. Based(s, e)
  <2>1. Tracked(s) = Tracked(n)
    BY <1>3 DEF Tracked
  <2>2. \A p \in Tracked(s) : s.progress[p].next_index <= LastIndex(s.log) + 1
    <3>1. \A p \in Tracked(n) : n.progress[p].next_index \in Nat
      BY <1>1, TrackedTyped
    <3> QED BY <1>1, <1>2, <1>3, <2>1, <3>1 DEF Based, Tracks
  <2>3. Tracks(s, e)
    BY <1>3, <2>1, <2>2 DEF Based, Tracks
  <2>4. Applies(s, e)
    BY <1>2, <1>3 DEF Based, Applies
  <2> QED BY <1>1, <1>3, <2>3, <2>4 DEF Based
<1>5. h = AdvanceCommit(r)
  BY DEF Propose, ReplicateToStreaming, r, s, log
<1>6. r \in NodeRecord /\ r.voters = Server /\ r.log = s.log /\ r.role = "Leader"
  <2>1. r \in NodeRecord
    BY <1>3, SendAppendTyped
  <2> QED BY <1>1, <1>3, <2>1 DEF SendAppend, NodeRecord
<1>7. h.log = s.log /\ h.role = "Leader" /\ h.id = r.id /\ h.current_term = r.current_term
  BY <1>5, <1>6, AdvanceCommitLeads
<1> HIDE DEF h
<1>8. Fit(s, e)
  BY <1>3, <1>4, <1>7, BasedIsFit DEF h
<1>9. Fit(r, e)
  BY <1>3, <1>8, SendAppendFits
<1> HIDE DEF r
<1>10. /\ Acked(e.acks, r.id, r.current_term, LastIndex(r.log))
       /\ Counts(r.current_term, e)
  BY <1>6, <1>7 DEF Leading, h
<1>11. Fit(AdvanceCommit(r), e)
  BY <1>6, <1>9, <1>10, AdvanceCommitFits
<1> QED BY <1>5, <1>11 DEF h

(* Handing over: to a server that has acknowledged the whole log. *)
LEMMA MaybeSendTimeoutNowFits ==
    ASSUME NEW e, Ledger(e), NEW n, Fit(n, e), NEW target \in Server
    PROVE  LET m == MaybeSendTimeoutNow(n, target)
           IN  /\ Fit(m, e) /\ m.role = n.role /\ m.log = n.log /\ m.id = n.id
               /\ m.progress = n.progress /\ m.current_term = n.current_term
<1> DEFINE m == MaybeSendTimeoutNow(n, target)
           x == [kind |-> "TimeoutNow", from |-> n.id, to |-> target,
                 term |-> n.current_term]
           a == [n EXCEPT !.transfer_target = None]
<1>1. n \in NodeRecord /\ n.id \in Server /\ LastIndex(n.log) \in Nat
  BY NodeFields, LogFields DEF Fit
<1>2. CASE /\ n.transfer_target = target
           /\ target \in Tracked(n)
           /\ n.progress[target].match_index >= LastIndex(n.log)
  <2>1. m = Send(a, {x})
    BY <1>2 DEF MaybeSendTimeoutNow
  <2>2. m \in NodeRecord
    BY <1>1, MaybeSendTimeoutNowTyped
  <2>3. /\ m.id = n.id /\ m.voters = n.voters /\ m.log = n.log /\ m.role = n.role
        /\ m.current_term = n.current_term /\ m.voted_for = n.voted_for
        /\ m.commit_index = n.commit_index /\ m.last_applied = n.last_applied
        /\ m.app = n.app /\ m.progress = n.progress /\ m.sends = n.sends \cup {x}
    BY <1>1, <2>1 DEF Send, NodeRecord
  <2> HIDE DEF m
  <2>4. Tracks(m, e)
    BY <2>3 DEF Fit, Tracks, Tracked
  <2>5. Acked(e.acks, target, n.current_term, LastIndex(n.log)) /\ target # n.id
    <3>1. /\ Acked(e.acks, target, n.current_term, n.progress[target].match_index)
          /\ target # n.id
      BY <1>1, <1>2 DEF Fit, Tracks, Tracked
    <3>2. n.progress[target].match_index \in Nat
      BY <1>1, <1>2, TrackedTyped
    <3>3. \A b \in e.acks : b.index \in Nat
      BY DEF Ledger
    <3> QED BY <1>1, <1>2, <3>1, <3>2, <3>3 DEF Acked
  <2>6. n.role = "Leader"
    BY <1>2 DEF Fit, Tracks, Tracked
  <2>7. /\ x.kind = "TimeoutNow" /\ x.to = target /\ x.term = n.current_term
    OBVIOUS
  <2> HIDE DEF x
  <2>8. Speaks(m, x, e)
    BY <2>3, <2>5, <2>6, <2>7 DEF Speaks, Replicates
  <2>9. Fit(m, e)
    BY <2>2, <2>3, <2>4, <2>8, FitStays
  <2> QED BY <2>3, <2>9 DEF m
<1>3. CASE ~ (/\ n.transfer_target = target
              /\ target \in Tracked(n)
              /\ n.progress[target].match_index >= LastIndex(n.log))
  BY <1>3 DEF MaybeSendTimeoutNow
<1> QED BY <1>2, <1>3

LEMMA TransferLeadershipFits ==
    ASSUME NEW e, Ledger(e), NEW n, Based(n, e), n.sends = {}, NEW target \in Server,
           Holding(n.log, e.whole) \/ Holding(TransferLeadership(n, target).log, e.whole)
    PROVE  /\ Fit(TransferLeadership(n, target), e)
           /\ TransferLeadership(n, target).log = n.log
<1> DEFINE h == TransferLeadership(n, target)
           t == [n EXCEPT !.transfer_target = target]
           asked == MaybeSendTimeoutNow(t, target)
           peers == IF asked.transfer_target = None THEN {} ELSE {target} \cap Tracked(asked)
           s == SendAppend(asked, peers)
<1>1. n \in NodeRecord
  BY DEF Based
<1>2. CASE n.role # "Leader" \/ target = n.id \/ target \notin n.voters
  <2>1. h = n
    BY <1>2 DEF TransferLeadership
  <2> QED BY <2>1, BasedIsFit
<1>3. CASE ~ (n.role # "Leader" \/ target = n.id \/ target \notin n.voters)
  <2>1. h = s
    BY <1>3 DEF TransferLeadership
  <2>2. /\ t \in NodeRecord
        /\ t.id = n.id /\ t.voters = n.voters /\ t.log = n.log /\ t.role = n.role
        /\ t.commit_index = n.commit_index /\ t.last_applied = n.last_applied
        /\ t.app = n.app /\ t.progress = n.progress /\ t.sends = n.sends
        /\ t.current_term = n.current_term
    BY <1>1 DEF NodeRecord
  <2> HIDE DEF t
  <2>3. asked \in NodeRecord /\ asked.log = t.log /\ asked.role = t.role
    BY <2>2, MaybeSendTimeoutNowTyped DEF MaybeSendTimeoutNow, Send, NodeRecord
  <2>4. h.log = n.log
    BY <2>1, <2>2, <2>3 DEF SendAppend, NodeRecord
  <2>5. Holding(t.log, e.whole)
    BY <2>2, <2>4
  <2>6. Based(t, e)
    <3>1. Tracks(t, e)
      BY <2>2 DEF Based, Tracks, Tracked
    <3> QED BY <2>2, <3>1, BasedStays DEF SameLog
  <2>7. Fit(t, e)
    BY <2>2, <2>5, <2>6, BasedIsFit
  <2>8. Fit(asked, e)
    BY <2>7, MaybeSendTimeoutNowFits
  <2>9. asked.role = "Leader" /\ peers \in SUBSET Tracked(asked)
    BY <1>3, <2>2, <2>3
  <2> HIDE DEF asked, peers
  <2>10. Fit(s, e)
    BY <2>8, <2>9, SendAppendFits
  <2> HIDE DEF s, h
  <2> QED BY <2>1, <2>4, <2>10 DEF h
<1> QED BY <1>2, <1>3

(* What is known of a peer is updated. *)
LEMMA ProgressUpdateFits ==
    ASSUME NEW e, NEW n, Fit(n, e), n.role = "Leader", NEW p \in Tracked(n),
           NEW pr \in Progress, pr.match_index < pr.next_index,
           pr.next_index <= LastIndex(n.log) + 1,
           Acked(e.acks, p, n.current_term, pr.match_index)
    PROVE  LET m == [n EXCEPT !.progress[p] = pr]
           IN  /\ Fit(m, e) /\ p \in Tracked(m) /\ m.role = n.role /\ m.log = n.log
               /\ m.id = n.id /\ m.current_term = n.current_term
<1> DEFINE m == [n EXCEPT !.progress[p] = pr]
<1>1. n \in NodeRecord /\ n.progress[n.id] = None
  BY DEF Fit, Tracks
<1>2. m \in NodeRecord /\ p \in Tracked(m)
  BY <1>1, ProgressUpdateTyped
<1>3. /\ m.id = n.id /\ m.voters = n.voters /\ m.log = n.log /\ m.role = n.role
      /\ m.current_term = n.current_term /\ m.voted_for = n.voted_for
      /\ m.commit_index = n.commit_index /\ m.last_applied = n.last_applied
      /\ m.app = n.app /\ m.sends = n.sends
      /\ \A q \in Server : m.progress[q] = IF q = p THEN pr ELSE n.progress[q]
  BY <1>1, <1>2 DEF NodeRecord, Tracked
<1> HIDE DEF m
<1>4. p # n.id /\ n.id \in Server /\ pr # None
  BY <1>1, NodeFields, ProgressAssumption DEF Tracked
<1>5. Tracked(m) = Tracked(n)
  BY <1>2, <1>3, <1>4 DEF Tracked
<1>6. Tracks(m, e)
  <2>1. m.progress[m.id] = None
    BY <1>1, <1>3, <1>4
  <2>2. ASSUME NEW q \in Tracked(m)
        PROVE  /\ Acked(e.acks, q, m.current_term, m.progress[q].match_index)
               /\ m.progress[q].match_index < m.progress[q].next_index
               /\ m.progress[q].next_index <= LastIndex(m.log) + 1
    <3>1. CASE q = p
      BY <1>3, <3>1 DEF Tracked
    <3>2. CASE q # p
      BY <1>3, <1>5, <3>2 DEF Fit, Tracks, Tracked
    <3> QED BY <3>1, <3>2
  <2> QED BY <1>3, <2>1, <2>2 DEF Tracks
<1>7. Fit(m, e)
  BY <1>2, <1>3, <1>6, FitStays
<1> QED BY <1>2, <1>3, <1>7 DEF m

(* What follows an acknowledgement leaves a leader in place. *)
LEMMA AfterAckLeads ==
    ASSUME NEW n \in NodeRecord, n.voters = Server, NEW p \in Tracked(n), n.role = "Leader"
    PROVE  LET m == AfterAck(n, p)
           IN  /\ m.role = "Leader" /\ m.log = n.log /\ m.id = n.id
               /\ m.current_term = n.current_term
<1> DEFINE c == AdvanceCommit(n)
           t == MaybeSendTimeoutNow(c, p)
           m == AfterAck(n, p)
<1>1. /\ c \in NodeRecord /\ c.role = "Leader" /\ c.log = n.log /\ c.id = n.id
      /\ c.current_term = n.current_term /\ c.progress = n.progress /\ p \in Server
  <2>1. c \in NodeRecord /\ (c.role = "Leader" => c.progress = n.progress)
    BY AdvanceCommitTyped
  <2> QED BY <2>1, AdvanceCommitLeads, TrackedTyped
<1> HIDE DEF c
<1>2. /\ t \in NodeRecord /\ t.role = "Leader" /\ t.log = n.log /\ t.id = n.id
      /\ t.current_term = n.current_term /\ t.progress = n.progress
  <2>1. t \in NodeRecord /\ t.role = c.role /\ t.progress = c.progress
    BY <1>1, MaybeSendTimeoutNowTyped
  <2>2. t.log = c.log /\ t.id = c.id /\ t.current_term = c.current_term
    BY <1>1, <2>1 DEF MaybeSendTimeoutNow, Send, NodeRecord
  <2> QED BY <1>1, <2>1, <2>2
<1> HIDE DEF t
<1>3. m = t \/ m = SendAppend(t, {p})
  BY DEF AfterAck, t, c
<1>4. LET s == SendAppend(t, {p})
      IN  /\ s.role = t.role /\ s.log = t.log /\ s.id = t.id
          /\ s.current_term = t.current_term
  BY <1>2 DEF SendAppend, NodeRecord
<1> QED BY <1>2, <1>3, <1>4

LEMMA AfterAckFits ==
    ASSUME FixedMembership, NEW e, Ledger(e), NEW n, Fit(n, e), n.role = "Leader",
           NEW p \in Tracked(n), Leading(AfterAck(n, p), e)
    PROVE  Fit(AfterAck(n, p), e)
<1> DEFINE c == AdvanceCommit(n)
           t == MaybeSendTimeoutNow(c, p)
           m == AfterAck(n, p)
<1>1. n \in NodeRecord /\ n.voters = Server /\ p \in Server
  BY TrackedTyped DEF Fit
<1>2. /\ Acked(e.acks, n.id, n.current_term, LastIndex(n.log))
      /\ Counts(n.current_term, e)
  BY <1>1, AfterAckLeads DEF Leading
<1>3. Fit(c, e) /\ c.role = "Leader" /\ c.progress = n.progress
  BY <1>2, AdvanceCommitFits
<1> HIDE DEF c
<1>4. Fit(t, e) /\ t.role = "Leader" /\ t.progress = n.progress
  BY <1>1, <1>3, MaybeSendTimeoutNowFits
<1> HIDE DEF t
<1>5. {p} \in SUBSET Tracked(t)
  BY <1>4 DEF Tracked
<1>6. Fit(SendAppend(t, {p}), e)
  BY <1>4, <1>5, SendAppendFits
<1>7. m = t \/ m = SendAppend(t, {p})
  BY DEF AfterAck, t, c
<1> QED BY <1>4, <1>6, <1>7

(* An acknowledgement, or a rejection, of a batch. *)
LEMMA HandleAppendReplyFits ==
    ASSUME FixedMembership, NEW e, Ledger(e), NEW n, Based(n, e), n.sends = {},
           NEW r \in Message, r.kind = "AppendEntriesReply",
           Leading(HandleAppendReply(n, r), e),
           Holding(n.log, e.whole) \/ Holding(HandleAppendReply(n, r).log, e.whole),
           n.role = "Leader" /\ r.term = n.current_term =>
                /\ Acked(e.acks, r.from, r.term, r.match_index)
                /\ r.match_index <= LastIndex(n.log)
    PROVE  /\ Fit(HandleAppendReply(n, r), e)
           /\ HandleAppendReply(n, r).log = n.log
<1> DEFINE p     == r.from
           old   == n.progress[p]
           match == Larger(old.match_index, r.match_index)
           yes   == [next_index  |-> Larger(old.next_index, match + 1),
                     match_index |-> match, state |-> "Replicate"]
           next  == RejectedNext(n, r)
           no    == [old EXCEPT !.next_index = next, !.state = "Probe"]
           a     == [n EXCEPT !.progress[p] = yes]
           b     == [n EXCEPT !.progress[p] = no]
           h     == HandleAppendReply(n, r)
<1>1. /\ n \in NodeRecord /\ n.voters = Server /\ n.log \in Log
      /\ LastIndex(n.log) \in Nat /\ p \in Server
      /\ n.progress \in [Server -> Progress \cup {None}]
  BY NodeFields, LogFields, MessageFields DEF Based
<1>2. CASE ~ Heeds(n, r)
  <2>1. h = n
    BY <1>2 DEF HandleAppendReply
  <2> QED BY <2>1, BasedIsFit
<1>3. CASE Heeds(n, r)
  <2>1. n.role = "Leader" /\ r.term = n.current_term /\ p \in Tracked(n)
    BY <1>3 DEF Heeds
  <2>2. /\ old \in Progress /\ old.next_index \in Nat /\ old.match_index \in Nat
        /\ r.match_index \in Nat /\ r.conflict_index \in Nat
    BY <1>1, <2>1, TrackedTyped, AppendReplyFields
  <2>3. /\ Acked(e.acks, p, n.current_term, old.match_index)
        /\ old.match_index < old.next_index
        /\ old.next_index <= LastIndex(n.log) + 1
    BY <2>1 DEF Based, Tracks
  <2>4. CASE r.success
    <3>1. /\ match \in Nat
          /\ match = old.match_index \/ match = r.match_index
          /\ match <= LastIndex(n.log)
      BY <1>1, <2>1, <2>2, <2>3 DEF Larger
    <3>2. Acked(e.acks, p, n.current_term, match)
      BY <2>1, <2>3, <3>1
    <3> DEFINE top == Larger(old.next_index, match + 1)
    <3>3. top \in Nat /\ match < top /\ top <= LastIndex(n.log) + 1
      BY <1>1, <2>2, <2>3, <3>1 DEF Larger
    <3>a. yes = [next_index |-> top, match_index |-> match, state |-> "Replicate"]
      BY DEF yes, top
    <3> HIDE DEF match, top, old, yes
    <3>4. yes \in Progress /\ yes.match_index = match /\ yes.next_index = top
      BY <3>1, <3>3, <3>a DEF Progress
    <3>5. [n EXCEPT !.progress[p] = [next_index  |-> Larger(@.next_index, match + 1),
                                     match_index |-> match, state |-> "Replicate"]] = a
      BY <1>1 DEF yes, old, NodeRecord
    <3>6. h = AfterAck(a, p)
      BY <1>3, <2>4, <3>5 DEF HandleAppendReply, match, old
    <3>b. a \in NodeRecord /\ p \in Tracked(a)
      BY <1>1, <2>1, <3>4, ProgressUpdateTyped
    <3>7. /\ a.role = n.role /\ a.log = n.log /\ p \in Tracked(a) /\ a \in NodeRecord
          /\ a.voters = n.voters
      BY <1>1, <3>b DEF NodeRecord
    <3>8. h.log = n.log
      BY <1>1, <2>1, <3>6, <3>7, AfterAckLeads
    <3>9. Fit(n, e)
      BY <3>8, BasedIsFit
    <3>10. Fit(a, e)
      BY <2>1, <3>2, <3>3, <3>4, <3>9, ProgressUpdateFits
    <3>11. Leading(AfterAck(a, p), e)
      BY <3>6
    <3> HIDE DEF a
    <3>12. Fit(AfterAck(a, p), e)
      BY <2>1, <3>7, <3>10, <3>11, AfterAckFits
    <3> HIDE DEF h
    <3> QED BY <3>6, <3>8, <3>12 DEF h
  <2>5. CASE ~ r.success
    <3> DEFINE target == IF /\ r.conflict_term > 0
                            /\ LastIndexOfTerm(n.log, r.conflict_term) # 0
                         THEN LastIndexOfTerm(n.log, r.conflict_term) + 1
                         ELSE Larger(r.conflict_index, 1)
               floor == old.match_index + 1
               ceil  == Larger(old.next_index - 1, floor)
    <3>1. next = Smaller(Larger(target, floor), ceil)
      BY DEF RejectedNext
    <3>2. target \in Nat
      BY <1>1, <2>2, LastIndexOfTermTyped DEF Larger
    <3> HIDE DEF target, next
    <3>3. next \in Nat /\ old.match_index < next /\ next <= LastIndex(n.log) + 1
      BY <1>1, <2>2, <2>3, <3>1, <3>2 DEF Larger, Smaller
    <3>4. no \in Progress /\ no.match_index = old.match_index /\ no.next_index = next
      BY <2>2, <3>3 DEF Progress
    <3> HIDE DEF no
    <3>5. b \in NodeRecord /\ b.log = n.log
      BY <1>1, <2>1, <3>4, ProgressUpdateTyped, SMTT(60) DEF NodeRecord
    <3>6. h = SendAppend(b, {p})
      <4>1. [n EXCEPT !.progress[p] = [@ EXCEPT !.next_index = RejectedNext(n, r),
                                                !.state = "Probe"]] = b
        BY <1>1 DEF no, next, NodeRecord
      <4> QED BY <1>3, <2>5, <4>1 DEF HandleAppendReply
    <3>7. h.log = n.log
      BY <3>5, <3>6 DEF SendAppend, NodeRecord
    <3>8. Fit(n, e)
      BY <3>7, BasedIsFit
    <3>9. Fit(b, e) /\ p \in Tracked(b) /\ b.role = "Leader"
      <4> HIDE DEF old
      <4> QED BY <2>1, <2>3, <3>3, <3>4, <3>8, ProgressUpdateFits
    <3> HIDE DEF b
    <3>10. {p} \in SUBSET Tracked(b)
      BY <3>9
    <3>11. Fit(SendAppend(b, {p}), e)
      BY <3>9, <3>10, SendAppendFits
    <3> HIDE DEF h
    <3> QED BY <3>6, <3>7, <3>11 DEF h
  <2> QED BY <2>4, <2>5
<1> QED BY <1>2, <1>3

(* An answer to a snapshot. *)
LEMMA HandleInstallSnapshotReplyFits ==
    ASSUME FixedMembership, NEW e, Ledger(e), NEW n, Based(n, e), n.sends = {},
           NEW r \in Message, r.kind = "InstallSnapshotReply",
           Leading(HandleInstallSnapshotReply(n, r), e),
           Holding(n.log, e.whole)
               \/ Holding(HandleInstallSnapshotReply(n, r).log, e.whole),
           n.role = "Leader" /\ r.term = n.current_term =>
                /\ Acked(e.acks, r.from, r.term, r.last_index)
                /\ r.last_index <= LastIndex(n.log)
    PROVE  /\ Fit(HandleInstallSnapshotReply(n, r), e)
           /\ HandleInstallSnapshotReply(n, r).log = n.log
<1> DEFINE p     == r.from
           old   == n.progress[p]
           match == Larger(old.match_index, r.last_index)
           yes   == [next_index  |-> match + 1, match_index |-> match,
                     state |-> "Replicate"]
           a     == [n EXCEPT !.progress[p] = yes]
           h     == HandleInstallSnapshotReply(n, r)
<1>1. /\ n \in NodeRecord /\ n.voters = Server /\ n.log \in Log
      /\ LastIndex(n.log) \in Nat /\ p \in Server
      /\ n.progress \in [Server -> Progress \cup {None}]
  BY NodeFields, LogFields, MessageFields DEF Based
<1>2. CASE ~ Heeds(n, r)
  <2>1. h = n
    BY <1>2 DEF HandleInstallSnapshotReply
  <2> QED BY <2>1, BasedIsFit
<1>3. CASE Heeds(n, r)
  <2>1. n.role = "Leader" /\ r.term = n.current_term /\ p \in Tracked(n)
    BY <1>3 DEF Heeds
  <2>2. old \in Progress /\ old.match_index \in Nat /\ r.last_index \in Nat
    BY <1>1, <2>1, TrackedTyped, InstallSnapshotReplyFields
  <2>3. /\ Acked(e.acks, p, n.current_term, old.match_index)
        /\ old.match_index < old.next_index
        /\ old.next_index <= LastIndex(n.log) + 1
        /\ old.next_index \in Nat
    BY <1>1, <2>1, TrackedTyped DEF Based, Tracks
  <2>4. /\ match \in Nat
        /\ match = old.match_index \/ match = r.last_index
        /\ match <= LastIndex(n.log)
    BY <1>1, <2>1, <2>2, <2>3 DEF Larger
  <2>5. Acked(e.acks, p, n.current_term, match)
    BY <2>1, <2>3, <2>4
  <2> HIDE DEF match, old
  <2>6. /\ yes \in Progress /\ yes.match_index = match
        /\ yes.match_index < yes.next_index
        /\ yes.next_index <= LastIndex(n.log) + 1
    BY <1>1, <2>4 DEF Progress
  <2> HIDE DEF yes
  <2>7. [n EXCEPT !.progress[p] = [next_index  |-> match + 1,
                                   match_index |-> match, state |-> "Replicate"]] = a
    BY <1>1 DEF yes
  <2>8. h = AfterAck(a, p)
    BY <1>3, <2>7 DEF HandleInstallSnapshotReply, match, old
  <2>9. a \in NodeRecord /\ p \in Tracked(a)
    BY <1>1, <2>1, <2>6, ProgressUpdateTyped
  <2>10. a.role = n.role /\ a.log = n.log /\ a.voters = n.voters
    BY <1>1, <2>9 DEF NodeRecord
  <2>11. h.log = n.log
    BY <1>1, <2>1, <2>8, <2>9, <2>10, AfterAckLeads
  <2>12. Fit(n, e)
    BY <2>11, BasedIsFit
  <2>13. Fit(a, e)
    BY <2>1, <2>5, <2>6, <2>12, ProgressUpdateFits
  <2>14. Leading(AfterAck(a, p), e)
    BY <2>8
  <2> HIDE DEF a
  <2>15. Fit(AfterAck(a, p), e)
    BY <2>1, <2>9, <2>10, <2>13, <2>14, AfterAckFits
  <2> HIDE DEF h
  <2> QED BY <2>8, <2>11, <2>15 DEF h
<1> QED BY <1>2, <1>3

(* A heartbeat. *)
LEMMA TickHeartbeatFits ==
    ASSUME NEW e, NEW n, Based(n, e), n.sends = {}, n.role = "Leader",
           Holding(n.log, e.whole) \/ Holding(TickHeartbeat(n).log, e.whole)
    PROVE  Fit(TickHeartbeat(n), e) /\ TickHeartbeat(n).log = n.log
<1>1. n \in NodeRecord
  BY DEF Based
<1>2. TickHeartbeat(n).log = n.log
  BY <1>1 DEF TickHeartbeat, ReplicateToAll, SendAppend, NodeRecord
<1>3. Fit(n, e)
  BY <1>2, BasedIsFit
<1>4. Fit(SendAppend(n, Tracked(n)), e)
  BY <1>3, SendAppendFits
<1> QED BY <1>2, <1>4 DEF TickHeartbeat, ReplicateToAll

-----------------------------------------------------------------------------
(* Snapshots. *)

(* The commands of the first indices are among those of the first more. *)
LEMMA CommandsUpTo ==
    ASSUME NEW s, NEW x \in Nat, NEW y \in Nat, x <= y
    PROVE  {a \in Commands(s, y) : a.index <= x} = Commands(s, x)
<1> SUFFICES ASSUME NEW c
             PROVE  c \in Commands(s, y) /\ c.index <= x <=> c \in Commands(s, x)
  OBVIOUS
<1>1. ASSUME c \in Commands(s, y), c.index <= x
      PROVE  c \in Commands(s, x)
  <2>1. PICK k \in {j \in 1 .. y : s[j].kind = "Normal"} :
                c = [index |-> k, command |-> s[k].body]
    BY <1>1 DEF Commands, CommandsIn
  <2>2. c.index = k
    BY <2>1
  <2>3. k \in {j \in 1 .. x : s[j].kind = "Normal"}
    BY <1>1, <2>1, <2>2
  <2> QED BY <2>1, <2>3 DEF Commands, CommandsIn
<1>2. ASSUME c \in Commands(s, x)
      PROVE  c \in Commands(s, y) /\ c.index <= x
  <2>1. PICK k \in {j \in 1 .. x : s[j].kind = "Normal"} :
                c = [index |-> k, command |-> s[k].body]
    BY <1>2 DEF Commands, CommandsIn
  <2>2. c.index = k /\ k \in 1 .. x
    BY <2>1
  <2>3. k \in {j \in 1 .. y : s[j].kind = "Normal"}
    BY <2>1, <2>2
  <2> QED BY <2>1, <2>2, <2>3 DEF Commands, CommandsIn
<1> QED BY <1>1, <1>2

(* A new configuration leaves a leader with the table of its peers. *)
LEMMA SetConfigTracks ==
    ASSUME NEW e, NEW n \in NodeRecord, NEW voters \in SUBSET Server, NEW at \in Nat,
           Tracks(n, e)
    PROVE  Tracks(SetConfig(n, voters, at), e)
<1> DEFINE adopted == [n EXCEPT !.voters = voters, !.config_index = at]
           m == SetConfig(n, voters, at)
<1>1. /\ adopted.role = n.role /\ adopted.log = n.log /\ adopted.id = n.id
      /\ adopted.progress = n.progress /\ adopted.current_term = n.current_term
      /\ adopted.voters = voters /\ adopted \in NodeRecord
      /\ n.id \in Server /\ LastIndex(n.log) \in Nat
  <2>1. adopted \in NodeRecord
    BY DEF NodeRecord
  <2>2. n.log \in Log /\ n.id \in Server
    BY NodeFields
  <2>3. LastIndex(n.log) \in Nat
    BY <2>2, LogFields
  <2> QED BY <2>1, <2>2, <2>3 DEF NodeRecord
<1>2. Tracked(adopted) = Tracked(n) /\ Peers(adopted) = voters \ {n.id}
  BY <1>1 DEF Tracked, Peers
<1>3. CASE n.role # "Leader"
  <2>1. m = adopted
    BY <1>3 DEF SetConfig
  <2> HIDE DEF adopted, m
  <2> QED BY <1>1, <1>2, <1>3, <2>1 DEF Tracks, m
<1>4. CASE n.role = "Leader"
  <2> DEFINE fresh == [next_index |-> LastIndex(n.log) + 1, match_index |-> 0,
                       state |-> "Probe"]
             table == [p \in Server |->
                          IF p \notin voters \ {n.id} THEN None
                          ELSE IF p \in Tracked(n) THEN n.progress[p]
                          ELSE fresh]
  <2>1. m = RebuildProgress(adopted)
    BY <1>4 DEF SetConfig
  <2> HIDE DEF adopted
  <2>2. m = [adopted EXCEPT !.progress = table]
    BY <1>1, <1>2, <2>1 DEF RebuildProgress
  <2>3. /\ m.progress = table /\ m.role = n.role /\ m.log = n.log /\ m.id = n.id
        /\ m.current_term = n.current_term
    <3> HIDE DEF table, m
    <3> QED BY <1>1, <2>2 DEF NodeRecord
  <2> HIDE DEF m
  <2>4. table[n.id] = None
    BY <1>1
  <2>5. fresh.match_index = 0 /\ fresh.next_index = LastIndex(n.log) + 1
    OBVIOUS
  <2>6. \A p \in Server : table[p] # None =>
            (p \in Tracked(n) /\ table[p] = n.progress[p]) \/ table[p] = fresh
    <3> HIDE DEF fresh
    <3> QED OBVIOUS
  <2> HIDE DEF table, fresh
  <2>7. ASSUME NEW p \in Tracked(m)
        PROVE  /\ Acked(e.acks, p, m.current_term, m.progress[p].match_index)
               /\ m.progress[p].match_index < m.progress[p].next_index
               /\ m.progress[p].next_index <= LastIndex(m.log) + 1
    <3>1. p \in Server /\ m.progress[p] = table[p] /\ table[p] # None
      BY <2>3 DEF Tracked
    <3>2. CASE p \in Tracked(n) /\ table[p] = n.progress[p]
      BY <2>3, <3>1, <3>2 DEF Tracks
    <3>3. CASE table[p] = fresh
      BY <1>1, <2>3, <2>5, <3>1, <3>3 DEF Acked
    <3> QED BY <2>6, <3>1, <3>2, <3>3
  <2> QED BY <1>4, <2>3, <2>4, <2>7 DEF Tracks, m
<1> QED BY <1>3, <1>4

(* Reading the configuration back changes nothing else. *)
LEMMA RefreshConfigFields ==
    ASSUME NEW n \in NodeRecord
    PROVE  LET m == RefreshConfig(n)
           IN  /\ m \in NodeRecord /\ m.id = n.id /\ m.log = n.log /\ m.role = n.role
               /\ m.current_term = n.current_term /\ m.voted_for = n.voted_for
               /\ m.commit_index = n.commit_index /\ m.last_applied = n.last_applied
               /\ m.app = n.app /\ m.sends = n.sends /\ m.disk = n.disk
<1> DEFINE m == RefreshConfig(n)
<1>1. m \in NodeRecord
  BY RefreshConfigTyped
<1> QED BY <1>1 DEF RefreshConfig, SetConfig, RebuildProgress, NodeRecord

LEMMA RefreshConfigTracks ==
    ASSUME NEW e, NEW n \in NodeRecord, Tracks(n, e)
    PROVE  Tracks(RefreshConfig(n), e)
<1> DEFINE voters == ConfigAt(n.log, LastIndex(n.log), n.base_config)
           at     == ConfigIndexAt(n.log, LastIndex(n.log))
<1>1. voters \in SUBSET Server /\ at \in Nat
  BY NodeFields, LogFields, ConfigTyped
<1>2. RefreshConfig(n) = SetConfig(n, voters, at)
  BY DEF RefreshConfig
<1> HIDE DEF voters, at
<1> QED BY <1>1, <1>2, SetConfigTracks

(* The answer to a hint: the log from the snapshot on. *)
LEMMA HandleSnapshotEventFits ==
    ASSUME NEW e, Ledger(e), NEW n, Based(n, e), n.sends = {}, NEW index \in Nat,
           n.last_applied \in e.told,
           HandleSnapshotEvent(n, index).voters = Server,
           /\ Part(HandleSnapshotEvent(n, index).log, n.log)
           /\ LastIndex(HandleSnapshotEvent(n, index).log) = LastIndex(n.log)
           => Holding(n.log, e.whole)
    PROVE  Fit(HandleSnapshotEvent(n, index), e)
<1> DEFINE refused == \/ index > n.commit_index
                      \/ index > n.last_applied
                      \/ index <= n.log.base_index
                      \/ TermAt(n.log, index) = NoTerm
           config == ConfigAt(n.log, index, n.base_config)
           data   == {a \in n.app : a.index <= index}
           snap   == [index |-> index, term |-> TermAt(n.log, index),
                      config |-> config, data |-> data]
           at     == Larger(n.snapshot_hinted_at, index)
           log    == ApplySnapshot(n.log, snap)
           compacted == [n EXCEPT !.base_config = config, !.log = log,
                                  !.snapshot_hinted_at = at]
           synced == Sync(compacted)
           h      == HandleSnapshotEvent(n, index)
<1>1. n \in NodeRecord /\ n.log \in Log /\ n.voters = Server
  BY NodeFields DEF Based
<1>2. CASE refused
  <2>1. h = n
    BY <1>2 DEF HandleSnapshotEvent
  <2>2. Part(n.log, n.log)
    BY <1>1, LogIsPiece, PartReflexive
  <2> QED BY <2>1, <2>2, BasedIsFit
<1>3. CASE ~ refused
  <2>1. TermAt(n.log, index) \in Nat /\ index > n.log.base_index
    BY <1>1, <1>3, LogFields, TermTyped
  <2>a. index <= n.commit_index /\ index <= n.last_applied
    BY <1>1, <1>3, NodeFields
  <2>2. config \in SUBSET Server
    BY <1>1, NodeFields, ConfigTyped
  <2>3. data \in SUBSET Applied
    BY <1>1, NodeFields
  <2>4. at \in Nat
    BY <1>1, NodeFields, SmallerLarger
  <2>b. data = Commands(e.whole, index)
    BY <1>1, <2>a, NodeFields, CommandsUpTo DEF Based, Applies
  <2> HIDE DEF config, data, at
  <2>6. snap \in Snapshot
    BY <2>1, <2>2, <2>3 DEF Snapshot
  <2>7. /\ log \in Log /\ log.base_index = index
        /\ Part(log, n.log) /\ LastIndex(log) = LastIndex(n.log)
    BY <1>1, <2>1, <2>6, SnapshotApplied
  <2>c. log.data = data
    <3>1. ~ (index <= n.log.base_index)
      BY <1>3
    <3> QED BY <1>1, <3>1 DEF ApplySnapshot, Log
  <2> HIDE DEF snap, log
  <2>8. compacted \in NodeRecord
    BY <1>1, <2>2, <2>4, <2>7 DEF NodeRecord
  <2>9. /\ compacted.id = n.id /\ compacted.log = log
        /\ compacted.role = n.role /\ compacted.progress = n.progress
        /\ compacted.current_term = n.current_term
        /\ compacted.commit_index = n.commit_index
        /\ compacted.last_applied = n.last_applied
        /\ compacted.app = n.app /\ compacted.sends = n.sends
    BY <1>1 DEF NodeRecord
  <2> HIDE DEF compacted
  <2>10. synced \in NodeRecord
    BY <2>8, SyncTyped
  <2>11. /\ synced.id = n.id /\ synced.log = log
         /\ synced.role = n.role /\ synced.progress = n.progress
         /\ synced.current_term = n.current_term
         /\ synced.commit_index = n.commit_index
         /\ synced.last_applied = n.last_applied
         /\ synced.app = n.app /\ synced.sends = n.sends
    BY <2>8, <2>9 DEF Sync, NodeRecord
  <2> HIDE DEF synced
  <2>12. Tracks(synced, e)
    BY <1>1, <2>7, <2>11 DEF Based, Tracks, Tracked
  <2>13. Tracks(RefreshConfig(synced), e)
    BY <2>10, <2>12, RefreshConfigTracks
  <2>14. h = RefreshConfig(synced)
    BY <1>3 DEF HandleSnapshotEvent, synced, compacted, log, at, snap, data, config
  <2>15. /\ h \in NodeRecord /\ h.log = log /\ h.commit_index = n.commit_index
         /\ h.last_applied = n.last_applied /\ h.app = n.app /\ h.sends = n.sends
    BY <2>10, <2>11, <2>14, RefreshConfigFields
  <2>16. Tracks(h, e) /\ h.voters = Server
    BY <2>13, <2>14
  <2> HIDE DEF h
  <2>17. Holding(n.log, e.whole)
    BY <2>7, <2>15 DEF h
  <2>18. Holding(h.log, e.whole)
    <3>1. IsPiece(log) /\ IsPiece(n.log) /\ IsPiece(Whole(e.whole))
      BY <1>1, <2>7, LogIsPiece, WholeFields DEF Ledger
    <3>2. Part(log, Whole(e.whole))
      BY <2>7, <2>17, <3>1, PartTransitive DEF Holding
    <3> QED BY <2>7, <2>15, <2>17, <3>2 DEF Holding
  <2>19. index \in e.told
    BY <1>1, <2>a, NodeFields DEF Ledger
  <2>20. Applies(h, e)
    BY <2>7, <2>a, <2>b, <2>c, <2>15, <2>19 DEF Based, Applies
  <2>21. \A x \in h.sends : Speaks(h, x, e)
    BY <2>15
  <2> QED BY <2>15, <2>16, <2>18, <2>20, <2>21 DEF Fit, h
<1> QED BY <1>2, <1>3

-----------------------------------------------------------------------------
(* Replication, on the follower. *)

(* What the node has stored ends as the batch does, or goes on.             *)
LEMMA StoredLogHolds ==
    ASSUME NEW n \in NodeRecord, NEW m \in Message, m.kind = "AppendEntries",
           m.prev_log_index >= n.log.base_index, PrevOk(n, m),
           NEW log, log = IF Missing(n, m) = << >> THEN n.log
                          ELSE AppendTo(KeptLog(n, m), Missing(n, m))
    PROVE  /\ log \in Log /\ log.base_index = n.log.base_index /\ log.data = n.log.data
           /\ LastIndex(Carried(m)) \in Span(log)
           /\ LastIndex(Carried(m)) = m.prev_log_index + Len(m.entries)
           /\ TermAt(log, LastIndex(Carried(m))) = TermAt(Carried(m), LastIndex(Carried(m)))
<1> DEFINE c    == Carried(m)
           last == LastIndex(Carried(m))
<1>1. /\ IsPiece(c) /\ c.base_index = m.prev_log_index /\ c.base_term = m.prev_log_term
      /\ c.entries = m.entries
  BY CarriedIsPiece DEF Replicates
<1>2. /\ m.entries \in Seq(LogEntry) /\ Len(m.entries) \in Nat /\ m.prev_log_index \in Nat
      /\ n.log \in Log /\ IsPiece(n.log) /\ n.log.base_index \in Nat
      /\ LastIndex(n.log) \in Nat
  BY AppendEntriesFields, NodeFields, LogFields, LogIsPiece
<1>3. last = m.prev_log_index + Len(m.entries) /\ last \in Span(c)
  BY <1>1, PieceFields
<1>4. MatchingPrefix(n, m) \in 0 .. Len(m.entries)
  BY MatchingPrefixTyped
<1> HIDE DEF c, last
<1>5. CASE MatchingPrefix(n, m) = Len(m.entries)
  <2>1. Missing(n, m) = << >>
    BY <1>2, <1>5 DEF Missing
  <2>2. log = n.log
    BY <2>1
  <2>3. TermAt(n.log, last) = TermAt(c, last)
    <3>1. CASE Len(m.entries) = 0
      <4>1. last = c.base_index
        BY <1>1, <1>2, <1>3, <3>1
      <4> QED BY <1>1, <4>1 DEF PrevOk, TermAt
    <3>2. CASE Len(m.entries) > 0
      <4>1. Len(m.entries) \in 1 .. MatchingPrefix(n, m)
        BY <1>2, <1>5, <3>2
      <4>2. TermAt(n.log, last) = m.entries[Len(m.entries)].term
        BY <1>3, <4>1, MatchingPrefixHolds
      <4>3. HasEntry(c, last) /\ last # c.base_index /\ last - c.base_index = Len(m.entries)
        BY <1>1, <1>2, <1>3, <3>2 DEF HasEntry, LastIndex
      <4> QED BY <1>1, <4>2, <4>3 DEF TermAt, EntryAt
    <3> QED BY <1>2, <3>1, <3>2
  <2>4. last \in Span(n.log)
    <3>1. TermAt(c, last) \in Nat
      BY <1>1, <1>3, PieceFields
    <3>2. TermAt(n.log, last) # NoTerm
      BY <2>3, <3>1 DEF NoTerm
    <3>3. last = n.log.base_index \/ HasEntry(n.log, last)
      BY <3>2 DEF TermAt
    <3> QED BY <1>2, <3>3, PieceFields
  <2> QED BY <1>2, <1>3, <2>2, <2>3, <2>4 DEF c, last
<1>6. CASE MatchingPrefix(n, m) # Len(m.entries)
  <2>1. Adds(n, m)
    BY <1>6 DEF Adds
  <2>2. /\ Missing(n, m) # << >>
        /\ AppendTo(KeptLog(n, m), Missing(n, m)) \in Log
        /\ Spliced(AppendTo(KeptLog(n, m), Missing(n, m)), n.log, Carried(m))
        /\ AppendTo(KeptLog(n, m), Missing(n, m)).base_index = n.log.base_index
    BY <2>1, StoredIsSpliced
  <2>3. log = AppendTo(KeptLog(n, m), Missing(n, m))
    BY <2>2
  <2>4. log \in Log /\ Spliced(log, n.log, c) /\ log.base_index = n.log.base_index
    BY <2>2, <2>3 DEF c
  <2>5. PICK j \in Span(n.log) \cap Span(c) :
                /\ TermAt(n.log, j) = TermAt(c, j)
                /\ LastIndex(log) = LastIndex(c)
                /\ \A k \in Span(log) : IF k <= j THEN Same(log, n.log, k)
                                                  ELSE Same(log, c, k)
    BY <2>4 DEF Spliced
  <2>6. last \in Span(log) /\ LastIndex(log) = last
    <3>1. IsPiece(log)
      BY <2>4, LogIsPiece
    <3> QED BY <2>5, <3>1, PieceFields DEF last, c
  <2>7. TermAt(log, last) = TermAt(c, last)
    <3>1. CASE last <= j
      <4>1. j \in Nat /\ last \in Nat /\ j <= last
        BY <1>1, <1>3, PieceFields DEF Span, last, c
      <4>2. j = last
        BY <3>1, <4>1
      <4> QED BY <2>5, <2>6, <4>2 DEF Same
    <3>2. CASE ~ (last <= j)
      BY <2>5, <2>6, <3>2 DEF Same
    <3> QED BY <3>1, <3>2
  <2>8. log.data = n.log.data
    <3>1. KeptLog(n, m).data = n.log.data /\ KeptLog(n, m) \in Log
      <4>1. KeptLog(n, m) \in Log
        BY <1>6, ForkPoint, <1>2, <1>4 DEF KeptLog
      <4>2. KeptLog(n, m).data = n.log.data
        BY <1>2 DEF KeptLog, Truncate, Log
      <4> QED BY <4>1, <4>2
    <3> QED BY <2>3, <3>1 DEF AppendTo, Log
  <2> QED BY <1>3, <2>4, <2>6, <2>7, <2>8 DEF c, last
<1> QED BY <1>5, <1>6

(* store_entries leaves everything else alone on a follower. *)
LEMMA StoreEntriesFields ==
    ASSUME NEW n, Ready(n), n.role = "Follower", NEW m \in Message,
           m.kind = "AppendEntries", m.prev_log_index >= n.log.base_index, PrevOk(n, m)
    PROVE  LET s == StoreEntries(n, m)
           IN  /\ s \in NodeRecord /\ s.id = n.id /\ s.role = n.role
               /\ s.current_term = n.current_term /\ s.voted_for = n.voted_for
               /\ s.commit_index = n.commit_index /\ s.last_applied = n.last_applied
               /\ s.app = n.app /\ s.sends = n.sends /\ s.progress = n.progress
               /\ s.log.base_index = n.log.base_index /\ s.log.data = n.log.data
               /\ LastIndex(Carried(m)) \in Span(s.log)
               /\ TermAt(s.log, LastIndex(Carried(m)))
                    = TermAt(Carried(m), LastIndex(Carried(m)))
<1> DEFINE a   == AppendFromLeader(n, m)
           log == IF Missing(n, m) = << >> THEN n.log
                  ELSE AppendTo(KeptLog(n, m), Missing(n, m))
           s   == StoreEntries(n, m)
<1>1. n \in NodeRecord /\ n.log \in Log
  BY NodeFields DEF Ready
<1>2. /\ log \in Log /\ log.base_index = n.log.base_index /\ log.data = n.log.data
      /\ LastIndex(Carried(m)) \in Span(log)
      /\ TermAt(log, LastIndex(Carried(m))) = TermAt(Carried(m), LastIndex(Carried(m)))
  BY <1>1, StoredLogHolds
<1>3. (a = n /\ log = n.log) \/ a = Sync([n EXCEPT !.log = log])
  BY DEF AppendFromLeader, Missing, KeptLog
<1> HIDE DEF log
<1>4. /\ a \in NodeRecord /\ a.id = n.id /\ a.role = n.role /\ a.log = log
      /\ a.current_term = n.current_term /\ a.voted_for = n.voted_for
      /\ a.commit_index = n.commit_index /\ a.last_applied = n.last_applied
      /\ a.app = n.app /\ a.sends = n.sends /\ a.progress = n.progress
  <2>1. CASE a = n /\ log = n.log
    BY <1>1, <2>1
  <2>2. CASE a = Sync([n EXCEPT !.log = log])
    <3>1. a = [n EXCEPT !.log = log, !.disk = log]
      BY <1>1, <2>2 DEF Sync, NodeRecord
    <3> HIDE DEF a
    <3>2. a \in NodeRecord
      BY <1>1, <1>2, <3>1 DEF NodeRecord
    <3> QED BY <1>1, <3>1, <3>2 DEF NodeRecord
  <2> QED BY <1>3, <2>1, <2>2
<1>5. s = a \/ s = RefreshConfig(a)
  BY DEF StoreEntries
<1> HIDE DEF a
<1>6. RefreshConfig(a).progress = a.progress
  BY <1>4 DEF RefreshConfig, SetConfig, NodeRecord
<1>7. /\ s \in NodeRecord /\ s.id = a.id /\ s.role = a.role /\ s.log = a.log
      /\ s.current_term = a.current_term /\ s.voted_for = a.voted_for
      /\ s.commit_index = a.commit_index /\ s.last_applied = a.last_applied
      /\ s.app = a.app /\ s.sends = a.sends /\ s.progress = a.progress
  BY <1>4, <1>5, <1>6, RefreshConfigFields
<1> QED BY <1>2, <1>4, <1>7

(* What a fit node adds to say. *)
LEMMA SendMoreFits ==
    ASSUME NEW e, NEW n, Fit(n, e), NEW messages, Send(n, messages) \in NodeRecord,
           \A x \in messages : Speaks(n, x, e)
    PROVE  Fit(Send(n, messages), e)
<1> DEFINE m == Send(n, messages)
<1>1. n \in NodeRecord /\ m \in NodeRecord /\ n.last_applied \in Nat
  BY NodeFields DEF Fit
<1>2. /\ m.id = n.id /\ m.voters = n.voters /\ m.log = n.log /\ m.role = n.role
      /\ m.current_term = n.current_term /\ m.voted_for = n.voted_for
      /\ m.commit_index = n.commit_index /\ m.last_applied = n.last_applied
      /\ m.app = n.app /\ m.progress = n.progress /\ m.sends = n.sends \cup messages
  BY <1>1 DEF Send, NodeRecord
<1> HIDE DEF m
<1>3. Tracks(m, e)
  BY <1>2 DEF Fit, Tracks, Tracked
<1>4. ASSUME NEW x \in m.sends
      PROVE  x \in n.sends \/ Speaks(m, x, e)
  <2>1. CASE x \in n.sends
    BY <2>1
  <2>2. CASE x \in messages
    <3>1. x \in Message /\ Speaks(n, x, e)
      BY <1>1, <1>4, <2>2, NodeFields
    <3>2. n.last_applied <= m.last_applied
      BY <1>1, <1>2
    <3> QED BY <1>1, <1>2, <3>1, <3>2, SpeaksOn
  <2> QED BY <1>2, <2>1, <2>2
<1>5. Fit(m, e)
  BY <1>1, <1>2, <1>3, <1>4, FitStays
<1> QED BY <1>5 DEF m

(* The sender leads: whoever was not leading follows it. *)
LEMMA AcceptLeaderBased ==
    ASSUME NEW e, NEW n, Based(n, e), n.sends = {}, n.role # "Leader",
           NEW m \in Message
    PROVE  LET k == AcceptLeader(n, m)
           IN  /\ Based(k, e) /\ k.sends = {} /\ k.role = "Follower"
               /\ k.id = n.id /\ k.log = n.log /\ k.disk = n.disk
               /\ k.current_term = n.current_term /\ k.voted_for = n.voted_for
               /\ k.commit_index = n.commit_index /\ k.last_applied = n.last_applied
<1> DEFINE k == AcceptLeader(n, m)
<1>1. n \in NodeRecord
  BY DEF Based
<1>2. k \in NodeRecord
  BY <1>1, AcceptLeaderTyped
<1>3. /\ k.id = n.id /\ k.log = n.log /\ k.disk = n.disk /\ k.role = "Follower"
      /\ k.current_term = n.current_term /\ k.voted_for = n.voted_for
      /\ k.commit_index = n.commit_index /\ k.last_applied = n.last_applied
      /\ k.voters = n.voters /\ k.app = n.app /\ k.progress = n.progress
      /\ k.sends = n.sends
  BY <1>1 DEF AcceptLeader, NodeRecord
<1> HIDE DEF k
<1>4. Tracked(k) = {} /\ Tracks(k, e)
  BY <1>3 DEF Based, Tracks, Tracked
<1>5. Applies(k, e)
  BY <1>3 DEF Based, Applies
<1>6. Based(k, e)
  BY <1>2, <1>3, <1>4, <1>5 DEF Based
<1> QED BY <1>3, <1>6 DEF k

(* The commit index a message vouches for. *)
LEMMA AdoptCommitFits ==
    ASSUME NEW e, Ledger(e), NEW n, Fit(n, e), n.last_applied <= e.low,
           NEW m \in Message, m.kind = "AppendEntries",
           NEW covered \in Nat, n.log.base_index <= covered,
           m.leader_commit > n.commit_index => Smaller(m.leader_commit, covered) \in e.sure
    PROVE  LET d == AdoptCommit(n, m, covered)
           IN  /\ Fit(d, e) /\ d.role = n.role /\ d.current_term = n.current_term
               /\ d.log = n.log /\ d.id = n.id
<1> DEFINE c == Smaller(m.leader_commit, covered)
           k == [n EXCEPT !.commit_index = c]
           d == AdoptCommit(n, m, covered)
<1>1. /\ n \in NodeRecord /\ n.log.base_index \in Nat /\ n.commit_index \in Nat
      /\ n.last_applied \in Nat /\ m.leader_commit \in Nat /\ e.low \in Nat
  BY NodeFields, LogFields, AppendEntriesFields DEF Fit, Ledger
<1>2. CASE ~ (m.leader_commit > n.commit_index)
  BY <1>2 DEF AdoptCommit
<1>3. CASE m.leader_commit > n.commit_index
  <2>1. c \in Nat /\ n.log.base_index <= c /\ c \in e.sure
    BY <1>1, <1>3 DEF Smaller, Fit, Applies
  <2>2. d = DrainApplies(k)
    BY <1>3 DEF AdoptCommit
  <2> HIDE DEF c
  <2>3. k \in NodeRecord
    BY <1>1, <2>1 DEF NodeRecord
  <2>4. /\ k.id = n.id /\ k.log = n.log /\ k.role = n.role /\ k.voters = n.voters
        /\ k.current_term = n.current_term /\ k.voted_for = n.voted_for
        /\ k.commit_index = c /\ k.last_applied = n.last_applied
        /\ k.app = n.app /\ k.progress = n.progress /\ k.sends = n.sends
    BY <1>1 DEF NodeRecord
  <2> HIDE DEF k
  <2>5. Tracks(k, e)
    BY <2>4 DEF Fit, Tracks, Tracked
  <2>6. \A x \in k.sends : Speaks(k, x, e)
    <3> SUFFICES ASSUME NEW x \in k.sends PROVE Speaks(k, x, e)
      OBVIOUS
    <3>1. x \in Message /\ Speaks(n, x, e)
      BY <1>1, <2>4, NodeFields DEF Fit
    <3>2. n.last_applied <= k.last_applied
      BY <1>1, <2>4
    <3> QED BY <1>1, <2>3, <2>4, <3>1, <3>2, SpeaksOn
  <2>7. k.last_applied <= Larger(e.low, k.commit_index)
    BY <1>1, <2>1, <2>4 DEF Larger
  <2>8. /\ k.voters = Server /\ Holding(k.log, e.whole)
        /\ k.log.base_index <= k.commit_index /\ k.commit_index \in e.sure
        /\ k.log.base_index <= k.last_applied /\ k.last_applied \in e.sure
        /\ k.log.base_index \in e.told
        /\ k.app = Commands(e.whole, k.last_applied)
        /\ k.log.data = Commands(e.whole, k.log.base_index)
    BY <1>1, <2>1, <2>4 DEF Fit, Applies
  <2>9. LET g == DrainApplies(k)
        IN  /\ Fit(g, e) /\ g.role = k.role /\ g.current_term = k.current_term
            /\ g.log = k.log /\ g.id = k.id
    BY <2>3, <2>5, <2>6, <2>7, <2>8, DrainAppliesFits
  <2> QED BY <2>2, <2>4, <2>9
<1> QED BY <1>2, <1>3

LEMMA AdoptCommitFields ==
    ASSUME NEW n \in NodeRecord, NEW m \in Message, m.kind = "AppendEntries",
           NEW covered \in Nat
    PROVE  LET d == AdoptCommit(n, m, covered)
           IN  d.log = n.log /\ d.voters = n.voters
<1>1. Smaller(m.leader_commit, covered) \in Nat
  BY AppendEntriesFields, SmallerLarger
<1> DEFINE k == [n EXCEPT !.commit_index = Smaller(m.leader_commit, covered)]
<1>2. k \in NodeRecord /\ k.log = n.log /\ k.voters = n.voters
  BY <1>1 DEF NodeRecord
<1> HIDE DEF k
<1>3. DrainApplies(k).log = k.log /\ DrainApplies(k).voters = k.voters
  BY <1>2 DEF DrainApplies, MaybeHintSnapshot, NodeRecord
<1> QED BY <1>2, <1>3 DEF AdoptCommit, k

(* A follower vouches for what it holds of the batch, or has applied.       *)
LEMMA HandleAppendEntriesFits ==
    ASSUME NEW e, Ledger(e), NEW n, Based(n, e), Ready(n), n.last_applied <= e.low,
           NEW m \in e.read, m \in Message, m.kind = "AppendEntries",
           m.term <= n.current_term, m.term = n.current_term => n.role # "Leader",
           HandleAppendEntries(n, m).voters = Server,
           Holding(HandleAppendEntries(n, m).log, e.whole),
           LET last == LastIndex(Carried(m))
               log  == HandleAppendEntries(n, m).log
           IN  m.term = n.current_term /\ TermAt(log, last) = TermAt(Carried(m), last)
                  => \A x \in Nat : x <= last /\ x <= m.leader_commit => x \in e.sure
    PROVE  Fit(HandleAppendEntries(n, m), e)
<1> DEFINE base  == n.log.base_index
           match == m.prev_log_index + Len(m.entries)
           ours  == AcceptLeader(n, m)
           early == AdoptCommit(ours, m, base)
           store == StoreEntries(ours, m)
           late  == AdoptCommit(store, m, match)
           h     == HandleAppendEntries(n, m)
<1>1. /\ n \in NodeRecord /\ n.log \in Log /\ base \in Nat /\ match \in Nat
      /\ m.prev_log_index \in Nat /\ m.term \in Nat /\ n.current_term \in Nat
      /\ n.commit_index \in Nat /\ n.last_applied \in Nat /\ m.leader_commit \in Nat
      /\ n.sends = {} /\ n.voters = Server
  <2>1. n \in NodeRecord /\ n.voters = Server /\ n.sends = {}
    BY DEF Based, Ready
  <2>2. /\ m.prev_log_index \in Nat /\ m.leader_commit \in Nat /\ m.term \in Nat
        /\ Len(m.entries) \in Nat
    BY MessageFields, AppendEntriesFields
  <2> QED BY <2>1, <2>2, NodeFields, LogFields
<1>2. h \in NodeRecord
  BY <1>1, HandleAppendEntriesTyped
<1>3. base <= n.last_applied /\ base <= n.commit_index
  BY <1>1 DEF Based, Applies
<1>4. ASSUME NEW a, a.current_term = n.current_term, NEW index \in Nat,
             index > 0 => index <= a.last_applied /\ m.term = n.current_term,
             NEW success, NEW conflict, NEW term
      PROVE  \A x \in AppendReply(n, m, success, index, conflict, term) :
                    Speaks(a, x, e)
  <2> SUFFICES ASSUME NEW x \in AppendReply(n, m, success, index, conflict, term)
               PROVE  Speaks(a, x, e)
    OBVIOUS
  <2>1. /\ x.kind = "AppendEntriesReply" /\ x.match_index = index
        /\ x.term = a.current_term
    BY <1>4 DEF AppendReply
  <2>2. Replicates(m)
    BY DEF Replicates
  <2>3. x.match_index > 0 =>
                \E f \in e.read :
                    /\ Replicates(f) /\ f.term = a.current_term
                    /\ x.match_index <= a.last_applied
    BY <1>4, <2>1, <2>2
  <2> QED BY <2>1, <2>3 DEF Speaks, Replicates
<1> HIDE DEF match, base, ours
<1>5. h =
        IF m.term < n.current_term
        THEN Send(n, AppendReply(n, m, FALSE, 0, 0, 0))
        ELSE IF m.prev_log_index < base
        THEN Send(early, AppendReply(n, m, TRUE, base, 0, 0))
        ELSE IF ~ PrevOk(n, m) THEN Send(ours, ConflictReply(n, m))
        ELSE Send(late, AppendReply(n, m, TRUE, match, 0, 0))
  BY DEF HandleAppendEntries, match, base, ours
<1>6. \A a \in NodeRecord : \A messages :
            Send(a, messages).log = a.log /\ Send(a, messages).voters = a.voters
  BY DEF Send, NodeRecord
<1> HIDE DEF h
<1>7. CASE m.term < n.current_term
  <2>1. h = Send(n, AppendReply(n, m, FALSE, 0, 0, 0))
    BY <1>5, <1>7
  <2>2. h.log = n.log
    BY <1>1, <1>6, <2>1
  <2>3. Fit(n, e)
    BY <1>1, <2>2, BasedIsFit DEF h
  <2>a. 0 \in Nat /\ ~ (0 > 0)
    OBVIOUS
  <2>4. \A x \in AppendReply(n, m, FALSE, 0, 0, 0) : Speaks(n, x, e)
    BY <1>4, <2>a
  <2>5. Fit(Send(n, AppendReply(n, m, FALSE, 0, 0, 0)), e)
    BY <1>2, <2>1, <2>3, <2>4, SendMoreFits
  <2> QED BY <2>1, <2>5 DEF h
<1> SUFFICES ASSUME ~ (m.term < n.current_term) PROVE Fit(h, e)
  BY <1>7 DEF h
<1>8. m.term = n.current_term /\ n.role # "Leader"
  BY <1>1
<1>9. /\ Based(ours, e) /\ ours.sends = {} /\ ours.role = "Follower"
      /\ ours.id = n.id /\ ours.log = n.log /\ ours.disk = n.disk
      /\ ours.current_term = n.current_term /\ ours.voted_for = n.voted_for
      /\ ours.commit_index = n.commit_index /\ ours.last_applied = n.last_applied
      /\ ours \in NodeRecord
  <2>1. LET k == AcceptLeader(n, m)
        IN  /\ Based(k, e) /\ k.sends = {} /\ k.role = "Follower"
            /\ k.id = n.id /\ k.log = n.log /\ k.disk = n.disk
            /\ k.current_term = n.current_term /\ k.voted_for = n.voted_for
            /\ k.commit_index = n.commit_index /\ k.last_applied = n.last_applied
    BY <1>1, <1>8, AcceptLeaderBased
  <2> QED BY <1>1, <2>1, AcceptLeaderTyped DEF ours
<1>10. CASE m.prev_log_index < base
  <2>1. h = Send(early, AppendReply(n, m, TRUE, base, 0, 0))
    BY <1>5, <1>10
  <2>2. early \in NodeRecord /\ early.log = n.log
    BY <1>1, <1>9, AdoptCommitTyped, AdoptCommitFields
  <2>3. h.log = n.log
    <3> HIDE DEF early
    <3> QED BY <1>6, <2>1, <2>2
  <2>4. Fit(ours, e)
    BY <1>9, <2>3, BasedIsFit DEF h
  <2>5. m.leader_commit > ours.commit_index => Smaller(m.leader_commit, base) \in e.sure
    <3>1. base \in e.sure
      BY <1>1, <1>3 DEF Based, Applies, Ledger
    <3> QED BY <1>1, <1>3, <1>9, <3>1 DEF Smaller
  <2>6. ours.log.base_index <= base /\ ours.last_applied <= e.low
    BY <1>1, <1>9 DEF base
  <2>7. /\ Fit(early, e) /\ early.role = "Follower"
        /\ early.current_term = n.current_term
    BY <1>1, <1>9, <2>4, <2>5, <2>6, AdoptCommitFits
  <2> HIDE DEF early
  <2>8. base <= early.last_applied
    <3>1. early.commit_index \in Nat /\ early.last_applied \in Nat
      BY <2>2, NodeFields
    <3>2. base <= early.commit_index /\ early.commit_index <= early.last_applied
      BY <2>2, <2>7 DEF Fit, Applies, base
    <3> QED BY <1>1, <3>1, <3>2
  <2>9. \A x \in AppendReply(n, m, TRUE, base, 0, 0) : Speaks(early, x, e)
    BY <1>1, <1>4, <1>8, <2>7, <2>8
  <2>10. Fit(Send(early, AppendReply(n, m, TRUE, base, 0, 0)), e)
    BY <1>2, <2>1, <2>7, <2>9, SendMoreFits DEF h
  <2> QED BY <2>1, <2>10
<1>11. CASE ~ (m.prev_log_index < base) /\ ~ PrevOk(n, m)
  <2>1. h = Send(ours, ConflictReply(n, m))
    BY <1>5, <1>11
  <2>2. h.log = n.log
    BY <1>6, <1>9, <2>1
  <2>3. Fit(ours, e)
    BY <1>9, <2>2, BasedIsFit DEF h
  <2>4. \A x \in ConflictReply(n, m) : Speaks(ours, x, e)
    <3>1. \E c, t : ConflictReply(n, m) = AppendReply(n, m, FALSE, 0, c, t)
      BY Zenon DEF ConflictReply
    <3>2. PICK c, t : ConflictReply(n, m) = AppendReply(n, m, FALSE, 0, c, t)
      BY <3>1
    <3>a. 0 \in Nat /\ ~ (0 > 0) /\ ours.current_term = n.current_term
      BY <1>9
    <3>3. \A x \in AppendReply(n, m, FALSE, 0, c, t) : Speaks(ours, x, e)
      BY <1>4, <3>a
    <3> QED BY <3>2, <3>3
  <2>5. Fit(Send(ours, ConflictReply(n, m)), e)
    BY <1>2, <2>1, <2>3, <2>4, SendMoreFits DEF h
  <2> QED BY <2>1, <2>5
<1>12. CASE ~ (m.prev_log_index < base) /\ PrevOk(n, m)
  <2>1. h = Send(late, AppendReply(n, m, TRUE, match, 0, 0))
    BY <1>5, <1>12
  <2>2. Ready(ours) /\ PrevOk(ours, m) /\ m.prev_log_index >= ours.log.base_index
    BY <1>1, <1>9, <1>12 DEF Ready, PrevOk, base
  <2>3. /\ store \in NodeRecord /\ store.id = ours.id /\ store.role = ours.role
        /\ store.current_term = ours.current_term /\ store.voted_for = ours.voted_for
        /\ store.commit_index = ours.commit_index
        /\ store.last_applied = ours.last_applied
        /\ store.app = ours.app /\ store.sends = ours.sends
        /\ store.progress = ours.progress
        /\ store.log.base_index = ours.log.base_index
        /\ store.log.data = ours.log.data
        /\ LastIndex(Carried(m)) \in Span(store.log)
        /\ TermAt(store.log, LastIndex(Carried(m)))
                = TermAt(Carried(m), LastIndex(Carried(m)))
    BY <1>9, <2>2, StoreEntriesFields
  <2>4. LastIndex(Carried(m)) = match
    BY CarriedIsPiece, PieceFields DEF Replicates, match
  <2> HIDE DEF store
  <2>5. late \in NodeRecord /\ late.log = store.log /\ late.voters = store.voters
    BY <1>1, <2>3, AdoptCommitTyped, AdoptCommitFields
  <2> HIDE DEF late
  <2>6. h.log = store.log /\ h.voters = store.voters
    BY <1>6, <2>1, <2>5
  <2>7. store.voters = Server /\ Holding(store.log, e.whole)
    BY <2>6 DEF h
  <2>8. Tracks(store, e)
    BY <1>9, <2>3 DEF Based, Tracks, Tracked
  <2>9. Applies(store, e)
    BY <1>9, <2>3 DEF Based, Applies
  <2>10. Fit(store, e)
    BY <1>9, <2>3, <2>7, <2>8, <2>9 DEF Fit
  <2>11. \A x \in Nat : x <= match /\ x <= m.leader_commit => x \in e.sure
    BY <1>8, <2>3, <2>4, <2>6 DEF h
  <2>12. Smaller(m.leader_commit, match) \in e.sure
    BY <1>1, <2>11 DEF Smaller
  <2>13. store.log.base_index <= match /\ store.last_applied <= e.low
    <3>1. LastIndex(Carried(m)) \in Span(store.log)
      BY <2>3
    <3> QED BY <1>1, <1>9, <2>3, <2>4, <3>1, NodeFields, LogFields DEF Span
  <2>14. Fit(late, e) /\ late.role = "Follower" /\ late.current_term = n.current_term
    BY <1>1, <1>9, <2>3, <2>10, <2>12, <2>13, AdoptCommitFits DEF late
  <2>15. \A x \in AppendReply(n, m, TRUE, match, 0, 0) : Speaks(late, x, e)
    <3> SUFFICES ASSUME NEW x \in AppendReply(n, m, TRUE, match, 0, 0)
                 PROVE  Speaks(late, x, e)
      OBVIOUS
    <3>1. /\ x.kind = "AppendEntriesReply" /\ x.match_index = match
          /\ x.term = late.current_term
      BY <2>14 DEF AppendReply
    <3>2. /\ m.kind = "AppendEntries" /\ m.term = late.current_term /\ Replicates(m)
          /\ x.match_index = LastIndex(Carried(m))
          /\ TermAt(late.log, x.match_index) = TermAt(Carried(m), x.match_index)
      BY <1>8, <2>3, <2>4, <2>5, <2>14, <3>1 DEF Replicates
    <3> QED BY <3>1, <3>2 DEF Speaks, Replicates
  <2>16. Fit(Send(late, AppendReply(n, m, TRUE, match, 0, 0)), e)
    BY <1>2, <2>1, <2>14, <2>15, SendMoreFits DEF h
  <2> QED BY <2>1, <2>16
<1> QED BY <1>10, <1>11, <1>12

(* A snapshot that is installed is that of the leader. *)
LEMMA HandleInstallSnapshotFits ==
    ASSUME NEW e, Ledger(e), NEW n, Based(n, e), Ready(n),
           NEW m \in Message, m \in e.read, m.kind = "InstallSnapshot",
           m.term <= n.current_term, m.term = n.current_term => n.role # "Leader",
           HandleInstallSnapshot(n, m).voters = Server,
           Holding(HandleInstallSnapshot(n, m).log, e.whole),
           LET log == HandleInstallSnapshot(n, m).log
           IN  /\ m.term = n.current_term
               /\ log.base_index = m.snapshot.index
               /\ log.base_term = m.snapshot.term
               => /\ m.snapshot.index \in e.sure
                  /\ m.snapshot.index \in e.told
                  /\ m.snapshot.data = Commands(e.whole, m.snapshot.index)
    PROVE  Fit(HandleInstallSnapshot(n, m), e)
<1> DEFINE snap == m.snapshot
           ours == AcceptLeader(n, m)
           log  == ApplySnapshot(n.log, snap)
           put  == [ours EXCEPT
                        !.base_config = IF snap.config = {} THEN @ ELSE snap.config,
                        !.log = log,
                        !.commit_index = snap.index,
                        !.last_applied = snap.index,
                        !.snapshot_hinted_at = Larger(@, snap.index),
                        !.app = snap.data]
           installed == RefreshConfig(Sync(put))
           news  == snap.index > n.log.base_index /\ snap.index > n.commit_index
           after == IF news THEN installed ELSE ours
           reply(last_index) ==
               {[kind |-> "InstallSnapshotReply", from |-> n.id, to |-> m.from,
                 term |-> n.current_term, last_index |-> last_index]}
           last  == Larger(after.log.base_index, Smaller(snap.index, after.commit_index))
           h     == HandleInstallSnapshot(n, m)
<1>1. /\ n \in NodeRecord /\ n.log \in Log /\ m.term \in Nat /\ n.current_term \in Nat
      /\ n.sends = {} /\ n.voters = Server /\ n.last_applied \in Nat
      /\ snap \in Snapshot /\ snap.index \in Nat /\ snap.config \subseteq Server
      /\ snap.data \subseteq Applied
  <2>1. n \in NodeRecord /\ n.voters = Server /\ n.sends = {}
    BY DEF Based, Ready
  <2>2. m.term \in Nat /\ snap \in Snapshot
    BY MessageFields, InstallSnapshotFields
  <2> QED BY <2>1, <2>2, NodeFields DEF Snapshot
<1>2. h \in NodeRecord
  BY <1>1, HandleInstallSnapshotTyped
<1>3. ASSUME NEW a, a.current_term = n.current_term, NEW index \in Nat,
             index > 0 => index <= a.last_applied /\ m.term = n.current_term
      PROVE  \A x \in reply(index) : Speaks(a, x, e)
  <2> SUFFICES ASSUME NEW x \in reply(index) PROVE Speaks(a, x, e)
    OBVIOUS
  <2>1. /\ x.kind = "InstallSnapshotReply" /\ x.last_index = index
        /\ x.term = a.current_term
    BY <1>3
  <2> HIDE DEF reply
  <2>2. Replicates(m)
    BY DEF Replicates
  <2>3. /\ x.term = a.current_term
        /\ x.last_index > 0 =>
              /\ x.last_index <= a.last_applied
              /\ \E f \in e.read : Replicates(f) /\ f.term = a.current_term
    <3>1. \E f \in e.read : Replicates(f) /\ f.term = m.term
      BY <2>2
    <3> QED BY <1>3, <2>1, <3>1
  <2> QED BY <2>1, <2>3 DEF Speaks, Replicates
<1> HIDE DEF ours, put, snap
<1>5. h = IF m.term < n.current_term THEN Send(n, reply(0))
          ELSE Send(after, reply(last))
  BY Zenon DEF HandleInstallSnapshot, ours, put, snap
<1> HIDE DEF reply
<1>6. \A a \in NodeRecord : \A messages :
            Send(a, messages).log = a.log /\ Send(a, messages).voters = a.voters
  BY DEF Send, NodeRecord
<1> HIDE DEF h
<1>7. CASE m.term < n.current_term
  <2>1. h = Send(n, reply(0))
    BY <1>5, <1>7
  <2>2. h.log = n.log
    BY <1>1, <1>6, <2>1
  <2>3. Fit(n, e)
    BY <1>1, <2>2, BasedIsFit DEF h
  <2>a. 0 \in Nat /\ ~ (0 > 0)
    OBVIOUS
  <2>4. \A x \in reply(0) : Speaks(n, x, e)
    BY <1>3, <2>a
  <2>5. Fit(Send(n, reply(0)), e)
    BY <1>2, <2>1, <2>3, <2>4, SendMoreFits
  <2> QED BY <2>1, <2>5 DEF h
<1> SUFFICES ASSUME ~ (m.term < n.current_term) PROVE Fit(h, e)
  BY <1>7 DEF h
<1>8. m.term = n.current_term /\ n.role # "Leader"
  BY <1>1
<1>9. /\ Based(ours, e) /\ ours.sends = {} /\ ours.role = "Follower"
      /\ ours.id = n.id /\ ours.log = n.log
      /\ ours.commit_index = n.commit_index
      /\ ours.current_term = n.current_term
      /\ ours \in NodeRecord
  <2>1. LET k == AcceptLeader(n, m)
        IN  /\ Based(k, e) /\ k.sends = {} /\ k.role = "Follower"
            /\ k.id = n.id /\ k.log = n.log /\ k.disk = n.disk
            /\ k.current_term = n.current_term /\ k.voted_for = n.voted_for
            /\ k.commit_index = n.commit_index /\ k.last_applied = n.last_applied
    BY <1>1, <1>8, AcceptLeaderBased
  <2> QED BY <1>1, <2>1, AcceptLeaderTyped DEF ours
<1>10. h = Send(after, reply(last))
  BY <1>5
<1> HIDE DEF last
<1>11. ASSUME news
       PROVE  /\ Fit(after, e) /\ after \in NodeRecord
              /\ after.current_term = n.current_term
  <2>1. snap.index > n.log.base_index
    BY <1>11
  <2>2. log \in Log /\ log.base_index = snap.index /\ log.base_term = snap.term
    BY <1>1, <2>1, SnapshotApplied
  <2>3. log.data = snap.data
    <3>1. ~ (snap.index <= n.log.base_index)
      BY <1>1, <2>1, LogFields
    <3> QED BY <1>1, <3>1 DEF ApplySnapshot, Log
  <2> HIDE DEF log
  <2>4. put \in NodeRecord
    <3>1. Larger(ours.snapshot_hinted_at, snap.index) \in Nat
      BY <1>1, <1>9, NodeFields, SmallerLarger
    <3>2. /\ snap.index \in Nat /\ snap.config \in SUBSET Server
          /\ snap.data \in SUBSET Applied
      BY <1>1, InstallSnapshotFields DEF Snapshot
    <3> HIDE DEF snap, ours
    <3> QED BY <1>9, <2>2, <3>1, <3>2, ZenonT(60) DEF put, NodeRecord
  <2>5. /\ put.id = ours.id /\ put.log = log /\ put.role = ours.role
        /\ put.progress = ours.progress /\ put.current_term = ours.current_term
        /\ put.commit_index = snap.index /\ put.last_applied = snap.index
        /\ put.app = snap.data /\ put.sends = ours.sends
    BY <1>9 DEF put, NodeRecord
  <2> DEFINE synced == Sync(put)
  <2>6. synced \in NodeRecord
    BY <2>4, SyncTyped
  <2>7. /\ synced.id = ours.id /\ synced.log = log /\ synced.role = ours.role
        /\ synced.progress = ours.progress /\ synced.current_term = ours.current_term
        /\ synced.commit_index = snap.index /\ synced.last_applied = snap.index
        /\ synced.app = snap.data /\ synced.sends = ours.sends
    BY <2>4, <2>5 DEF Sync, NodeRecord
  <2>8. after = RefreshConfig(synced)
    BY <1>11
  <2> HIDE DEF synced, after
  <2>9. Tracked(ours) = {} /\ ours.progress[ours.id] = None
    BY <1>9 DEF Based, Tracks
  <2>10. Tracks(synced, e)
    BY <1>9, <2>7, <2>9 DEF Tracks, Tracked
  <2>11. Tracks(after, e)
    BY <2>6, <2>8, <2>10, RefreshConfigTracks
  <2>12. /\ after \in NodeRecord /\ after.log = log /\ after.commit_index = snap.index
         /\ after.last_applied = snap.index /\ after.app = snap.data
         /\ after.sends = {} /\ after.current_term = n.current_term
    BY <1>9, <2>6, <2>7, <2>8, RefreshConfigFields
  <2>13. after.voters = Server /\ Holding(log, e.whole) /\ h.log = log
    BY <1>6, <1>10, <2>12 DEF h
  <2>14. /\ snap.index \in e.sure /\ snap.index \in e.told
         /\ snap.data = Commands(e.whole, snap.index)
    BY <1>8, <2>2, <2>13 DEF snap, h
  <2>15. snap.index <= Larger(e.low, snap.index)
    BY <1>1 DEF Ledger, Larger
  <2>16. Applies(after, e)
    BY <1>1, <2>2, <2>3, <2>12, <2>14, <2>15 DEF Applies
  <2> QED BY <2>11, <2>12, <2>13, <2>16 DEF Fit
<1>12. ASSUME ~ news
       PROVE  /\ Fit(after, e) /\ after \in NodeRecord
              /\ after.current_term = n.current_term
  <2>1. after = ours
    BY <1>12
  <2>2. h.log = n.log
    <3> HIDE DEF after
    <3> QED BY <1>6, <1>9, <1>10, <2>1
  <2>3. Fit(ours, e)
    BY <1>9, <2>2, BasedIsFit DEF h
  <2> QED BY <1>9, <2>1, <2>3
<1>13. Fit(after, e) /\ after \in NodeRecord /\ after.current_term = n.current_term
  BY <1>11, <1>12
<1> HIDE DEF after
<1>14. last \in Nat /\ last <= after.last_applied
  <2>1. /\ after.log.base_index \in Nat /\ after.commit_index \in Nat
        /\ after.last_applied \in Nat
    BY <1>13, NodeFields, LogFields
  <2>2. /\ after.log.base_index <= after.commit_index
        /\ after.commit_index <= after.last_applied
    BY <1>13 DEF Fit, Applies
  <2> QED BY <1>1, <2>1, <2>2 DEF last, Larger, Smaller
<1>15. \A x \in reply(last) : Speaks(after, x, e)
  BY <1>3, <1>8, <1>13, <1>14
<1>16. Fit(Send(after, reply(last)), e)
  BY <1>2, <1>10, <1>13, <1>15, SendMoreFits DEF h
<1> QED BY <1>10, <1>16

-----------------------------------------------------------------------------
(* Recovery. *)

(* A restarted node has applied what its snapshot holds. *)
LEMMA WithLogFits ==
    ASSUME NEW e, Ledger(e), NEW id \in Server, NEW log \in Log,
           WithLog(id, log).voters = Server, Holding(log, e.whole),
           log.base_index \in e.sure, log.base_index \in e.told,
           log.data = Commands(e.whole, log.base_index)
    PROVE  Fit(WithLog(id, log), e)
<1> DEFINE r == WithLog(id, log)
<1>1. /\ r \in NodeRecord /\ r.log = log /\ r.role = "Follower" /\ r.sends = {}
      /\ r.commit_index = log.base_index
  BY WithLogFields
<1>2. /\ r.last_applied = log.base_index /\ r.app = log.data /\ r.progress = NoProgress
  BY DEF WithLog
<1>3. log.base_index \in Nat
  BY LogFields
<1>4. r.voters = Server
  OBVIOUS
<1> HIDE DEF r
<1>5. Tracks(r, e)
  BY <1>1, <1>2, FreshTracks
<1>6. Applies(r, e)
  BY <1>1, <1>2, <1>3 DEF Applies, Larger, Ledger
<1>7. Fit(r, e)
  BY <1>1, <1>4, <1>5, <1>6 DEF Fit
<1> QED BY <1>7 DEF r

(* Adopting a term leaves the snapshot alone. *)
LEMMA AdoptTermSnapshot ==
    ASSUME NEW n \in NodeRecord, NEW term \in Nat
    PROVE  /\ AdoptTerm(n, term).log.data = n.log.data
           /\ AdoptTerm(n, term).log.base_index = n.log.base_index
<1>1. n.log \in Log
  BY NodeFields
<1> QED BY <1>1 DEF AdoptTerm, BecomeFollower, PersistHardState, Sync, SetHardState,
                    NodeRecord, Log

(* So does storing a batch, and a crash while it is stored. *)
LEMMA PartialWritesSnapshot ==
    ASSUME NEW n, Ready(n), NEW m \in Message, NEW disk \in PartialWrites(n, m)
    PROVE  /\ disk \in Log /\ disk.data = n.log.data
           /\ disk.base_index = n.log.base_index
<1> DEFINE known == AdoptTerm(n, m.term)
           new   == HandleAppendEntries(known, m).log
<1>1. n \in NodeRecord /\ m.term \in Nat
  BY MessageFields DEF Ready
<1>2. /\ Ready(known) /\ m.term <= known.current_term
      /\ known.log.data = n.log.data /\ known.log.base_index = n.log.base_index
  BY <1>1, AdoptTermKeeps, AdoptTermSnapshot
<1>3. disk \in Log
  BY <1>1, PartialWritesTyped
<1>4. \/ disk = known.disk
      \/ /\ m.kind = "AppendEntries"
         /\ \E k \in m.prev_log_index + MatchingPrefix(known, m) - new.base_index
                        .. Len(new.entries) :
                disk = [new EXCEPT !.entries = SubSeq(@, 1, k)]
  BY DEF PartialWrites
<1> HIDE DEF known
<1>5. CASE disk = known.disk
  BY <1>2, <1>3, <1>5 DEF Ready
<1>6. CASE /\ m.kind = "AppendEntries"
           /\ \E k : disk = [new EXCEPT !.entries = SubSeq(@, 1, k)]
  <2>1. PICK k : disk = [new EXCEPT !.entries = SubSeq(@, 1, k)]
    BY <1>6
  <2>2. \/ new = known.log
        \/ /\ Adds(known, m) /\ new = AppendTo(KeptLog(known, m), Missing(known, m))
    BY <1>2, <1>6, HandleAppendEntriesStores
  <2>3. known \in NodeRecord /\ known.log \in Log
    BY <1>2, NodeFields DEF Ready
  <2>4. new \in Log /\ new.data = known.log.data /\ new.base_index = known.log.base_index
    <3>1. CASE new = known.log
      BY <2>3, <3>1
    <3>2. CASE Adds(known, m) /\ new = AppendTo(KeptLog(known, m), Missing(known, m))
      <4>1. Missing(known, m) # << >>
        BY <1>6, <2>3, <3>2, StoredIsSpliced
      <4>2. new = IF Missing(known, m) = << >> THEN known.log
                  ELSE AppendTo(KeptLog(known, m), Missing(known, m))
        BY <3>2, <4>1
      <4>3. m.prev_log_index >= known.log.base_index /\ PrevOk(known, m)
        BY <3>2 DEF Adds
      <4> HIDE DEF new
      <4> QED BY <1>6, <2>3, <4>2, <4>3, StoredLogHolds
    <3> QED BY <2>2, <3>1, <3>2
  <2> HIDE DEF new
  <2>5. disk.data = new.data /\ disk.base_index = new.base_index
    BY <2>1, <2>4 DEF Log
  <2> QED BY <1>2, <1>3, <2>4, <2>5
<1> QED BY <1>4, <1>5, <1>6

-----------------------------------------------------------------------------
(* Any step of a node. *)

(* What message r may be relied on for, by a node n that becomes m.         *)
Vouched(n, m, r, e) ==
    /\ Replicates(r) /\ r.term = n.current_term => n.role # "Leader"
    /\ LET last == LastIndex(Carried(r))
       IN  /\ r.kind = "AppendEntries" /\ r.term <= m.current_term
           /\ TermAt(m.log, last) = TermAt(Carried(r), last)
           => \A x \in Nat : x <= last /\ x <= r.leader_commit => x \in e.sure
    /\ /\ r.kind = "InstallSnapshot" /\ r.term <= m.current_term
       /\ m.log.base_index = r.snapshot.index
       /\ m.log.base_term = r.snapshot.term
       => /\ r.snapshot.index \in e.sure
          /\ r.snapshot.index \in e.told
          /\ r.snapshot.data = Commands(e.whole, r.snapshot.index)
    /\ r.kind = "AppendEntriesReply" /\ n.role = "Leader" /\ r.term = n.current_term
       => /\ Acked(e.acks, r.from, r.term, r.match_index)
          /\ r.match_index <= LastIndex(n.log)
    /\ r.kind = "InstallSnapshotReply" /\ n.role = "Leader" /\ r.term = n.current_term
       => /\ Acked(e.acks, r.from, r.term, r.last_index)
          /\ r.last_index <= LastIndex(n.log)

(* The step is from a node in order to one that holds the whole log.        *)
Stepping(n, m, e) ==
    /\ Ledger(e)
    /\ Based(n, e)
    /\ Ready(n)
    /\ n.last_applied <= e.low
    /\ n.last_applied \in e.told
    /\ m.voters = Server
    /\ Holding(m.log, e.whole)
    /\ Part(m.log, n.log) /\ LastIndex(m.log) = LastIndex(n.log) => Holding(n.log, e.whole)
    /\ Leading(m, e)

(* A hint that was answered is forgotten. *)
LEMMA ForgetHint ==
    ASSUME NEW e, NEW n, Fit(n, e), NEW index
    PROVE  Fit([n EXCEPT !.hints = @ \ {index}], e)
<1> DEFINE m == [n EXCEPT !.hints = @ \ {index}]
<1>1. n \in NodeRecord /\ n.last_applied \in Nat
  BY NodeFields DEF Fit
<1>2. m \in NodeRecord
  BY <1>1 DEF NodeRecord
<1>3. /\ m.id = n.id /\ m.voters = n.voters /\ m.log = n.log /\ m.role = n.role
      /\ m.current_term = n.current_term /\ m.voted_for = n.voted_for
      /\ m.commit_index = n.commit_index /\ m.last_applied = n.last_applied
      /\ m.app = n.app /\ m.progress = n.progress /\ m.sends = n.sends
  BY <1>1 DEF NodeRecord
<1> HIDE DEF m
<1>4. Tracks(m, e)
  BY <1>3 DEF Fit, Tracks, Tracked
<1>5. \A x \in m.sends : x \in n.sends
  BY <1>3
<1>6. Fit(m, e)
  BY <1>1, <1>2, <1>3, <1>4, <1>5, FitStays
<1> QED BY <1>6 DEF m

(* Ticks, requests, hints, restarts. *)
LEMMA AskedFits ==
    ASSUME FixedMembership, NEW n, NEW m, NEW e, Stepping(n, m, e), Asked(n, m)
    PROVE  Fit(m, e)
<1>1. /\ n \in NodeRecord /\ n.sends = {} /\ Ledger(e) /\ Based(n, e) /\ Ready(n)
      /\ Holding(m.log, e.whole) /\ Leading(m, e) /\ m.voters = Server
  BY DEF Stepping, Ready
<1>2. CASE Waits(n) /\ m = TickTimeout(n)
  <2>1. n.role # "Leader" /\ m = StartPreVote(n)
    BY <1>2 DEF Waits, TickTimeout
  <2> QED BY <1>1, <2>1, StartPreVoteFits
<1>3. CASE n.role = "Leader" /\ m = TickHeartbeat(n)
  BY <1>1, <1>3, TickHeartbeatFits
<1>4. CASE \E v \in Value : n.role = "Leader" /\ m = Propose(n, v)
  BY <1>1, <1>4, ProposeFits
<1>5. CASE /\ n.role = "Leader"
           /\ \E s \in Candidates, members \in SUBSET Server : m = ChangeMembership(n, members)
  BY <1>5 DEF FixedMembership
<1>6. CASE \E s \in Server : m = TransferLeadership(n, s)
  BY <1>1, <1>6, TransferLeadershipFits
<1>7. CASE \E index \in n.hints :
                m = [HandleSnapshotEvent(n, index) EXCEPT !.hints = @ \ {index}]
  <2>1. PICK index \in n.hints :
                m = [HandleSnapshotEvent(n, index) EXCEPT !.hints = @ \ {index}]
    BY <1>7
  <2> DEFINE h == HandleSnapshotEvent(n, index)
  <2>2. index \in Nat
    BY <1>1, NodeFields
  <2>3. h \in NodeRecord
    BY <1>1, <2>2, HandleSnapshotEventTyped
  <2>4. m = [h EXCEPT !.hints = @ \ {index}]
    BY <2>1
  <2> HIDE DEF h
  <2>5. m.log = h.log /\ m.voters = h.voters
    BY <2>3, <2>4 DEF NodeRecord
  <2>6. /\ n.last_applied \in e.told /\ h.voters = Server
        /\ Part(h.log, n.log) /\ LastIndex(h.log) = LastIndex(n.log)
                => Holding(n.log, e.whole)
    BY <2>5 DEF Stepping
  <2>7. Fit(h, e)
    BY <1>1, <2>2, <2>6, HandleSnapshotEventFits DEF h
  <2> QED BY <2>4, <2>7, ForgetHint
<1>8. CASE m = WithLog(n.id, n.disk)
  <2>1. n.disk = n.log /\ n.disk \in Log /\ n.id \in Server
    BY <1>1, NodeFields DEF Ready
  <2>2. m.log = n.disk
    BY <1>8, <2>1, WithLogFields
  <2>3. /\ n.log.base_index \in e.told
        /\ n.log.data = Commands(e.whole, n.log.base_index)
        /\ n.log.base_index \in e.sure
    <3>1. /\ n.last_applied \in e.sure /\ n.log.base_index <= n.commit_index
          /\ n.commit_index <= n.last_applied /\ n.log.base_index \in e.told
          /\ n.log.data = Commands(e.whole, n.log.base_index)
      BY <1>1 DEF Based, Applies
    <3>2. n.log.base_index \in 0 .. n.last_applied
      BY <1>1, <3>1, NodeFields, LogFields
    <3> QED BY <1>1, <3>1, <3>2 DEF Ledger
  <2> QED BY <1>1, <1>8, <2>1, <2>2, <2>3, WithLogFits
<1> QED BY <1>2, <1>3, <1>4, <1>5, <1>6, <1>7, <1>8 DEF Asked

(* Installing a snapshot leaves the term alone. *)
LEMMA HandleInstallSnapshotTerm ==
    ASSUME NEW n \in NodeRecord, NEW m \in Message, m.kind = "InstallSnapshot"
    PROVE  HandleInstallSnapshot(n, m).current_term = n.current_term
<1> DEFINE snap == m.snapshot
           ours == AcceptLeader(n, m)
           put  == [ours EXCEPT
                        !.base_config = IF snap.config = {} THEN @ ELSE snap.config,
                        !.log = ApplySnapshot(n.log, snap),
                        !.commit_index = snap.index,
                        !.last_applied = snap.index,
                        !.snapshot_hinted_at = Larger(@, snap.index),
                        !.app = snap.data]
           after == IF snap.index > n.log.base_index /\ snap.index > n.commit_index
                    THEN RefreshConfig(Sync(put)) ELSE ours
<1>1. ours \in NodeRecord /\ ours.current_term = n.current_term
  <2>1. ours \in NodeRecord
    BY AcceptLeaderTyped
  <2> QED BY <2>1 DEF AcceptLeader, NodeRecord
<1>2. \E a, x : /\ a \in {n, after}
                /\ HandleInstallSnapshot(n, m) = Send(a, x)
  <2> DEFINE reply(k) == {[kind |-> "InstallSnapshotReply", from |-> n.id, to |-> m.from,
                           term |-> n.current_term, last_index |-> k]}
             z == Larger(after.log.base_index, Smaller(snap.index, after.commit_index))
  <2>1. CASE m.term < n.current_term
    <3>1. HandleInstallSnapshot(n, m) = Send(n, reply(0))
      BY <2>1, Zenon DEF HandleInstallSnapshot
    <3> HIDE DEF reply, after
    <3> QED BY <3>1
  <2>2. CASE ~ (m.term < n.current_term)
    <3>1. HandleInstallSnapshot(n, m) = Send(after, reply(z))
      BY <2>2, Zenon DEF HandleInstallSnapshot
    <3> HIDE DEF reply, z, after
    <3> QED BY <3>1
  <2> QED BY <2>1, <2>2
<1> HIDE DEF ours
<1>3. Sync(put) \in NodeRecord
  <2>1. /\ snap.index \in Nat /\ snap.config \in SUBSET Server
        /\ snap.data \in SUBSET Applied /\ snap \in Snapshot
    BY InstallSnapshotFields DEF Snapshot
  <2>2. ApplySnapshot(n.log, snap) \in Log
    BY <2>1, NodeFields, ApplySnapshotTyped
  <2>3. Larger(ours.snapshot_hinted_at, snap.index) \in Nat
    BY <1>1, <2>1, NodeFields, SmallerLarger
  <2>4. put \in NodeRecord
    <3> HIDE DEF snap
    <3> QED BY <1>1, <2>1, <2>2, <2>3, ZenonT(60) DEF NodeRecord
  <2> HIDE DEF put
  <2> QED BY <2>4, SyncTyped
<1>4. Sync(put).current_term = n.current_term
  BY <1>1 DEF Sync, NodeRecord
<1> HIDE DEF put
<1>5. RefreshConfig(Sync(put)).current_term = n.current_term
  BY <1>3, <1>4, RefreshConfigFields
<1>6. RefreshConfig(Sync(put)) \in NodeRecord
  BY <1>3, RefreshConfigTyped
<1>7. after \in NodeRecord /\ after.current_term = n.current_term
  BY <1>1, <1>5, <1>6
<1> HIDE DEF after
<1>8. \A a \in NodeRecord : \A x : Send(a, x).current_term = a.current_term
  BY DEF Send, NodeRecord
<1> QED BY <1>2, <1>7, <1>8

(* Messages. *)
LEMMA AnswersFit ==
    ASSUME FixedMembership, NEW n, NEW m, NEW e, Stepping(n, m, e),
           NEW r \in e.read, r \in Message, Answers(n, r, m), Vouched(n, m, r, e)
    PROVE  Fit(m, e)
<1> DEFINE k == AdoptTerm(n, r.term)
<1>1. /\ n \in NodeRecord /\ n.sends = {} /\ Ledger(e) /\ Based(n, e) /\ Ready(n)
      /\ Holding(m.log, e.whole) /\ Leading(m, e) /\ m.voters = Server
      /\ n.last_applied <= e.low
  BY DEF Stepping, Ready
<1>2. /\ r.term \in Nat /\ n.current_term \in Nat
  BY <1>1, MessageFields, NodeFields
<1>3. /\ Based(k, e) /\ k.sends = {} /\ SameLog(n.log, k.log)
      /\ k.id = n.id /\ r.term <= k.current_term
      /\ k.last_applied = n.last_applied
      /\ k = n \/ (k.role = "Follower" /\ k.current_term = r.term)
  BY <1>1, <1>2, AdoptTermBased
<1>4. Ready(k) /\ k \in NodeRecord
  BY <1>1, <1>2, AdoptTermKeeps DEF Ready
<1>5. Replicates(r) /\ r.term = k.current_term => k.role # "Leader"
  BY <1>3 DEF Vouched
<1> HIDE DEF k
<1>6. CASE m = n
  <2>1. Part(n.log, n.log)
    BY <1>1, NodeFields, LogIsPiece, PartReflexive
  <2>2. Holding(n.log, e.whole)
    BY <1>1, <1>6
  <2> QED BY <1>1, <1>6, <2>2, BasedIsFit
<1>7. CASE \E ripe \in BOOLEAN : m = HandlePreVote(n, r, ripe)
  BY <1>1, <1>7, HandlePreVoteFits
<1>8. CASE m = HandlePreVoteReply(n, r)
  BY <1>1, <1>8, HandlePreVoteReplyFits
<1>9. CASE r.kind = "RequestVote" /\ m = HandleRequestVote(k, r)
  BY <1>1, <1>3, <1>9, HandleRequestVoteFits
<1>10. CASE /\ r.kind = "RequestVoteReply"
            /\ \E ripe \in BOOLEAN : m = HandleVoteReply(k, r, ripe)
  BY <1>1, <1>3, <1>10, HandleVoteReplyFits
<1>11. CASE r.kind = "AppendEntries" /\ m = HandleAppendEntries(k, r)
  <2>1. Replicates(r)
    BY <1>11 DEF Replicates
  <2>2. m.current_term = k.current_term
    BY <1>3, <1>4, <1>11, HandleAppendEntriesStores
  <2>3. TermAt(m.log, LastIndex(Carried(r))) = TermAt(Carried(r), LastIndex(Carried(r)))
            => \A x \in Nat : x <= LastIndex(Carried(r)) /\ x <= r.leader_commit
                    => x \in e.sure
    BY <1>3, <1>11, <2>2 DEF Vouched
  <2>4. k.last_applied <= e.low
    BY <1>1, <1>3
  <2> QED BY <1>1, <1>3, <1>4, <1>5, <1>11, <2>1, <2>3, <2>4, HandleAppendEntriesFits
<1>12. CASE r.kind = "AppendEntriesReply" /\ m = HandleAppendReply(k, r)
  <2>1. k.role = "Leader" /\ r.term = k.current_term =>
                /\ Acked(e.acks, r.from, r.term, r.match_index)
                /\ r.match_index <= LastIndex(k.log)
    BY <1>3, <1>12 DEF Vouched
  <2> QED BY <1>1, <1>3, <1>12, <2>1, HandleAppendReplyFits
<1>13. CASE r.kind = "InstallSnapshot" /\ m = HandleInstallSnapshot(k, r)
  <2>1. Replicates(r)
    BY <1>13 DEF Replicates
  <2>2. m.current_term = k.current_term
    BY <1>4, <1>13, HandleInstallSnapshotTerm
  <2>3. /\ m.log.base_index = r.snapshot.index
        /\ m.log.base_term = r.snapshot.term
        => /\ r.snapshot.index \in e.sure
           /\ r.snapshot.index \in e.told
           /\ r.snapshot.data = Commands(e.whole, r.snapshot.index)
    BY <1>3, <1>13, <2>2 DEF Vouched
  <2> QED BY <1>1, <1>3, <1>4, <1>5, <1>13, <2>1, <2>3, HandleInstallSnapshotFits
<1>14. CASE r.kind = "InstallSnapshotReply" /\ m = HandleInstallSnapshotReply(k, r)
  <2>1. k.role = "Leader" /\ r.term = k.current_term =>
                /\ Acked(e.acks, r.from, r.term, r.last_index)
                /\ r.last_index <= LastIndex(k.log)
    BY <1>3, <1>14 DEF Vouched
  <2> QED BY <1>1, <1>3, <1>14, <2>1, HandleInstallSnapshotReplyFits
<1>15. CASE r.kind = "TimeoutNow" /\ m = HandleTimeoutNow(k, r)
  BY <1>1, <1>3, <1>15, HandleTimeoutNowFits
<1>16. CASE \E disk \in PartialWrites(n, r) : m = WithLog(n.id, disk)
  <2>1. PICK disk \in PartialWrites(n, r) : m = WithLog(n.id, disk)
    BY <1>16
  <2>2. /\ disk \in Log /\ disk.data = n.log.data
        /\ disk.base_index = n.log.base_index /\ n.id \in Server
    BY <1>1, NodeFields, PartialWritesSnapshot
  <2>3. m.log = disk
    BY <2>1, <2>2, WithLogFields
  <2>4. /\ n.log.base_index \in e.told
        /\ n.log.data = Commands(e.whole, n.log.base_index)
        /\ n.log.base_index \in e.sure
    <3>1. /\ n.last_applied \in e.sure /\ n.log.base_index <= n.commit_index
          /\ n.commit_index <= n.last_applied /\ n.log.base_index \in e.told
          /\ n.log.data = Commands(e.whole, n.log.base_index)
      BY <1>1 DEF Based, Applies
    <3>2. n.log.base_index \in 0 .. n.last_applied
      BY <1>1, <3>1, NodeFields, LogFields
    <3> QED BY <1>1, <3>1, <3>2 DEF Ledger
  <2> QED BY <1>1, <2>1, <2>2, <2>3, <2>4, WithLogFits
<1> QED BY <1>6, <1>7, <1>8, <1>9, <1>10, <1>11, <1>12, <1>13, <1>14, <1>15, <1>16
        DEF Answers, k

(* Whatever a node does. *)
LEMMA HandledFits ==
    ASSUME FixedMembership, NEW n, NEW m, NEW e, Stepping(n, m, e),
           e.read \subseteq Message, Handled(n, m, e.read),
           \A r \in e.read : r.to = n.id => Vouched(n, m, r, e)
    PROVE  Fit(m, e)
<1>1. CASE Asked(n, m)
  BY <1>1, AskedFits
<1>2. CASE \E r \in e.read : r.to = n.id /\ Answers(n, r, m)
  BY <1>2, AnswersFit
<1> QED BY <1>1, <1>2 DEF Handled

=============================================================================
