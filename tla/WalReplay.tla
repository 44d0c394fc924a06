------------------------------ MODULE WalReplay ------------------------------
(***************************************************************************)
(* The durable log keeps what LogStore promises: the proof.                *)
(***************************************************************************)
EXTENDS WalLog, RaftLogTheorems

-----------------------------------------------------------------------------
(* Replay, record by record. *)

(* f holds the logs that replay goes through on the first n records. *)
IsReplay(f, records, n) ==
    f = [j \in 0 .. n |->
            IF j = 0 THEN EmptyLog ELSE ReplayRecord(f[j - 1], records[j])]

(* There are such logs for every number of records. *)
LEMMA ReplayExists ==
    ASSUME NEW records, NEW n \in Nat
    PROVE  \E f : IsReplay(f, records, n)
<1> DEFINE T == {k \in Nat : ~ \E f : IsReplay(f, records, k)}
<1> SUFFICES ASSUME T # {} PROVE FALSE
  OBVIOUS
<1>1. PICK k \in T : \A u \in T : k <= u
  <2>1. T \subseteq Nat
    OBVIOUS
  <2> HIDE DEF T
  <2> QED BY <2>1, SmallestExists
<1>2. CASE k = 0
  <2>1. IsReplay([j \in 0 .. 0 |-> EmptyLog], records, 0)
    BY DEF IsReplay
  <2> QED BY <1>2, <2>1
<1>3. CASE k # 0
  <2>1. k - 1 \in Nat /\ k - 1 \notin T
    BY <1>1, <1>3
  <2>2. PICK g : IsReplay(g, records, k - 1)
    BY <2>1
  <2> DEFINE f == [j \in 0 .. k |-> IF j = k THEN ReplayRecord(g[k - 1], records[k])
                                           ELSE g[j]]
  <2>3. \A j \in 0 .. k - 1 :
            g[j] = IF j = 0 THEN EmptyLog ELSE ReplayRecord(g[j - 1], records[j])
    BY <2>2 DEF IsReplay
  <2>4. \A j \in 0 .. k :
            f[j] = IF j = 0 THEN EmptyLog ELSE ReplayRecord(f[j - 1], records[j])
    BY <2>1, <2>3, <1>3
  <2>5. f = [j \in 0 .. k |-> f[j]]
    OBVIOUS
  <2> HIDE DEF f
  <2>6. IsReplay(f, records, k)
    BY <2>4, <2>5 DEF IsReplay
  <2> QED BY <2>6
<1> QED BY <1>2, <1>3

(* On records they have in common two replays go through the same logs. *)
LEMMA ReplayUnique ==
    ASSUME NEW r, NEW s, NEW n \in Nat, NEW m \in Nat, n <= m,
           \A j \in 1 .. n : r[j] = s[j],
           NEW f, IsReplay(f, r, n), NEW g, IsReplay(g, s, m)
    PROVE  f[n] = g[n]
<1> DEFINE T == {j \in Nat : j <= n /\ f[j] # g[j]}
<1> SUFFICES ASSUME T # {} PROVE FALSE
  OBVIOUS
<1>1. PICK k \in T : \A u \in T : k <= u
  <2>1. T \subseteq Nat
    OBVIOUS
  <2> HIDE DEF T
  <2> QED BY <2>1, SmallestExists
<1>2. /\ f[k] = IF k = 0 THEN EmptyLog ELSE ReplayRecord(f[k - 1], r[k])
      /\ g[k] = IF k = 0 THEN EmptyLog ELSE ReplayRecord(g[k - 1], s[k])
  <2>1. k \in 0 .. n /\ k \in 0 .. m
    OBVIOUS
  <2> QED BY <2>1 DEF IsReplay
<1>3. k # 0 /\ f[k] # g[k]
  BY <1>2
<1>4. k - 1 \in Nat /\ k - 1 <= n /\ k - 1 \notin T /\ k \in 1 .. n
  BY <1>1, <1>3
<1>5. f[k - 1] = g[k - 1] /\ r[k] = s[k]
  BY <1>4
<1> QED BY <1>2, <1>3, <1>5

(* What Replay computes: nothing for no records, and one record more is     *)
(* one step more.                                                           *)
LEMMA ReplayUnfolds ==
    ASSUME NEW S, NEW records \in Seq(S)
    PROVE  /\ Replay(<< >>) = EmptyLog
           /\ \A r \in S :
                 Replay(Append(records, r)) = ReplayRecord(Replay(records), r)
<1>1. ASSUME NEW s, Len(s) \in Nat
      PROVE  \E f : IsReplay(f, s, Len(s)) /\ Replay(s) = f[Len(s)]
  <2>1. \E f : IsReplay(f, s, Len(s))
    BY <1>1, ReplayExists
  <2> DEFINE f == CHOOSE f : IsReplay(f, s, Len(s))
  <2>2. IsReplay(f, s, Len(s))
    BY <2>1
  <2>3. Replay(s) = f[Len(s)]
    BY DEF Replay, IsReplay
  <2> QED BY <2>2, <2>3
<1>2. Replay(<< >>) = EmptyLog
  <2>1. Len(<< >>) = 0
    BY EmptySeq
  <2>2. PICK f : IsReplay(f, << >>, 0) /\ Replay(<< >>) = f[0]
    BY <1>1, <2>1
  <2> QED BY <2>2 DEF IsReplay
<1>3. ASSUME NEW r \in S
      PROVE  Replay(Append(records, r)) = ReplayRecord(Replay(records), r)
  <2> DEFINE n == Len(records)
             more == Append(records, r)
  <2>1. /\ n \in Nat /\ Len(more) = n + 1
        /\ \A j \in 1 .. n : more[j] = records[j]
        /\ more[n + 1] = r
    BY <1>3, LenProperties, AppendProperties
  <2> HIDE DEF n, more
  <2>2. PICK f : IsReplay(f, records, n) /\ Replay(records) = f[n]
    BY <1>1, <2>1 DEF n
  <2>3. PICK g : IsReplay(g, more, n + 1) /\ Replay(more) = g[n + 1]
    BY <1>1, <2>1
  <2>4. f[n] = g[n]
    <3>1. n + 1 \in Nat /\ n <= n + 1 /\ \A j \in 1 .. n : records[j] = more[j]
      BY <2>1
    <3> QED BY <2>1, <2>2, <2>3, <3>1, ReplayUnique
  <2>5. g[n + 1] = ReplayRecord(g[n], r)
    <3>1. n + 1 \in 0 .. n + 1 /\ n + 1 # 0 /\ (n + 1) - 1 = n
      BY <2>1
    <3>2. g[n + 1] = ReplayRecord(g[(n + 1) - 1], more[n + 1])
      BY <2>3, <3>1 DEF IsReplay
    <3> QED BY <2>1, <3>1, <3>2
  <2> QED BY <2>2, <2>3, <2>4, <2>5 DEF more
<1> QED BY <1>2, <1>3

(* The logs found at two successive marks are one record apart. *)
LEMMA ReplayNext ==
    ASSUME NEW S, NEW records \in Seq(S), NEW k \in 1 .. Len(records)
    PROVE  Replay(SubSeq(records, 1, k)) =
                ReplayRecord(Replay(SubSeq(records, 1, k - 1)), records[k])
<1> DEFINE before == SubSeq(records, 1, k - 1)
<1>1. k \in Nat /\ k - 1 \in Int /\ k - 1 <= Len(records) /\ 1 \in 1 .. Len(records)
  BY LenProperties
<1>2. before \in Seq(S) /\ records[k] \in S
  BY <1>1, StretchTyped, ElementOfSeq
<1>3. SubSeq(records, 1, k) = before \o << records[k] >>
  <2>1. k \in 1 .. Len(records)
    OBVIOUS
  <2> QED BY <1>1, <2>1, SubSeqRecursiveSecond
<1>4. before \o << records[k] >> = Append(before, records[k])
  <2> HIDE DEF before
  <2> QED BY <1>2, AppendIsConcat
<1> HIDE DEF before
<1>5. Replay(Append(before, records[k])) = ReplayRecord(Replay(before), records[k])
  BY <1>2, ReplayUnfolds
<1> QED BY <1>3, <1>4, <1>5 DEF before

(* Records that follow do not change what earlier ones replay to. *)
LEMMA PrefixOfConcat ==
    ASSUME NEW S, NEW s \in Seq(S), NEW t \in Seq(S), NEW k \in 0 .. Len(s)
    PROVE  SubSeq(s \o t, 1, k) = SubSeq(s, 1, k)
<1>1. CASE k = 0
  <2>1. SubSeq(s \o t, 1, 0) = << >> /\ SubSeq(s, 1, 0) = << >>
    BY SubSeqEmpty
  <2> QED BY <1>1, <2>1
<1>2. CASE k # 0
  <2>1. 1 \in 1 .. Len(s) /\ k \in 1 .. Len(s)
    BY <1>2, LenProperties
  <2> QED BY <2>1, SubSeqOfConcat1
<1> QED BY <1>1, <1>2

-----------------------------------------------------------------------------
(* The invariant. *)

WalRecord ==
    [tag : {"Entry"}, at : Nat, entry : LogEntry]
        \cup [tag : {"HardState"}, hard : HardState]
        \cup [tag : {"Truncate"}, from : Nat]
        \cup [tag : {"Snapshot"}, snap : Snapshot]

(* Whatever a crash leaves can be opened, and all of it is the index. *)
Exact ==
    /\ ReplayIsIndex
    /\ \A k \in 0 .. Len(wal) : Found(k) \in Log

WalInv ==
    /\ TypeOK
    /\ wal \in Seq(WalRecord)
    /\ SparesTail => Exact

(* A record takes a log to a log, or to nothing. *)
LEMMA ReplayRecordTyped ==
    ASSUME NEW log \in Log \cup {Broken}, NEW r \in WalRecord
    PROVE  ReplayRecord(log, r) \in Log \cup {Broken}
<1>1. CASE log = Broken
  BY <1>1 DEF ReplayRecord
<1>2. CASE log # Broken /\ log \in Log
  <2>1. CASE r.tag = "Entry"
    <3>1. << r.entry >> \in Seq(LogEntry)
      BY <2>1 DEF WalRecord
    <3> QED BY <1>2, <2>1, <3>1, AppendToTyped DEF ReplayRecord
  <2>2. CASE r.tag = "HardState"
    <3>1. r.hard.term \in Nat /\ r.hard.voted_for \in Server \cup {None}
      BY <2>2 DEF WalRecord, HardState
    <3> QED BY <1>2, <2>2, <3>1, SetHardStateTyped DEF ReplayRecord
  <2>3. CASE r.tag = "Truncate"
    <3> DEFINE from == Smaller(r.from, LastIndex(log) + 1)
    <3>1. r.from \in Int /\ LastIndex(log) + 1 \in Int
      BY <1>2, <2>3, LogFields DEF WalRecord
    <3>2. from \in Int /\ from <= LastIndex(log) + 1
      BY <3>1, SmallerLarger
    <3> HIDE DEF from
    <3>3. Truncate(log, from) \in Log
      BY <1>2, <3>2, TruncateTyped
    <3> QED BY <1>2, <2>3, <3>3 DEF ReplayRecord, from
  <2>4. CASE r.tag = "Snapshot"
    <3>1. r.snap \in Snapshot
      BY <2>4 DEF WalRecord
    <3>2. ApplySnapshot(log, r.snap) \in Log
      BY <1>2, <3>1, ApplySnapshotTyped
    <3> QED BY <1>2, <2>4, <3>2 DEF ReplayRecord
  <2>5. r.tag \in {"Entry", "HardState", "Truncate", "Snapshot"}
    BY DEF WalRecord
  <2> QED BY <2>1, <2>2, <2>3, <2>4, <2>5
<1> QED BY <1>1, <1>2

(* So records replay to a log, or to nothing. *)
LEMMA ReplayTyped ==
    ASSUME NEW records \in Seq(WalRecord), NEW k \in 0 .. Len(records)
    PROVE  Replay(SubSeq(records, 1, k)) \in Log \cup {Broken}
<1> DEFINE T == {j \in Nat : j <= Len(records) /\
                    Replay(SubSeq(records, 1, j)) \notin Log \cup {Broken}}
<1> SUFFICES ASSUME T # {} PROVE FALSE
  BY LenProperties
<1>1. PICK j \in T : \A u \in T : j <= u
  <2>1. T \subseteq Nat
    OBVIOUS
  <2> HIDE DEF T
  <2> QED BY <2>1, SmallestExists
<1>2. CASE j = 0
  <2>1. SubSeq(records, 1, 0) = << >>
    BY SubSeqEmpty
  <2>2. Replay(<< >>) = EmptyLog
    BY ReplayUnfolds
  <2> QED BY <1>2, <2>1, <2>2, EmptyLogTyped
<1>3. CASE j # 0
  <2>1. j - 1 \in Nat /\ j - 1 \notin T /\ j \in 1 .. Len(records) /\ Len(records) \in Nat
    BY <1>1, <1>3, LenProperties
  <2>2. Replay(SubSeq(records, 1, j - 1)) \in Log \cup {Broken}
    BY <2>1
  <2>3. records[j] \in WalRecord
    BY <2>1, ElementOfSeq
  <2>4. Replay(SubSeq(records, 1, j)) \in Log \cup {Broken}
    BY <2>1, <2>2, <2>3, ReplayNext, ReplayRecordTyped
  <2> QED BY <2>4
<1> QED BY <1>2, <1>3

-----------------------------------------------------------------------------
(* Writes. *)

(* steps are the logs the records lead to from log, one by one. *)
Leads(log, records, steps) ==
    \A j \in 1 .. Len(records) :
        steps[j] = ReplayRecord(IF j = 1 THEN log ELSE steps[j - 1], records[j])

(* Replaying what was there and the first k of the new records goes through *)
(* the logs found before and then through the first k steps.                *)
LEMMA WrittenReplays ==
    ASSUME NEW old \in Seq(WalRecord), NEW new \in Seq(WalRecord), NEW steps,
           Leads(Replay(SubSeq(old, 1, Len(old))), new, steps), NEW k \in 0 .. Len(new)
    PROVE  LET all == old \o SubSeq(new, 1, k)
           IN  /\ all \in Seq(WalRecord) /\ Len(all) = Len(old) + k
               /\ \A j \in 0 .. Len(old) :
                    Replay(SubSeq(all, 1, j)) = Replay(SubSeq(old, 1, j))
               /\ \A j \in 1 .. k : Replay(SubSeq(all, 1, Len(old) + j)) = steps[j]
<1> DEFINE cut == SubSeq(new, 1, k)
           all == old \o cut
           n   == Len(old)
<1>1. /\ n \in Nat /\ k \in Nat /\ Len(new) \in Nat
      /\ cut \in Seq(WalRecord) /\ Len(cut) = k
      /\ \A j \in 1 .. k : cut[j] = new[j]
  <2>1. /\ n \in Nat /\ k \in Nat /\ Len(new) \in Nat /\ k <= Len(new)
    BY LenProperties
  <2>2. \A j \in 1 .. k : new[j] \in WalRecord
    BY <2>1, ElementOfSeq
  <2>3. 1 \in Int /\ k \in Int
    BY <2>1
  <2> QED BY <2>1, <2>2, <2>3, SubSeqProperties
<1> HIDE DEF cut
<1>2. /\ all \in Seq(WalRecord) /\ Len(all) = n + k
      /\ \A j \in 1 .. k : all[n + j] = new[j]
  <2>1. /\ all \in Seq(WalRecord) /\ Len(all) = n + k
        /\ \A j \in 1 .. n + k : all[j] = IF j <= n THEN old[j] ELSE cut[j - n]
    BY <1>1, ConcatProperties
  <2>2. ASSUME NEW j \in 1 .. k PROVE all[n + j] = new[j]
    <3>1. n + j \in 1 .. n + k /\ ~ (n + j <= n) /\ (n + j) - n = j
      BY <1>1, <2>2
    <3> HIDE DEF n, all
    <3> QED BY <1>1, <2>1, <3>1
  <2> QED BY <2>1, <2>2
<1>3. ASSUME NEW j \in 0 .. n
      PROVE  Replay(SubSeq(all, 1, j)) = Replay(SubSeq(old, 1, j))
  BY <1>1, <1>3, PrefixOfConcat
<1> HIDE DEF all
<1>4. \A j \in 1 .. k : Replay(SubSeq(all, 1, n + j)) = steps[j]
  <2> DEFINE T == {j \in Nat : j \in 1 .. k /\ Replay(SubSeq(all, 1, n + j)) # steps[j]}
  <2> SUFFICES ASSUME T # {} PROVE FALSE
    BY <1>1, SMTT(60)
  <2>1. PICK j \in T : \A u \in T : j <= u
    <3>1. T \subseteq Nat
      OBVIOUS
    <3> HIDE DEF T
    <3> QED BY <3>1, SmallestExists
  <2>2. j \in 1 .. k /\ Replay(SubSeq(all, 1, n + j)) # steps[j]
    BY <2>1
  <2>3. Replay(SubSeq(all, 1, n + j)) =
            ReplayRecord(Replay(SubSeq(all, 1, n + j - 1)), new[j])
    <3> DEFINE i == n + j
    <3>1. i \in 1 .. Len(all) /\ all[i] = new[j] /\ i - 1 = n + j - 1
      BY <1>1, <1>2, <2>2
    <3> HIDE DEF i
    <3>2. Replay(SubSeq(all, 1, i)) = ReplayRecord(Replay(SubSeq(all, 1, i - 1)), all[i])
      BY <1>2, <3>1, ReplayNext
    <3> QED BY <3>1, <3>2 DEF i
  <2>4. Replay(SubSeq(all, 1, n + j - 1)) =
            IF j = 1 THEN Replay(SubSeq(old, 1, n)) ELSE steps[j - 1]
    <3>1. CASE j = 1
      <4>1. n + j - 1 = n /\ n \in 0 .. n
        BY <1>1, <3>1
      <4> QED BY <1>3, <3>1, <4>1
    <3>2. CASE j # 1
      <4>1. j - 1 \in 1 .. k /\ j - 1 \in Nat /\ j - 1 \notin T /\ n + j - 1 = n + (j - 1)
        BY <1>1, <2>1, <2>2, <3>2
      <4> QED BY <3>2, <4>1
    <3> QED BY <3>1, <3>2
  <2>5. steps[j] = ReplayRecord(IF j = 1 THEN Replay(SubSeq(old, 1, n)) ELSE steps[j - 1],
                               new[j])
    <3>1. j \in 1 .. Len(new)
      BY <1>1, <2>2
    <3> QED BY <3>1 DEF Leads, n
  <2> QED BY <2>2, <2>3, <2>4, <2>5
<1> QED BY <1>2, <1>3, <1>4 DEF all, cut

(* A write leaves an index and records of the right types. *)
LEMMA WriteTyped ==
    ASSUME WalInv, NEW new \in Log, NEW records \in Seq(WalRecord), Write(new, records)
    PROVE  TypeOK' /\ wal' \in Seq(WalRecord)
<1>1. PICK k \in 0 .. Len(records) :
            wal' = wal \o SubSeq(records, 1, k) /\ failed' = (k < Len(records))
  BY DEF Write
<1> DEFINE cut == SubSeq(records, 1, k)
<1>2. cut \in Seq(WalRecord)
  BY LenProperties, StretchTyped
<1> HIDE DEF cut
<1>3. wal' \in Seq(WalRecord) /\ Len(wal') = Len(wal) + Len(cut)
  BY <1>1, <1>2, ConcatProperties DEF WalInv, cut
<1>4. Len(wal) \in Nat /\ Len(cut) \in Nat /\ Len(records) \in Nat
  BY <1>2, LenProperties DEF WalInv
<1>5. synced' = synced /\ index' = new
  BY DEF Write
<1> QED BY <1>1, <1>3, <1>4, <1>5 DEF WalInv, TypeOK

(* When the records lead from the index to the new one, a crash finds one   *)
(* of the logs it found before, or one of those on the way.                 *)
LEMMA WriteReaches ==
    ASSUME WalInv, Exact, NEW new \in Log,
           NEW records \in Seq(WalRecord), records # << >>,
           NEW steps, Len(steps) = Len(records), Leads(index, records, steps),
           \A j \in 1 .. Len(records) : steps[j] \in Log,
           steps[Len(records)] = new,
           Write(new, records)
    PROVE  Exact' /\ Store!Reaches(steps, new)
<1> DEFINE n == Len(wal)
           Before(j) == Replay(SubSeq(wal, 1, j))
           After(j)  == Replay(SubSeq(wal', 1, j))
<1>1. PICK k \in 0 .. Len(records) :
            wal' = wal \o SubSeq(records, 1, k) /\ failed' = (k < Len(records))
  BY DEF Write
<1>2. ~ failed /\ index' = new /\ synced' = synced
  BY DEF Write
<1>3. n \in Nat /\ Len(records) \in Nat \ {0} /\ synced \in 0 .. n
  BY LenProperties, EmptySeq DEF WalInv, TypeOK
<1>4. Before(n) = index
  BY <1>2 DEF Exact, ReplayIsIndex, Found
<1>5. /\ Len(wal') = n + k
      /\ \A j \in 0 .. n : After(j) = Before(j)
      /\ \A j \in 1 .. k : After(n + j) = steps[j]
  <2>1. wal \in Seq(WalRecord) /\ Leads(Replay(SubSeq(wal, 1, Len(wal))), records, steps)
    BY <1>4 DEF WalInv
  <2> QED BY <1>1, <2>1, WrittenReplays
<1> HIDE DEF n, Before, After
<1>6. ASSUME NEW j \in 0 .. n + k
      PROVE  \/ j \in 0 .. n /\ After(j) = Before(j)
             \/ \E i \in 1 .. k : After(j) = steps[i]
  <2>1. CASE j \in 0 .. n
    BY <1>5, <2>1
  <2>2. CASE j \notin 0 .. n
    <3>1. j - n \in 1 .. k /\ n + (j - n) = j
      BY <1>3, <2>2
    <3> QED BY <1>5, <3>1
  <2> QED BY <2>1, <2>2
<1>7. Exact'
  <2>1. \A j \in 0 .. n + k : After(j) \in Log
    <3>1. \A j \in 0 .. n : Before(j) \in Log
      BY DEF Exact, Found, Before, n
    <3>2. \A i \in 1 .. k : steps[i] \in Log
      BY <1>3
    <3> QED BY <1>6, <3>1, <3>2
  <2>2. ~ failed' => After(n + k) = index'
    <3>1. ~ failed' => ~ (k < Len(records))
      BY <1>1
    <3>2. ~ (k < Len(records)) => k = Len(records) /\ k \in 1 .. k
      BY <1>3
    <3> QED BY <1>2, <1>5, <3>1, <3>2
  <2> QED BY <1>5, <2>1, <2>2 DEF Exact, ReplayIsIndex, Found, After
<1>8. {After(j) : j \in synced .. n + k} =
            {Before(j) : j \in synced .. n} \cup {steps[j] : j \in 1 .. k}
  <2>1. ASSUME NEW j \in synced .. n + k
        PROVE  \/ j \in synced .. n /\ After(j) = Before(j)
               \/ \E i \in 1 .. k : After(j) = steps[i]
    <3>1. j \in 0 .. n + k /\ (j \in 0 .. n => j \in synced .. n)
      BY <1>3
    <3> QED BY <1>6, <3>1
  <2>2. \A j \in synced .. n : j \in synced .. n + k /\ After(j) = Before(j)
    BY <1>3, <1>5
  <2>3. \A i \in 1 .. k : n + i \in synced .. n + k /\ After(n + i) = steps[i]
    BY <1>3, <1>5
  <2> QED BY <2>1, <2>2, <2>3
<1>9. Store!Reaches(steps, new)
  <2>1. {Found(j) : j \in synced .. Len(wal)}' = {After(j) : j \in synced .. n + k}
    BY <1>2, <1>5 DEF Found, After
  <2>2. {Found(j) : j \in synced .. Len(wal)} = {Before(j) : j \in synced .. n}
    BY DEF Found, Before, n
  <2> QED BY <1>1, <1>2, <1>8, <2>1, <2>2 DEF Store!Reaches
<1> QED BY <1>7, <1>9

-----------------------------------------------------------------------------
(* Operations. *)

(* A log is no failed replay. *)
LEMMA LogIsNotBroken == Broken \notin Log
<1>1. Broken.base_index = -1
  BY DEF Broken, EmptyLog
<1> QED BY <1>1 DEF Log

(* A write whose records lead to the new index, with the steps of LogStore. *)
LEMMA WriteKeepsInv ==
    ASSUME WalInv, NEW new \in Log,
           NEW records \in Seq(WalRecord), records # << >>,
           NEW steps, Len(steps) = Len(records), Leads(index, records, steps),
           \A j \in 1 .. Len(records) : steps[j] \in Log,
           steps[Len(records)] = new,
           Write(new, records)
    PROVE  WalInv' /\ (SparesTail => Store!Reaches(steps, new))
<1>1. TypeOK' /\ wal' \in Seq(WalRecord)
  BY WriteTyped
<1>2. SparesTail => Exact' /\ Store!Reaches(steps, new)
  BY WriteReaches DEF WalInv
<1> QED BY <1>1, <1>2 DEF WalInv

(* A mutation written as one record. *)
LEMMA OneRecord ==
    ASSUME WalInv, NEW new \in Log, NEW r \in WalRecord,
           new = ReplayRecord(index, r), Write(new, << r >>)
    PROVE  WalInv' /\ (SparesTail => Store!Becomes(new))
<1> DEFINE records == << r >>
           steps   == << new >>
<1>1. /\ records \in Seq(WalRecord) /\ records # << >> /\ Len(records) = 1
      /\ Len(steps) = 1 /\ records[1] = r /\ steps[1] = new
  OBVIOUS
<1> HIDE DEF records, steps
<1>2. Leads(index, records, steps)
  BY <1>1 DEF Leads
<1>3. Write(new, records)
  BY DEF records
<1>4. WalInv' /\ (SparesTail => Store!Reaches(steps, new))
  BY <1>1, <1>2, <1>3, WriteKeepsInv
<1> QED BY <1>4 DEF Store!Becomes, steps

(* append writes a record for each entry; a crash between two of them       *)
(* leaves the log with the first entries of the batch.                      *)
LEMMA AppendBatchStep ==
    ASSUME WalInv, NEW batch \in Batches, AppendBatch(batch)
    PROVE  WalInv' /\ (SparesTail => Store!AppendBatch(batch))
<1> DEFINE n       == Len(batch)
           last    == LastIndex(index)
           records == [k \in DOMAIN batch |-> EntryRecord(last + k, batch[k])]
           steps   == [k \in DOMAIN batch |-> AppendTo(index, SubSeq(batch, 1, k))]
           new     == AppendTo(index, batch)
<1>1. /\ batch \in Seq(LogEntry) /\ n \in Nat \ {0} /\ DOMAIN batch = 1 .. n
      /\ index \in Log /\ last \in Nat
  BY WalAssumption, LenProperties, EmptySeq, LogFields DEF WalInv, TypeOK
<1>2. \A k \in 0 .. n : SubSeq(batch, 1, k) \in Seq(LogEntry) /\ Len(SubSeq(batch, 1, k)) = k
  <2> SUFFICES ASSUME NEW k \in 0 .. n
               PROVE  SubSeq(batch, 1, k) \in Seq(LogEntry) /\ Len(SubSeq(batch, 1, k)) = k
    OBVIOUS
  <2>1. \A i \in 1 .. k : batch[i] \in LogEntry
    BY <1>1, ElementOfSeq
  <2> QED BY <1>1, <2>1, SubSeqProperties
<1>3. /\ \A k \in 1 .. n : EntryRecord(last + k, batch[k]) \in WalRecord
      /\ \A k \in 1 .. n : AppendTo(index, SubSeq(batch, 1, k)) \in Log
  <2>1. ASSUME NEW k \in 1 .. n PROVE EntryRecord(last + k, batch[k]) \in WalRecord
    <3>1. batch[k] \in LogEntry /\ last + k \in Nat
      BY <1>1, ElementOfSeq
    <3> QED BY <3>1 DEF EntryRecord, WalRecord
  <2>2. ASSUME NEW k \in 1 .. n PROVE AppendTo(index, SubSeq(batch, 1, k)) \in Log
    <3>1. k \in 0 .. n
      BY <1>1
    <3> QED BY <1>1, <1>2, <3>1, AppendToTyped
  <2> QED BY <2>1, <2>2
<1>4. /\ records \in Seq(WalRecord) /\ Len(records) = n /\ records # << >>
      /\ steps \in Seq(Log) /\ Len(steps) = n
  <2>1. records \in [1 .. n -> WalRecord] /\ steps \in [1 .. n -> Log]
    BY <1>1, <1>3
  <2>2. records \in Seq(WalRecord) /\ steps \in Seq(Log)
    BY <1>1, <2>1, SeqDef
  <2> HIDE DEF records, steps
  <2>3. 1 .. Len(records) = 1 .. n /\ 1 .. Len(steps) = 1 .. n
    BY <2>1, <2>2, LenProperties
  <2>4. Len(records) \in Nat /\ Len(steps) \in Nat
    BY <2>2, LenProperties
  <2>5. Len(records) = n /\ Len(steps) = n
    BY <1>1, <2>3, <2>4
  <2> QED BY <1>1, <2>2, <2>5, EmptySeq
<1>5. ASSUME NEW j \in 1 .. n
      PROVE  steps[j] = ReplayRecord(IF j = 1 THEN index ELSE steps[j - 1], records[j])
  <2> DEFINE head   == SubSeq(batch, 1, j - 1)
             before == AppendTo(index, head)
  <2>1. j - 1 \in 0 .. n /\ j \in Nat
    BY <1>1
  <2>2. head \in Seq(LogEntry) /\ Len(head) = j - 1
    BY <1>2, <2>1
  <2>3. (IF j = 1 THEN index ELSE steps[j - 1]) = before
    <3>1. CASE j = 1
      <4>1. head = << >>
        BY <3>1, SubSeqEmpty
      <4> QED BY <1>1, <3>1, <4>1, AppendToNothing
    <3>2. CASE j # 1
      <4>1. j - 1 \in DOMAIN batch
        BY <1>1, <2>1, <3>2
      <4> QED BY <3>2, <4>1
    <3> QED BY <3>1, <3>2
  <2>4. SubSeq(batch, 1, j) = head \o << batch[j] >> /\ << batch[j] >> \in Seq(LogEntry)
    <3>1. 1 \in 1 .. Len(batch) /\ j \in 1 .. Len(batch) /\ batch[j] \in LogEntry
      BY <1>1, ElementOfSeq
    <3> QED BY <1>1, <3>1, SubSeqRecursiveSecond
  <2>5. records[j].tag = "Entry" /\ records[j].at = last + j /\ records[j].entry = batch[j]
    BY <1>1 DEF EntryRecord
  <2>6. steps[j] = AppendTo(index, SubSeq(batch, 1, j))
    BY <1>1
  <2> HIDE DEF records, steps, head
  <2>7. before \in Log /\ LastIndex(before) + 1 = last + j
    <3>1. LastIndex(before) = last + (j - 1)
      BY <1>1, <2>2, AppendToLast
    <3> QED BY <1>1, <2>1, <2>2, <3>1, AppendToTyped
  <2>8. AppendTo(before, << batch[j] >>) = AppendTo(index, SubSeq(batch, 1, j))
    BY <1>1, <2>2, <2>4, AppendToTwice, ZenonT(60)
  <2> HIDE DEF before
  <2>9. before # Broken
    BY <2>7, LogIsNotBroken
  <2> QED BY <2>3, <2>5, <2>6, <2>7, <2>8, <2>9 DEF ReplayRecord
<1>6. /\ \A j \in 1 .. n : steps[j] \in Log
      /\ steps[n] = new
      /\ new \in Log
  <2>1. SubSeq(batch, 1, n) = batch
    BY <1>1, SubSeqFull
  <2>2. n \in DOMAIN batch
    BY <1>1
  <2>3. new \in Log
    BY <1>1, AppendToTyped
  <2> QED BY <1>1, <1>3, <2>1, <2>2, <2>3
<1>7. Write(new, records) /\ Store!MayAppend(index, batch)
  BY DEF AppendBatch
<1> HIDE DEF n, last, records, new
<1>8. WalInv' /\ (SparesTail => Store!Reaches(steps, new))
  <2> HIDE DEF steps
  <2>1. Leads(index, records, steps)
    BY <1>4, <1>5 DEF Leads
  <2> QED BY <1>4, <1>6, <1>7, <2>1, WriteKeepsInv
<1> QED BY <1>7, <1>8 DEF Store!AppendBatch, Store!AppendTo, AppendTo, new

(* truncate is one record. *)
LEMMA TruncateStep ==
    ASSUME WalInv, NEW from \in 1 .. MaxIndex, TruncateFrom(from)
    PROVE  WalInv' /\ (SparesTail => \E f \in 1 .. LastIndex(index) : Store!TruncateFrom(f))
<1> DEFINE new == Truncate(index, from)
           r   == TruncateRecord(from)
<1>1. /\ index \in Log /\ from \in index.base_index + 1 .. LastIndex(index)
      /\ index.base_index \in Nat /\ LastIndex(index) \in Nat
      /\ from \in Nat /\ Write(new, << r >>)
  BY LogFields, WalAssumption DEF TruncateFrom, WalInv, TypeOK
<1>2. new \in Log
  BY <1>1, TruncateTyped
<1>3. r \in WalRecord /\ r.tag = "Truncate" /\ r.from = from
  BY <1>1 DEF TruncateRecord, WalRecord
<1>4. Smaller(from, LastIndex(index) + 1) = from /\ ~ (from <= index.base_index)
  BY <1>1 DEF Smaller
<1>5. index # Broken
  BY <1>1, LogIsNotBroken
<1> HIDE DEF r
<1>6. new = ReplayRecord(index, r)
  BY <1>3, <1>4, <1>5 DEF ReplayRecord
<1>7. WalInv' /\ (SparesTail => Store!Becomes(new))
  <2> HIDE DEF new
  <2> QED BY <1>1, <1>2, <1>3, <1>6, OneRecord
<1>8. Store!Truncate(index, from) = new /\ Store!LastIndex(index) = LastIndex(index)
  BY DEF Store!Truncate, Truncate, Store!LastIndex, LastIndex
<1>9. from \in 1 .. LastIndex(index)
  BY <1>1
<1>10. Store!Becomes(new) => Store!TruncateFrom(from)
  <2> HIDE DEF new
  <2> QED BY <1>1, <1>8 DEF Store!TruncateFrom
<1> QED BY <1>7, <1>9, <1>10

(* So is set_hard_state: term and vote together. *)
LEMMA PersistStep ==
    ASSUME WalInv, NEW hard \in HardStates, Persist(hard)
    PROVE  WalInv' /\ (SparesTail => Store!Persist(hard))
<1> DEFINE new == SetHardState(index, hard.term, hard.voted_for)
           r   == HardRecord(hard)
<1>1. /\ index \in Log /\ hard \in HardState
      /\ hard.term \in Nat /\ hard.voted_for \in Server \cup {None}
      /\ Store!MayPersist(index, hard) /\ Write(new, << r >>)
  BY WalAssumption DEF Persist, WalInv, TypeOK, HardState
<1>2. new \in Log
  BY <1>1, SetHardStateTyped
<1>3. r \in WalRecord /\ r.tag = "HardState" /\ r.hard = hard
  BY <1>1 DEF HardRecord, WalRecord
<1>4. index # Broken
  BY <1>1, LogIsNotBroken
<1> HIDE DEF r
<1>5. new = ReplayRecord(index, r)
  BY <1>3, <1>4 DEF ReplayRecord
<1>6. WalInv' /\ (SparesTail => Store!Becomes(new))
  <2> HIDE DEF new
  <2> QED BY <1>1, <1>2, <1>3, <1>5, OneRecord
<1> QED BY <1>1, <1>6 DEF Store!Persist, Store!SetHardState, SetHardState

(* The snapshot record brings a log to the compacted one, from an empty log *)
(* to the same one but for the tail and the hard state.                     *)
LEMMA SnapshotReplays ==
    ASSUME NEW log \in Log, NEW snap \in Snapshot, snap.index > log.base_index
    PROVE  LET new == ApplySnapshot(log, snap)
           IN  /\ new \in Log /\ new.hard = log.hard
               /\ SetHardState(new, new.hard.term, new.hard.voted_for) = new
               /\ new.entries = << >> =>
                    SetHardState(ApplySnapshot(EmptyLog, snap),
                                 new.hard.term, new.hard.voted_for) = new
               /\ ApplySnapshot(EmptyLog, snap) \in Log
<1> DEFINE new   == ApplySnapshot(log, snap)
           fresh == ApplySnapshot(EmptyLog, snap)
<1>1. new \in Log /\ fresh \in Log
  BY ApplySnapshotTyped, EmptyLogTyped
<1>2. /\ new.hard = log.hard
      /\ new.base_index = snap.index /\ new.base_term = snap.term
      /\ new.snapshot_config = snap.config /\ new.data = snap.data
  BY LogFields DEF ApplySnapshot, Snapshot, Log
<1>3. log.base_index \in Nat /\ snap.index \in Nat /\ snap.term \in Nat
  BY LogFields DEF Snapshot
<1>4. TermAt(EmptyLog, snap.index) = NoTerm
  <2>1. EmptyLog.base_index = 0 /\ LastIndex(EmptyLog) = 0
    BY DEF EmptyLog, LastIndex
  <2> QED BY <1>3, <2>1 DEF TermAt, HasEntry
<1>5. /\ fresh.base_index = snap.index /\ fresh.base_term = snap.term
      /\ fresh.snapshot_config = snap.config /\ fresh.data = snap.data
      /\ fresh.entries = << >>
  <2>1. EmptyLog.base_index = 0 /\ NoTerm # snap.term
    BY <1>3 DEF EmptyLog, NoTerm
  <2>2. fresh = [EmptyLog EXCEPT !.entries = << >>, !.base_index = snap.index,
                                 !.base_term = snap.term,
                                 !.snapshot_config = snap.config, !.data = snap.data]
    BY <1>3, <1>4, <2>1 DEF ApplySnapshot
  <2> QED BY <2>2 DEF EmptyLog
<1> HIDE DEF new, fresh
<1>6. new.hard = [term |-> new.hard.term, voted_for |-> new.hard.voted_for]
  BY <1>1 DEF Log, HardState
<1>7. SetHardState(new, new.hard.term, new.hard.voted_for) = new
  BY <1>1, <1>6 DEF SetHardState, Log
<1>8. new.entries = << >> => SetHardState(fresh, new.hard.term, new.hard.voted_for) = new
  <2> SUFFICES ASSUME new.entries = << >>
               PROVE  [fresh EXCEPT !.hard = new.hard] = new
    BY <1>6 DEF SetHardState
  <2> QED BY <1>1, <1>2, <1>5 DEF Log
<1> QED BY <1>1, <1>2, <1>7, <1>8 DEF new, fresh

(* apply_snapshot writes the snapshot and then the hard state, and lets     *)
(* truncate_before drop the records before them.                            *)
LEMMA CompactStep ==
    ASSUME WalInv, NEW snap \in Snapshots, Compact(snap)
    PROVE  WalInv' /\ (SparesTail => Store!Compact(snap))
<1> DEFINE new   == ApplySnapshot(index, snap)
           final == << SnapshotRecord(snap), HardRecord(new.hard) >>
           steps == << new, new >>
<1>1. index \in Log /\ snap \in Snapshot /\ snap.index > index.base_index
  BY WalAssumption DEF Compact, WalInv, TypeOK
<1>2. /\ new \in Log /\ new.hard = index.hard
      /\ SetHardState(new, new.hard.term, new.hard.voted_for) = new
      /\ new.entries = << >> =>
            SetHardState(ApplySnapshot(EmptyLog, snap),
                         new.hard.term, new.hard.voted_for) = new
      /\ ApplySnapshot(EmptyLog, snap) \in Log
  BY <1>1, SnapshotReplays
<1>3. /\ final \in Seq(WalRecord) /\ Len(final) = 2 /\ final # << >>
      /\ final[1].tag = "Snapshot" /\ final[1].snap = snap
      /\ final[2].tag = "HardState" /\ final[2].hard = new.hard
  <2>1. new.hard \in HardState
    BY <1>2, LogFields
  <2>2. SnapshotRecord(snap) \in WalRecord /\ HardRecord(new.hard) \in WalRecord
    <3> HIDE DEF new
    <3> QED BY <1>1, <2>1 DEF SnapshotRecord, HardRecord, WalRecord
  <2> QED BY <2>2 DEF SnapshotRecord, HardRecord
<1>4. Store!ApplySnapshot(index, snap) = new
  BY DEF Store!ApplySnapshot, ApplySnapshot, Store!TermAt, TermAt, Store!HasEntry,
         HasEntry, Store!EntryAt, EntryAt, Store!LastIndex, LastIndex,
         Store!NoTerm, NoTerm
<1>5. \A log : log \in Log => log # Broken
  BY LogIsNotBroken
<1>6. CASE Write(new, final)
  <2>1. Leads(index, final, steps)
    <3>1. ReplayRecord(index, final[1]) = new
      BY <1>1, <1>3, <1>5 DEF ReplayRecord
    <3>2. ReplayRecord(new, final[2]) = new
      BY <1>2, <1>3, <1>5 DEF ReplayRecord
    <3>3. steps[1] = new /\ steps[2] = new
      OBVIOUS
    <3> HIDE DEF final, steps, new
    <3> QED BY <1>3, <3>1, <3>2, <3>3 DEF Leads
  <2>2. Len(steps) = 2 /\ steps[1] = new /\ steps[2] = new
    OBVIOUS
  <2> HIDE DEF new, final, steps
  <2>3. WalInv' /\ (SparesTail => Store!Reaches(steps, new))
    <3>1. \A j \in 1 .. 2 : steps[j] \in Log
      BY <1>2, <2>2
    <3> QED BY <1>2, <1>3, <1>6, <2>1, <2>2, <3>1, WriteKeepsInv
  <2>4. ASSUME Store!Reaches(steps, new) PROVE Store!Compact(snap)
    <3> DEFINE possible == {Found(k) : k \in synced .. Len(wal)}
               one == << new >>
    <3>1. ~ failed /\ index' = new
      BY <2>4 DEF Store!Reaches
    <3>2. PICK k \in 0 .. 2 : /\ possible' = possible \cup {steps[j] : j \in 1 .. k}
                              /\ failed' = (k < 2)
      BY <2>2, <2>4 DEF Store!Reaches
    <3>3. one[1] = new /\ Len(one) = 1
      OBVIOUS
    <3>4. \A k2 \in 0 .. 1 : /\ possible' = possible \cup {one[j] : j \in 1 .. k2}
                             /\ failed' = (k2 < 1)
                             => Store!Becomes(new)
      BY <3>1, <3>3 DEF Store!Becomes, Store!Reaches
    <3> HIDE DEF possible, one
    <3>5. 1 .. 0 = {} /\ 1 .. 1 = {1} /\ 1 .. 2 = {1, 2}
      OBVIOUS
    <3>6. CASE k = 0
      <4>1. (0 < 2) = (0 < 1)
        OBVIOUS
      <4>2. failed' = (0 < 1) /\ possible' = possible \cup {one[j] : j \in 1 .. 0}
        BY <3>2, <3>5, <3>6, <4>1
      <4>3. Store!Becomes(new)
        BY <3>4, <4>2
      <4> QED BY <1>4, <4>3 DEF Store!Compact
    <3>7. CASE k = 1
      <4>1. (1 < 2) = TRUE
        OBVIOUS
      <4>2. failed' = TRUE /\ possible' = possible \cup {index'}
        BY <2>2, <3>1, <3>2, <3>5, <3>7, <4>1
      <4> QED BY <1>4, <3>1, <4>2 DEF Store!Compact, possible
    <3>8. CASE k = 2
      <4>1. (2 < 2) = (1 < 1)
        OBVIOUS
      <4>2. {steps[j] : j \in 1 .. 2} = {one[j] : j \in 1 .. 1}
        BY <2>2, <3>3, <3>5
      <4>3. failed' = (1 < 1) /\ possible' = possible \cup {one[j] : j \in 1 .. 1}
        BY <3>2, <3>8, <4>1, <4>2
      <4>4. Store!Becomes(new)
        BY <3>4, <4>3
      <4> QED BY <1>4, <4>4 DEF Store!Compact
    <3> QED BY <3>6, <3>7, <3>8
  <2> QED BY <2>3, <2>4
<1>7. CASE /\ ~ failed
           /\ SparesTail => new.entries = << >>
           /\ index' = new
           /\ wal' = final
           /\ synced' = 2
           /\ UNCHANGED failed
  <2>1. TypeOK' /\ wal' \in Seq(WalRecord)
    <3> HIDE DEF new, final
    <3>1. index' = new /\ wal' = final /\ synced' = 2 /\ failed' = failed
      BY <1>7
    <3>2. index' \in Log /\ wal' \in Seq(WalRecord) /\ synced' \in 0 .. Len(wal')
      <4>1. index' \in Log
        BY <1>2, <3>1
      <4>2. wal' \in Seq(WalRecord) /\ Len(wal') = 2
        BY <1>3, <3>1
      <4>3. synced' \in 0 .. Len(wal')
        BY <3>1, <4>2
      <4> QED BY <4>1, <4>2, <4>3
    <3>3. failed' \in BOOLEAN
      BY <3>1 DEF WalInv, TypeOK
    <3> QED BY <3>2, <3>3 DEF TypeOK
  <2>2. /\ Replay(SubSeq(final, 1, 0)) = EmptyLog
        /\ Replay(SubSeq(final, 1, 1)) = ApplySnapshot(EmptyLog, snap)
        /\ Replay(SubSeq(final, 1, 2)) =
                SetHardState(ApplySnapshot(EmptyLog, snap),
                             new.hard.term, new.hard.voted_for)
    <3> HIDE DEF new, final
    <3>1. Replay(SubSeq(final, 1, 0)) = EmptyLog
      <4>1. SubSeq(final, 1, 0) = << >>
        BY SubSeqEmpty
      <4>2. Replay(<< >>) = EmptyLog
        BY <1>3, ReplayUnfolds
      <4> QED BY <4>1, <4>2
    <3>2. Replay(SubSeq(final, 1, 1)) = ReplayRecord(EmptyLog, final[1])
      <4>1. 1 \in 1 .. Len(final) /\ 1 - 1 = 0
        BY <1>3
      <4> QED BY <1>3, <3>1, <4>1, ReplayNext
    <3>3. Replay(SubSeq(final, 1, 1)) = ApplySnapshot(EmptyLog, snap)
      BY <1>3, <1>5, <3>2, EmptyLogTyped DEF ReplayRecord
    <3>4. Replay(SubSeq(final, 1, 2)) =
                ReplayRecord(ApplySnapshot(EmptyLog, snap), final[2])
      <4>1. 2 \in 1 .. Len(final) /\ 2 - 1 = 1
        BY <1>3
      <4> QED BY <1>3, <3>3, <4>1, ReplayNext
    <3> QED BY <1>2, <1>3, <1>5, <3>1, <3>3, <3>4 DEF ReplayRecord
  <2>3. ASSUME SparesTail PROVE Exact' /\ Store!Compact(snap)
    <3> HIDE DEF new, final
    <3>1. Replay(SubSeq(final, 1, 2)) = new
      BY <1>2, <1>7, <2>2, <2>3
    <3>2. \A k \in 0 .. 2 : Replay(SubSeq(final, 1, k)) \in Log
      BY <1>2, <2>2, <3>1, EmptyLogTyped
    <3>3. Exact'
      BY <1>3, <1>7, <3>1, <3>2 DEF Exact, ReplayIsIndex, Found
    <3>4. {Found(k) : k \in synced .. Len(wal)}' = {new}
      <4>1. {Found(k) : k \in synced .. Len(wal)}' =
                {Replay(SubSeq(final, 1, k)) : k \in 2 .. 2}
        BY <1>3, <1>7 DEF Found
      <4>2. 2 .. 2 = {2}
        OBVIOUS
      <4> QED BY <3>1, <4>1, <4>2
    <3>5. Store!Compact(snap)
      BY <1>4, <1>7, <3>4 DEF Store!Compact
    <3> QED BY <3>3, <3>5
  <2> QED BY <2>1, <2>3 DEF WalInv
<1> QED BY <1>6, <1>7 DEF Compact

(* sync makes every record durable, or fails. *)
LEMMA SyncStep ==
    ASSUME WalInv, Sync
    PROVE  WalInv' /\ (SparesTail => Store!Sync)
<1>1. ~ failed /\ index' = index /\ wal' = wal
  BY DEF Sync
<1>2. \/ synced' = Len(wal) /\ failed' = failed
      \/ failed' = TRUE /\ synced' = synced
  BY DEF Sync
<1>3. Len(wal) \in Nat
  BY LenProperties DEF WalInv
<1>4. TypeOK' /\ wal' \in Seq(WalRecord)
  <2>1. wal' \in Seq(WalRecord) /\ index' \in Log
    BY <1>1 DEF WalInv, TypeOK
  <2>2. synced' \in 0 .. Len(wal')
    BY <1>1, <1>2, <1>3 DEF WalInv, TypeOK
  <2>3. failed' \in BOOLEAN
    BY <1>2 DEF WalInv, TypeOK
  <2> QED BY <2>1, <2>2, <2>3 DEF TypeOK
<1>5. Exact => Exact'
  <2>1. ~ failed' => ~ failed
    BY <1>1
  <2> QED BY <1>1, <2>1 DEF Exact, ReplayIsIndex, Found
<1>6. ASSUME Exact PROVE Store!Sync
  <2>1. CASE synced' = Len(wal) /\ failed' = failed
    <3>1. {Found(k) : k \in synced .. Len(wal)}' =
                {Replay(SubSeq(wal, 1, k)) : k \in Len(wal) .. Len(wal)}
      BY <1>1, <2>1 DEF Found
    <3>2. Len(wal) .. Len(wal) = {Len(wal)}
      BY <1>3
    <3>3. Replay(SubSeq(wal, 1, Len(wal))) = index
      BY <1>1, <1>6 DEF Exact, ReplayIsIndex, Found
    <3>4. {Found(k) : k \in synced .. Len(wal)}' = {index}
      BY <3>1, <3>2, <3>3
    <3> QED BY <1>1, <2>1, <3>4 DEF Store!Sync
  <2>2. CASE failed' = TRUE /\ synced' = synced
    <3>1. {Found(k) : k \in synced .. Len(wal)}' = {Found(k) : k \in synced .. Len(wal)}
      BY <1>1, <2>2 DEF Found
    <3> QED BY <1>1, <2>2, <3>1 DEF Store!Sync
  <2> QED BY <1>2, <2>1, <2>2
<1> QED BY <1>4, <1>5, <1>6 DEF WalInv

(* A restart goes on from what it finds. *)
LEMMA ReopenStep ==
    ASSUME WalInv, Reopen
    PROVE  WalInv' /\ (SparesTail => Store!Recover)
<1>1. PICK k \in synced .. Len(wal) :
            /\ Found(k) # Broken
            /\ index' = Found(k)
            /\ wal' = SubSeq(wal, 1, k)
            /\ synced' = k
            /\ failed' = FALSE
  BY DEF Reopen
<1>2. /\ wal \in Seq(WalRecord) /\ Len(wal) \in Nat
      /\ synced \in 0 .. Len(wal) /\ k \in 0 .. Len(wal) /\ k \in Nat
  BY LenProperties DEF WalInv, TypeOK
<1>3. Found(k) \in Log
  BY <1>1, <1>2, ReplayTyped DEF Found
<1>4. wal' \in Seq(WalRecord) /\ Len(wal') = k
  <2>1. \A j \in 1 .. k : wal[j] \in WalRecord
    BY <1>2, ElementOfSeq
  <2> QED BY <1>1, <1>2, <2>1, SubSeqProperties
<1>5. TypeOK'
  <2>1. index' \in Log
    BY <1>1, <1>3
  <2>2. synced' \in 0 .. Len(wal')
    BY <1>1, <1>2, <1>4
  <2>3. failed' \in BOOLEAN
    BY <1>1
  <2> QED BY <2>1, <2>2, <2>3 DEF TypeOK
<1>6. \A j \in 0 .. k : SubSeq(wal', 1, j) = SubSeq(wal, 1, j)
  <2> SUFFICES ASSUME NEW j \in 0 .. k
               PROVE  SubSeq(SubSeq(wal, 1, k), 1, j) = SubSeq(wal, 1, j)
    BY <1>1
  <2>1. CASE j = 0
    <3>1. SubSeq(SubSeq(wal, 1, k), 1, 0) = << >> /\ SubSeq(wal, 1, 0) = << >>
      BY SubSeqEmpty
    <3> QED BY <2>1, <3>1
  <2>2. CASE j # 0
    <3>1. 1 \in 1 .. Len(wal) /\ k \in 1 .. Len(wal) /\ 1 \in 1 .. k - 1 + 1 /\ j \in 1 .. k - 1 + 1
      BY <1>2, <2>2
    <3>2. SubSeq(SubSeq(wal, 1, k), 1, j) = SubSeq(wal, 1 + 1 - 1, 1 + j - 1)
      BY <1>2, <3>1, SubSeqOfSubSeq
    <3>3. 1 + 1 - 1 = 1 /\ 1 + j - 1 = j
      BY <1>2
    <3> QED BY <3>2, <3>3
  <2> QED BY <2>1, <2>2
<1>7. Replay(SubSeq(wal', 1, k)) = index'
  <2>1. k \in 0 .. k
    BY <1>2
  <2>2. SubSeq(wal', 1, k) = SubSeq(wal, 1, k)
    BY <1>6, <2>1
  <2>3. index' = Replay(SubSeq(wal, 1, k))
    BY <1>1 DEF Found
  <2> QED BY <2>2, <2>3
<1>8. ASSUME Exact PROVE Exact'
  <2>1. \A j \in 0 .. k : Replay(SubSeq(wal', 1, j)) \in Log
    <3> SUFFICES ASSUME NEW j \in 0 .. k PROVE Replay(SubSeq(wal', 1, j)) \in Log
      OBVIOUS
    <3>1. SubSeq(wal', 1, j) = SubSeq(wal, 1, j)
      BY <1>6
    <3>2. j \in 0 .. Len(wal)
      BY <1>2
    <3>3. Replay(SubSeq(wal, 1, j)) \in Log
      BY <1>8, <3>2 DEF Exact, Found
    <3> QED BY <3>1, <3>3
  <2>2. Replay(SubSeq(wal', 1, k)) = index'
    BY <1>7
  <2> QED BY <1>4, <2>1, <2>2 DEF Exact, ReplayIsIndex, Found
<1>9. Store!Recover
  <2>1. index' \in {Found(j) : j \in synced .. Len(wal)}
    BY <1>1
  <2>2. {Found(j) : j \in synced .. Len(wal)}' = {index'}
    <3>1. {Found(j) : j \in synced .. Len(wal)}' =
                {Replay(SubSeq(wal', 1, j)) : j \in k .. k}
      BY <1>1, <1>4 DEF Found
    <3>2. k .. k = {k}
      BY <1>2
    <3> QED BY <1>7, <3>1, <3>2
  <2> QED BY <1>1, <2>1, <2>2 DEF Store!Recover
<1> QED BY <1>4, <1>5, <1>8, <1>9 DEF WalInv

-----------------------------------------------------------------------------
(* The theorems. *)

(* The start has the invariant, and is a start of LogStore. *)
LEMMA InitStep == Init => WalInv /\ Store!Init
<1> SUFFICES ASSUME Init PROVE WalInv /\ Store!Init
  OBVIOUS
<1>1. index = EmptyLog /\ wal = << >> /\ synced = 0 /\ failed = FALSE
  BY DEF Init
<1>2. wal \in Seq(WalRecord) /\ Len(wal) = 0
  BY <1>1, EmptySeq
<1>3. TypeOK
  <2>1. index \in Log /\ failed \in BOOLEAN
    BY <1>1, EmptyLogTyped
  <2>2. synced \in 0 .. Len(wal)
    BY <1>1, <1>2
  <2> QED BY <2>1, <2>2 DEF TypeOK
<1>4. Found(0) = EmptyLog
  <2>1. SubSeq(wal, 1, 0) = << >>
    BY SubSeqEmpty
  <2>2. Replay(<< >>) = EmptyLog
    BY <1>1, <1>2, ReplayUnfolds
  <2> QED BY <2>1, <2>2 DEF Found
<1>5. Exact
  <2>1. 0 .. Len(wal) = {0}
    BY <1>2
  <2> QED BY <1>1, <1>2, <1>4, <2>1, EmptyLogTyped DEF Exact, ReplayIsIndex
<1>6. Store!Init
  <2>1. {Found(k) : k \in synced .. Len(wal)} = {EmptyLog}
    <3>1. synced .. Len(wal) = {0}
      BY <1>1, <1>2
    <3> QED BY <1>4, <3>1
  <2>2. Store!EmptyLog = EmptyLog
    BY DEF Store!EmptyLog, EmptyLog
  <2> QED BY <1>1, <2>1, <2>2 DEF Store!Init
<1> QED BY <1>2, <1>3, <1>5, <1>6 DEF WalInv

(* A step keeps the invariant and, as long as truncate_before spares a live *)
(* tail, is a step of LogStore.                                             *)
LEMMA NextStep ==
    ASSUME WalInv, Next
    PROVE  WalInv' /\ (SparesTail => Store!Next)
<1>1. ASSUME NEW batch \in Batches, AppendBatch(batch)
      PROVE  WalInv' /\ (SparesTail => Store!Next)
  BY <1>1, AppendBatchStep DEF Store!Next
<1>2. ASSUME NEW from \in 1 .. MaxIndex, TruncateFrom(from)
      PROVE  WalInv' /\ (SparesTail => Store!Next)
  <2>1. Store!LastIndex(index) = LastIndex(index)
    BY DEF Store!LastIndex, LastIndex
  <2> QED BY <1>2, <2>1, TruncateStep DEF Store!Next
<1>3. ASSUME NEW hard \in HardStates, Persist(hard)
      PROVE  WalInv' /\ (SparesTail => Store!Next)
  BY <1>3, PersistStep DEF Store!Next
<1>4. ASSUME NEW snap \in Snapshots, Compact(snap)
      PROVE  WalInv' /\ (SparesTail => Store!Next)
  BY <1>4, CompactStep DEF Store!Next
<1>5. ASSUME Sync PROVE WalInv' /\ (SparesTail => Store!Next)
  BY <1>5, SyncStep DEF Store!Next
<1>6. ASSUME Reopen PROVE WalInv' /\ (SparesTail => Store!Next)
  BY <1>6, ReopenStep DEF Store!Next
<1> QED BY <1>1, <1>2, <1>3, <1>4, <1>5, <1>6 DEF Next

(* Stuttering keeps everything. *)
LEMMA StutterStep ==
    ASSUME WalInv, UNCHANGED vars
    PROVE  /\ WalInv'
           /\ UNCHANGED <<index, {Found(k) : k \in synced .. Len(wal)}, failed>>
BY DEF vars, WalInv, TypeOK, Exact, ReplayIsIndex, Found

(* The invariant holds in every reachable state. *)
THEOREM WalInvariance == Spec => []WalInv
<1>1. Init => WalInv
  BY InitStep
<1>2. WalInv /\ [Next]_vars => WalInv'
  BY NextStep, StutterStep
<1> QED BY <1>1, <1>2, PTL DEF Spec

(* The index is always a log, whatever compaction drops and wherever a      *)
(* crash or an error comes.                                                 *)
THEOREM WalTypeCorrect == Spec => []TypeOK
<1>1. WalInv => TypeOK
  BY DEF WalInv
<1> QED BY <1>1, WalInvariance, PTL

(* src/wal_log.rs:18: replay rebuilds the index exactly, if compaction      *)
(* never frees the records of entries beyond the snapshot.                  *)
THEOREM ReplayExact ==
    ASSUME SparesTail PROVE Spec => []ReplayIsIndex
<1>1. WalInv => ReplayIsIndex
  BY DEF WalInv, Exact
<1> QED BY <1>1, WalInvariance, PTL

(* Under the same condition the log promises its node what LogStore states: *)
(* a crash between any two records of an operation, or an error in it,      *)
(* leaves one of the logs it has been since the last sync.                  *)
THEOREM WalImplementsStore ==
    ASSUME SparesTail PROVE Spec => ImplementsStore
<1>1. Init => Store!Init
  BY InitStep
<1>2. WalInv /\ [Next]_vars =>
        [Store!Next]_<<index, {Found(k) : k \in synced .. Len(wal)}, failed>>
  BY NextStep, StutterStep
<1> QED BY <1>1, <1>2, WalInvariance, PTL DEF Spec, ImplementsStore, Store!Spec

=============================================================================
