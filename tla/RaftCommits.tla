---------------------------- MODULE RaftCommits ----------------------------
(***************************************************************************)
(* Why what is committed stays.  No variable records what the argument is  *)
(* about: the log each leader made in its term, the log of each node as it *)
(* was before compaction, and what each server has acknowledged.  So the   *)
(* invariant says that there are such logs and acknowledgements, and every *)
(* step is shown to lead from some to some.  What a cluster promises about *)
(* committed entries, snapshots and progress follows from it.              *)
(***************************************************************************)
EXTENDS RaftDeeds

-----------------------------------------------------------------------------
(* The logs that leaders made: l[t] is that of the leader of term t. *)

(* s is r up to k. *)
Keeps(s, r, k) ==
    k <= Len(s) /\ k <= Len(r) /\ \A j \in 1 .. k : s[j] = r[j]

(* Each entry of s came, with all before it, from the leader of its term.   *)
Grown(l, s, top) ==
    \A k \in 1 .. Len(s) :
        /\ s[k].term \in DOMAIN l
        /\ s[k].term <= top
        /\ Keeps(s, l[s[k].term], k)

Made(l) ==
    /\ DOMAIN l \subseteq Nat \ {0}
    /\ \A t \in DOMAIN l : l[t] \in Seq(LogEntry) /\ Grown(l, l[t], t)

(* A majority has acknowledged, in term t, an entry of term t at k. *)
Chosen(l, a, t, k) ==
    /\ t \in DOMAIN l
    /\ k \in 1 .. Len(l[t])
    /\ l[t][k].term = t
    /\ \E Q \in Majorities : \A q \in Q : Acked(a, q, t, k)

(* The leaders between t and u have kept the log of t up to k. *)
Handed(l, t, k, u) ==
    \A w \in DOMAIN l : t < w /\ w < u => Keeps(l[w], l[t], k)

(* The log s, of term u, keeps what q acknowledged in earlier terms and the *)
(* leaders up to u have kept.                                               *)
Backs(l, a, q, u, s) ==
    \A b \in a : b.server = q /\ b.term < u =>
        \A k \in 1 .. b.index :
            l[b.term][k].term = b.term /\ Handed(l, b.term, k, u) =>
                Keeps(s, l[b.term], k)

(* The entries of s up to x were chosen, in a term no later than top. *)
Decided(l, a, s, x, top) ==
    \/ x = 0
    \/ \E t \in DOMAIN l :
            /\ t <= top
            /\ \E k \in 1 .. Len(l[t]) :
                    Chosen(l, a, t, k) /\ x <= k /\ Keeps(s, l[t], x)

(* The entries of s up to x are on record as committed. *)
Claimed(c, s, x) == \A k \in 1 .. x : \E h \in c : h.index = k /\ h.entry = s[k]

(* Acknowledgements are of logs there are. *)
Heard(l, a) ==
    \A b \in a : /\ b.server \in Server
                 /\ b.term \in DOMAIN l
                 /\ b.index \in Nat
                 /\ b.index <= Len(l[b.term])

(* Server q has reached term u, and the log s of that term keeps its word.  *)
Supports(N, l, a, q, u, s) == N[q].current_term >= u /\ Backs(l, a, q, u, s)

(* Every leader has the support of a majority. *)
Backed(l, a, N) ==
    \A u \in DOMAIN l : \E Q \in Majorities :
        \A q \in Q : Supports(N, l, a, q, u, l[u])

(* Leader completeness: a leader has what was chosen before its term.       *)
Complete(l, a) ==
    \A t \in DOMAIN l : \A k \in 1 .. Len(l[t]) :
        Chosen(l, a, t, k) => \A u \in DOMAIN l : t <= u => Keeps(l[u], l[t], k)

LEMMA EntryTerm ==
    ASSUME NEW s \in Seq(LogEntry)
    PROVE  Len(s) \in Nat /\ \A k \in 1 .. Len(s) : s[k] \in LogEntry /\ s[k].term \in Nat
BY LenProperties, ElementOfSeq, EntryFields

(* Logs that have the same term at an index are the same up to it. *)
LEMMA SameTermKeeps ==
    ASSUME NEW l, NEW s \in Seq(LogEntry), NEW r \in Seq(LogEntry), NEW c, NEW d,
           Grown(l, s, c), Grown(l, r, d), NEW k, k \in 1 .. Len(s), k \in 1 .. Len(r),
           s[k].term = r[k].term
    PROVE  Keeps(s, r, k)
<1>1. Keeps(s, l[s[k].term], k) /\ Keeps(r, l[s[k].term], k)
  BY DEF Grown
<1> QED BY <1>1 DEF Keeps

(* Terms rise. *)
LEMMA GrownRises ==
    ASSUME NEW l, Made(l), NEW s \in Seq(LogEntry), NEW c, Grown(l, s, c),
           NEW k \in 1 .. Len(s), NEW j \in 1 .. k
    PROVE  s[j].term <= s[k].term
<1> DEFINE w == s[k].term
<1>1. w \in DOMAIN l /\ Keeps(s, l[w], k)
  BY DEF Grown
<1>2. Len(s) \in Nat /\ l[w] \in Seq(LogEntry) /\ Grown(l, l[w], w)
  BY <1>1, EntryTerm DEF Made
<1>3. Len(l[w]) \in Nat
  BY <1>2, EntryTerm
<1> HIDE DEF w
<1>4. j \in 1 .. Len(l[w]) /\ s[j] = l[w][j]
  BY <1>1, <1>2, <1>3 DEF Keeps
<1>5. l[w][j].term <= w
  BY <1>2, <1>4 DEF Grown
<1> QED BY <1>4, <1>5 DEF w

(* A prefix. *)
LEMMA PrefixGrown ==
    ASSUME NEW l, NEW s \in Seq(LogEntry), NEW r \in Seq(LogEntry), NEW c \in Nat, NEW d \in Nat,
           c <= d, Grown(l, s, c), Keeps(s, r, Len(r)), Made(l)
    PROVE  Grown(l, r, d)
<1>1. Len(s) \in Nat /\ Len(r) \in Nat
  BY EntryTerm
<1> SUFFICES ASSUME NEW k \in 1 .. Len(r)
             PROVE  r[k].term \in DOMAIN l /\ r[k].term <= d /\ Keeps(r, l[r[k].term], k)
  BY DEF Grown
<1>2. k \in 1 .. Len(s) /\ r[k] = s[k]
  BY <1>1 DEF Keeps
<1>3. s[k].term \in DOMAIN l /\ s[k].term <= c /\ Keeps(s, l[s[k].term], k)
  BY <1>2 DEF Grown
<1>4. s[k].term \in Nat
  BY <1>2, EntryTerm
<1>5. Keeps(r, l[s[k].term], k)
  BY <1>1, <1>3 DEF Keeps
<1> QED BY <1>2, <1>3, <1>4, <1>5

(* Whoever leads later has asked a majority, and one of it has acknowledged *)
(* what was chosen: the smallest term that did not keep it would have.      *)
LEMMA ChosenStays ==
    ASSUME FixedMembership, NEW l, NEW a, NEW N, Made(l), Backed(l, a, N)
    PROVE  Complete(l, a)
<1> SUFFICES ASSUME NEW t \in DOMAIN l, NEW k \in 1 .. Len(l[t]), Chosen(l, a, t, k),
                    {u \in DOMAIN l : t <= u /\ ~ Keeps(l[u], l[t], k)} # {}
             PROVE  FALSE
  BY DEF Complete
<1> DEFINE bad == {u \in DOMAIN l : t <= u /\ ~ Keeps(l[u], l[t], k)}
<1>1. bad \subseteq Nat /\ DOMAIN l \subseteq Nat
  BY DEF Made
<1>2. PICK u \in bad : \A w \in bad : u <= w
  BY <1>1, SmallestExists
<1>3. u \in DOMAIN l /\ t <= u /\ ~ Keeps(l[u], l[t], k) /\ t \in Nat /\ u \in Nat
  BY <1>1, <1>2
<1>4. Len(l[t]) \in Nat
  BY EntryTerm DEF Made
<1>5. t < u
  <2>1. Keeps(l[t], l[t], k)
    BY <1>4 DEF Keeps
  <2> QED BY <1>3, <2>1
<1>6. Handed(l, t, k, u)
  <2> SUFFICES ASSUME NEW w \in DOMAIN l, t < w, w < u, ~ Keeps(l[w], l[t], k)
               PROVE  FALSE
    BY DEF Handed
  <2>1. w \in Nat
    BY <1>1
  <2>2. w \in bad
    BY <1>3, <2>1
  <2> QED BY <1>2, <1>3, <2>1, <2>2
<1>7. PICK Q \in Majorities : \A q \in Q : Acked(a, q, t, k)
  BY DEF Chosen
<1>8. PICK R \in Majorities : \A q \in R : Backs(l, a, q, u, l[u])
  BY <1>3 DEF Backed, Supports
<1>9. PICK q : q \in Q /\ q \in R
  BY MajoritiesMeet
<1>10. PICK b \in a : b.server = q /\ b.term = t /\ k <= b.index
  <2>1. k # 0 /\ Acked(a, q, t, k)
    BY <1>4, <1>7, <1>9
  <2> QED BY <2>1 DEF Acked
<1>11. Backs(l, a, q, u, l[u])
  BY <1>8, <1>9
<1>12. k \in 1 .. b.index
  BY <1>4, <1>10
<1>13. l[b.term][k].term = b.term /\ Handed(l, b.term, k, u)
  BY <1>6, <1>10 DEF Chosen
<1>14. Keeps(l[u], l[b.term], k)
  BY <1>5, <1>10, <1>11, <1>12, <1>13 DEF Backs
<1> QED BY <1>3, <1>10, <1>14

(* What is decided in s and what is decided in a leader's log is the same.  *)
LEMMA DecidedKept ==
    ASSUME NEW l, NEW a, Made(l), Complete(l, a), NEW s, NEW x \in Nat, NEW top \in Nat,
           Decided(l, a, s, x, top), NEW u \in DOMAIN l, top <= u
    PROVE  Keeps(l[u], s, x)
<1>1. CASE x = 0
  <2>1. Len(l[u]) \in Nat
    BY EntryTerm DEF Made
  <2> QED BY <1>1, <2>1 DEF Keeps
<1>2. CASE x # 0
  <2>1. PICK t \in DOMAIN l : /\ t <= top
                              /\ \E k \in 1 .. Len(l[t]) :
                                    Chosen(l, a, t, k) /\ x <= k /\ Keeps(s, l[t], x)
    BY <1>2 DEF Decided
  <2>2. PICK k \in 1 .. Len(l[t]) : Chosen(l, a, t, k) /\ x <= k /\ Keeps(s, l[t], x)
    BY <2>1
  <2>3. t \in Nat /\ u \in Nat /\ Len(l[t]) \in Nat /\ Len(l[u]) \in Nat
    BY EntryTerm DEF Made
  <2>4. t <= u
    BY <2>1, <2>3
  <2>5. Keeps(l[u], l[t], k)
    BY <2>2, <2>4 DEF Complete
  <2> QED BY <2>2, <2>3, <2>5 DEF Keeps
<1> QED BY <1>1, <1>2

-----------------------------------------------------------------------------
(* Leaders' logs get longer, and new ones are added. *)

(* r has all that l has; what it has more of a term is of that term. *)
Longer(l, r) ==
    /\ DOMAIN l \subseteq DOMAIN r
    /\ \A t \in DOMAIN l :
            /\ Keeps(r[t], l[t], Len(l[t]))
            /\ \A k \in Len(l[t]) + 1 .. Len(r[t]) : r[t][k].term = t

LEMMA LongerKeeps ==
    ASSUME NEW l, NEW r, Made(l), Longer(l, r), NEW t \in DOMAIN l, NEW s,
           NEW k \in Nat, Keeps(s, l[t], k)
    PROVE  t \in DOMAIN r /\ Keeps(s, r[t], k)
<1>1. Len(l[t]) \in Nat /\ Keeps(r[t], l[t], Len(l[t])) /\ t \in DOMAIN r
  BY EntryTerm DEF Made, Longer
<1>2. \A j \in 1 .. k : j \in 1 .. Len(l[t])
  BY <1>1 DEF Keeps
<1>3. \A j \in 1 .. k : s[j] = r[t][j]
  BY <1>1, <1>2 DEF Keeps
<1> QED BY <1>1, <1>3 DEF Keeps

LEMMA LongerGrown ==
    ASSUME NEW l, NEW r, Made(l), Longer(l, r), NEW s \in Seq(LogEntry),
           NEW c \in Nat, NEW d \in Nat, c <= d, Grown(l, s, c)
    PROVE  Grown(r, s, d)
<1> SUFFICES ASSUME NEW k \in 1 .. Len(s)
             PROVE  s[k].term \in DOMAIN r /\ s[k].term <= d /\ Keeps(s, r[s[k].term], k)
  BY DEF Grown
<1>1. s[k].term \in DOMAIN l /\ s[k].term <= c /\ Keeps(s, l[s[k].term], k)
  BY DEF Grown
<1>2. s[k].term \in Nat
  BY EntryTerm
<1>3. s[k].term \in DOMAIN r /\ Keeps(s, r[s[k].term], k)
  BY <1>1, LongerKeeps
<1> QED BY <1>1, <1>2, <1>3

LEMMA LongerChosen ==
    ASSUME NEW l, NEW r, Made(l), Made(r), Longer(l, r), NEW a, NEW b, a \subseteq b,
           NEW t, NEW k, Chosen(l, a, t, k)
    PROVE  Chosen(r, b, t, k)
<1>1. t \in DOMAIN l /\ t \in DOMAIN r /\ k \in 1 .. Len(l[t]) /\ l[t][k].term = t
  BY DEF Chosen, Longer
<1>2. Len(l[t]) \in Nat /\ Len(r[t]) \in Nat /\ Keeps(r[t], l[t], Len(l[t]))
  BY <1>1, EntryTerm DEF Made, Longer
<1>3. k \in 1 .. Len(r[t]) /\ r[t][k] = l[t][k]
  BY <1>1, <1>2 DEF Keeps
<1>4. PICK Q \in Majorities : \A q \in Q : Acked(a, q, t, k)
  BY DEF Chosen
<1>5. \A q \in Q : Acked(b, q, t, k)
  BY <1>4 DEF Acked
<1> QED BY <1>1, <1>3, <1>4, <1>5 DEF Chosen

LEMMA LongerDecided ==
    ASSUME NEW l, NEW r, Made(l), Made(r), Longer(l, r), NEW a, NEW b, a \subseteq b,
           NEW s, NEW s2, NEW x \in Nat, NEW y \in Nat, y <= x, Keeps(s2, s, y),
           NEW c \in Nat, NEW d \in Nat, c <= d, Decided(l, a, s, x, c)
    PROVE  Decided(r, b, s2, y, d)
<1>1. CASE x = 0
  BY <1>1 DEF Decided
<1>2. CASE x # 0
  <2>1. PICK t \in DOMAIN l : /\ t <= c
                              /\ \E k \in 1 .. Len(l[t]) :
                                    Chosen(l, a, t, k) /\ x <= k /\ Keeps(s, l[t], x)
    BY <1>2 DEF Decided
  <2>2. PICK k \in 1 .. Len(l[t]) : Chosen(l, a, t, k) /\ x <= k /\ Keeps(s, l[t], x)
    BY <2>1
  <2>3. t \in Nat /\ Len(l[t]) \in Nat
    BY EntryTerm DEF Made
  <2>4. Keeps(s2, l[t], y)
    BY <2>2, <2>3 DEF Keeps
  <2>5. t \in DOMAIN r /\ Keeps(s2, r[t], y) /\ Chosen(r, b, t, k)
    BY <2>2, <2>4, LongerKeeps, LongerChosen
  <2>6. k \in 1 .. Len(r[t])
    BY <2>5 DEF Chosen
  <2>7. t <= d /\ y <= k
    BY <2>1, <2>2, <2>3
  <2> QED BY <2>5, <2>6, <2>7 DEF Decided
<1> QED BY <1>1, <1>2

(* A longer log of a term gains nothing that earlier leaders had. *)
LEMMA HandedBack ==
    ASSUME NEW l, NEW r, Made(l), Made(r), Longer(l, r), NEW t \in DOMAIN l, NEW k \in 1 .. Len(l[t]),
           NEW u, NEW v, Handed(r, t, k, u),
           \A w \in DOMAIN l : w < v => w < u
    PROVE  Handed(l, t, k, v)
<1> SUFFICES ASSUME NEW w \in DOMAIN l, t < w, w < v PROVE Keeps(l[w], l[t], k)
  BY DEF Handed
<1>1. /\ l[t] \in Seq(LogEntry) /\ l[w] \in Seq(LogEntry) /\ r[w] \in Seq(LogEntry)
      /\ w \in Nat /\ t \in Nat /\ w \in DOMAIN r /\ t \in DOMAIN r
  BY DEF Made, Longer
<1>2. Len(l[t]) \in Nat /\ Len(l[w]) \in Nat /\ Len(r[w]) \in Nat
  BY <1>1, EntryTerm
<1>3. Keeps(r[w], r[t], k)
  BY <1>1 DEF Handed
<1>4. Keeps(r[t], l[t], Len(l[t])) /\ Keeps(r[w], l[w], Len(l[w]))
  BY DEF Longer
<1>5. Keeps(r[w], l[t], k)
  BY <1>2, <1>3, <1>4 DEF Keeps
<1>6. CASE k <= Len(l[w])
  BY <1>2, <1>4, <1>5, <1>6 DEF Keeps
<1>7. CASE k > Len(l[w])
  <2>1. k \in Len(l[w]) + 1 .. Len(r[w])
    BY <1>2, <1>5, <1>7 DEF Keeps
  <2>2. r[w][k].term = w /\ r[w][k] = l[t][k]
    BY <1>2, <1>5, <2>1 DEF Longer, Keeps
  <2>3. l[t][k].term <= t
    BY DEF Made, Grown
  <2> QED BY <1>1, <2>2, <2>3
<1> QED BY <1>2, <1>6, <1>7

(* Backing lasts, when what is newly acknowledged is so in a later term.    *)
LEMMA BacksOn ==
    ASSUME NEW l, NEW r, Made(l), Made(r), Longer(l, r), NEW a, NEW b, Heard(l, a),
           NEW q, NEW u, \A x \in b : x.server = q /\ x.term < u => x \in a,
           NEW s, NEW s2, Backs(l, a, q, u, s), Keeps(s2, s, Len(s)), s \in Seq(LogEntry)
    PROVE  Backs(r, b, q, u, s2)
<1> SUFFICES ASSUME NEW x \in b, x.server = q, x.term < u, NEW k \in 1 .. x.index,
                    r[x.term][k].term = x.term, Handed(r, x.term, k, u)
             PROVE  Keeps(s2, r[x.term], k)
  BY DEF Backs
<1> DEFINE t == x.term
<1>1. x \in a /\ t \in DOMAIN l /\ x.index \in Nat /\ x.index <= Len(l[t])
  BY DEF Heard
<1>2. Len(l[t]) \in Nat /\ Len(s) \in Nat
  BY <1>1, EntryTerm DEF Made
<1>3. k \in 1 .. Len(l[t])
  BY <1>1, <1>2
<1>4. l[t][k].term = t
  BY <1>1, <1>2, <1>3 DEF Longer, Keeps
<1>5. Handed(l, t, k, u)
  BY <1>1, <1>3, HandedBack
<1>6. Keeps(s, l[t], k)
  BY <1>1, <1>4, <1>5 DEF Backs
<1>7. Keeps(s2, l[t], k)
  BY <1>2, <1>6 DEF Keeps
<1> QED BY <1>1, <1>7, LongerKeeps

-----------------------------------------------------------------------------
(* Votes. *)

(* The term of the last entry. *)
EndTerm(s) == IF Len(s) = 0 THEN 0 ELSE s[Len(s)].term

LEMMA EndTermRead ==
    ASSUME NEW s \in Seq(LogEntry), NEW log \in Log, Holding(log, s)
    PROVE  LastTerm(log) = EndTerm(s)
<1>1. /\ LastIndex(log) \in Span(log) /\ Len(s) \in Nat /\ LastIndex(log) = Len(s)
      /\ LastTerm(log) = TermAt(log, LastIndex(log))
  BY LogFields, LogIsPiece, PieceFields, EntryTerm
     DEF Holding, LastTerm, TermAt, HasEntry, EntryAt, LastIndex
<1>2. \A k \in Span(log) : /\ k > 0 => TermAt(log, k) = s[k].term
                           /\ k = 0 => TermAt(log, k) = 0
  BY LogIsPiece, PartReads DEF Holding
<1> QED BY <1>1, <1>2 DEF EndTerm

(* The vote goes to a log that is up to date: one that keeps what the voter *)
(* has acknowledged, if the leaders in between have.                        *)
LEMMA UpToDateKeeps ==
    ASSUME NEW l, Made(l), NEW s \in Seq(LogEntry), NEW r \in Seq(LogEntry),
           NEW c, NEW u \in Nat, u \notin DOMAIN l, Grown(l, s, c), Grown(l, r, u),
           \/ EndTerm(r) > EndTerm(s)
           \/ EndTerm(r) = EndTerm(s) /\ Len(r) >= Len(s),
           NEW t \in DOMAIN l, NEW k \in 1 .. Len(l[t]), l[t][k].term = t,
           Keeps(s, l[t], k), Handed(l, t, k, u)
    PROVE  Keeps(r, l[t], k)
<1> DEFINE x == Len(s)
           y == Len(r)
           v == r[y].term
           w == s[x].term
<1>1. /\ x \in Nat /\ y \in Nat /\ Len(l[t]) \in Nat /\ t \in Nat /\ t > 0
      /\ l[t] \in Seq(LogEntry)
  BY EntryTerm DEF Made
<1>2. k \in 1 .. x /\ s[k].term = t
  BY <1>1 DEF Keeps
<1>3. w \in Nat /\ w \in DOMAIN l /\ t <= w /\ EndTerm(s) = w
  <2>1. x \in 1 .. x /\ k \in 1 .. x
    BY <1>1, <1>2
  <2>2. s[k].term <= s[x].term
    BY <2>1, GrownRises
  <2>3. w \in Nat
    BY <2>1, EntryTerm
  <2> QED BY <1>2, <2>1, <2>2, <2>3 DEF EndTerm, Grown
<1>4. y \in 1 .. y /\ v \in Nat /\ EndTerm(r) = v /\ v >= w
  <2>1. EndTerm(r) >= w
    BY <1>3, EntryTerm DEF EndTerm
  <2>2. y # 0
    BY <1>1, <1>3, <2>1 DEF EndTerm
  <2> QED BY <1>1, <1>3, <2>1, <2>2, EntryTerm DEF EndTerm
<1>5. v \in DOMAIN l /\ v <= u /\ Keeps(r, l[v], y)
  BY <1>4 DEF Grown
<1>6. v < u
  BY <1>4, <1>5
<1>7. CASE v = w
  <2>1. y >= x /\ x \in 1 .. x
    BY <1>1, <1>2, <1>3, <1>4, <1>7
  <2>2. Keeps(s, l[v], x)
    BY <1>7, <2>1 DEF Grown
  <2>3. Keeps(r, s, x)
    BY <1>1, <1>5, <2>1, <2>2 DEF Keeps
  <2> QED BY <1>1, <1>2, <2>3 DEF Keeps
<1>8. CASE v > w
  <2>1. Keeps(l[v], l[t], k)
    BY <1>1, <1>3, <1>4, <1>5, <1>6, <1>8 DEF Handed
  <2>2. k <= y
    <3> SUFFICES ASSUME y < k PROVE FALSE
      BY <1>1
    <3>1. y \in 1 .. Len(l[t]) /\ y \in 1 .. k
      BY <1>1, <1>4
    <3>2. l[v][y] = l[t][y] /\ l[v][y] = r[y]
      BY <1>4, <1>5, <2>1, <3>1 DEF Keeps
    <3>3. l[t][y].term <= t
      BY <3>1 DEF Made, Grown
    <3> QED BY <1>1, <1>3, <1>4, <1>8, <3>2, <3>3
  <2> QED BY <1>1, <1>5, <2>1, <2>2 DEF Keeps
<1> QED BY <1>3, <1>4, <1>7, <1>8

-----------------------------------------------------------------------------
(* The whole log of a node, after its step. *)

(* A piece of a log is one of the log as it grows. *)
LEMMA LongerPart ==
    ASSUME NEW s \in Seq(LogEntry), NEW r \in Seq(LogEntry), Keeps(r, s, Len(s)),
           NEW a, IsPiece(a), Part(a, Whole(s))
    PROVE  Part(a, Whole(r))
<1>1. /\ Span(Whole(s)) = 0 .. Len(s) /\ Span(Whole(r)) = 0 .. Len(r)
      /\ Len(s) \in Nat /\ Len(r) \in Nat /\ Len(s) <= Len(r)
  BY WholeFields DEF Keeps
<1>2. /\ \A k \in 1 .. Len(s) : /\ EntryAt(Whole(s), k) = s[k]
                                /\ TermAt(Whole(s), k) = s[k].term
      /\ \A k \in 1 .. Len(r) : /\ EntryAt(Whole(r), k) = r[k]
                                /\ TermAt(Whole(r), k) = r[k].term
      /\ TermAt(Whole(s), 0) = 0 /\ TermAt(Whole(r), 0) = 0
      /\ \A k : HasEntry(Whole(s), k) <=> k \in 1 .. Len(s)
      /\ \A k : HasEntry(Whole(r), k) <=> k \in 1 .. Len(r)
  BY WholeFields
<1>3. Span(a) \subseteq 0 .. Len(s) /\ \A k \in Span(a) : Same(a, Whole(s), k)
  BY <1>1 DEF Part
<1>4. \A k \in 1 .. Len(s) : k \in 1 .. Len(r) /\ s[k] = r[k]
  BY <1>1 DEF Keeps
<1>5. \A k : HasEntry(a, k) => k \in 1 .. Len(s)
  BY PartReads
<1>6. ASSUME NEW k \in Span(a) PROVE Same(a, Whole(r), k)
  <2>1. k = 0 \/ k \in 1 .. Len(s)
    BY <1>1, <1>3
  <2>2. TermAt(Whole(r), k) = TermAt(Whole(s), k)
    BY <1>2, <1>4, <2>1
  <2>3. HasEntry(a, k) => HasEntry(Whole(s), k) /\ EntryAt(Whole(r), k) = EntryAt(Whole(s), k)
    BY <1>2, <1>4, <1>5
  <2> QED BY <1>3, <2>2, <2>3 DEF Same
<1>7. Span(a) \subseteq Span(Whole(r)) /\ Whole(r).base_index <= a.base_index
  BY <1>1, <1>3, PieceFields DEF Whole
<1> QED BY <1>6, <1>7 DEF Part

(* And of a prefix it ends in. *)
LEMMA PrefixPart ==
    ASSUME NEW s \in Seq(LogEntry), NEW a, IsPiece(a), Part(a, Whole(s)),
           NEW r \in Seq(LogEntry), Len(r) = LastIndex(a), Keeps(s, r, Len(r))
    PROVE  Part(a, Whole(r))
<1>1. /\ Span(Whole(s)) = 0 .. Len(s) /\ Span(Whole(r)) = 0 .. Len(r)
      /\ Len(s) \in Nat /\ Len(r) \in Nat /\ Len(r) <= Len(s)
  BY WholeFields DEF Keeps
<1>2. /\ \A k \in 1 .. Len(s) : /\ EntryAt(Whole(s), k) = s[k]
                                /\ TermAt(Whole(s), k) = s[k].term
      /\ \A k \in 1 .. Len(r) : /\ EntryAt(Whole(r), k) = r[k]
                                /\ TermAt(Whole(r), k) = r[k].term
      /\ TermAt(Whole(s), 0) = 0 /\ TermAt(Whole(r), 0) = 0
      /\ \A k : HasEntry(Whole(s), k) <=> k \in 1 .. Len(s)
      /\ \A k : HasEntry(Whole(r), k) <=> k \in 1 .. Len(r)
  BY WholeFields
<1>3. \A k \in Span(a) : Same(a, Whole(s), k)
  BY DEF Part
<1>4. \A k \in 1 .. Len(r) : k \in 1 .. Len(s) /\ s[k] = r[k]
  BY <1>1 DEF Keeps
<1>5. Span(a) \subseteq 0 .. Len(r) /\ a.base_index \in Nat
  BY <1>1, PieceFields DEF Span
<1>6. ASSUME NEW k \in Span(a) PROVE Same(a, Whole(r), k)
  <2>1. k = 0 \/ k \in 1 .. Len(r)
    BY <1>1, <1>5
  <2>2. TermAt(Whole(r), k) = TermAt(Whole(s), k)
    BY <1>2, <1>4, <2>1
  <2>3. HasEntry(Whole(r), k) => HasEntry(Whole(s), k) /\ EntryAt(Whole(r), k) = EntryAt(Whole(s), k)
    BY <1>2, <1>4
  <2> QED BY <1>3, <2>2, <2>3 DEF Same
<1>7. Span(a) \subseteq Span(Whole(r)) /\ Whole(r).base_index <= a.base_index
  BY <1>1, <1>5 DEF Whole
<1> QED BY <1>6, <1>7 DEF Part

(* A splice of two logs that are the same where their terms are. *)
LEMMA SplicedPart ==
    ASSUME NEW s \in Seq(LogEntry), NEW r \in Seq(LogEntry),
           \A k : k \in 1 .. Len(s) /\ k \in 1 .. Len(r) /\ s[k].term = r[k].term
                    => Keeps(s, r, k),
           NEW a, NEW f, NEW c, IsPiece(a), IsPiece(f), IsPiece(c),
           Part(a, Whole(s)), Part(f, Whole(r)), Spliced(c, a, f)
    PROVE  Part(c, Whole(r))
<1>1. PICK j \in Span(a) \cap Span(f) :
        /\ TermAt(a, j) = TermAt(f, j)
        /\ a.base_index <= f.base_index
        /\ c.base_index = a.base_index
        /\ LastIndex(c) = LastIndex(f)
        /\ \A k \in Span(c) : IF k <= j THEN Same(c, a, k) ELSE Same(c, f, k)
  BY DEF Spliced
<1>2. /\ j \in Nat /\ a.base_index \in Nat /\ LastIndex(a) \in Nat
      /\ f.base_index \in Nat /\ LastIndex(f) \in Nat
      /\ a.base_index <= j /\ j <= LastIndex(a)
      /\ f.base_index <= j /\ j <= LastIndex(f)
  BY PieceFields DEF Span
<1>3. /\ Len(s) \in Nat /\ Len(r) \in Nat
      /\ LastIndex(f) <= Len(r)
      /\ \A k \in Span(a) : /\ k \in 0 .. Len(s)
                            /\ k > 0 => TermAt(a, k) = s[k].term
                            /\ k = 0 => TermAt(a, k) = 0
      /\ \A k : HasEntry(a, k) => k \in 1 .. Len(s) /\ EntryAt(a, k) = s[k]
      /\ \A k \in Span(f) : /\ k \in 0 .. Len(r)
                            /\ k > 0 => TermAt(f, k) = r[k].term
                            /\ k = 0 => TermAt(f, k) = 0
      /\ \A k : HasEntry(f, k) => k \in 1 .. Len(r) /\ EntryAt(f, k) = r[k]
  BY EntryTerm, PartReads
<1>4. \A k \in 1 .. j : k \in 1 .. Len(s) /\ k \in 1 .. Len(r) /\ s[k] = r[k]
  <2>1. CASE j = 0
    BY <2>1
  <2>2. CASE j > 0
    <3>1. j \in 1 .. Len(s) /\ j \in 1 .. Len(r) /\ s[j].term = r[j].term
      BY <1>1, <1>2, <1>3, <2>2
    <3>2. Keeps(s, r, j)
      BY <3>1
    <3> QED BY <1>2, <1>3, <3>1, <3>2 DEF Keeps
  <2> QED BY <1>2, <2>1, <2>2
<1>5. /\ Span(Whole(r)) = 0 .. Len(r) /\ TermAt(Whole(r), 0) = 0
      /\ \A k : HasEntry(Whole(r), k) <=> k \in 1 .. Len(r)
      /\ \A k \in 1 .. Len(r) : /\ EntryAt(Whole(r), k) = r[k]
                                /\ TermAt(Whole(r), k) = r[k].term
  BY WholeFields
<1>6. \A k \in Span(c) : k \in Nat /\ a.base_index <= k /\ k <= LastIndex(f)
  BY <1>1, PieceFields DEF Span
<1>7. ASSUME NEW k \in Span(c), k <= j PROVE Same(c, Whole(r), k)
  <2>1. k \in Span(a) /\ Same(c, a, k)
    BY <1>1, <1>2, <1>6, <1>7 DEF Span
  <2>2. k = 0 \/ k \in 1 .. j
    BY <1>2, <1>6, <1>7
  <2>3. TermAt(c, k) = TermAt(Whole(r), k)
    BY <1>3, <1>4, <1>5, <2>1, <2>2 DEF Same
  <2>4. HasEntry(c, k) => HasEntry(a, k)
    BY <1>1, <1>2, <1>6, <1>7 DEF HasEntry
  <2>5. HasEntry(c, k) => EntryAt(c, k) = s[k] /\ k \in 1 .. Len(s)
    BY <1>3, <2>1, <2>4 DEF Same
  <2>6. HasEntry(c, k) => EntryAt(c, k) = EntryAt(Whole(r), k)
    BY <1>3, <1>4, <1>5, <2>2, <2>5
  <2> QED BY <2>3, <2>6 DEF Same
<1>8. ASSUME NEW k \in Span(c), ~ (k <= j) PROVE Same(c, Whole(r), k)
  <2>1. k \in Span(f) /\ Same(c, f, k) /\ HasEntry(f, k)
    BY <1>1, <1>2, <1>6, <1>8 DEF Span, HasEntry
  <2>2. k \in 1 .. Len(r) /\ EntryAt(f, k) = r[k] /\ TermAt(f, k) = r[k].term
    BY <1>3, <2>1
  <2> QED BY <1>5, <2>1, <2>2 DEF Same
<1>9. Span(c) \subseteq Span(Whole(r))
  <2>1. \A k \in Span(c) : k \in 0 .. Len(r)
    BY <1>2, <1>3, <1>6
  <2> QED BY <1>5, <2>1
<1>10. Whole(r).base_index <= c.base_index
  BY <1>1, <1>2 DEF Whole
<1> QED BY <1>7, <1>8, <1>9, <1>10 DEF Part

(* What agrees with what a message carries is not cut off. *)
LEMMA SparesKeeps ==
    ASSUME NEW s \in Seq(LogEntry), NEW r \in Seq(LogEntry), NEW old \in Log, NEW new \in Log,
           Holding(old, s), NEW f, IsPiece(Carried(f)), Part(Carried(f), Whole(r)),
           Spares(new, old, f), NEW k \in Nat, Keeps(r, s, k)
    PROVE  k <= LastIndex(new)
<1>1. /\ Len(s) \in Nat /\ Len(r) \in Nat /\ LastIndex(new) \in Nat /\ LastIndex(old) = Len(s)
      /\ k <= Len(s) /\ k <= Len(r)
  BY EntryTerm, LogFields DEF Holding, Keeps
<1>2. CASE LastIndex(new) >= LastIndex(old)
  BY <1>1, <1>2
<1>3. ASSUME NEW y \in Span(old) \cap Span(Carried(f)), y <= LastIndex(new) + 1,
             TermAt(old, y) # TermAt(Carried(f), y)
      PROVE  k <= LastIndex(new)
  <2>1. /\ y \in 0 .. Len(s) /\ (y > 0 => TermAt(old, y) = s[y].term)
        /\ (y = 0 => TermAt(old, y) = 0)
    BY LogIsPiece, PartReads DEF Holding
  <2>2. /\ y \in 0 .. Len(r) /\ (y > 0 => TermAt(Carried(f), y) = r[y].term)
        /\ (y = 0 => TermAt(Carried(f), y) = 0)
    BY PartReads
  <2>3. y > 0 /\ s[y] # r[y]
    BY <1>1, <1>3, <2>1, <2>2
  <2>4. ~ (y <= k)
    BY <1>1, <2>1, <2>3 DEF Keeps
  <2> QED BY <1>1, <1>3, <2>1, <2>4
<1> QED BY <1>2, <1>3 DEF Spares

(* One more entry. *)
LEMMA ExtendedHolds ==
    ASSUME NEW s \in Seq(LogEntry), NEW old \in Log, NEW new \in Log, Holding(old, s),
           NEW t, Extended(new, old, t)
    PROVE  LET r == Append(s, EntryAt(new, LastIndex(new)))
           IN  /\ r \in Seq(LogEntry) /\ Len(r) = Len(s) + 1 /\ Keeps(r, s, Len(s))
               /\ r[Len(r)].term = t /\ Holding(new, r)
<1> DEFINE x == LastIndex(new)
           entry == EntryAt(new, x)
           r == Append(s, entry)
<1>1. /\ IsPiece(old) /\ IsPiece(new) /\ x \in Nat /\ LastIndex(old) \in Nat
      /\ x = LastIndex(old) + 1 /\ Len(s) \in Nat /\ LastIndex(old) = Len(s)
      /\ new.base_index = old.base_index /\ old.base_index \in Nat
      /\ old.base_index <= LastIndex(old) /\ TermAt(new, x) = t
      /\ \A k \in Span(old) : Same(new, old, k)
  BY LogIsPiece, LogFields, EntryTerm DEF Holding, Extended
<1>2. HasEntry(new, x) /\ x # new.base_index
  BY <1>1 DEF HasEntry
<1>3. entry \in LogEntry /\ entry.term = t
  <2>1. entry \in LogEntry
    BY <1>1, <1>2, PieceFields
  <2> QED BY <1>1, <1>2, <2>1 DEF TermAt
<1> HIDE DEF entry
<1>4. /\ r \in Seq(LogEntry) /\ Len(r) = Len(s) + 1 /\ r[Len(s) + 1] = entry
      /\ \A k \in 1 .. Len(s) : r[k] = s[k]
  BY <1>3, AppendProperties
<1> HIDE DEF r
<1>5. Keeps(r, s, Len(s)) /\ r[Len(r)].term = t
  BY <1>1, <1>3, <1>4 DEF Keeps
<1>6. Part(old, Whole(r))
  BY <1>1, <1>4, <1>5, LongerPart DEF Holding
<1>7. /\ Span(Whole(r)) = 0 .. Len(r)
      /\ EntryAt(Whole(r), x) = entry /\ TermAt(Whole(r), x) = t
  <2>1. x \in 1 .. Len(r) /\ r[x] = entry
    BY <1>1, <1>4
  <2> QED BY <1>3, <1>4, <2>1, WholeFields
<1>8. ASSUME NEW k \in Span(new) PROVE Same(new, Whole(r), k)
  <2>1. CASE k = x
    BY <1>1, <1>7, <2>1 DEF Same, entry
  <2>2. CASE k # x
    <3>1. k \in Span(old) /\ Same(new, old, k) /\ Same(old, Whole(r), k)
      BY <1>1, <1>6, <2>2 DEF Span, Part
    <3>2. HasEntry(new, k) => HasEntry(old, k)
      BY <1>1, <2>2 DEF HasEntry
    <3> QED BY <3>1, <3>2 DEF Same
  <2> QED BY <2>1, <2>2
<1>9. Span(new) \subseteq Span(Whole(r)) /\ Whole(r).base_index <= new.base_index
  <2>1. \A k \in Span(new) : k \in Nat /\ k <= x
    BY <1>1, PieceFields DEF Span
  <2>2. Whole(r).base_index = 0
    BY DEF Whole
  <2> QED BY <1>1, <1>4, <1>7, <2>1, <2>2
<1>10. Holding(new, r)
  BY <1>1, <1>4, <1>8, <1>9 DEF Holding, Part
<1> QED BY <1>4, <1>5, <1>10 DEF r, entry

-----------------------------------------------------------------------------
(* The invariant: of a cluster c, of the whole logs f of its nodes, the     *)
(* logs l of its leaders and the acknowledgements a.                        *)

(* A leader's log is the one its term is known by. *)
Owns(c, f, l) ==
    \A i \in Server :
        LET n == c.node[i]
        IN  /\ f[i] \in Seq(LogEntry)
            /\ Holding(n.log, f[i])
            /\ Grown(l, f[i], n.current_term)
            /\ n.role = "Leader" => /\ n.current_term \in DOMAIN l
                                    /\ l[n.current_term] = f[i]

(* What a server acknowledged it still holds, if the leaders up to its term *)
(* have kept it.                                                            *)
StillHolds(c, f, l, a) ==
    \A b \in a :
        LET u == c.node[b.server].current_term
        IN  /\ b.term <= u
            /\ \A k \in 1 .. b.index :
                    Handed(l, b.term, k, u + 1) => Keeps(f[b.server], l[b.term], k)

(* The progress tables. *)
Listens(c, a) ==
    \A i \in Server :
        LET n == c.node[i]
        IN  /\ Tracks(n, [acks |-> a])
            /\ n.role = "Leader" => Acked(a, i, n.current_term, LastIndex(n.log))

(* The votes a candidate has or may still get are of servers its log backs. *)
Candidacies(c, f, l, a) ==
    \A i \in Server :
        LET n == c.node[i]
            u == n.current_term
        IN  n.role = "Candidate" /\ u \notin DOMAIN l =>
                /\ \A q \in n.votes : Supports(c.node, l, a, q, u, f[i])
                /\ \A x \in c.wire : /\ x.kind = "RequestVoteReply" /\ x.vote_granted
                                     /\ x.to = i /\ x.term = u
                        => Supports(c.node, l, a, x.from, u, f[i])
                /\ \A x \in c.wire : x.kind = "RequestVote" /\ x.from = i /\ x.term = u
                        => x.last_log_index = Len(f[i]) /\ x.last_log_term = EndTerm(f[i])

(* A candidate has reached the term it asks, or is granted, votes for. *)
Past(c) ==
    \A x \in c.wire :
        /\ x.kind = "RequestVote" => x.term <= c.node[x.from].current_term
        /\ x.kind = "RequestVoteReply" /\ x.vote_granted
                => x.term <= c.node[x.to].current_term

(* What is applied is decided and on record; the application and the        *)
(* snapshot hold it.                                                        *)
Settled(c, f, l, a) ==
    \A i \in Server :
        LET n == c.node[i]
        IN  /\ n.log.base_index <= n.commit_index
            /\ n.commit_index <= n.last_applied
            /\ Decided(l, a, f[i], n.last_applied, n.current_term)
            /\ Claimed(c.history.committed, f[i], n.last_applied)
            /\ n.app = Commands(f[i], n.last_applied)
            /\ n.log.data = Commands(f[i], n.log.base_index)

(* What is on record as committed was chosen, in a term no later. *)
Records(c, l, a) ==
    \A h \in c.history.committed : \E t \in DOMAIN l :
        /\ t <= h.at
        /\ \E k \in 1 .. Len(l[t]) :
                Chosen(l, a, t, k) /\ h.index \in 1 .. k /\ l[t][h.index] = h.entry

(* What the messages say is so: of the leader's log, of what was            *)
(* acknowledged, and of what is decided.                                    *)
Reports(c, l, a) ==
    \A x \in c.wire :
        /\ Replicates(x) =>
                /\ x.term \in DOMAIN l
                /\ Part(Carried(x), Whole(l[x.term]))
                /\ x.to # x.from
                /\ [term |-> x.term, leader |-> x.from] \in c.history.victories
        /\ x.kind = "AppendEntries" =>
                /\ Decided(l, a, l[x.term], x.leader_commit, x.term)
                /\ Claimed(c.history.committed, l[x.term], x.leader_commit)
        /\ x.kind = "InstallSnapshot" =>
                /\ Decided(l, a, l[x.term], x.snapshot.index, x.term)
                /\ Claimed(c.history.committed, l[x.term], x.snapshot.index)
                /\ x.snapshot.data = Commands(l[x.term], x.snapshot.index)
        /\ x.kind = "AppendEntriesReply" => Acked(a, x.from, x.term, x.match_index)
        /\ x.kind = "InstallSnapshotReply" => Acked(a, x.from, x.term, x.last_index)

Shadow(c, f, l, a) ==
    /\ Made(l)
    /\ DOMAIN l = {v.term : v \in c.history.victories}
    /\ Heard(l, a)
    /\ Owns(c, f, l)
    /\ StillHolds(c, f, l, a)
    /\ Listens(c, a)
    /\ Candidacies(c, f, l, a)
    /\ Past(c)
    /\ Backed(l, a, c.node)
    /\ Settled(c, f, l, a)
    /\ Records(c, l, a)
    /\ Reports(c, l, a)

-----------------------------------------------------------------------------
(* A turn of node i, from cluster c to cluster d, as the proofs about       *)
(* elections and logs have it.                                              *)
Turned(c, i, m, d) ==
    /\ i \in Server
    /\ \A j \in Server : Ready(c.node[j]) /\ c.node[j].id = j
    /\ c.node[i].voters = Server
    /\ c.wire \subseteq Message
    /\ m \in NodeRecord /\ m.id = i /\ m.voters = Server
    /\ Handled(c.node[i], m, c.wire)
    /\ c.node[i].current_term <= m.current_term
    /\ Stands(c.node[i], m, c.wire)
    /\ Rewrites(c.node[i], m, c.wire)
    /\ \A x \in m.sends : Says(m, x)
    /\ \A j \in Server : d.node[j] = IF j = i THEN [m EXCEPT !.sends = {}] ELSE c.node[j]
    /\ d.wire \subseteq c.wire \cup m.sends
    /\ d.history.victories = c.history.victories \cup VictoryOf(m)
    /\ d.history.committed = Claim(c.history.committed, CommitmentsOf(c.node[i], m))
    /\ \A v, w \in d.history.victories : v.term = w.term => v.leader = w.leader
    /\ \A j \in Server : c.node[j].role = "Leader" =>
            [term |-> c.node[j].current_term, leader |-> j] \in c.history.victories
    /\ m.role = "Leader" =>
            /\ m.votes \in Majorities
            /\ m.current_term > 0
            /\ \/ c.node[i].role = "Leader" /\ m.current_term = c.node[i].current_term
               \/ \A v \in c.history.victories : v.term # m.current_term

LEMMA TurnedTyped ==
    ASSUME NEW c, NEW i, NEW m, NEW d, Turned(c, i, m, d)
    PROVE  LET n == c.node[i]
               k == d.node[i]
           IN  /\ i \in Server /\ n \in NodeRecord /\ n.id = i /\ n.log \in Log
               /\ n.current_term \in Nat /\ n.last_applied \in Nat /\ n.sends = {}
               /\ m.log \in Log /\ m.current_term \in Nat /\ m.id = i /\ m \in NodeRecord
               /\ n.current_term <= m.current_term
               /\ k.log = m.log /\ k.role = m.role /\ k.votes = m.votes
               /\ k.current_term = m.current_term /\ k.progress = m.progress
               /\ k.commit_index = m.commit_index /\ k.last_applied = m.last_applied
               /\ k.app = m.app /\ k.id = m.id
               /\ \A j \in Server : j # i => d.node[j] = c.node[j]
               /\ \A j \in Server : /\ c.node[j] \in NodeRecord
                                    /\ c.node[j].current_term \in Nat
                                    /\ d.node[j].current_term \in Nat
                                    /\ c.node[j].current_term <= d.node[j].current_term
               /\ \A x \in m.sends : x \in Message /\ Says(m, x)
               /\ \A x \in d.wire : x \in Message /\ (x \in c.wire \/ x \in m.sends)
               /\ \A x \in c.wire : x \in Message
<1> DEFINE n == c.node[i]
           k == d.node[i]
<1>1. /\ i \in Server /\ n \in NodeRecord /\ n.id = i /\ n.sends = {}
      /\ m \in NodeRecord /\ m.id = i /\ n.current_term <= m.current_term
      /\ \A j \in Server : c.node[j] \in NodeRecord
  BY DEF Turned, Ready
<1>2. /\ n.log \in Log /\ n.current_term \in Nat /\ n.last_applied \in Nat
      /\ m.log \in Log /\ m.current_term \in Nat /\ m.sends \subseteq Message
      /\ \A j \in Server : c.node[j].current_term \in Nat
  BY <1>1, NodeFields
<1>3. k = [m EXCEPT !.sends = {}] /\ \A j \in Server : j # i => d.node[j] = c.node[j]
  BY <1>1 DEF Turned
<1>4. /\ k.log = m.log /\ k.role = m.role /\ k.votes = m.votes
      /\ k.current_term = m.current_term /\ k.progress = m.progress
      /\ k.commit_index = m.commit_index /\ k.last_applied = m.last_applied
      /\ k.app = m.app /\ k.id = m.id
  BY <1>1, <1>3 DEF NodeRecord
<1> HIDE DEF n, k
<1>5. \A j \in Server : /\ d.node[j].current_term \in Nat
                        /\ c.node[j].current_term <= d.node[j].current_term
  <2> SUFFICES ASSUME NEW j \in Server
               PROVE  /\ d.node[j].current_term \in Nat
                      /\ c.node[j].current_term <= d.node[j].current_term
    OBVIOUS
  <2>1. CASE j = i
    BY <1>1, <1>2, <1>4, <2>1 DEF n, k
  <2>2. CASE j # i
    BY <1>2, <1>3, <2>2
  <2> QED BY <2>1, <2>2
<1>6. /\ c.wire \subseteq Message /\ d.wire \subseteq c.wire \cup m.sends
      /\ \A x \in m.sends : Says(m, x)
  BY DEF Turned
<1> QED BY <1>1, <1>2, <1>3, <1>4, <1>5, <1>6 DEF n, k

(* How a log comes to be what it is: as it was, with the entry a leader     *)
(* adds, or as much as a node has of the log of the leader of its term.     *)
Stays(n, m) == Part(m.log, n.log) /\ LastIndex(m.log) = LastIndex(n.log)

Prolongs(n, m) ==
    /\ n.role = "Leader"
    /\ m.current_term = n.current_term
    /\ Extended(m.log, n.log, n.current_term)

Rewritten(n, m, s, l) ==
    IF Stays(n, m) THEN s
    ELSE IF Prolongs(n, m) THEN Append(s, EntryAt(m.log, LastIndex(m.log)))
    ELSE SubSeq(l[m.current_term], 1, LastIndex(m.log))

Authors(n, m) == m.role = "Leader" \/ (~ Stays(n, m) /\ Prolongs(n, m))

(* What became of a log is a whole one, of which nothing is lost that the   *)
(* leader of the term has, too.                                             *)
LEMMA RewrittenHolds ==
    ASSUME NEW c, NEW i, NEW m, NEW d, Turned(c, i, m, d),
           NEW f, NEW l, NEW a, Shadow(c, f, l, a)
    PROVE  LET n == c.node[i]
               t == m.current_term
               s == Rewritten(n, m, f[i], l)
           IN  /\ s \in Seq(LogEntry)
               /\ Holding(m.log, s)
               /\ \A k \in Nat : /\ k <= Len(f[i])
                                 /\ t \in DOMAIN l => Keeps(l[t], f[i], k)
                                 => Keeps(s, f[i], k)
               /\ ~ Stays(n, m) /\ Prolongs(n, m) =>
                    /\ Len(s) = Len(f[i]) + 1 /\ Keeps(s, f[i], Len(f[i]))
                    /\ s[Len(s)].term = t
               /\ ~ Stays(n, m) /\ ~ Prolongs(n, m) =>
                    /\ m.role = "Follower" /\ t \in DOMAIN l
                    /\ Keeps(l[t], s, Len(s))
<1> DEFINE n == c.node[i]
           t == m.current_term
           s == Rewritten(n, m, f[i], l)
<1>1. /\ i \in Server /\ n.log \in Log /\ m.log \in Log /\ t \in Nat
      /\ n.current_term \in Nat /\ n.current_term <= t
  BY TurnedTyped
<1>2. /\ f[i] \in Seq(LogEntry) /\ Holding(n.log, f[i])
      /\ Grown(l, f[i], n.current_term)
  BY <1>1 DEF Shadow, Owns
<1>3. /\ IsPiece(n.log) /\ IsPiece(m.log) /\ Len(f[i]) \in Nat
      /\ LastIndex(m.log) \in Nat
  BY <1>1, <1>2, LogIsPiece, LogFields, EntryTerm
<1>4. CASE Stays(n, m)
  <2>1. s = f[i]
    BY <1>4 DEF Rewritten
  <2>2. Part(m.log, Whole(f[i]))
    <3>1. IsPiece(Whole(f[i])) /\ Part(n.log, Whole(f[i])) /\ Part(m.log, n.log)
      BY <1>2, <1>4, WholeFields DEF Holding, Stays
    <3> QED BY <1>3, <3>1, PartTransitive
  <2>3. Holding(m.log, s)
    BY <1>2, <1>4, <2>1, <2>2 DEF Holding, Stays
  <2> QED BY <1>2, <1>3, <1>4, <2>1, <2>3 DEF Keeps
<1>5. CASE ~ Stays(n, m) /\ Prolongs(n, m)
  <2>1. s = Append(f[i], EntryAt(m.log, LastIndex(m.log)))
    BY <1>5 DEF Rewritten
  <2>2. Extended(m.log, n.log, t)
    BY <1>5 DEF Prolongs
  <2> HIDE DEF n, t, s
  <2>3. /\ s \in Seq(LogEntry) /\ Len(s) = Len(f[i]) + 1 /\ Keeps(s, f[i], Len(f[i]))
        /\ s[Len(s)].term = t /\ Holding(m.log, s)
    BY <1>1, <1>2, <2>1, <2>2, ExtendedHolds
  <2>4. \A k \in Nat : k <= Len(f[i]) => Keeps(s, f[i], k)
    BY <1>3, <2>3 DEF Keeps
  <2> QED BY <1>5, <2>3, <2>4 DEF n, t, s
<1>6. CASE ~ Stays(n, m) /\ ~ Prolongs(n, m)
  <2> DEFINE r == l[t]
  <2>1. s = SubSeq(r, 1, LastIndex(m.log))
    BY <1>6 DEF Rewritten
  <2>2. m.role = "Follower" /\ \E x \in c.wire : /\ Replicates(x)
                                                 /\ x.term = t
                                                 /\ Takes(m.log, n.log, x)
    BY <1>6 DEF Turned, Rewrites, Stays, Prolongs
  <2>3. PICK x \in c.wire : Replicates(x) /\ x.term = t /\ Takes(m.log, n.log, x)
    BY <2>2
  <2>4. t \in DOMAIN l /\ Part(Carried(x), Whole(r))
    BY <2>3 DEF Shadow, Reports
  <2>5. r \in Seq(LogEntry) /\ Grown(l, r, t) /\ IsPiece(Whole(r)) /\ Len(r) \in Nat
    BY <2>4, WholeFields DEF Shadow, Made
  <2>6. IsPiece(Carried(x))
    BY <2>3, TurnedTyped, CarriedIsPiece
  <2> HIDE DEF r, n, t, s
  <2>7. Part(m.log, Whole(r))
    <3>1. CASE Part(m.log, Carried(x))
      BY <1>3, <2>4, <2>5, <2>6, <3>1, PartTransitive
    <3>2. ASSUME NEW p, IsPiece(p), Spliced(p, n.log, Carried(x)), Part(m.log, p)
          PROVE  Part(m.log, Whole(r))
      <4>1. \A k : k \in 1 .. Len(f[i]) /\ k \in 1 .. Len(r) /\ f[i][k].term = r[k].term
                    => Keeps(f[i], r, k)
        BY <1>2, <2>5, SameTermKeeps
      <4>2. Part(n.log, Whole(f[i]))
        BY <1>2 DEF Holding
      <4>3. Part(p, Whole(r))
        BY <1>2, <1>3, <2>4, <2>5, <2>6, <3>2, <4>1, <4>2, SplicedPart
      <4> QED BY <1>3, <2>5, <3>2, <4>3, PartTransitive
    <3> QED BY <2>3, <3>1, <3>2 DEF Takes
  <2>8. LastIndex(m.log) <= Len(r)
    BY <1>3, <2>5, <2>7, PartReads
  <2>9. /\ s \in Seq(LogEntry) /\ Len(s) = LastIndex(m.log) /\ Keeps(r, s, Len(s))
    <3>1. \A j \in 1 .. LastIndex(m.log) : r[j] \in LogEntry
      BY <1>3, <2>5, <2>8, EntryTerm
    <3>2. /\ s \in Seq(LogEntry)
          /\ Len(s) = IF 1 <= LastIndex(m.log) THEN LastIndex(m.log) - 1 + 1 ELSE 0
          /\ \A j \in 1 .. LastIndex(m.log) - 1 + 1 : s[j] = r[1 + j - 1]
      BY <1>3, <2>1, <3>1, SubSeqProperties
    <3> QED BY <1>3, <2>8, <3>2 DEF Keeps
  <2>10. Holding(m.log, s)
    BY <1>3, <2>5, <2>7, <2>9, PrefixPart DEF Holding
  <2>11. ASSUME NEW k \in Nat, Keeps(r, f[i], k) PROVE Keeps(s, f[i], k)
    <3>1. k <= LastIndex(m.log)
      BY <1>1, <1>2, <2>3, <2>4, <2>5, <2>6, <2>11, SparesKeeps DEF Takes
    <3> QED BY <1>3, <2>8, <2>9, <2>11, <3>1 DEF Keeps
  <2> QED BY <1>6, <2>2, <2>4, <2>9, <2>10, <2>11 DEF n, t, s, r
<1> QED BY <1>4, <1>5, <1>6

Remade(n, m, s, l) ==
    IF Authors(n, m)
    THEN [u \in DOMAIN l \cup {m.current_term} |-> IF u = m.current_term THEN s ELSE l[u]]
    ELSE l

(* A leader writes on in the log of its term, or starts it with its own.    *)
LEMMA AuthorsWrite ==
    ASSUME NEW c, NEW i, NEW m, NEW d, Turned(c, i, m, d),
           NEW f, NEW l, NEW a, Shadow(c, f, l, a), Authors(c.node[i], m)
    PROVE  LET n == c.node[i]
               t == m.current_term
               s == Rewritten(n, m, f[i], l)
           IN  /\ t \in Nat \ {0}
               /\ Keeps(s, f[i], Len(f[i]))
               /\ \A k \in Len(f[i]) + 1 .. Len(s) : s[k].term = t
               /\ \/ t \in DOMAIN l /\ l[t] = f[i]
                  \/ t \notin DOMAIN l /\ s = f[i] /\ m.role = "Leader"
<1> DEFINE n == c.node[i]
           t == m.current_term
           s == Rewritten(n, m, f[i], l)
<1>1. /\ i \in Server /\ t \in Nat /\ f[i] \in Seq(LogEntry) /\ Len(f[i]) \in Nat
  <2>1. i \in Server /\ t \in Nat
    BY TurnedTyped
  <2>2. f[i] \in Seq(LogEntry)
    BY <2>1 DEF Shadow, Owns
  <2> QED BY <2>1, <2>2, EntryTerm
<1>2. s = f[i] \/ (Len(s) = Len(f[i]) + 1 /\ Keeps(s, f[i], Len(f[i])) /\ s[Len(s)].term = t)
  <2>1. Stays(n, m) => s = f[i]
    BY DEF Rewritten
  <2>2. ~ Stays(n, m) /\ Prolongs(n, m) =>
            /\ Len(s) = Len(f[i]) + 1 /\ Keeps(s, f[i], Len(f[i])) /\ s[Len(s)].term = t
    BY RewrittenHolds
  <2>3. ~ Stays(n, m) /\ ~ Prolongs(n, m) => m.role = "Follower"
    BY RewrittenHolds
  <2> QED BY <2>1, <2>2, <2>3 DEF Authors
<1>3. Keeps(s, f[i], Len(f[i])) /\ \A k \in Len(f[i]) + 1 .. Len(s) : s[k].term = t
  <2> HIDE DEF s, t
  <2>1. CASE s = f[i]
    BY <1>1, <2>1 DEF Keeps
  <2>2. CASE Len(s) = Len(f[i]) + 1 /\ Keeps(s, f[i], Len(f[i])) /\ s[Len(s)].term = t
    <3>1. \A k \in Len(f[i]) + 1 .. Len(s) : k = Len(s)
      BY <1>1, <2>2
    <3> QED BY <2>2, <3>1
  <2> QED BY <1>2, <2>1, <2>2
<1>4. CASE n.role = "Leader" /\ t = n.current_term
  <2>1. t \in DOMAIN l /\ l[t] = f[i] /\ t \in Nat \ {0}
    BY <1>1, <1>4 DEF Shadow, Owns, Made
  <2> QED BY <1>3, <2>1
<1>5. CASE ~ (n.role = "Leader" /\ t = n.current_term)
  <2>1. m.role = "Leader" /\ ~ Prolongs(n, m)
    BY <1>5 DEF Authors, Prolongs
  <2>2. s = f[i]
    <3>1. Stays(n, m)
      BY <2>1, RewrittenHolds
    <3> QED BY <3>1 DEF Rewritten
  <2>3. t > 0 /\ t \notin DOMAIN l
    BY <1>5, <2>1 DEF Turned, Shadow
  <2> QED BY <1>1, <1>3, <2>1, <2>2, <2>3
<1> QED BY <1>4, <1>5

LEMMA RemadeIsLonger ==
    ASSUME NEW c, NEW i, NEW m, NEW d, Turned(c, i, m, d),
           NEW f, NEW l, NEW a, Shadow(c, f, l, a)
    PROVE  LET n == c.node[i]
               t == m.current_term
               s == Rewritten(n, m, f[i], l)
               r == Remade(n, m, s, l)
           IN  /\ Made(r) /\ Longer(l, r) /\ Grown(r, s, t)
               /\ DOMAIN r = {v.term : v \in d.history.victories}
               /\ Authors(n, m) => t \in DOMAIN r /\ r[t] = s
               /\ \A u \in DOMAIN r : \/ u \in DOMAIN l /\ r[u] = l[u]
                                      \/ u = t /\ Authors(n, m)
               /\ \A u \in DOMAIN r : \/ u \in DOMAIN l
                                      \/ /\ u = t /\ s = f[i] /\ m.role = "Leader"
                                         /\ t \notin DOMAIN l
<1> DEFINE n == c.node[i]
           t == m.current_term
           s == Rewritten(n, m, f[i], l)
           r == Remade(n, m, s, l)
<1>1. /\ i \in Server /\ t \in Nat /\ n.current_term \in Nat /\ n.current_term <= t
  BY TurnedTyped
<1>2. /\ f[i] \in Seq(LogEntry) /\ s \in Seq(LogEntry) /\ Grown(l, f[i], n.current_term)
      /\ Made(l)
  <2>1. s \in Seq(LogEntry)
    BY RewrittenHolds
  <2> QED BY <1>1, <2>1 DEF Shadow, Owns
<1>3. Len(f[i]) \in Nat /\ Len(s) \in Nat /\ \A u \in DOMAIN l : Len(l[u]) \in Nat
  BY <1>2, EntryTerm DEF Made
<1>4. DOMAIN l = {v.term : v \in c.history.victories}
  BY DEF Shadow
<1>5. d.history.victories = c.history.victories \cup VictoryOf(m)
  BY DEF Turned
<1>6. Longer(l, l)
  BY <1>3 DEF Longer, Keeps
<1>7. CASE ~ Authors(n, m)
  <2>1. r = l
    BY <1>7 DEF Remade
  <2>2. VictoryOf(m) = {}
    BY <1>7 DEF Authors, VictoryOf
  <2>3. Grown(l, s, t)
    <3>1. CASE Stays(n, m)
      <4>1. s = f[i]
        BY <3>1 DEF Rewritten
      <4> QED BY <1>1, <1>2, <1>6, <4>1, LongerGrown
    <3>2. CASE ~ Stays(n, m)
      <4>1. t \in DOMAIN l /\ Keeps(l[t], s, Len(s))
        BY <1>7, <3>2, RewrittenHolds DEF Authors
      <4>2. l[t] \in Seq(LogEntry) /\ Grown(l, l[t], t)
        BY <1>2, <4>1 DEF Made
      <4> HIDE DEF s, t
      <4> QED BY <1>1, <1>2, <4>1, <4>2, PrefixGrown
    <3> QED BY <3>1, <3>2
  <2> QED BY <1>2, <1>4, <1>5, <1>6, <1>7, <2>1, <2>2, <2>3
<1>8. CASE Authors(n, m)
  <2>1. /\ t \in Nat \ {0}
        /\ Keeps(s, f[i], Len(f[i]))
        /\ \A k \in Len(f[i]) + 1 .. Len(s) : s[k].term = t
        /\ \/ t \in DOMAIN l /\ l[t] = f[i]
           \/ t \notin DOMAIN l /\ s = f[i] /\ m.role = "Leader"
    BY <1>8, AuthorsWrite
  <2>2. /\ r = [u \in DOMAIN l \cup {t} |-> IF u = t THEN s ELSE l[u]]
    BY <1>8 DEF Remade
  <2>3. VictoryOf(m) \subseteq {[term |-> t, leader |-> m.id]}
        /\ (m.role = "Leader" => VictoryOf(m) = {[term |-> t, leader |-> m.id]})
    BY DEF VictoryOf
  <2> HIDE DEF n, t, s, r
  <2>4. DOMAIN r = DOMAIN l \cup {t} /\ r[t] = s /\ \A u \in DOMAIN l : u # t => r[u] = l[u]
    BY <2>2
  <2>5. Longer(l, r)
    <3> SUFFICES ASSUME NEW u \in DOMAIN l
                 PROVE  /\ Keeps(r[u], l[u], Len(l[u]))
                        /\ \A k \in Len(l[u]) + 1 .. Len(r[u]) : r[u][k].term = u
      BY <2>4 DEF Longer
    <3>1. CASE u = t
      BY <2>1, <2>4, <3>1
    <3>2. CASE u # t
      BY <1>6, <2>4, <3>2 DEF Longer
    <3> QED BY <3>1, <3>2
  <2>6. Grown(r, f[i], t)
    BY <1>1, <1>2, <2>5, LongerGrown
  <2>7. Grown(r, s, t)
    <3> SUFFICES ASSUME NEW k \in 1 .. Len(s)
                 PROVE  s[k].term \in DOMAIN r /\ s[k].term <= t /\ Keeps(s, r[s[k].term], k)
      BY DEF Grown
    <3>1. CASE k <= Len(f[i])
      <4>1. k \in 1 .. Len(f[i]) /\ s[k] = f[i][k]
        BY <1>3, <2>1, <3>1 DEF Keeps
      <4>2. f[i][k].term \in DOMAIN r /\ f[i][k].term <= t /\ Keeps(f[i], r[f[i][k].term], k)
        BY <2>6, <4>1 DEF Grown
      <4> QED BY <1>3, <2>1, <4>1, <4>2 DEF Keeps
    <3>2. CASE k > Len(f[i])
      <4>1. s[k].term = t
        BY <1>3, <2>1, <3>2
      <4>2. Keeps(s, s, k)
        BY <1>3 DEF Keeps
      <4> QED BY <1>1, <2>4, <4>1, <4>2
    <3> QED BY <1>3, <3>1, <3>2
  <2>8. Made(r)
    <3>1. \A u \in DOMAIN l : u \in Nat \ {0} /\ l[u] \in Seq(LogEntry) /\ Grown(l, l[u], u)
      BY <1>2 DEF Made
    <3>2. \A u \in DOMAIN l : Grown(r, l[u], u)
      BY <1>2, <2>5, <3>1, LongerGrown
    <3> QED BY <1>2, <2>1, <2>4, <2>7, <3>1, <3>2 DEF Made
  <2>9. DOMAIN r = {v.term : v \in d.history.victories}
    <3>1. \A v \in VictoryOf(m) : v.term = t
      <4>1. [term |-> t, leader |-> m.id].term = t
        OBVIOUS
      <4> QED BY <2>3, <4>1
    <3>2. CASE t \in DOMAIN l
      BY <1>4, <1>5, <2>4, <3>1, <3>2
    <3>3. CASE t \notin DOMAIN l
      <4>1. \E v \in VictoryOf(m) : v.term = t
        <5>1. [term |-> t, leader |-> m.id].term = t
          OBVIOUS
        <5> QED BY <2>1, <2>3, <3>3, <5>1
      <4> QED BY <1>4, <1>5, <2>4, <3>1, <4>1
    <3> QED BY <3>2, <3>3
  <2> QED BY <1>8, <2>1, <2>4, <2>5, <2>7, <2>8, <2>9 DEF n, t, s, r
<1> QED BY <1>7, <1>8
-----------------------------------------------------------------------------
(* A turn, with the logs as they become: s that of the node, r the leaders'.*)
Scene(c, i, m, d, f, l, a, s, r) ==
    /\ Turned(c, i, m, d)
    /\ Shadow(c, f, l, a)
    /\ s = Rewritten(c.node[i], m, f[i], l)
    /\ r = Remade(c.node[i], m, s, l)

(* Only the node that takes its turn acknowledges anything, in its term.    *)
Vows(b, a, i, t) == a \subseteq b /\ \A x \in b : x \in a \/ (x.server = i /\ x.term = t)

(* What becomes of the leaders' logs, ...                                   *)
LEMMA SceneLeaders ==
    ASSUME NEW c, NEW i, NEW m, NEW d, NEW f, NEW l, NEW a, NEW s, NEW r,
           Scene(c, i, m, d, f, l, a, s, r)
    PROVE  /\ Made(l) /\ Made(r) /\ Longer(l, r) /\ Grown(r, s, m.current_term)
           /\ DOMAIN r = {v.term : v \in d.history.victories}
           /\ Authors(c.node[i], m) => m.current_term \in DOMAIN r /\ r[m.current_term] = s
           /\ ~ Authors(c.node[i], m) => r = l
           /\ \A u \in DOMAIN r : \/ u \in DOMAIN l /\ r[u] = l[u]
                                  \/ u = m.current_term /\ Authors(c.node[i], m)
           /\ \A u \in DOMAIN r : \/ u \in DOMAIN l
                                  \/ /\ u = m.current_term /\ s = f[i] /\ m.role = "Leader"
                                     /\ m.current_term \notin DOMAIN l
<1>1. Turned(c, i, m, d) /\ Shadow(c, f, l, a)
      /\ s = Rewritten(c.node[i], m, f[i], l) /\ r = Remade(c.node[i], m, s, l)
  BY DEF Scene
<1> DEFINE n == c.node[i]
           t == m.current_term
           v == Rewritten(n, m, f[i], l)
           w == Remade(n, m, v, l)
<1>2. /\ Made(w) /\ Longer(l, w) /\ Grown(w, v, t)
      /\ DOMAIN w = {x.term : x \in d.history.victories}
      /\ Authors(n, m) => t \in DOMAIN w /\ w[t] = v
      /\ \A u \in DOMAIN w : \/ u \in DOMAIN l /\ w[u] = l[u]
                             \/ u = t /\ Authors(n, m)
      /\ \A u \in DOMAIN w : \/ u \in DOMAIN l
                             \/ /\ u = t /\ v = f[i] /\ m.role = "Leader"
                                /\ t \notin DOMAIN l
  BY <1>1, RemadeIsLonger
<1>3. v = s /\ w = r
  BY <1>1
<1>4. ~ Authors(n, m) => r = l
  BY <1>1 DEF Remade
<1>5. Made(l)
  BY <1>1 DEF Shadow
<1> HIDE DEF v, w, t, n
<1> QED BY <1>2, <1>3, <1>4, <1>5 DEF n, t

LEMMA SceneMade ==
    ASSUME NEW c, NEW i, NEW m, NEW d, NEW f, NEW l, NEW a, NEW s, NEW r,
           Scene(c, i, m, d, f, l, a, s, r)
    PROVE  Made(l) /\ Made(r) /\ Longer(l, r) /\ Grown(r, s, m.current_term)
<1>1. /\ Made(l) /\ Made(r) /\ Longer(l, r) /\ Grown(r, s, m.current_term)
      /\ DOMAIN r = {v.term : v \in d.history.victories}
      /\ Authors(c.node[i], m) => m.current_term \in DOMAIN r /\ r[m.current_term] = s
      /\ ~ Authors(c.node[i], m) => r = l
      /\ \A u \in DOMAIN r : \/ u \in DOMAIN l /\ r[u] = l[u]
                             \/ u = m.current_term /\ Authors(c.node[i], m)
      /\ \A u \in DOMAIN r : \/ u \in DOMAIN l
                             \/ /\ u = m.current_term /\ s = f[i] /\ m.role = "Leader"
                                /\ m.current_term \notin DOMAIN l
  BY SceneLeaders
<1> QED BY <1>1

LEMMA SceneAuthors ==
    ASSUME NEW c, NEW i, NEW m, NEW d, NEW f, NEW l, NEW a, NEW s, NEW r,
           Scene(c, i, m, d, f, l, a, s, r)
    PROVE  /\ Authors(c.node[i], m) => m.current_term \in DOMAIN r /\ r[m.current_term] = s
           /\ ~ Authors(c.node[i], m) => r = l
<1>1. /\ Made(l) /\ Made(r) /\ Longer(l, r) /\ Grown(r, s, m.current_term)
      /\ DOMAIN r = {v.term : v \in d.history.victories}
      /\ Authors(c.node[i], m) => m.current_term \in DOMAIN r /\ r[m.current_term] = s
      /\ ~ Authors(c.node[i], m) => r = l
      /\ \A u \in DOMAIN r : \/ u \in DOMAIN l /\ r[u] = l[u]
                             \/ u = m.current_term /\ Authors(c.node[i], m)
      /\ \A u \in DOMAIN r : \/ u \in DOMAIN l
                             \/ /\ u = m.current_term /\ s = f[i] /\ m.role = "Leader"
                                /\ m.current_term \notin DOMAIN l
  BY SceneLeaders
<1> QED BY <1>1

LEMMA SceneOld ==
    ASSUME NEW c, NEW i, NEW m, NEW d, NEW f, NEW l, NEW a, NEW s, NEW r,
           Scene(c, i, m, d, f, l, a, s, r)
    PROVE  \A u \in DOMAIN r :
                \/ u \in DOMAIN l /\ r[u] = l[u]
                \/ u = m.current_term /\ Authors(c.node[i], m)
<1>1. /\ Made(l) /\ Made(r) /\ Longer(l, r) /\ Grown(r, s, m.current_term)
      /\ DOMAIN r = {v.term : v \in d.history.victories}
      /\ Authors(c.node[i], m) => m.current_term \in DOMAIN r /\ r[m.current_term] = s
      /\ ~ Authors(c.node[i], m) => r = l
      /\ \A u \in DOMAIN r : \/ u \in DOMAIN l /\ r[u] = l[u]
                             \/ u = m.current_term /\ Authors(c.node[i], m)
      /\ \A u \in DOMAIN r : \/ u \in DOMAIN l
                             \/ /\ u = m.current_term /\ s = f[i] /\ m.role = "Leader"
                                /\ m.current_term \notin DOMAIN l
  BY SceneLeaders
<1> QED BY <1>1

LEMMA SceneNew ==
    ASSUME NEW c, NEW i, NEW m, NEW d, NEW f, NEW l, NEW a, NEW s, NEW r,
           Scene(c, i, m, d, f, l, a, s, r)
    PROVE  \A u \in DOMAIN r :
                \/ u \in DOMAIN l
                \/ /\ u = m.current_term /\ s = f[i] /\ m.role = "Leader"
                   /\ m.current_term \notin DOMAIN l
<1>1. /\ Made(l) /\ Made(r) /\ Longer(l, r) /\ Grown(r, s, m.current_term)
      /\ DOMAIN r = {v.term : v \in d.history.victories}
      /\ Authors(c.node[i], m) => m.current_term \in DOMAIN r /\ r[m.current_term] = s
      /\ ~ Authors(c.node[i], m) => r = l
      /\ \A u \in DOMAIN r : \/ u \in DOMAIN l /\ r[u] = l[u]
                             \/ u = m.current_term /\ Authors(c.node[i], m)
      /\ \A u \in DOMAIN r : \/ u \in DOMAIN l
                             \/ /\ u = m.current_term /\ s = f[i] /\ m.role = "Leader"
                                /\ m.current_term \notin DOMAIN l
  BY SceneLeaders
<1> QED BY <1>1

(* ... each of which is a log, ...                                          *)
LEMMA MadeLogs ==
    ASSUME NEW l, Made(l)
    PROVE  \A u \in DOMAIN l : u \in Nat /\ l[u] \in Seq(LogEntry) /\ Len(l[u]) \in Nat
BY EntryTerm DEF Made

(* ... and of that of the node.                                             *)
LEMMA SceneNode ==
    ASSUME NEW c, NEW i, NEW m, NEW d, NEW f, NEW l, NEW a, NEW s, NEW r,
           Scene(c, i, m, d, f, l, a, s, r)
    PROVE  /\ s \in Seq(LogEntry) /\ Len(s) \in Nat /\ Holding(m.log, s)
           /\ f[i] \in Seq(LogEntry) /\ Len(f[i]) \in Nat /\ Holding(c.node[i].log, f[i])
           /\ Authors(c.node[i], m) => Keeps(s, f[i], Len(f[i]))
           /\ ~ Authors(c.node[i], m) /\ s # f[i] =>
                /\ m.role = "Follower" /\ m.current_term \in DOMAIN l
                /\ Keeps(l[m.current_term], s, Len(s))
<1>1. Turned(c, i, m, d) /\ Shadow(c, f, l, a)
      /\ s = Rewritten(c.node[i], m, f[i], l) /\ r = Remade(c.node[i], m, s, l)
  BY DEF Scene
<1> DEFINE n == c.node[i]
           t == m.current_term
<1>2. /\ s \in Seq(LogEntry) /\ Holding(m.log, s)
      /\ ~ Stays(n, m) /\ ~ Prolongs(n, m) =>
            m.role = "Follower" /\ t \in DOMAIN l /\ Keeps(l[t], s, Len(s))
  BY <1>1, RewrittenHolds
<1>3. i \in Server /\ f[i] \in Seq(LogEntry) /\ Holding(n.log, f[i])
  <2>1. i \in Server
    BY <1>1, TurnedTyped
  <2> QED BY <1>1, <2>1 DEF Shadow, Owns
<1>4. Authors(n, m) => Keeps(s, f[i], Len(f[i]))
  BY <1>1, AuthorsWrite
<1>5. ~ Authors(n, m) /\ s # f[i] =>
        m.role = "Follower" /\ t \in DOMAIN l /\ Keeps(l[t], s, Len(s))
  <2>1. Stays(n, m) => s = f[i]
    BY <1>1 DEF Rewritten
  <2> QED BY <1>2, <2>1 DEF Authors
<1>6. Len(s) \in Nat /\ Len(f[i]) \in Nat
  BY <1>2, <1>3, EntryTerm
<1> QED BY <1>2, <1>3, <1>4, <1>5, <1>6

(* What the leader of the term keeps the node keeps. *)
LEMMA SceneKeeps ==
    ASSUME NEW c, NEW i, NEW m, NEW d, NEW f, NEW l, NEW a, NEW s, NEW r,
           Scene(c, i, m, d, f, l, a, s, r), NEW k \in Nat, k <= Len(f[i]),
           m.current_term \in DOMAIN l => Keeps(l[m.current_term], f[i], k)
    PROVE  Keeps(s, f[i], k)
<1>1. Turned(c, i, m, d) /\ Shadow(c, f, l, a) /\ s = Rewritten(c.node[i], m, f[i], l)
  BY DEF Scene
<1>2. \A x \in Nat : /\ x <= Len(f[i])
                     /\ m.current_term \in DOMAIN l => Keeps(l[m.current_term], f[i], x)
                     => Keeps(Rewritten(c.node[i], m, f[i], l), f[i], x)
  BY <1>1, RewrittenHolds
<1> QED BY <1>1, <1>2

(* A server's own log backs its next candidacy. *)
LEMMA OwnBacks ==
    ASSUME NEW c, NEW f, NEW l, NEW a, Shadow(c, f, l, a), NEW q \in Server, NEW u \in Nat,
           c.node[q].current_term \in Nat, c.node[q].current_term < u
    PROVE  Backs(l, a, q, u, f[q])
<1> SUFFICES ASSUME NEW b \in a, b.server = q, b.term < u, NEW k \in 1 .. b.index,
                    Handed(l, b.term, k, u)
             PROVE  Keeps(f[q], l[b.term], k)
  BY DEF Backs
<1> DEFINE v == c.node[q].current_term
<1>1. Handed(l, b.term, k, v + 1)
  <2> SUFFICES ASSUME NEW w \in DOMAIN l, b.term < w, w < v + 1
               PROVE  Keeps(l[w], l[b.term], k)
    BY DEF Handed
  <2>1. w \in Nat
    BY DEF Shadow, Made
  <2>2. w < u
    BY <2>1
  <2> QED BY <2>2 DEF Handed
<1> QED BY <1>1 DEF Shadow, StillHolds

(* Support lasts. *)
LEMMA SupportsOn ==
    ASSUME NEW c, NEW i, NEW m, NEW d, NEW f, NEW l, NEW a, NEW s, NEW r,
           Scene(c, i, m, d, f, l, a, s, r), NEW b, Vows(b, a, i, m.current_term),
           NEW q \in Server, NEW u \in Nat, NEW v \in Seq(LogEntry), NEW w,
           Keeps(w, v, Len(v)),
           Supports(c.node, l, a, q, u, v)
    PROVE  Supports(d.node, r, b, q, u, w)
<1>1. Turned(c, i, m, d) /\ Heard(l, a)
  BY DEF Scene, Shadow
<1>2. /\ c.node[q].current_term \in Nat /\ d.node[q].current_term \in Nat
      /\ c.node[q].current_term <= d.node[q].current_term
      /\ m.current_term \in Nat /\ c.node[i].current_term <= m.current_term
      /\ c.node[q].current_term >= u
  BY <1>1, TurnedTyped DEF Supports
<1>3. \A x \in b : x.server = q /\ x.term < u => x \in a
  BY <1>2 DEF Vows
<1>4. Made(l) /\ Made(r) /\ Longer(l, r)
  BY SceneMade
<1>5. Backs(l, a, q, u, v)
  BY DEF Supports
<1>6. Backs(r, b, q, u, w)
  BY <1>1, <1>3, <1>4, <1>5, BacksOn
<1> QED BY <1>2, <1>6 DEF Supports

LEMMA SupportsStays ==
    ASSUME NEW c, NEW i, NEW m, NEW d, NEW f, NEW l, NEW a, NEW s, NEW r,
           Scene(c, i, m, d, f, l, a, s, r), NEW b, Vows(b, a, i, m.current_term),
           NEW q \in Server, NEW u \in Nat, NEW v \in Seq(LogEntry),
           Supports(c.node, l, a, q, u, v)
    PROVE  Supports(d.node, r, b, q, u, v)
<1>1. Keeps(v, v, Len(v))
  BY EntryTerm DEF Keeps
<1> QED BY <1>1, SupportsOn

(* Every leader has its majority, the new one too, and so what is chosen    *)
(* stays.                                                                   *)
LEMMA SceneBacked ==
    ASSUME FixedMembership, NEW c, NEW i, NEW m, NEW d, NEW f, NEW l, NEW a, NEW s, NEW r,
           Scene(c, i, m, d, f, l, a, s, r), NEW b, Vows(b, a, i, m.current_term)
    PROVE  Backed(r, b, d.node) /\ Complete(r, b) /\ Complete(l, a)
<1> DEFINE n == c.node[i]
           t == m.current_term
<1>1. Turned(c, i, m, d) /\ Shadow(c, f, l, a)
  BY DEF Scene
<1>2. /\ i \in Server /\ n.id = i /\ n \in NodeRecord /\ t \in Nat
      /\ n.current_term \in Nat /\ n.current_term <= t
      /\ \A j \in Server : c.node[j].current_term \in Nat
  BY <1>1, TurnedTyped
<1>3. /\ f[i] \in Seq(LogEntry) /\ Len(f[i]) \in Nat /\ Made(l) /\ Made(r)
      /\ Authors(n, m) => r[t] = s
      /\ \A u \in DOMAIN r : u \in Nat
      /\ \A u \in DOMAIN l : /\ l[u] \in Seq(LogEntry)
                             /\ u \in DOMAIN r /\ Keeps(r[u], l[u], Len(l[u]))
      /\ \A u \in DOMAIN r : \/ u \in DOMAIN l
                             \/ /\ u = t /\ s = f[i] /\ m.role = "Leader"
                                /\ t \notin DOMAIN l
  <2>1. f[i] \in Seq(LogEntry) /\ Len(f[i]) \in Nat
    BY SceneNode
  <2>2. Made(l) /\ Made(r) /\ Longer(l, r)
    BY SceneMade
  <2>6. Authors(c.node[i], m) => r[m.current_term] = s
    BY SceneAuthors
  <2>3. \A u \in DOMAIN r : \/ u \in DOMAIN l
                           \/ /\ u = t /\ s = f[i] /\ m.role = "Leader"
                              /\ t \notin DOMAIN l
    BY SceneNew
  <2>4. \A u \in DOMAIN l : u \in DOMAIN r /\ Keeps(r[u], l[u], Len(l[u]))
    BY <2>2 DEF Longer
  <2>5. (\A u \in DOMAIN r : u \in Nat) /\ (\A u \in DOMAIN l : l[u] \in Seq(LogEntry))
    BY <2>2, MadeLogs
  <2> HIDE DEF n, t
  <2> QED BY <2>1, <2>2, <2>3, <2>4, <2>5, <2>6 DEF n, t
<1>4. ASSUME NEW u \in DOMAIN l
      PROVE  \E Q \in Majorities : \A q \in Q : Supports(d.node, r, b, q, u, r[u])
  <2>1. PICK Q \in Majorities : \A q \in Q : Supports(c.node, l, a, q, u, l[u])
    BY <1>1 DEF Shadow, Backed
  <2>2. ASSUME NEW q \in Q PROVE Supports(d.node, r, b, q, u, r[u])
    <3>1. q \in Server /\ u \in Nat /\ l[u] \in Seq(LogEntry) /\ Keeps(r[u], l[u], Len(l[u]))
      BY <1>3, <1>4, <2>1 DEF Majorities
    <3>2. Supports(c.node, l, a, q, u, l[u])
      BY <2>1
    <3> QED BY <3>1, <3>2, SupportsOn
  <2> QED BY <2>2
<1>5. ASSUME t \in DOMAIN r, t \notin DOMAIN l
      PROVE  \E Q \in Majorities : \A q \in Q : Supports(d.node, r, b, q, t, r[t])
  <2>1. m.role = "Leader" /\ s = f[i] /\ r[t] = f[i]
    <3>1. m.role = "Leader" /\ s = f[i]
      BY <1>3, <1>5
    <3> QED BY <1>3, <3>1 DEF Authors
  <2>2. m.votes \in Majorities /\ Stands(n, m, c.wire)
    BY <1>1, <2>1 DEF Turned
  <2>3. ~ (n.role = "Leader" /\ n.current_term = t)
    BY <1>1, <1>2, <1>5 DEF Shadow, Owns
  <2>4. CASE t > n.current_term /\ m.votes = {m.id}
    <3>1. m.id = i
      BY <1>1, TurnedTyped
    <3>2. Backs(l, a, i, t, f[i])
      BY <1>1, <1>2, <2>4, OwnBacks
    <3>3. Backs(r, b, i, t, f[i])
      <4>1. \A x \in b : x.server = i /\ x.term < t => x \in a
        BY <1>2 DEF Vows
      <4>2. Longer(l, r)
        BY SceneMade
      <4>3. Keeps(f[i], f[i], Len(f[i])) /\ Heard(l, a)
        BY <1>1, <1>3 DEF Keeps, Shadow
      <4> QED BY <1>3, <3>2, <4>1, <4>2, <4>3, BacksOn
    <3>4. d.node[i].current_term = t
      BY <1>1, TurnedTyped
    <3>5. \A q \in m.votes : Supports(d.node, r, b, q, t, r[t])
      BY <1>2, <2>1, <2>4, <3>1, <3>3, <3>4 DEF Supports
    <3> QED BY <2>2, <3>5
  <2>5. ASSUME NEW x \in c.wire, n.role = "Candidate", t = n.current_term,
               x.kind = "RequestVoteReply", x.vote_granted, x.to = n.id, x.term = t,
               m.votes = n.votes \cup {x.from}
        PROVE  \E Q \in Majorities : \A q \in Q : Supports(d.node, r, b, q, t, r[t])
    <3>1. \A q \in m.votes : Supports(c.node, l, a, q, t, f[i])
      BY <1>1, <1>2, <1>5, <2>5 DEF Shadow, Candidacies
    <3>2. Keeps(f[i], f[i], Len(f[i]))
      BY <1>3 DEF Keeps
    <3>3. ASSUME NEW q \in m.votes PROVE Supports(d.node, r, b, q, t, r[t])
      <4>1. q \in Server /\ Supports(c.node, l, a, q, t, f[i])
        BY <2>2, <3>1 DEF Majorities
      <4>2. Supports(d.node, r, b, q, t, f[i])
        BY <1>2, <1>3, <3>2, <4>1, SupportsOn
      <4> QED BY <2>1, <4>2
    <3> QED BY <2>2, <3>3
  <2> QED BY <2>1, <2>2, <2>3, <2>4, <2>5 DEF Stands
<1>6. Backed(r, b, d.node)
  <2> HIDE DEF n, t
  <2> SUFFICES ASSUME NEW u \in DOMAIN r
               PROVE  \E Q \in Majorities : \A q \in Q : Supports(d.node, r, b, q, u, r[u])
    BY DEF Backed
  <2>1. CASE u \in DOMAIN l
    BY <1>4, <2>1
  <2>2. CASE u \notin DOMAIN l
    <3>1. u = t
      BY <1>3, <2>2
    <3> QED BY <1>5, <2>2, <3>1
  <2> QED BY <2>1, <2>2
<1>7. Backed(l, a, c.node)
  BY <1>1 DEF Shadow
<1> QED BY <1>3, <1>6, <1>7, ChosenStays

-----------------------------------------------------------------------------
(* What the handler is measured against. *)

LEMMA DecidedDown ==
    ASSUME NEW l, NEW a, Made(l), NEW s, NEW x \in Nat, NEW y \in Nat, y <= x, x <= Len(s),
           Len(s) \in Nat, NEW top \in Nat, Decided(l, a, s, x, top)
    PROVE  Decided(l, a, s, y, top)
<1>1. \A t \in DOMAIN l : Keeps(l[t], l[t], Len(l[t])) /\ Len(l[t]) \in Nat
  BY MadeLogs DEF Keeps
<1>2. Longer(l, l)
  BY <1>1 DEF Longer
<1>3. Keeps(s, s, y)
  BY DEF Keeps
<1> QED BY <1>2, <1>3, LongerDecided

(* What is decided is there. *)
LEMMA DecidedFits ==
    ASSUME NEW l, NEW a, Made(l), NEW s, NEW x \in Nat, Len(s) \in Nat, NEW top,
           Decided(l, a, s, x, top)
    PROVE  x <= Len(s)
<1>1. CASE x = 0
  BY <1>1
<1>2. CASE x # 0
  BY <1>2 DEF Decided, Keeps
<1> QED BY <1>1, <1>2

(* A term that a log answers with is one of an entry, or of the boundary.   *)
LEMMA TermThere ==
    ASSUME NEW b, IsPiece(b), NEW k \in Nat, TermAt(b, k) \in Nat
    PROVE  k \in Span(b)
<1>1. HasEntry(b, k) => k \in Span(b)
  BY PieceFields
<1>2. k = b.base_index => k \in Span(b)
  BY PieceFields
<1> QED BY <1>1, <1>2 DEF TermAt, NoTerm

(* A log with the term that a message carries keeps the log of its leader.  *)
LEMMA CarriedKeeps ==
    ASSUME NEW l, NEW r, Made(l), Made(r), Longer(l, r), NEW s \in Seq(LogEntry),
           NEW t \in Nat, Grown(r, s, t), NEW u \in DOMAIN l,
           NEW b, IsPiece(b), Part(b, Whole(s)),
           NEW p, IsPiece(p), Part(p, Whole(l[u])),
           NEW k \in Span(p), TermAt(b, k) = TermAt(p, k)
    PROVE  k \in Nat /\ Keeps(s, l[u], k)
<1>1. l[u] \in Seq(LogEntry) /\ Len(l[u]) \in Nat /\ Len(s) \in Nat /\ u \in Nat
  BY MadeLogs, EntryTerm
<1>2. k \in 0 .. Len(l[u]) /\ (k > 0 => TermAt(p, k) = l[u][k].term)
  BY <1>1, PartReads
<1>3. CASE k = 0
  BY <1>1, <1>3 DEF Keeps
<1>4. CASE k > 0
  <2>1. k \in 1 .. Len(l[u]) /\ TermAt(b, k) = l[u][k].term /\ k \in Nat
    BY <1>1, <1>2, <1>4
  <2>2. l[u][k].term \in DOMAIN l /\ Grown(l, l[u], u)
    BY <2>1 DEF Made, Grown
  <2>3. TermAt(b, k) \in Nat
    BY <2>1, <2>2 DEF Made
  <2>4. k \in Span(b)
    BY <2>1, <2>3, TermThere
  <2>5. k \in 0 .. Len(s) /\ TermAt(b, k) = s[k].term
    BY <1>4, <2>4, PartReads
  <2>6. k \in 1 .. Len(s) /\ s[k].term = l[u][k].term
    BY <1>1, <1>4, <2>1, <2>5
  <2>7. Grown(r, l[u], u)
    BY <1>1, <2>2, LongerGrown
  <2> QED BY <1>1, <2>1, <2>6, <2>7, SameTermKeeps
<1> QED BY <1>1, <1>2, <1>3, <1>4

Sheet(c, n, t, s, r, b) ==
    [whole |-> s,
     sure  |-> {x \in 0 .. Len(s) : Decided(r, b, s, x, t)},
     told  |-> {x \in Nat : Claimed(c.history.committed, s, x)},
     low   |-> n.last_applied,
     acks  |-> b,
     read  |-> c.wire]

LEMMA SheetFields ==
    ASSUME NEW c, NEW n, NEW t, NEW s, NEW r, NEW b
    PROVE  LET e == Sheet(c, n, t, s, r, b)
           IN  /\ e.whole = s /\ e.low = n.last_applied /\ e.acks = b /\ e.read = c.wire
               /\ \A x : x \in e.sure <=> x \in 0 .. Len(s) /\ Decided(r, b, s, x, t)
               /\ \A x : x \in e.told <=> x \in Nat /\ Claimed(c.history.committed, s, x)
BY DEF Sheet

(* Terms and acknowledgements are of logs there are. *)
LEMMA SheetIsLedger ==
    ASSUME NEW c, NEW n, n.last_applied \in Nat, NEW t \in Nat, NEW r, Made(r),
           NEW s \in Seq(LogEntry), NEW b, Heard(r, b)
    PROVE  Ledger(Sheet(c, n, t, s, r, b))
<1> DEFINE e == Sheet(c, n, t, s, r, b)
<1>1. Len(s) \in Nat
  BY EntryTerm
<1>2. /\ e.whole = s /\ e.low = n.last_applied /\ e.acks = b
      /\ \A x : x \in e.sure <=> x \in 0 .. Len(s) /\ Decided(r, b, s, x, t)
      /\ \A x : x \in e.told <=> x \in Nat /\ Claimed(c.history.committed, s, x)
  BY SheetFields
<1> HIDE DEF e
<1>3. ASSUME NEW x \in e.sure, NEW y \in 0 .. x PROVE y \in e.sure
  <2>1. x \in Nat /\ x <= Len(s) /\ Decided(r, b, s, x, t) /\ y \in Nat /\ y <= x
    BY <1>1, <1>2
  <2>2. Decided(r, b, s, y, t)
    BY <1>1, <2>1, DecidedDown
  <2> QED BY <1>1, <1>2, <2>1, <2>2
<1>4. ASSUME NEW x \in e.told, NEW y \in 0 .. x PROVE y \in e.told
  <2>1. x \in Nat /\ Claimed(c.history.committed, s, x) /\ y \in Nat /\ y <= x
    BY <1>2
  <2>2. \A k \in 1 .. y : k \in 1 .. x
    BY <2>1
  <2>3. Claimed(c.history.committed, s, y)
    BY <2>1, <2>2 DEF Claimed
  <2> QED BY <1>2, <2>1, <2>3
<1>5. \A x \in b : x.index \in Nat
  BY DEF Heard
<1>6. e.sure \subseteq 0 .. Len(s) /\ e.told \subseteq Nat
  BY <1>2
<1>7. Ledger(e)
  BY <1>2, <1>3, <1>4, <1>5, <1>6 DEF Ledger
<1> QED BY <1>7 DEF e

(* What has been said keeps being said. *)
LEMMA TracksMore ==
    ASSUME NEW n, NEW e, NEW g, Tracks(n, e), e.acks \subseteq g.acks
    PROVE  Tracks(n, g)
<1>1. \A p, t, x : Acked(e.acks, p, t, x) => Acked(g.acks, p, t, x)
  BY DEF Acked
<1> QED BY <1>1 DEF Tracks

LEMMA ClaimedLess ==
    ASSUME NEW h, NEW s, NEW q, NEW x \in Nat, NEW y \in Nat, y <= x,
           Claimed(h, s, x), Keeps(q, s, y)
    PROVE  Claimed(h, q, y)
<1>1. \A k \in 1 .. y : k \in 1 .. x /\ q[k] = s[k]
  BY DEF Keeps
<1> QED BY <1>1 DEF Claimed

(* What a node has applied its log keeps. *)
LEMMA SceneApplied ==
    ASSUME FixedMembership, NEW c, NEW i, NEW m, NEW d, NEW f, NEW l, NEW a, NEW s, NEW r,
           Scene(c, i, m, d, f, l, a, s, r)
    PROVE  LET n == c.node[i]
           IN  /\ Keeps(s, f[i], n.last_applied)
               /\ Decided(l, a, f[i], n.last_applied, n.current_term)
               /\ n.last_applied \in Nat /\ n.last_applied <= Len(f[i])
<1> DEFINE n == c.node[i]
           t == m.current_term
           x == n.last_applied
<1>1. Turned(c, i, m, d) /\ Shadow(c, f, l, a)
  BY DEF Scene
<1>2. /\ i \in Server /\ t \in Nat /\ n.current_term \in Nat /\ n.current_term <= t
      /\ x \in Nat
  BY <1>1, TurnedTyped
<1>3. Vows(a, a, i, t)
  BY DEF Vows
<1>4. Complete(l, a)
  BY <1>3, SceneBacked
<1>5. f[i] \in Seq(LogEntry) /\ Len(f[i]) \in Nat
  BY SceneNode
<1>6. Made(l)
  BY SceneMade
<1>7. Decided(l, a, f[i], x, n.current_term)
  BY <1>1, <1>2 DEF Shadow, Settled
<1>8. x <= Len(f[i])
  BY <1>2, <1>5, <1>6, <1>7, DecidedFits
<1>9. t \in DOMAIN l => Keeps(l[t], f[i], x)
  BY <1>2, <1>4, <1>6, <1>7, DecidedKept
<1>10. Keeps(s, f[i], x)
  BY <1>2, <1>8, <1>9, SceneKeeps
<1> QED BY <1>2, <1>7, <1>8, <1>10

LEMMA SceneBased ==
    ASSUME FixedMembership, NEW c, NEW i, NEW m, NEW d, NEW f, NEW l, NEW a, NEW s, NEW r,
           Scene(c, i, m, d, f, l, a, s, r), NEW b, Vows(b, a, i, m.current_term)
    PROVE  LET n == c.node[i]
               e == Sheet(c, n, m.current_term, s, r, b)
           IN  Based(n, e) /\ n.last_applied \in e.told
<1> DEFINE n == c.node[i]
           t == m.current_term
           x == n.last_applied
           e == Sheet(c, n, t, s, r, b)
<1>1. Turned(c, i, m, d) /\ Shadow(c, f, l, a)
  BY DEF Scene
<1>2. /\ i \in Server /\ t \in Nat /\ n.current_term \in Nat /\ n.current_term <= t
      /\ n \in NodeRecord
  BY <1>1, TurnedTyped
<1>3. /\ Keeps(s, f[i], x) /\ Decided(l, a, f[i], x, n.current_term)
      /\ x \in Nat /\ x <= Len(f[i])
  BY SceneApplied
<1>4. /\ n.log.base_index <= n.commit_index /\ n.commit_index <= x
      /\ Claimed(c.history.committed, f[i], x)
      /\ n.app = Commands(f[i], x)
      /\ n.log.data = Commands(f[i], n.log.base_index)
  BY <1>1, <1>2 DEF Shadow, Settled
<1>5. n.log.base_index \in Nat /\ n.commit_index \in Nat
  BY <1>2, NodeFields, LogFields
<1>6. /\ e.whole = s /\ e.low = x /\ e.acks = b
      /\ \A y : y \in e.sure <=> y \in 0 .. Len(s) /\ Decided(r, b, s, y, t)
      /\ \A y : y \in e.told <=> y \in Nat /\ Claimed(c.history.committed, s, y)
  BY SheetFields
<1>7. Made(l) /\ Made(r) /\ Longer(l, r)
  BY SceneMade
<1>8. a \subseteq b
  BY DEF Vows
<1>9. Tracks(n, e)
  <2>1. Tracks(n, [acks |-> a])
    BY <1>1, <1>2 DEF Shadow, Listens
  <2>2. [acks |-> a].acks \subseteq e.acks
    BY <1>6, <1>8
  <2> QED BY <2>1, <2>2, TracksMore
<1>10. n.voters = Server
  BY <1>1 DEF Turned
<1> HIDE DEF n, t, e
<1>11. x \in e.sure
  <2>1. Decided(r, b, s, x, t)
    BY <1>2, <1>3, <1>7, <1>8, LongerDecided
  <2>2. Len(s) \in Nat /\ x <= Len(s)
    BY <1>3, SceneNode DEF Keeps
  <2> QED BY <1>3, <1>6, <2>1, <2>2
<1>12. x \in e.told /\ n.log.base_index \in e.told
  <2>1. Claimed(c.history.committed, s, x)
    BY <1>3, <1>4, ClaimedLess
  <2>2. n.log.base_index <= x
    BY <1>3, <1>4, <1>5
  <2>3. Keeps(s, f[i], n.log.base_index)
    BY <1>3, <1>5, <2>2, SceneNode DEF Keeps
  <2>4. Claimed(c.history.committed, s, n.log.base_index)
    BY <1>3, <1>4, <1>5, <2>2, <2>3, ClaimedLess
  <2> QED BY <1>3, <1>5, <1>6, <2>1, <2>4
<1>13. n.app = Commands(s, x) /\ n.log.data = Commands(s, n.log.base_index)
  <2>1. \A k \in 1 .. x : s[k] = f[i][k]
    BY <1>3 DEF Keeps
  <2>2. \A k \in 1 .. n.log.base_index : s[k] = f[i][k]
    BY <1>3, <1>4, <1>5, <2>1
  <2> QED BY <1>3, <1>4, <1>5, <2>1, <2>2, SameCommands
<1>14. x <= Larger(e.low, n.commit_index)
  BY <1>3, <1>4, <1>5, <1>6 DEF Larger
<1>15. Applies(n, e)
  BY <1>4, <1>6, <1>11, <1>12, <1>13, <1>14 DEF Applies
<1> QED BY <1>2, <1>9, <1>10, <1>12, <1>15 DEF Based, n, t, e

(* The step starts in order. *)
LEMMA SceneStepping ==
    ASSUME FixedMembership, NEW c, NEW i, NEW m, NEW d, NEW f, NEW l, NEW a, NEW s, NEW r,
           Scene(c, i, m, d, f, l, a, s, r), NEW b, Vows(b, a, i, m.current_term),
           Heard(r, b),
           Authors(c.node[i], m) => Acked(b, i, m.current_term, Len(s))
    PROVE  Stepping(c.node[i], m, Sheet(c, c.node[i], m.current_term, s, r, b))
<1> DEFINE n == c.node[i]
           t == m.current_term
           e == Sheet(c, n, t, s, r, b)
<1>1. Turned(c, i, m, d) /\ Shadow(c, f, l, a) /\ s = Rewritten(n, m, f[i], l)
  BY DEF Scene
<1>2. /\ i \in Server /\ t \in Nat /\ m.id = i /\ n \in NodeRecord
      /\ n.last_applied \in Nat
  BY <1>1, TurnedTyped
<1>3. Ready(n) /\ m.voters = Server
  BY <1>1, <1>2 DEF Turned
<1>4. Based(n, e) /\ n.last_applied \in e.told
  BY SceneBased
<1>5. Made(l) /\ Made(r) /\ Longer(l, r)
  BY SceneMade
<1>6. s \in Seq(LogEntry) /\ Len(s) \in Nat /\ Holding(m.log, s)
      /\ Holding(n.log, f[i])
  BY SceneNode
<1>7. Ledger(e)
  BY <1>2, <1>5, <1>6, SheetIsLedger
<1>8. /\ e.whole = s /\ e.low = n.last_applied /\ e.acks = b
      /\ \A y : y \in e.sure <=> y \in 0 .. Len(s) /\ Decided(r, b, s, y, t)
  BY SheetFields
<1>9. Stays(n, m) => Holding(n.log, s)
  BY <1>1, <1>6 DEF Rewritten
<1>10. Authors(n, m) => t \in DOMAIN r /\ r[t] = s
  BY SceneAuthors
<1> HIDE DEF n, t, e
<1>11. ASSUME m.role = "Leader"
       PROVE  Acked(b, i, t, LastIndex(m.log)) /\ Counts(t, e)
  <2>1. t \in DOMAIN r /\ r[t] = s /\ Acked(b, i, t, Len(s))
    BY <1>10, <1>11 DEF Authors, n, t
  <2>2. LastIndex(m.log) = Len(s)
    BY <1>6 DEF Holding
  <2>3. ASSUME NEW k \in 1 .. Len(s), s[k].term = t,
               \E Q \in Majorities : \A q \in Q : Acked(b, q, t, k)
        PROVE  k \in e.sure
    <3>1. Chosen(r, b, t, k)
      BY <2>1, <2>3 DEF Chosen
    <3>2. Keeps(s, s, k)
      BY <1>6 DEF Keeps
    <3>3. Decided(r, b, s, k, t)
      BY <1>2, <1>6, <2>1, <3>1, <3>2 DEF Decided
    <3> QED BY <1>6, <1>8, <3>3
  <2> QED BY <1>8, <2>1, <2>2, <2>3 DEF Counts
<1>12. Leading(m, e)
  BY <1>2, <1>8, <1>11 DEF Leading, t
<1>13. n.last_applied <= e.low
  BY <1>2, <1>8
<1>14. Stepping(n, m, e)
  BY <1>3, <1>4, <1>6, <1>7, <1>8, <1>9, <1>12, <1>13 DEF Stepping, Stays
<1> QED BY <1>14 DEF n, t, e

(* What was acknowledged to a leader is of its log. *)
LEMMA AckedIsThere ==
    ASSUME NEW c, NEW f, NEW l, NEW a, Shadow(c, f, l, a), NEW i \in Server,
           c.node[i].role = "Leader", NEW q, NEW x \in Nat,
           Acked(a, q, c.node[i].current_term, x)
    PROVE  x <= LastIndex(c.node[i].log)
<1> DEFINE n == c.node[i]
<1>1. /\ l[n.current_term] = f[i] /\ f[i] \in Seq(LogEntry)
      /\ LastIndex(n.log) = Len(f[i])
  BY DEF Shadow, Owns, Holding
<1>2. Len(f[i]) \in Nat
  BY <1>1, EntryTerm
<1>3. CASE x = 0
  BY <1>1, <1>2, <1>3
<1>4. ASSUME NEW b \in a, b.term = n.current_term, x <= b.index
      PROVE  x <= LastIndex(n.log)
  <2>1. b.index \in Nat /\ b.index <= Len(l[b.term])
    BY DEF Shadow, Heard
  <2> QED BY <1>1, <1>2, <1>4, <2>1
<1> QED BY <1>3, <1>4 DEF Acked

(* A message may be relied on for what it reports. *)
LEMMA SceneVouched ==
    ASSUME FixedMembership, NEW c, NEW i, NEW m, NEW d, NEW f, NEW l, NEW a, NEW s, NEW r,
           Scene(c, i, m, d, f, l, a, s, r), NEW b, Vows(b, a, i, m.current_term),
           NEW x \in c.wire, x.to = i
    PROVE  Vouched(c.node[i], m, x, Sheet(c, c.node[i], m.current_term, s, r, b))
<1> DEFINE n == c.node[i]
           t == m.current_term
           e == Sheet(c, n, t, s, r, b)
           p == Carried(x)
           u == x.term
<1>1. Turned(c, i, m, d) /\ Shadow(c, f, l, a)
  BY DEF Scene
<1>2. i \in Server /\ t \in Nat /\ x \in Message /\ m.log \in Log
  BY <1>1, TurnedTyped
<1>3. Made(l) /\ Made(r) /\ Longer(l, r) /\ Grown(r, s, t)
  BY SceneMade
<1>4. s \in Seq(LogEntry) /\ Len(s) \in Nat /\ Holding(m.log, s)
  BY SceneNode
<1>5. IsPiece(m.log) /\ Part(m.log, Whole(s))
  BY <1>2, <1>4, LogIsPiece DEF Holding
<1>6. /\ e.whole = s /\ e.acks = b
      /\ \A y : y \in e.sure <=> y \in 0 .. Len(s) /\ Decided(r, b, s, y, t)
      /\ \A y : y \in e.told <=> y \in Nat /\ Claimed(c.history.committed, s, y)
  BY SheetFields
<1>7. a \subseteq b
  BY DEF Vows
<1>8. Replicates(x) => /\ u \in DOMAIN l
                       /\ Part(p, Whole(l[u]))
                       /\ x.to # x.from
                       /\ [term |-> u, leader |-> x.from] \in c.history.victories
  BY <1>1 DEF Shadow, Reports
<1>9. Replicates(x) => IsPiece(p) /\ LastIndex(p) \in Span(p) /\ p.base_index \in Span(p)
  BY <1>2, CarriedIsPiece, PieceFields
<1>10. u \in Nat
  BY <1>2, MessageFields
<1>11. \A q, y : Acked(a, q, u, y) => Acked(b, q, u, y)
  BY <1>7 DEF Acked
<1> HIDE DEF n, t, e, p, u
<1>12. ASSUME Replicates(x), u = n.current_term PROVE n.role # "Leader"
  <2> SUFFICES ASSUME n.role = "Leader" PROVE FALSE
    OBVIOUS
  <2> DEFINE v == [term |-> n.current_term, leader |-> i]
             w == [term |-> u, leader |-> x.from]
  <2>1. v \in c.history.victories /\ w \in c.history.victories
    BY <1>1, <1>2, <1>8, <1>12 DEF Turned, n
  <2>2. v \in d.history.victories /\ w \in d.history.victories
    BY <1>1, <2>1 DEF Turned
  <2>3. v.term = w.term
    BY <1>12
  <2>4. v.leader = w.leader
    <3> HIDE DEF v, w
    <3> QED BY <1>1, <2>2, <2>3 DEF Turned
  <2> QED BY <1>8, <1>12, <2>4
<1>13. ASSUME NEW y \in Nat, Keeps(s, l[u], y), u \in DOMAIN l, u <= t, NEW z \in Nat,
              Decided(l, a, l[u], z, u), y <= z
       PROVE  y \in e.sure
  <2>1. Decided(r, b, s, y, t)
    BY <1>2, <1>3, <1>7, <1>10, <1>13, LongerDecided
  <2>2. y <= Len(s)
    BY <1>13 DEF Keeps
  <2> QED BY <1>4, <1>6, <2>1, <2>2
<1>14. ASSUME x.kind = "AppendEntries", u <= t,
              TermAt(m.log, LastIndex(p)) = TermAt(p, LastIndex(p)),
              NEW y \in Nat, y <= LastIndex(p), y <= x.leader_commit
       PROVE  y \in e.sure
  <2>1. Replicates(x) /\ x.leader_commit \in Nat
    BY <1>2, <1>14, AppendEntriesFields DEF Replicates
  <2>2. LastIndex(p) \in Nat /\ Keeps(s, l[u], LastIndex(p))
    BY <1>2, <1>3, <1>4, <1>5, <1>8, <1>9, <1>14, <2>1, CarriedKeeps
  <2>3. Keeps(s, l[u], y)
    <3>1. Len(l[u]) \in Nat
      BY <1>3, <1>8, <2>1, MadeLogs
    <3> QED BY <1>4, <1>14, <2>2, <3>1 DEF Keeps
  <2>4. Decided(l, a, l[u], x.leader_commit, u)
    BY <1>1, <1>14 DEF Shadow, Reports, u
  <2> QED BY <1>8, <1>13, <1>14, <2>1, <2>3, <2>4
<1>15. ASSUME x.kind = "InstallSnapshot", u <= t,
              m.log.base_index = x.snapshot.index, m.log.base_term = x.snapshot.term
       PROVE  /\ x.snapshot.index \in e.sure
              /\ x.snapshot.index \in e.told
              /\ x.snapshot.data = Commands(s, x.snapshot.index)
  <2> DEFINE y == x.snapshot.index
  <2>1. Replicates(x)
    BY <1>15 DEF Replicates
  <2>2. p.base_index = y /\ p.base_term = x.snapshot.term
    BY <1>2, <1>15, <2>1, CarriedIsPiece DEF p
  <2>3. TermAt(m.log, y) = TermAt(p, y) /\ y \in Span(p)
    BY <1>9, <1>15, <2>1, <2>2 DEF TermAt
  <2>4. y \in Nat /\ Keeps(s, l[u], y)
    BY <1>2, <1>3, <1>4, <1>5, <1>8, <1>9, <2>1, <2>3, CarriedKeeps
  <2>5. /\ Decided(l, a, l[u], y, u)
        /\ Claimed(c.history.committed, l[u], y)
        /\ x.snapshot.data = Commands(l[u], y)
    BY <1>1, <1>15 DEF Shadow, Reports, u
  <2> HIDE DEF y
  <2>6. y \in e.sure
    BY <1>8, <1>13, <1>15, <2>1, <2>4, <2>5
  <2>7. y \in e.told
    BY <1>6, <2>4, <2>5, ClaimedLess
  <2>8. \A k \in 1 .. y : s[k] = l[u][k]
    BY <2>4 DEF Keeps
  <2>9. x.snapshot.data = Commands(s, y)
    BY <2>4, <2>5, <2>8, SameCommands
  <2> QED BY <2>6, <2>7, <2>9 DEF y
<1>16. ASSUME x.kind = "AppendEntriesReply", n.role = "Leader", u = n.current_term
       PROVE  Acked(b, x.from, u, x.match_index) /\ x.match_index <= LastIndex(n.log)
  <2>1. Acked(a, x.from, u, x.match_index) /\ x.match_index \in Nat
    BY <1>1, <1>2, <1>16, AppendReplyFields DEF Shadow, Reports, u
  <2>2. x.match_index <= LastIndex(n.log)
    BY <1>1, <1>2, <1>16, <2>1, AckedIsThere DEF n
  <2> QED BY <1>11, <2>1, <2>2
<1>17. ASSUME x.kind = "InstallSnapshotReply", n.role = "Leader", u = n.current_term
       PROVE  Acked(b, x.from, u, x.last_index) /\ x.last_index <= LastIndex(n.log)
  <2>1. Acked(a, x.from, u, x.last_index) /\ x.last_index \in Nat
    BY <1>1, <1>2, <1>17, InstallSnapshotReplyFields DEF Shadow, Reports, u
  <2>2. x.last_index <= LastIndex(n.log)
    BY <1>1, <1>2, <1>17, <2>1, AckedIsThere DEF n
  <2> QED BY <1>11, <2>1, <2>2
<1>18. Vouched(n, m, x, e)
  BY <1>6, <1>12, <1>14, <1>15, <1>16, <1>17 DEF Vouched, t, p, u
<1> QED BY <1>18 DEF n, t, e

(* The node is as it should be after its step, and its messages are true.   *)
LEMMA SceneFit ==
    ASSUME FixedMembership, NEW c, NEW i, NEW m, NEW d, NEW f, NEW l, NEW a, NEW s, NEW r,
           Scene(c, i, m, d, f, l, a, s, r), NEW b, Vows(b, a, i, m.current_term),
           Heard(r, b),
           Authors(c.node[i], m) => Acked(b, i, m.current_term, Len(s))
    PROVE  Fit(m, Sheet(c, c.node[i], m.current_term, s, r, b))
<1> DEFINE n == c.node[i]
           e == Sheet(c, n, m.current_term, s, r, b)
<1>1. Turned(c, i, m, d)
  BY DEF Scene
<1>2. n.id = i
  BY <1>1, TurnedTyped
<1>3. e.read = c.wire
  BY SheetFields
<1>4. Stepping(n, m, e)
  BY SceneStepping
<1>5. \A x \in c.wire : x.to = n.id => Vouched(n, m, x, e)
  BY <1>2, SceneVouched
<1>6. c.wire \subseteq Message /\ Handled(n, m, c.wire)
  BY <1>1 DEF Turned
<1> HIDE DEF n, e
<1>7. Fit(m, e)
  BY <1>3, <1>4, <1>5, <1>6, HandledFits
<1> QED BY <1>7 DEF n, e

-----------------------------------------------------------------------------
(* What a node newly acknowledges, in its term: the log it leads with, and  *)
(* what it replies.                                                         *)

(* The log s has, up to what is acknowledged, what the leader's log has.    *)
Earned(b, a, i, t, s, r) ==
    /\ a \subseteq b
    /\ \A x \in b : \/ x \in a
                    \/ /\ x.server = i /\ x.term = t /\ x.index \in Nat
                       /\ t \in DOMAIN r /\ Keeps(s, r[t], x.index)

Led(n, m, s, a) ==
    a \cup {x \in {Ack(m.id, m.current_term, Len(s))} : Authors(n, m)}

(* The index that a reply acknowledges. *)
AckOf(x) ==
    IF x.kind = "AppendEntriesReply" THEN x.match_index
    ELSE IF x.kind = "InstallSnapshotReply" THEN x.last_index
    ELSE 0

Replied(n, m, s, a) ==
    Led(n, m, s, a)
        \cup {Ack(m.id, m.current_term, AckOf(x)) : x \in {x \in m.sends : AckOf(x) # 0}}

LEMMA EarnedIsHeard ==
    ASSUME NEW c, NEW i, NEW m, NEW d, NEW f, NEW l, NEW a, NEW s, NEW r,
           Scene(c, i, m, d, f, l, a, s, r), NEW b, Earned(b, a, i, m.current_term, s, r)
    PROVE  Vows(b, a, i, m.current_term) /\ Heard(r, b)
<1> DEFINE t == m.current_term
<1>1. Turned(c, i, m, d) /\ Heard(l, a)
  BY DEF Scene, Shadow
<1>2. i \in Server
  BY <1>1, TurnedTyped
<1>3. Made(l) /\ Made(r) /\ Longer(l, r)
  BY SceneMade
<1>4. Vows(b, a, i, t)
  BY DEF Vows, Earned
<1> SUFFICES ASSUME NEW x \in b
             PROVE  /\ x.server \in Server /\ x.term \in DOMAIN r
                    /\ x.index \in Nat /\ x.index <= Len(r[x.term])
  BY <1>4 DEF Heard
<1>5. CASE x \in a
  <2>1. /\ x.server \in Server /\ x.term \in DOMAIN l /\ x.term \in DOMAIN r
        /\ x.index \in Nat /\ x.index <= Len(l[x.term])
    BY <1>1, <1>3, <1>5 DEF Heard, Longer
  <2>2. Len(l[x.term]) \in Nat /\ Len(r[x.term]) \in Nat
    BY <1>3, <2>1, MadeLogs
  <2>3. Len(l[x.term]) <= Len(r[x.term])
    BY <1>3, <2>1 DEF Longer, Keeps
  <2> QED BY <2>1, <2>2, <2>3
<1>6. CASE /\ x.server = i /\ x.term = t /\ x.index \in Nat
           /\ t \in DOMAIN r /\ Keeps(s, r[t], x.index)
  BY <1>2, <1>6 DEF Keeps
<1> QED BY <1>5, <1>6 DEF Earned

LEMMA LedIsEarned ==
    ASSUME NEW c, NEW i, NEW m, NEW d, NEW f, NEW l, NEW a, NEW s, NEW r,
           Scene(c, i, m, d, f, l, a, s, r)
    PROVE  LET b == Led(c.node[i], m, s, a)
           IN  /\ Earned(b, a, i, m.current_term, s, r)
               /\ Authors(c.node[i], m) => Acked(b, i, m.current_term, Len(s))
<1> DEFINE n == c.node[i]
           t == m.current_term
           b == Led(n, m, s, a)
           w == Ack(m.id, t, Len(s))
<1>1. Turned(c, i, m, d)
  BY DEF Scene
<1>2. m.id = i
  BY <1>1, TurnedTyped
<1>3. Authors(n, m) => t \in DOMAIN r /\ r[t] = s
  BY SceneAuthors
<1>4. Len(s) \in Nat /\ Keeps(s, s, Len(s))
  BY SceneNode DEF Keeps
<1>5. w.server = i /\ w.term = t /\ w.index = Len(s)
  BY <1>2 DEF Ack
<1>6. b = a \cup {x \in {w} : Authors(n, m)}
  BY DEF Led
<1> HIDE DEF n, t, b, w
<1>7. Earned(b, a, i, t, s, r)
  BY <1>3, <1>4, <1>5, <1>6 DEF Earned
<1>8. ASSUME Authors(n, m) PROVE Acked(b, i, t, Len(s))
  <2>1. w \in b /\ Len(s) <= w.index
    BY <1>4, <1>5, <1>6, <1>8
  <2> QED BY <1>5, <2>1 DEF Acked
<1> QED BY <1>7, <1>8 DEF n, t, b

(* What a node replies it holds, and so does the leader. *)
LEMMA ReplyHolds ==
    ASSUME FixedMembership, NEW c, NEW i, NEW m, NEW d, NEW f, NEW l, NEW a, NEW s, NEW r,
           Scene(c, i, m, d, f, l, a, s, r), NEW x \in m.sends, AckOf(x) # 0
    PROVE  LET t == m.current_term
               y == AckOf(x)
           IN  /\ y \in Nat /\ t \in DOMAIN r /\ Keeps(s, r[t], y)
               /\ x.from = i /\ x.term = t
<1> DEFINE n == c.node[i]
           t == m.current_term
           y == AckOf(x)
           b == Led(n, m, s, a)
           e == Sheet(c, n, t, s, r, b)
<1>1. Turned(c, i, m, d) /\ Shadow(c, f, l, a)
  BY DEF Scene
<1>2. i \in Server /\ t \in Nat /\ m.id = i /\ x \in Message /\ m.log \in Log /\ Says(m, x)
      /\ \A g \in c.wire : g \in Message
  BY <1>1, TurnedTyped
<1>3. /\ Earned(b, a, i, t, s, r)
      /\ Authors(n, m) => Acked(b, i, t, Len(s))
  BY LedIsEarned
<1>4. Vows(b, a, i, t) /\ Heard(r, b)
  BY <1>3, EarnedIsHeard
<1>5. Fit(m, e)
  BY <1>3, <1>4, SceneFit
<1>6. Complete(r, b)
  BY <1>4, SceneBacked
<1>7. Made(l) /\ Made(r) /\ Longer(l, r) /\ Grown(r, s, t)
  BY SceneMade
<1>8. s \in Seq(LogEntry) /\ Len(s) \in Nat /\ Holding(m.log, s)
  BY SceneNode
<1>9. /\ e.whole = s /\ e.acks = b /\ e.read = c.wire
      /\ \A z : z \in e.sure <=> z \in 0 .. Len(s) /\ Decided(r, b, s, z, t)
  BY SheetFields
<1>10. x.kind \in {"AppendEntriesReply", "InstallSnapshotReply"} /\ y \in Nat /\ y > 0
  <2>1. x.kind = "AppendEntriesReply" => y = x.match_index /\ y \in Nat
    BY <1>2, AppendReplyFields DEF AckOf
  <2>2. x.kind = "InstallSnapshotReply" => y = x.last_index /\ y \in Nat
    BY <1>2, InstallSnapshotReplyFields DEF AckOf
  <2>3. y # 0 /\ x.kind \in {"AppendEntriesReply", "InstallSnapshotReply"}
    BY DEF AckOf
  <2> QED BY <2>1, <2>2, <2>3
<1>11. x.from = i
  BY <1>2, <1>10 DEF Says, Told
<1>12. Speaks(m, x, e) /\ m.last_applied \in e.sure
  BY <1>5 DEF Fit, Applies
<1> HIDE DEF n, b, e
<1>13. /\ x.term = t
       /\ \E g \in c.wire :
            /\ Replicates(g) /\ g.term = t
            /\ \/ y <= m.last_applied
               \/ /\ y = LastIndex(Carried(g))
                  /\ TermAt(m.log, y) = TermAt(Carried(g), y)
  <2>1. CASE x.kind = "AppendEntriesReply"
    <3>1. y = x.match_index
      BY <2>1 DEF AckOf
    <3> HIDE DEF y
    <3> QED BY <1>9, <1>10, <1>12, <2>1, <3>1 DEF Speaks
  <2>2. CASE x.kind = "InstallSnapshotReply"
    <3>1. y = x.last_index
      BY <2>2 DEF AckOf
    <3> HIDE DEF y
    <3> QED BY <1>9, <1>10, <1>12, <2>2, <3>1 DEF Speaks
  <2> QED BY <1>10, <2>1, <2>2
<1> HIDE DEF t, y
<1>14. PICK g \in c.wire : /\ Replicates(g) /\ g.term = t
                           /\ \/ y <= m.last_applied
                              \/ /\ y = LastIndex(Carried(g))
                                 /\ TermAt(m.log, y) = TermAt(Carried(g), y)
  BY <1>13
<1>15. t \in DOMAIN l /\ t \in DOMAIN r /\ Part(Carried(g), Whole(l[t]))
  BY <1>1, <1>7, <1>14 DEF Shadow, Reports, Longer
<1>16. CASE y <= m.last_applied
  <2>1. m.last_applied \in 0 .. Len(s) /\ Decided(r, b, s, m.last_applied, t)
    BY <1>9, <1>12
  <2>2. m.last_applied \in Nat
    BY <1>8, <2>1
  <2>3. Keeps(r[t], s, m.last_applied)
    BY <1>2, <1>6, <1>7, <1>15, <2>1, <2>2, DecidedKept DEF t
  <2>4. Len(r[t]) \in Nat
    BY <1>7, <1>15, MadeLogs
  <2>5. Keeps(s, r[t], y)
    BY <1>8, <1>10, <1>16, <2>1, <2>2, <2>3, <2>4 DEF Keeps
  <2> QED BY <1>10, <1>11, <1>13, <1>15, <2>5 DEF t, y
<1>17. CASE y = LastIndex(Carried(g)) /\ TermAt(m.log, y) = TermAt(Carried(g), y)
  <2>1. IsPiece(Carried(g)) /\ y \in Span(Carried(g))
    BY <1>2, <1>14, <1>17, CarriedIsPiece, PieceFields
  <2>2. IsPiece(m.log) /\ Part(m.log, Whole(s))
    BY <1>2, <1>8, LogIsPiece DEF Holding
  <2>3. Keeps(s, l[t], y)
    BY <1>2, <1>7, <1>8, <1>15, <1>17, <2>1, <2>2, CarriedKeeps DEF t
  <2>4. Keeps(s, r[t], y)
    BY <1>7, <1>10, <1>15, <2>3, LongerKeeps
  <2> QED BY <1>10, <1>11, <1>13, <1>15, <2>4 DEF t, y
<1> QED BY <1>14, <1>16, <1>17

LEMMA RepliedIsEarned ==
    ASSUME FixedMembership, NEW c, NEW i, NEW m, NEW d, NEW f, NEW l, NEW a, NEW s, NEW r,
           Scene(c, i, m, d, f, l, a, s, r)
    PROVE  LET b == Replied(c.node[i], m, s, a)
           IN  /\ Earned(b, a, i, m.current_term, s, r)
               /\ Authors(c.node[i], m) => Acked(b, i, m.current_term, Len(s))
               /\ \A x \in m.sends : AckOf(x) # 0 => Acked(b, i, m.current_term, AckOf(x))
<1> DEFINE n == c.node[i]
           t == m.current_term
           g == Led(n, m, s, a)
           b == Replied(n, m, s, a)
           k(x) == Ack(m.id, t, AckOf(x))
<1>1. Turned(c, i, m, d)
  BY DEF Scene
<1>2. m.id = i
  BY <1>1, TurnedTyped
<1>3. /\ Earned(g, a, i, t, s, r)
      /\ Authors(n, m) => Acked(g, i, t, Len(s))
  BY LedIsEarned
<1>4. \A x : k(x).server = i /\ k(x).term = t /\ k(x).index = AckOf(x)
  BY <1>2 DEF Ack
<1>5. b = g \cup {k(x) : x \in {x \in m.sends : AckOf(x) # 0}}
  BY DEF Replied
<1>6. ASSUME NEW x \in m.sends, AckOf(x) # 0
      PROVE  AckOf(x) \in Nat /\ t \in DOMAIN r /\ Keeps(s, r[t], AckOf(x))
  BY <1>6, ReplyHolds
<1> HIDE DEF n, t, g, b, k
<1>7. Earned(b, a, i, t, s, r)
  <2> SUFFICES ASSUME NEW z \in b, z \notin g
               PROVE  /\ z.server = i /\ z.term = t /\ z.index \in Nat
                      /\ t \in DOMAIN r /\ Keeps(s, r[t], z.index)
    BY <1>3, <1>5 DEF Earned
  <2>1. PICK x \in m.sends : AckOf(x) # 0 /\ z = k(x)
    BY <1>5
  <2> QED BY <1>4, <1>6, <2>1
<1>8. ASSUME Authors(n, m) PROVE Acked(b, i, t, Len(s))
  BY <1>3, <1>5, <1>8 DEF Acked
<1>9. ASSUME NEW x \in m.sends, AckOf(x) # 0 PROVE Acked(b, i, t, AckOf(x))
  <2>1. k(x) \in b
    BY <1>5, <1>9
  <2>2. AckOf(x) <= k(x).index
    BY <1>4, <1>6, <1>9
  <2> QED BY <1>4, <2>1, <2>2 DEF Acked
<1> QED BY <1>7, <1>8, <1>9 DEF n, t, b

-----------------------------------------------------------------------------
(* The logs and acknowledgements are, after the turn, as they should be.    *)

Held(f, i, s) == [j \in Server |-> IF j = i THEN s ELSE f[j]]

(* Only one server writes in a term. *)
LEMMA OneAuthor ==
    ASSUME NEW c, NEW i, NEW m, NEW d, Turned(c, i, m, d), NEW j \in Server, j # i,
           c.node[j].role = "Leader", Authors(c.node[i], m)
    PROVE  c.node[j].current_term # m.current_term
<1> DEFINE n == c.node[i]
           t == m.current_term
           v == [term |-> t, leader |-> i]
           w == [term |-> c.node[j].current_term, leader |-> j]
<1>1. i \in Server /\ m.id = i
  BY TurnedTyped
<1>2. w \in d.history.victories
  BY DEF Turned
<1>3. v \in d.history.victories
  <2>1. CASE m.role = "Leader"
    <3>1. v \in VictoryOf(m)
      BY <1>1, <2>1 DEF VictoryOf
    <3> QED BY <3>1 DEF Turned
  <2>2. CASE n.role = "Leader" /\ t = n.current_term
    BY <1>1, <2>2 DEF Turned
  <2> QED BY <2>1, <2>2 DEF Authors, Prolongs
<1>4. v.leader # w.leader
  OBVIOUS
<1>5. v.term # w.term
  <2> HIDE DEF v, w
  <2> QED BY <1>2, <1>3, <1>4 DEF Turned
<1> QED BY <1>5

LEMMA TurnKeepsOwns ==
    ASSUME NEW c, NEW i, NEW m, NEW d, NEW f, NEW l, NEW a, NEW s, NEW r,
           Scene(c, i, m, d, f, l, a, s, r)
    PROVE  Owns(d, Held(f, i, s), r)
<1> DEFINE n == c.node[i]
           t == m.current_term
           g == Held(f, i, s)
<1>1. Turned(c, i, m, d) /\ Shadow(c, f, l, a)
  BY DEF Scene
<1>2. /\ i \in Server /\ t \in Nat
      /\ d.node[i].log = m.log /\ d.node[i].role = m.role /\ d.node[i].current_term = t
      /\ \A j \in Server : j # i => d.node[j] = c.node[j]
      /\ \A j \in Server : c.node[j].current_term \in Nat
  BY <1>1, TurnedTyped
<1>3. g[i] = s /\ \A j \in Server : j # i => g[j] = f[j]
  BY <1>2 DEF Held
<1>4. Made(l) /\ Made(r) /\ Longer(l, r) /\ Grown(r, s, t)
  BY SceneMade
<1>5. s \in Seq(LogEntry) /\ Holding(m.log, s)
  BY SceneNode
<1>6. Authors(n, m) => t \in DOMAIN r /\ r[t] = s
  BY SceneAuthors
<1>7. \A u \in DOMAIN l : \/ r[u] = l[u]
                          \/ u = t /\ Authors(n, m)
  <2>1. \A u \in DOMAIN r : \/ u \in DOMAIN l /\ r[u] = l[u]
                            \/ u = t /\ Authors(n, m)
    BY SceneOld
  <2> QED BY <1>4, <2>1 DEF Longer
<1>8. m.role = "Leader" => Authors(n, m)
  BY DEF Authors
<1> HIDE DEF n, t, g
<1> SUFFICES ASSUME NEW j \in Server
             PROVE  LET k == d.node[j]
                    IN  /\ g[j] \in Seq(LogEntry)
                        /\ Holding(k.log, g[j])
                        /\ Grown(r, g[j], k.current_term)
                        /\ k.role = "Leader" => /\ k.current_term \in DOMAIN r
                                                /\ r[k.current_term] = g[j]
  BY DEF Owns, g
<1>9. CASE j = i
  BY <1>2, <1>3, <1>4, <1>5, <1>6, <1>8, <1>9
<1>10. CASE j # i
  <2> DEFINE u == c.node[j].current_term
  <2>1. /\ f[j] \in Seq(LogEntry) /\ Holding(c.node[j].log, f[j]) /\ Grown(l, f[j], u)
        /\ c.node[j].role = "Leader" => u \in DOMAIN l /\ l[u] = f[j]
    BY <1>1 DEF Shadow, Owns
  <2>2. u \in Nat
    BY <1>2
  <2>3. c.node[j].role = "Leader" /\ Authors(n, m) => u # t
    BY <1>1, <1>10, OneAuthor DEF n, t
  <2> HIDE DEF u
  <2>4. Grown(r, f[j], u)
    BY <1>4, <2>1, <2>2, LongerGrown
  <2>5. c.node[j].role = "Leader" => u \in DOMAIN r /\ r[u] = f[j]
    BY <1>4, <1>7, <2>1, <2>3 DEF Longer
  <2> QED BY <1>2, <1>3, <1>10, <2>1, <2>4, <2>5 DEF u
<1> QED BY <1>9, <1>10

LEMMA TurnKeepsWord ==
    ASSUME NEW c, NEW i, NEW m, NEW d, NEW f, NEW l, NEW a, NEW s, NEW r,
           Scene(c, i, m, d, f, l, a, s, r), NEW b, Earned(b, a, i, m.current_term, s, r)
    PROVE  StillHolds(d, Held(f, i, s), r, b)
<1> DEFINE n == c.node[i]
           t == m.current_term
           g == Held(f, i, s)
<1>1. Turned(c, i, m, d) /\ Shadow(c, f, l, a)
  BY DEF Scene
<1>2. /\ i \in Server /\ t \in Nat /\ n.current_term \in Nat /\ n.current_term <= t
      /\ d.node[i].current_term = t
      /\ \A j \in Server : j # i => d.node[j] = c.node[j]
      /\ \A j \in Server : c.node[j].current_term \in Nat
  BY <1>1, TurnedTyped
<1>3. g[i] = s /\ \A j \in Server : j # i => g[j] = f[j]
  BY <1>2 DEF Held
<1>4. Made(l) /\ Made(r) /\ Longer(l, r)
  BY SceneMade
<1>5. s \in Seq(LogEntry) /\ Len(s) \in Nat /\ f[i] \in Seq(LogEntry) /\ Len(f[i]) \in Nat
  BY SceneNode
<1>6. \A u \in DOMAIN l : u \in Nat /\ Len(l[u]) \in Nat
  BY <1>4, MadeLogs
<1>7. \A u \in DOMAIN r : u \in Nat /\ Len(r[u]) \in Nat
  BY <1>4, MadeLogs
<1> HIDE DEF n, t, g
<1> SUFFICES ASSUME NEW x \in b
             PROVE  LET u == d.node[x.server].current_term
                    IN  /\ x.term <= u
                        /\ \A k \in 1 .. x.index :
                                Handed(r, x.term, k, u + 1) => Keeps(g[x.server], r[x.term], k)
  BY DEF StillHolds, g
<1>8. CASE x \in a
  <2> DEFINE v == c.node[x.server].current_term
             u == d.node[x.server].current_term
  <2>1. /\ x.server \in Server /\ x.term \in DOMAIN l /\ x.index \in Nat
        /\ x.index <= Len(l[x.term])
    BY <1>1, <1>8 DEF Shadow, Heard
  <2>2. /\ x.term <= v
        /\ \A k \in 1 .. x.index : Handed(l, x.term, k, v + 1) => Keeps(f[x.server], l[x.term], k)
    BY <1>1, <1>8 DEF Shadow, StillHolds
  <2>3. v \in Nat /\ u \in Nat /\ v <= u
    BY <1>2, <2>1 DEF n
  <2>4. x.term <= u
    BY <1>6, <2>1, <2>2, <2>3
  <2> HIDE DEF u, v
  <2>5. ASSUME NEW k \in 1 .. x.index, Handed(r, x.term, k, u + 1)
        PROVE  Keeps(g[x.server], r[x.term], k)
    <3>1. k \in 1 .. Len(l[x.term]) /\ k \in Nat
      BY <1>6, <2>1
    <3>2. Handed(l, x.term, k, v + 1) /\ Handed(l, x.term, k, u + 1)
      <4>1. \A w \in DOMAIN l : w < v + 1 => w < u + 1
        BY <1>6, <2>3
      <4>2. Handed(l, x.term, k, v + 1)
        BY <1>4, <2>1, <2>5, <3>1, <4>1, HandedBack
      <4>3. Handed(l, x.term, k, u + 1)
        BY <1>4, <2>1, <2>5, <3>1, HandedBack
      <4> QED BY <4>2, <4>3
    <3>3. Keeps(f[x.server], l[x.term], k)
      BY <2>2, <2>5, <3>2
    <3>4. Keeps(g[x.server], l[x.term], k)
      <4>1. CASE x.server # i
        BY <1>3, <2>1, <3>3, <4>1
      <4>2. CASE x.server = i
        <5>1. u = t /\ Keeps(f[i], l[x.term], k)
          BY <1>2, <3>3, <4>2 DEF u
        <5>2. t \in DOMAIN l => Keeps(l[t], f[i], k)
          <6>1. ASSUME t \in DOMAIN l, x.term = t PROVE Keeps(l[t], f[i], k)
            BY <5>1, <6>1 DEF Keeps
          <6>2. ASSUME t \in DOMAIN l, x.term # t PROVE Keeps(l[t], f[i], k)
            <7>1. x.term < t /\ t < u + 1
              BY <1>2, <1>6, <2>1, <2>4, <5>1, <6>2 DEF u
            <7>2. Keeps(l[t], l[x.term], k)
              BY <3>2, <6>2, <7>1 DEF Handed
            <7> QED BY <5>1, <7>2 DEF Keeps
          <6> QED BY <6>1, <6>2
        <5>3. k <= Len(f[i])
          BY <5>1 DEF Keeps
        <5>4. Keeps(s, f[i], k)
          BY <3>1, <5>2, <5>3, SceneKeeps DEF t
        <5>5. Keeps(s, l[x.term], k)
          BY <5>1, <5>4 DEF Keeps
        <5> QED BY <1>3, <4>2, <5>5
      <4> QED BY <4>1, <4>2
    <3> QED BY <1>4, <2>1, <3>1, <3>4, LongerKeeps
  <2> QED BY <2>4, <2>5 DEF u
<1>9. CASE /\ x.server = i /\ x.term = t /\ x.index \in Nat
           /\ t \in DOMAIN r /\ Keeps(s, r[t], x.index)
  <2>1. \A k \in 1 .. x.index : Keeps(s, r[t], k)
    BY <1>5, <1>7, <1>9 DEF Keeps
  <2> QED BY <1>2, <1>3, <1>9, <2>1
<1> QED BY <1>8, <1>9 DEF Earned, t

(* The step, measured against the acknowledgements it leaves. *)
LEMMA TurnFit ==
    ASSUME FixedMembership, NEW c, NEW i, NEW m, NEW d, NEW f, NEW l, NEW a, NEW s, NEW r,
           Scene(c, i, m, d, f, l, a, s, r), NEW b, b = Replied(c.node[i], m, s, a)
    PROVE  /\ Earned(b, a, i, m.current_term, s, r)
           /\ Vows(b, a, i, m.current_term) /\ Heard(r, b) /\ Complete(r, b)
           /\ Fit(m, Sheet(c, c.node[i], m.current_term, s, r, b))
<1>1. /\ Earned(b, a, i, m.current_term, s, r)
      /\ Authors(c.node[i], m) => Acked(b, i, m.current_term, Len(s))
  BY RepliedIsEarned
<1>2. Vows(b, a, i, m.current_term) /\ Heard(r, b)
  BY <1>1, EarnedIsHeard
<1>3. Complete(r, b)
  BY <1>2, SceneBacked
<1>4. Fit(m, Sheet(c, c.node[i], m.current_term, s, r, b))
  BY <1>1, <1>2, SceneFit
<1> QED BY <1>1, <1>2, <1>3, <1>4

LEMMA TurnKeepsListening ==
    ASSUME FixedMembership, NEW c, NEW i, NEW m, NEW d, NEW f, NEW l, NEW a, NEW s, NEW r,
           Scene(c, i, m, d, f, l, a, s, r), NEW b, b = Replied(c.node[i], m, s, a)
    PROVE  Listens(d, b)
<1> DEFINE n == c.node[i]
           t == m.current_term
           e == Sheet(c, n, t, s, r, b)
           h == [acks |-> b]
<1>1. Turned(c, i, m, d) /\ Listens(c, a)
  BY DEF Scene, Shadow
<1>2. /\ d.node[i].log = m.log /\ d.node[i].role = m.role /\ d.node[i].current_term = t
      /\ d.node[i].progress = m.progress /\ d.node[i].id = m.id
      /\ \A j \in Server : j # i => d.node[j] = c.node[j]
  BY <1>1, TurnedTyped
<1>3. /\ Earned(b, a, i, t, s, r)
      /\ Authors(n, m) => Acked(b, i, t, Len(s))
  BY RepliedIsEarned
<1>4. Fit(m, e)
  BY TurnFit
<1>5. LastIndex(m.log) = Len(s)
  BY SceneNode DEF Holding
<1>6. e.acks = b /\ h.acks = b
  BY SheetFields
<1>7. a \subseteq b
  BY <1>3 DEF Earned
<1>8. m.role = "Leader" => Authors(n, m)
  BY DEF Authors
<1> HIDE DEF n, t, e, h
<1>9. Tracks(d.node[i], h)
  <2>1. Tracks(m, h)
    BY <1>4, <1>6, TracksMore DEF Fit
  <2>2. Tracked(d.node[i]) = Tracked(m)
    BY <1>2 DEF Tracked
  <2> QED BY <1>2, <2>1, <2>2 DEF Tracks, t
<1>10. d.node[i].role = "Leader" => Acked(b, i, t, LastIndex(m.log))
  BY <1>2, <1>3, <1>5, <1>8
<1>11. ASSUME NEW j \in Server, j # i
       PROVE  /\ Tracks(d.node[j], h)
              /\ d.node[j].role = "Leader" =>
                    Acked(b, j, d.node[j].current_term, LastIndex(d.node[j].log))
  <2>1. /\ Tracks(c.node[j], [acks |-> a])
        /\ c.node[j].role = "Leader" =>
                Acked(a, j, c.node[j].current_term, LastIndex(c.node[j].log))
    BY <1>1 DEF Listens
  <2>2. [acks |-> a].acks \subseteq h.acks
    BY <1>6, <1>7
  <2>3. Tracks(c.node[j], h)
    BY <2>1, <2>2, TracksMore
  <2> QED BY <1>2, <1>7, <1>11, <2>1, <2>3 DEF Acked
<1> QED BY <1>2, <1>9, <1>10, <1>11 DEF Listens, h

(* What a granted vote rests on. *)
LEMMA GrantSpeaks ==
    ASSUME FixedMembership, NEW c, NEW i, NEW m, NEW d, NEW f, NEW l, NEW a, NEW s, NEW r,
           Scene(c, i, m, d, f, l, a, s, r),
           NEW x \in m.sends, x.kind = "RequestVoteReply", x.vote_granted
    PROVE  /\ x.from = i /\ x.term = m.current_term
           /\ \E q \in c.wire : /\ q.kind = "RequestVote"
                                /\ q.from = x.to
                                /\ q.term = m.current_term
                                /\ CandidateLogUpToDate(m, q)
<1> DEFINE b == Replied(c.node[i], m, s, a)
           e == Sheet(c, c.node[i], m.current_term, s, r, b)
<1>1. Turned(c, i, m, d)
  BY DEF Scene
<1>2. m.id = i /\ Says(m, x)
  BY <1>1, TurnedTyped
<1>3. x.from = i /\ x.term = m.current_term /\ x.to = m.voted_for
  BY <1>2 DEF Says, Told
<1>4. Fit(m, e)
  BY TurnFit
<1>5. e.read = c.wire
  BY SheetFields
<1> HIDE DEF e
<1>6. Speaks(m, x, e)
  BY <1>4 DEF Fit
<1> QED BY <1>3, <1>5, <1>6 DEF Speaks

LEMMA TurnKeepsPast ==
    ASSUME FixedMembership, NEW c, NEW i, NEW m, NEW d, NEW f, NEW l, NEW a, NEW s, NEW r,
           Scene(c, i, m, d, f, l, a, s, r)
    PROVE  Past(d)
<1> DEFINE t == m.current_term
<1>1. Turned(c, i, m, d) /\ Past(c)
  BY DEF Scene, Shadow
<1>2. /\ i \in Server /\ t \in Nat /\ m.id = i /\ d.node[i].current_term = t
      /\ \A j \in Server : /\ c.node[j].current_term \in Nat
                           /\ d.node[j].current_term \in Nat
                           /\ c.node[j].current_term <= d.node[j].current_term
      /\ \A x \in m.sends : Says(m, x)
      /\ \A x \in d.wire : x \in Message /\ (x \in c.wire \/ x \in m.sends)
      /\ \A x \in c.wire : x \in Message
  BY <1>1, TurnedTyped
<1>3. \A x \in Message : x.from \in Server /\ x.to \in Server /\ x.term \in Nat
  BY MessageFields
<1> SUFFICES ASSUME NEW x \in d.wire
             PROVE  /\ x.kind = "RequestVote" => x.term <= d.node[x.from].current_term
                    /\ x.kind = "RequestVoteReply" /\ x.vote_granted
                            => x.term <= d.node[x.to].current_term
  BY DEF Past
<1>4. x.from \in Server /\ x.to \in Server /\ x.term \in Nat
  BY <1>2, <1>3
<1>5. CASE x \in c.wire
  <2>1. /\ x.kind = "RequestVote" => x.term <= c.node[x.from].current_term
        /\ x.kind = "RequestVoteReply" /\ x.vote_granted
                => x.term <= c.node[x.to].current_term
    BY <1>1, <1>5 DEF Past
  <2>2. /\ c.node[x.from].current_term \in Nat /\ d.node[x.from].current_term \in Nat
        /\ c.node[x.from].current_term <= d.node[x.from].current_term
        /\ c.node[x.to].current_term \in Nat /\ d.node[x.to].current_term \in Nat
        /\ c.node[x.to].current_term <= d.node[x.to].current_term
    BY <1>2, <1>4
  <2> QED BY <1>4, <2>1, <2>2
<1>6. CASE x \in m.sends
  <2>1. ASSUME x.kind = "RequestVote" PROVE x.term <= d.node[x.from].current_term
    <3>1. x.from = i /\ x.term = t
      BY <1>2, <1>6, <2>1 DEF Says, Told
    <3> QED BY <1>2, <3>1
  <2>2. ASSUME x.kind = "RequestVoteReply", x.vote_granted
        PROVE  x.term <= d.node[x.to].current_term
    <3>1. /\ x.term = t
          /\ \E q \in c.wire : q.kind = "RequestVote" /\ q.from = x.to /\ q.term = t
      BY <1>6, <2>2, GrantSpeaks
    <3>2. PICK q \in c.wire : q.kind = "RequestVote" /\ q.from = x.to /\ q.term = t
      BY <3>1
    <3>3. t <= c.node[x.to].current_term
      BY <1>1, <3>2 DEF Past
    <3>4. /\ c.node[x.to].current_term \in Nat /\ d.node[x.to].current_term \in Nat
          /\ c.node[x.to].current_term <= d.node[x.to].current_term
      BY <1>2, <1>4
    <3> QED BY <1>2, <3>1, <3>3, <3>4
  <2> QED BY <2>1, <2>2
<1> QED BY <1>2, <1>5, <1>6

(* A log that is up to date for the node keeps the node's word. *)
LEMMA VoteSupports ==
    ASSUME NEW c, NEW i, NEW m, NEW d, NEW f, NEW l, NEW a, NEW s, NEW r,
           Scene(c, i, m, d, f, l, a, s, r), NEW b, Earned(b, a, i, m.current_term, s, r),
           m.current_term \notin DOMAIN r,
           NEW v \in Seq(LogEntry), Grown(r, v, m.current_term),
           \/ EndTerm(v) > EndTerm(s)
           \/ EndTerm(v) = EndTerm(s) /\ Len(v) >= Len(s)
    PROVE  Supports(d.node, r, b, i, m.current_term, v)
<1> DEFINE t == m.current_term
           g == Held(f, i, s)
<1>1. Turned(c, i, m, d)
  BY DEF Scene
<1>2. i \in Server /\ t \in Nat /\ d.node[i].current_term = t
  BY <1>1, TurnedTyped
<1>3. Made(r) /\ Grown(r, s, t)
  BY SceneMade
<1>4. s \in Seq(LogEntry)
  BY SceneNode
<1>5. StillHolds(d, g, r, b)
  BY TurnKeepsWord
<1>6. Heard(r, b)
  BY EarnedIsHeard
<1>7. g[i] = s
  BY <1>2 DEF Held
<1> HIDE DEF t, g
<1>8. ASSUME NEW x \in b, x.server = i, x.term < t, NEW k \in 1 .. x.index,
             r[x.term][k].term = x.term, Handed(r, x.term, k, t)
      PROVE  Keeps(v, r[x.term], k)
  <2>1. x.term \in DOMAIN r /\ x.index \in Nat /\ x.index <= Len(r[x.term])
    BY <1>6 DEF Heard
  <2>2. k \in 1 .. Len(r[x.term]) /\ k \in Nat
    BY <1>3, <2>1, MadeLogs
  <2>3. Handed(r, x.term, k, t + 1)
    <3> SUFFICES ASSUME NEW w \in DOMAIN r, x.term < w, w < t + 1
                 PROVE  Keeps(r[w], r[x.term], k)
      BY DEF Handed
    <3>1. w \in Nat /\ w # t
      BY <1>3, MadeLogs DEF t
    <3>2. w < t
      BY <1>2, <3>1
    <3> QED BY <1>8, <3>2 DEF Handed
  <2>4. Keeps(s, r[x.term], k)
    BY <1>2, <1>5, <1>7, <1>8, <2>3 DEF StillHolds
  <2> QED BY <1>2, <1>3, <1>4, <1>8, <2>1, <2>2, <2>4, UpToDateKeeps DEF t
<1>9. Backs(r, b, i, t, v)
  BY <1>8 DEF Backs
<1> QED BY <1>2, <1>9 DEF Supports, t

LEMMA TurnKeepsCandidacies ==
    ASSUME FixedMembership, NEW c, NEW i, NEW m, NEW d, NEW f, NEW l, NEW a, NEW s, NEW r,
           Scene(c, i, m, d, f, l, a, s, r), NEW b, b = Replied(c.node[i], m, s, a)
    PROVE  Candidacies(d, Held(f, i, s), r, b)
<1> DEFINE n == c.node[i]
           t == m.current_term
           g == Held(f, i, s)
           e == Sheet(c, n, t, s, r, b)
<1>1. Turned(c, i, m, d) /\ Shadow(c, f, l, a)
  BY DEF Scene
<1>2. /\ i \in Server /\ t \in Nat /\ n.current_term \in Nat /\ n.current_term <= t
      /\ m.id = i /\ n.id = i /\ m.log \in Log
      /\ d.node[i].log = m.log /\ d.node[i].role = m.role /\ d.node[i].current_term = t
      /\ d.node[i].votes = m.votes
      /\ \A j \in Server : j # i => d.node[j] = c.node[j]
      /\ \A j \in Server : c.node[j] \in NodeRecord
      /\ \A j \in Server : c.node[j].current_term \in Nat
  BY <1>1, TurnedTyped
<1>3. /\ \A x \in m.sends : x \in Message /\ Says(m, x)
      /\ \A x \in d.wire : x \in Message /\ (x \in c.wire \/ x \in m.sends)
  BY <1>1, TurnedTyped
<1>4. m \in NodeRecord
  BY <1>1 DEF Turned
<1>5. g[i] = s /\ \A j \in Server : j # i => g[j] = f[j]
  BY <1>2 DEF Held
<1>6. Made(l) /\ Made(r) /\ Longer(l, r) /\ Grown(r, s, t)
  BY SceneMade
<1>7. /\ s \in Seq(LogEntry) /\ Len(s) \in Nat /\ Holding(m.log, s)
      /\ f[i] \in Seq(LogEntry) /\ Len(f[i]) \in Nat
  BY SceneNode
<1>8. /\ Earned(b, a, i, t, s, r) /\ Vows(b, a, i, t) /\ Fit(m, e)
  BY TurnFit
<1>9. Owns(d, g, r)
  BY TurnKeepsOwns
<1>10. \A x \in Message : x.from \in Server /\ x.to \in Server
  BY MessageFields
<1>11. \A j \in Server : f[j] \in Seq(LogEntry)
  BY <1>1 DEF Shadow, Owns
<1>13. DOMAIN l \subseteq DOMAIN r
  BY <1>6 DEF Longer
<1> HIDE DEF n, t, g, e
<1>14. ASSUME NEW j \in Server, NEW q \in Server, NEW u \in Nat,
              Supports(c.node, l, a, q, u, f[j])
       PROVE  Supports(d.node, r, b, q, u, f[j])
  <2>1. Vows(b, a, i, m.current_term)
    BY <1>8 DEF t
  <2> QED BY <1>11, <1>14, <2>1, SupportsStays
<1>15. ASSUME t \notin DOMAIN r PROVE Supports(d.node, r, b, i, t, s)
  <2>1. /\ Earned(b, a, i, m.current_term, s, r) /\ m.current_term \notin DOMAIN r
        /\ Grown(r, s, m.current_term)
    BY <1>6, <1>8, <1>15 DEF t
  <2>2. EndTerm(s) = EndTerm(s) /\ Len(s) >= Len(s)
    BY <1>7
  <2>3. Supports(d.node, r, b, i, m.current_term, s)
    BY <1>7, <2>1, <2>2, VoteSupports
  <2> QED BY <2>3 DEF t
<1>16. ASSUME NEW j \in Server, j # i, NEW u, u = d.node[j].current_term,
              d.node[j].role = "Candidate", u \notin DOMAIN r
       PROVE  /\ \A q \in d.node[j].votes : Supports(d.node, r, b, q, u, g[j])
              /\ \A x \in d.wire : /\ x.kind = "RequestVoteReply" /\ x.vote_granted
                                   /\ x.to = j /\ x.term = u
                      => Supports(d.node, r, b, x.from, u, g[j])
              /\ \A x \in d.wire : x.kind = "RequestVote" /\ x.from = j /\ x.term = u
                      => x.last_log_index = Len(g[j]) /\ x.last_log_term = EndTerm(g[j])
  <2>1. /\ g[j] = f[j] /\ d.node[j] = c.node[j] /\ u \in Nat /\ u \notin DOMAIN l
        /\ c.node[j].role = "Candidate" /\ u = c.node[j].current_term
    BY <1>2, <1>5, <1>13, <1>16
  <2>2. /\ \A q \in c.node[j].votes : Supports(c.node, l, a, q, u, f[j])
        /\ \A x \in c.wire : /\ x.kind = "RequestVoteReply" /\ x.vote_granted
                             /\ x.to = j /\ x.term = u
                => Supports(c.node, l, a, x.from, u, f[j])
        /\ \A x \in c.wire : x.kind = "RequestVote" /\ x.from = j /\ x.term = u
                => x.last_log_index = Len(f[j]) /\ x.last_log_term = EndTerm(f[j])
    BY <1>1, <2>1 DEF Shadow, Candidacies
  <2>3. c.node[j].votes \subseteq Server
    BY <1>2, NodeFields
  <2>4. ASSUME NEW x \in d.wire, x.kind = "RequestVoteReply", x.vote_granted,
               x.to = j, x.term = u
        PROVE  Supports(d.node, r, b, x.from, u, f[j])
    <3>1. CASE x \in c.wire
      BY <1>3, <1>10, <1>14, <2>1, <2>2, <2>4, <3>1
    <3>2. CASE x \in m.sends
      <4>1. /\ x.from = i /\ x.term = t
            /\ \E q \in c.wire : /\ q.kind = "RequestVote" /\ q.from = x.to /\ q.term = t
                                 /\ CandidateLogUpToDate(m, q)
        BY <2>4, <3>2, GrantSpeaks DEF t
      <4>2. PICK q \in c.wire : /\ q.kind = "RequestVote" /\ q.from = x.to /\ q.term = t
                                /\ CandidateLogUpToDate(m, q)
        BY <4>1
      <4>3. q.last_log_index = Len(f[j]) /\ q.last_log_term = EndTerm(f[j])
        BY <2>2, <2>4, <4>1, <4>2
      <4>4. LastTerm(m.log) = EndTerm(s) /\ LastIndex(m.log) = Len(s)
        BY <1>2, <1>7, EndTermRead DEF Holding
      <4>5. \/ EndTerm(f[j]) > EndTerm(s)
            \/ EndTerm(f[j]) = EndTerm(s) /\ Len(f[j]) >= Len(s)
        BY <4>2, <4>3, <4>4 DEF CandidateLogUpToDate
      <4>6. u = t /\ t \notin DOMAIN r /\ Grown(r, f[j], t)
        BY <1>9, <1>16, <2>1, <2>4, <4>1 DEF Owns
      <4>7. Supports(d.node, r, b, i, t, f[j])
        BY <1>8, <1>11, <4>5, <4>6, VoteSupports DEF t
      <4> QED BY <4>1, <4>6, <4>7
    <3> QED BY <1>3, <3>1, <3>2
  <2>5. ASSUME NEW x \in d.wire, x.kind = "RequestVote", x.from = j, x.term = u
        PROVE  x \in c.wire
    <3> SUFFICES ASSUME x \in m.sends PROVE FALSE
      BY <1>3
    <3>1. Says(m, x)
      BY <1>3
    <3> QED BY <1>2, <1>16, <2>5, <3>1 DEF Says, Told
  <2> QED BY <1>14, <2>1, <2>2, <2>3, <2>4, <2>5
<1>17. ASSUME m.role = "Candidate", t \notin DOMAIN r
       PROVE  /\ \A q \in m.votes : Supports(d.node, r, b, q, t, s)
              /\ \A x \in d.wire : /\ x.kind = "RequestVoteReply" /\ x.vote_granted
                                   /\ x.to = i /\ x.term = t
                      => Supports(d.node, r, b, x.from, t, s)
              /\ \A x \in d.wire : x.kind = "RequestVote" /\ x.from = i /\ x.term = t
                      => x.last_log_index = Len(s) /\ x.last_log_term = EndTerm(s)
  <2>1. s = f[i] /\ t \notin DOMAIN l
    <3>1. ~ (n.role = "Leader" /\ t = n.current_term)
      BY <1>1, <1>2, <1>13, <1>17 DEF Shadow, Owns, n
    <3>2. ~ Authors(n, m)
      BY <1>17, <3>1 DEF Authors, Prolongs, t
    <3>3. ~ Authors(n, m) /\ s # f[i] => m.role = "Follower"
      BY SceneNode DEF n
    <3> QED BY <1>13, <1>17, <3>2, <3>3
  <2>2. ASSUME n.role = "Candidate", t = n.current_term
        PROVE  /\ \A q \in n.votes : Supports(c.node, l, a, q, t, f[i])
               /\ \A x \in c.wire : /\ x.kind = "RequestVoteReply" /\ x.vote_granted
                                    /\ x.to = i /\ x.term = t
                       => Supports(c.node, l, a, x.from, t, f[i])
               /\ \A x \in c.wire : x.kind = "RequestVote" /\ x.from = i /\ x.term = t
                       => x.last_log_index = Len(f[i]) /\ x.last_log_term = EndTerm(f[i])
    BY <1>1, <1>2, <2>1, <2>2 DEF Shadow, Candidacies, n
  <2>3. \/ /\ n.role = "Candidate" /\ t = n.current_term
           /\ \A q \in m.votes : Supports(c.node, l, a, q, t, f[i])
        \/ t > n.current_term /\ m.votes = {i}
    <3>1. Stands(n, m, c.wire)
      BY <1>1 DEF Turned, n
    <3>2. CASE m.role = n.role /\ m.votes = n.votes /\ t = n.current_term
      BY <1>17, <2>2, <3>2
    <3>3. CASE t > n.current_term /\ m.votes = {m.id}
      BY <1>2, <3>3
    <3>4. ASSUME n.role = "Candidate", t = n.current_term,
                 NEW x \in c.wire, x.kind = "RequestVoteReply", x.vote_granted,
                 x.to = n.id, x.term = n.current_term, m.votes = n.votes \cup {x.from}
          PROVE  \A q \in m.votes : Supports(c.node, l, a, q, t, f[i])
      BY <1>2, <2>2, <3>4 DEF n
    <3> QED BY <1>17, <3>1, <3>2, <3>3, <3>4 DEF Stands, t
  <2>4. \A q \in m.votes : Supports(d.node, r, b, q, t, s)
    <3>1. m.votes \subseteq Server
      BY <1>4, NodeFields
    <3>2. CASE \A q \in m.votes : Supports(c.node, l, a, q, t, f[i])
      BY <1>2, <1>14, <2>1, <3>1, <3>2
    <3>3. CASE m.votes = {i}
      BY <1>15, <1>17, <3>3
    <3> QED BY <2>3, <3>2, <3>3
  <2>5. ASSUME NEW x \in d.wire, x.kind = "RequestVoteReply", x.vote_granted,
               x.to = i, x.term = t
        PROVE  Supports(d.node, r, b, x.from, t, s)
    <3>1. CASE x \in m.sends
      <4>1. x.from = i
        BY <2>5, <3>1, GrantSpeaks
      <4> QED BY <1>15, <1>17, <4>1
    <3>2. CASE x \in c.wire
      <4>1. t <= n.current_term
        BY <1>1, <2>5, <3>2 DEF Shadow, Past, n
      <4>2. n.role = "Candidate" /\ t = n.current_term
        BY <1>2, <2>3, <4>1 DEF n
      <4>3. Supports(c.node, l, a, x.from, t, f[i])
        BY <2>2, <2>5, <3>2, <4>2
      <4> QED BY <1>2, <1>3, <1>10, <1>14, <2>1, <4>3
    <3> QED BY <1>3, <3>1, <3>2
  <2>6. ASSUME NEW x \in d.wire, x.kind = "RequestVote", x.from = i, x.term = t
        PROVE  x.last_log_index = Len(s) /\ x.last_log_term = EndTerm(s)
    <3>1. CASE x \in m.sends
      <4>1. Speaks(m, x, e)
        BY <1>8, <3>1 DEF Fit
      <4>2. LastTerm(m.log) = EndTerm(s) /\ LastIndex(m.log) = Len(s)
        BY <1>2, <1>7, EndTermRead DEF Holding
      <4> QED BY <2>6, <4>1, <4>2 DEF Speaks
    <3>2. CASE x \in c.wire
      <4>1. t <= n.current_term
        BY <1>1, <2>6, <3>2 DEF Shadow, Past, n
      <4>2. n.role = "Candidate" /\ t = n.current_term
        BY <1>2, <2>3, <4>1 DEF n
      <4> QED BY <2>1, <2>2, <2>6, <3>2, <4>2
    <3> QED BY <1>3, <3>1, <3>2
  <2> QED BY <2>4, <2>5, <2>6
<1> SUFFICES ASSUME NEW j \in Server, NEW u, u = d.node[j].current_term,
                    d.node[j].role = "Candidate", u \notin DOMAIN r
             PROVE  /\ \A q \in d.node[j].votes : Supports(d.node, r, b, q, u, g[j])
                    /\ \A x \in d.wire : /\ x.kind = "RequestVoteReply" /\ x.vote_granted
                                         /\ x.to = j /\ x.term = u
                            => Supports(d.node, r, b, x.from, u, g[j])
                    /\ \A x \in d.wire : x.kind = "RequestVote" /\ x.from = j /\ x.term = u
                            => x.last_log_index = Len(g[j]) /\ x.last_log_term = EndTerm(g[j])
  BY DEF Candidacies, g
<1>18. CASE j # i
  BY <1>16, <1>18
<1>19. CASE j = i
  <2>1. u = t /\ m.role = "Candidate" /\ g[j] = s /\ d.node[j].votes = m.votes
    BY <1>2, <1>5, <1>19
  <2> QED BY <1>17, <1>19, <2>1
<1> QED BY <1>18, <1>19


-----------------------------------------------------------------------------
(* What is on record, applied and reported after the turn. *)

LEMMA RecordsStay ==
    ASSUME NEW c, NEW i, NEW m, NEW d, Turned(c, i, m, d)
    PROVE  c.history.committed \subseteq d.history.committed
<1>1. d.history.committed = Claim(c.history.committed, CommitmentsOf(c.node[i], m))
  BY DEF Turned
<1> QED BY <1>1 DEF Claim

LEMMA RecordsAdded ==
    ASSUME NEW c, NEW i, NEW m, NEW d, Turned(c, i, m, d),
           NEW k \in c.node[i].commit_index + 1 .. m.commit_index, HasEntry(m.log, k)
    PROVE  \E h \in d.history.committed : h.index = k /\ h.entry = EntryAt(m.log, k)
<1> DEFINE g == [index |-> k, entry |-> EntryAt(m.log, k), at |-> m.current_term]
           old == c.history.committed
<1>1. g \in CommitmentsOf(c.node[i], m)
  BY DEF CommitmentsOf
<1>2. d.history.committed = Claim(old, CommitmentsOf(c.node[i], m))
  BY DEF Turned
<1>3. g.index = k /\ g.entry = EntryAt(m.log, k)
  OBVIOUS
<1> HIDE DEF g, old
<1> QED BY <1>1, <1>2, <1>3 DEF Claim

LEMMA RecordsNew ==
    ASSUME NEW c, NEW i, NEW m, NEW d, Turned(c, i, m, d),
           NEW h \in d.history.committed, h \notin c.history.committed
    PROVE  /\ h.index \in c.node[i].commit_index + 1 .. m.commit_index
           /\ HasEntry(m.log, h.index)
           /\ h.entry = EntryAt(m.log, h.index)
           /\ h.at = m.current_term
<1> DEFINE g(k) == [index |-> k, entry |-> EntryAt(m.log, k), at |-> m.current_term]
           K == c.node[i].commit_index + 1 .. m.commit_index
<1>1. d.history.committed = Claim(c.history.committed, CommitmentsOf(c.node[i], m))
  BY DEF Turned
<1>2. h \in CommitmentsOf(c.node[i], m)
  BY <1>1 DEF Claim
<1>3. PICK k \in {k \in K : HasEntry(m.log, k)} : h = g(k)
  BY <1>2 DEF CommitmentsOf
<1>4. g(k).index = k /\ g(k).entry = EntryAt(m.log, k) /\ g(k).at = m.current_term
  OBVIOUS
<1> HIDE DEF g
<1> QED BY <1>3, <1>4

LEMMA ClaimedMore ==
    ASSUME NEW h, NEW g, h \subseteq g, NEW s, NEW x, Claimed(h, s, x)
    PROVE  Claimed(g, s, x)
BY DEF Claimed

(* What the node has applied. *)
LEMMA TurnApplies ==
    ASSUME FixedMembership, NEW c, NEW i, NEW m, NEW d, NEW f, NEW l, NEW a, NEW s, NEW r,
           Scene(c, i, m, d, f, l, a, s, r), NEW b, b = Replied(c.node[i], m, s, a)
    PROVE  /\ m.log.base_index \in Nat /\ m.commit_index \in Nat /\ m.last_applied \in Nat
           /\ m.log.base_index <= m.commit_index /\ m.commit_index <= m.last_applied
           /\ m.last_applied <= Len(s)
           /\ Decided(r, b, s, m.last_applied, m.current_term)
           /\ Claimed(d.history.committed, s, m.last_applied)
           /\ m.app = Commands(s, m.last_applied)
           /\ m.log.data = Commands(s, m.log.base_index)
<1> DEFINE n == c.node[i]
           t == m.current_term
           e == Sheet(c, n, t, s, r, b)
           y == m.last_applied
<1>1. Turned(c, i, m, d)
  BY DEF Scene
<1>2. /\ i \in Server /\ n \in NodeRecord /\ m \in NodeRecord /\ n.last_applied \in Nat
      /\ m.log \in Log
  BY <1>1, TurnedTyped
<1>3. n.commit_index \in Nat /\ m.commit_index \in Nat /\ y \in Nat /\ m.log.base_index \in Nat
  BY <1>2, NodeFields, LogFields
<1>4. Fit(m, e) /\ Vows(b, a, i, t)
  BY TurnFit
<1>5. /\ e.whole = s /\ e.low = n.last_applied /\ e.acks = b
      /\ \A x : x \in e.sure <=> x \in 0 .. Len(s) /\ Decided(r, b, s, x, t)
      /\ \A x : x \in e.told <=> x \in Nat /\ Claimed(c.history.committed, s, x)
  BY SheetFields
<1>6. Based(n, e) /\ n.last_applied \in e.told
  BY <1>4, SceneBased
<1>7. s \in Seq(LogEntry) /\ Len(s) \in Nat /\ Holding(m.log, s)
  BY SceneNode
<1>8. /\ c.history.committed \subseteq d.history.committed
      /\ \A k \in n.commit_index + 1 .. m.commit_index : HasEntry(m.log, k) =>
            \E h \in d.history.committed : h.index = k /\ h.entry = EntryAt(m.log, k)
  BY <1>1, RecordsStay, RecordsAdded
<1> HIDE DEF n, t, e, y
<1>9. n.commit_index <= n.last_applied
  BY <1>6 DEF Based, Applies
<1>10. /\ m.log.base_index <= m.commit_index /\ m.commit_index <= y
       /\ y \in e.sure /\ y <= Larger(e.low, m.commit_index)
       /\ m.log.base_index \in e.told
       /\ m.app = Commands(e.whole, y)
       /\ m.log.data = Commands(e.whole, m.log.base_index)
  BY <1>4 DEF Fit, Applies, y
<1>11. y <= Len(s) /\ Decided(r, b, s, y, t)
  BY <1>5, <1>7, <1>10
<1>12. ASSUME NEW k \in 1 .. y
       PROVE  \E h \in d.history.committed : h.index = k /\ h.entry = s[k]
  <2>1. CASE k <= n.last_applied
    <3>1. Claimed(c.history.committed, s, n.last_applied) /\ k \in 1 .. n.last_applied
      BY <1>2, <1>3, <1>5, <1>6, <2>1 DEF n
    <3> QED BY <1>8, <3>1 DEF Claimed
  <2>2. CASE k <= m.log.base_index
    <3>1. Claimed(c.history.committed, s, m.log.base_index) /\ k \in 1 .. m.log.base_index
      BY <1>3, <1>5, <1>10, <2>2
    <3> QED BY <1>8, <3>1 DEF Claimed
  <2>3. CASE k > n.last_applied /\ k > m.log.base_index
    <3>1. k \in n.commit_index + 1 .. m.commit_index
      BY <1>2, <1>3, <1>5, <1>9, <1>10, <2>3 DEF Larger, n
    <3>2. HasEntry(m.log, k) /\ EntryAt(m.log, k) = s[k]
      BY <1>2, <1>3, <1>7, <1>11, <2>3, HoldingReads
    <3> QED BY <1>8, <3>1, <3>2
  <2> QED BY <1>2, <1>3, <2>1, <2>2, <2>3 DEF n
<1>13. Claimed(d.history.committed, s, y)
  BY <1>12 DEF Claimed
<1> QED BY <1>3, <1>5, <1>10, <1>11, <1>13 DEF y, t

LEMMA TurnKeepsSettled ==
    ASSUME FixedMembership, NEW c, NEW i, NEW m, NEW d, NEW f, NEW l, NEW a, NEW s, NEW r,
           Scene(c, i, m, d, f, l, a, s, r), NEW b, b = Replied(c.node[i], m, s, a)
    PROVE  Settled(d, Held(f, i, s), r, b)
<1> DEFINE t == m.current_term
           g == Held(f, i, s)
<1>1. Turned(c, i, m, d) /\ Shadow(c, f, l, a)
  BY DEF Scene
<1>2. /\ i \in Server
      /\ d.node[i].log = m.log /\ d.node[i].current_term = t /\ d.node[i].app = m.app
      /\ d.node[i].commit_index = m.commit_index /\ d.node[i].last_applied = m.last_applied
      /\ \A j \in Server : j # i => d.node[j] = c.node[j]
      /\ \A j \in Server : c.node[j] \in NodeRecord /\ c.node[j].current_term \in Nat
  BY <1>1, TurnedTyped
<1>3. g[i] = s /\ \A j \in Server : j # i => g[j] = f[j]
  BY <1>2 DEF Held
<1>4. /\ m.log.base_index <= m.commit_index /\ m.commit_index <= m.last_applied
      /\ Decided(r, b, s, m.last_applied, m.current_term)
      /\ Claimed(d.history.committed, s, m.last_applied)
      /\ m.app = Commands(s, m.last_applied)
      /\ m.log.data = Commands(s, m.log.base_index)
  BY TurnApplies
<1>5. Made(l) /\ Made(r) /\ Longer(l, r)
  BY SceneMade
<1>6. a \subseteq b
  BY TurnFit DEF Vows
<1>7. c.history.committed \subseteq d.history.committed
  BY <1>1, RecordsStay
<1> HIDE DEF t, g
<1> SUFFICES ASSUME NEW j \in Server
             PROVE  LET k == d.node[j]
                    IN  /\ k.log.base_index <= k.commit_index
                        /\ k.commit_index <= k.last_applied
                        /\ Decided(r, b, g[j], k.last_applied, k.current_term)
                        /\ Claimed(d.history.committed, g[j], k.last_applied)
                        /\ k.app = Commands(g[j], k.last_applied)
                        /\ k.log.data = Commands(g[j], k.log.base_index)
  BY DEF Settled, g
<1>8. CASE j = i
  BY <1>2, <1>3, <1>4, <1>8 DEF t
<1>9. CASE j # i
  <2> DEFINE k == c.node[j]
             x == k.last_applied
  <2>1. /\ k.log.base_index <= k.commit_index /\ k.commit_index <= x
        /\ Decided(l, a, f[j], x, k.current_term)
        /\ Claimed(c.history.committed, f[j], x)
        /\ k.app = Commands(f[j], x)
        /\ k.log.data = Commands(f[j], k.log.base_index)
    BY <1>1 DEF Shadow, Settled
  <2>2. x \in Nat /\ k.current_term \in Nat
    BY <1>2, NodeFields
  <2>3. f[j] \in Seq(LogEntry) /\ Len(f[j]) \in Nat
    BY <1>1, EntryTerm DEF Shadow, Owns
  <2> HIDE DEF x, k
  <2>4. x <= Len(f[j])
    BY <1>5, <2>1, <2>2, <2>3, DecidedFits
  <2>5. Keeps(f[j], f[j], x)
    BY <2>4 DEF Keeps
  <2>6. Decided(r, b, f[j], x, k.current_term)
    BY <1>5, <1>6, <2>1, <2>2, <2>5, LongerDecided
  <2>7. Claimed(d.history.committed, f[j], x)
    BY <1>7, <2>1, ClaimedMore
  <2> QED BY <1>2, <1>3, <1>9, <2>1, <2>6, <2>7 DEF x, k
<1> QED BY <1>8, <1>9

LEMMA TurnKeepsRecords ==
    ASSUME FixedMembership, NEW c, NEW i, NEW m, NEW d, NEW f, NEW l, NEW a, NEW s, NEW r,
           Scene(c, i, m, d, f, l, a, s, r), NEW b, b = Replied(c.node[i], m, s, a)
    PROVE  Records(d, r, b)
<1> DEFINE n == c.node[i]
           t == m.current_term
<1>1. Turned(c, i, m, d) /\ Records(c, l, a)
  BY DEF Scene, Shadow
<1>2. i \in Server /\ n \in NodeRecord /\ m.log \in Log /\ t \in Nat
  BY <1>1, TurnedTyped
<1>3. n.commit_index \in Nat
  BY <1>2, NodeFields
<1>4. /\ m.commit_index \in Nat /\ m.last_applied \in Nat
      /\ m.commit_index <= m.last_applied /\ m.last_applied <= Len(s)
      /\ Decided(r, b, s, m.last_applied, m.current_term)
  BY TurnApplies
<1>5. Made(l) /\ Made(r) /\ Longer(l, r)
  BY SceneMade
<1>6. a \subseteq b
  BY TurnFit DEF Vows
<1>7. s \in Seq(LogEntry) /\ Len(s) \in Nat /\ Holding(m.log, s)
  BY SceneNode
<1>8. \A h \in d.history.committed :
            \/ h \in c.history.committed
            \/ /\ h.index \in n.commit_index + 1 .. m.commit_index
               /\ HasEntry(m.log, h.index)
               /\ h.entry = EntryAt(m.log, h.index)
               /\ h.at = m.current_term
  BY <1>1, RecordsNew
<1> HIDE DEF n, t
<1> SUFFICES ASSUME NEW h \in d.history.committed
             PROVE  \E u \in DOMAIN r :
                        /\ u <= h.at
                        /\ \E k \in 1 .. Len(r[u]) :
                                /\ Chosen(r, b, u, k) /\ h.index \in 1 .. k
                                /\ r[u][h.index] = h.entry
  BY DEF Records
<1>9. CASE h \in c.history.committed
  <2>1. PICK u \in DOMAIN l : /\ u <= h.at
                              /\ \E k \in 1 .. Len(l[u]) :
                                    /\ Chosen(l, a, u, k) /\ h.index \in 1 .. k
                                    /\ l[u][h.index] = h.entry
    BY <1>1, <1>9 DEF Records
  <2>2. PICK k \in 1 .. Len(l[u]) : /\ Chosen(l, a, u, k) /\ h.index \in 1 .. k
                                    /\ l[u][h.index] = h.entry
    BY <2>1
  <2>3. u \in DOMAIN r /\ Len(l[u]) \in Nat
    BY <1>5, MadeLogs DEF Longer
  <2>4. r[u][h.index] = h.entry
    BY <1>5, <2>2, <2>3 DEF Longer, Keeps
  <2>5. Chosen(r, b, u, k)
    BY <1>5, <1>6, <2>2, LongerChosen
  <2>6. k \in 1 .. Len(r[u])
    BY <2>5 DEF Chosen
  <2> QED BY <2>1, <2>2, <2>3, <2>4, <2>5, <2>6
<1>10. CASE /\ h.index \in n.commit_index + 1 .. m.commit_index
            /\ HasEntry(m.log, h.index)
            /\ h.entry = EntryAt(m.log, h.index)
            /\ h.at = m.current_term
  <2> DEFINE x == m.last_applied
  <2>1. x # 0 /\ h.index \in 1 .. x
    BY <1>3, <1>4, <1>10
  <2>2. PICK u \in DOMAIN r : /\ u <= t
                              /\ \E k \in 1 .. Len(r[u]) :
                                    Chosen(r, b, u, k) /\ x <= k /\ Keeps(s, r[u], x)
    BY <1>4, <2>1 DEF Decided, t
  <2>3. PICK k \in 1 .. Len(r[u]) : Chosen(r, b, u, k) /\ x <= k /\ Keeps(s, r[u], x)
    BY <2>2
  <2>4. EntryAt(m.log, h.index) = s[h.index]
    BY <1>2, <1>7, <1>10, LogIsPiece, PartReads DEF Holding
  <2>5. r[u][h.index] = h.entry
    BY <1>10, <2>1, <2>3, <2>4 DEF Keeps
  <2>6. Len(r[u]) \in Nat
    BY <1>5, MadeLogs
  <2>7. h.index \in 1 .. k
    BY <1>4, <2>1, <2>3, <2>6
  <2> QED BY <1>10, <2>2, <2>3, <2>5, <2>7 DEF t
<1> QED BY <1>8, <1>9, <1>10

(* What a message reported stays so. *)
LEMMA OldReports ==
    ASSUME FixedMembership, NEW c, NEW i, NEW m, NEW d, NEW f, NEW l, NEW a, NEW s, NEW r,
           Scene(c, i, m, d, f, l, a, s, r), NEW b, Vows(b, a, i, m.current_term),
           NEW u \in DOMAIN l, NEW z \in Nat,
           Decided(l, a, l[u], z, u), Claimed(c.history.committed, l[u], z)
    PROVE  /\ u \in DOMAIN r
           /\ Decided(r, b, r[u], z, u)
           /\ Claimed(d.history.committed, r[u], z)
           /\ Commands(r[u], z) = Commands(l[u], z)
<1>1. Turned(c, i, m, d)
  BY DEF Scene
<1>2. Made(l) /\ Made(r) /\ Longer(l, r)
  BY SceneMade
<1>3. u \in Nat /\ Len(l[u]) \in Nat /\ Len(r[u]) \in Nat /\ u \in DOMAIN r
  BY <1>2, MadeLogs DEF Longer
<1>4. z <= Len(l[u])
  BY <1>2, <1>3, DecidedFits
<1>5. Keeps(r[u], l[u], z)
  <2>1. Keeps(r[u], l[u], Len(l[u]))
    BY <1>2 DEF Longer
  <2> QED BY <1>3, <1>4, <2>1 DEF Keeps
<1>6. a \subseteq b
  BY DEF Vows
<1>7. Decided(r, b, r[u], z, u)
  BY <1>2, <1>3, <1>5, <1>6, LongerDecided
<1>8. Claimed(d.history.committed, r[u], z)
  <2>1. Claimed(c.history.committed, r[u], z)
    BY <1>5, ClaimedLess
  <2> QED BY <1>1, <2>1, RecordsStay, ClaimedMore
<1>9. Commands(r[u], z) = Commands(l[u], z)
  <2>1. \A k \in 1 .. z : r[u][k] = l[u][k]
    BY <1>5 DEF Keeps
  <2> QED BY <2>1, SameCommands
<1> QED BY <1>3, <1>7, <1>8, <1>9

(* What a leader reports of its log. *)
LEMMA NewReports ==
    ASSUME FixedMembership, NEW c, NEW i, NEW m, NEW d, NEW f, NEW l, NEW a, NEW s, NEW r,
           Scene(c, i, m, d, f, l, a, s, r), NEW b, b = Replied(c.node[i], m, s, a),
           NEW x \in m.sends, Replicates(x)
    PROVE  /\ x.from = i /\ x.to # x.from /\ x.term = m.current_term
           /\ m.role = "Leader"
           /\ m.current_term \in DOMAIN r /\ r[m.current_term] = s
           /\ Part(Carried(x), Whole(s))
           /\ x.kind = "AppendEntries" =>
                x.leader_commit \in Nat /\ x.leader_commit <= m.last_applied
           /\ x.kind = "InstallSnapshot" =>
                /\ x.snapshot.index = m.log.base_index
                /\ x.snapshot.data = m.log.data
<1> DEFINE n == c.node[i]
           t == m.current_term
           e == Sheet(c, n, t, s, r, b)
           p == Carried(x)
<1>1. Turned(c, i, m, d)
  BY DEF Scene
<1>2. i \in Server /\ m.log \in Log /\ m.id = i /\ x \in Message /\ Says(m, x)
  BY <1>1, TurnedTyped
<1>3. Fit(m, e)
  BY TurnFit
<1>4. s \in Seq(LogEntry) /\ Holding(m.log, s)
  BY SceneNode
<1>5. Authors(n, m) => t \in DOMAIN r /\ r[t] = s
  BY SceneAuthors
<1> HIDE DEF n, t, e, p
<1>6. Speaks(m, x, e)
  BY <1>3 DEF Fit
<1>7. Told(m, x)
  BY <1>2 DEF Says, Replicates
<1>8. x.from = i /\ x.to # x.from /\ x.term = m.current_term /\ m.role = "Leader"
  BY <1>2, <1>6, <1>7 DEF Speaks, Told
<1>9. t \in DOMAIN r /\ r[t] = s
  BY <1>5, <1>8 DEF Authors
<1>10. IsPiece(p) /\ IsPiece(m.log) /\ IsPiece(Whole(s))
  BY <1>2, <1>4, CarriedIsPiece, LogIsPiece, WholeFields DEF p
<1>11. Part(p, m.log)
  <2>1. Quotes(m.log, p)
    BY <1>7 DEF Told, p
  <2>2. CASE x.kind = "AppendEntries"
    <3>1. x.prev_log_index <= LastIndex(m.log) /\ p.base_index = x.prev_log_index
      BY <1>2, <1>6, <2>2, CarriedIsPiece DEF Speaks, p
    <3>2. LastIndex(m.log) \in Nat /\ x.prev_log_index \in Nat
      BY <1>2, <1>10, <2>2, PieceFields, AppendEntriesFields
    <3>3. ~ (p.base_index > LastIndex(m.log))
      BY <3>1, <3>2
    <3> QED BY <2>1, <3>3 DEF Quotes
  <2>3. CASE x.kind = "InstallSnapshot"
    <3>1. x.snapshot = SnapshotOf(m.log)
      BY <1>7, <2>3 DEF Told
    <3>2. p.base_index = m.log.base_index
      BY <1>2, <2>3, <3>1, CarriedIsPiece DEF SnapshotOf, p
    <3>3. LastIndex(m.log) \in Nat /\ m.log.base_index <= LastIndex(m.log) /\ m.log.base_index \in Nat
      BY <1>10, PieceFields
    <3>4. ~ (p.base_index > LastIndex(m.log))
      BY <3>2, <3>3
    <3> QED BY <2>1, <3>4 DEF Quotes
  <2> QED BY <2>2, <2>3 DEF Replicates
<1>12. Part(p, Whole(s))
  BY <1>4, <1>10, <1>11, PartTransitive DEF Holding
<1>13. x.kind = "AppendEntries" => x.leader_commit \in Nat /\ x.leader_commit <= m.last_applied
  BY <1>2, <1>6, AppendEntriesFields DEF Speaks
<1>14. x.kind = "InstallSnapshot" =>
            x.snapshot.index = m.log.base_index /\ x.snapshot.data = m.log.data
  BY <1>7 DEF Told, SnapshotOf
<1> QED BY <1>8, <1>9, <1>12, <1>13, <1>14 DEF t, p

LEMMA TurnKeepsReports ==
    ASSUME FixedMembership, NEW c, NEW i, NEW m, NEW d, NEW f, NEW l, NEW a, NEW s, NEW r,
           Scene(c, i, m, d, f, l, a, s, r), NEW b, b = Replied(c.node[i], m, s, a)
    PROVE  Reports(d, r, b)
<1> DEFINE t == m.current_term
<1>1. Turned(c, i, m, d) /\ Reports(c, l, a)
  BY DEF Scene, Shadow
<1>2. /\ i \in Server /\ t \in Nat /\ m.id = i
      /\ \A x \in m.sends : x \in Message /\ Says(m, x)
      /\ \A x \in d.wire : x \in Message /\ (x \in c.wire \/ x \in m.sends)
  BY <1>1, TurnedTyped
<1>3. Made(l) /\ Made(r) /\ Longer(l, r)
  BY SceneMade
<1>4. Vows(b, a, i, t) /\ a \subseteq b
  BY TurnFit DEF Vows
<1>5. s \in Seq(LogEntry) /\ Len(s) \in Nat
  BY SceneNode
<1>6. c.history.victories \subseteq d.history.victories
      /\ VictoryOf(m) \subseteq d.history.victories
  BY <1>1 DEF Turned
<1>7. /\ m.log.base_index \in Nat /\ m.commit_index \in Nat /\ m.last_applied \in Nat
      /\ m.log.base_index <= m.commit_index /\ m.commit_index <= m.last_applied
      /\ m.last_applied <= Len(s)
      /\ Decided(r, b, s, m.last_applied, m.current_term)
      /\ Claimed(d.history.committed, s, m.last_applied)
      /\ m.app = Commands(s, m.last_applied)
      /\ m.log.data = Commands(s, m.log.base_index)
  BY TurnApplies
<1>8. \A q, u, y : Acked(a, q, u, y) => Acked(b, q, u, y)
  BY <1>4 DEF Acked
<1>9. \A x \in Message : x.kind = "InstallSnapshot" => x.snapshot.index \in Nat
  BY InstallSnapshotFields DEF Snapshot
<1>10. \A x \in m.sends : AckOf(x) # 0 =>
            /\ x.from = i /\ x.term = t
            /\ Acked(b, i, t, AckOf(x))
  <2>1. \A x \in m.sends : AckOf(x) # 0 => Acked(b, i, t, AckOf(x))
    BY RepliedIsEarned
  <2>2. \A x \in m.sends : AckOf(x) # 0 => x.from = i /\ x.term = t
    BY ReplyHolds
  <2> QED BY <2>1, <2>2
<1>11. ASSUME NEW x \in c.wire, x \in Message, Replicates(x)
       PROVE  /\ x.term \in DOMAIN r
              /\ Part(Carried(x), Whole(r[x.term]))
              /\ x.to # x.from
              /\ [term |-> x.term, leader |-> x.from] \in d.history.victories
  <2>1. /\ x.term \in DOMAIN l
        /\ Part(Carried(x), Whole(l[x.term]))
        /\ x.to # x.from
        /\ [term |-> x.term, leader |-> x.from] \in c.history.victories
    BY <1>1, <1>11 DEF Reports
  <2>2. /\ x.term \in DOMAIN r /\ l[x.term] \in Seq(LogEntry) /\ r[x.term] \in Seq(LogEntry)
        /\ Keeps(r[x.term], l[x.term], Len(l[x.term]))
    BY <1>3, <2>1, MadeLogs DEF Longer
  <2>3. IsPiece(Carried(x))
    BY <1>11, CarriedIsPiece
  <2>4. Part(Carried(x), Whole(r[x.term]))
    BY <2>1, <2>2, <2>3, LongerPart
  <2> QED BY <1>6, <2>1, <2>2, <2>4
<1>12. ASSUME NEW x \in c.wire, x \in Message, x.kind = "AppendEntries"
       PROVE  /\ Decided(r, b, r[x.term], x.leader_commit, x.term)
              /\ Claimed(d.history.committed, r[x.term], x.leader_commit)
  <2>1. /\ x.term \in DOMAIN l
        /\ Decided(l, a, l[x.term], x.leader_commit, x.term)
        /\ Claimed(c.history.committed, l[x.term], x.leader_commit)
    BY <1>1, <1>12 DEF Reports, Replicates
  <2>2. x.leader_commit \in Nat
    BY <1>12, AppendEntriesFields
  <2> QED BY <1>4, <2>1, <2>2, OldReports DEF t
<1>13. ASSUME NEW x \in c.wire, x \in Message, x.kind = "InstallSnapshot"
       PROVE  /\ Decided(r, b, r[x.term], x.snapshot.index, x.term)
              /\ Claimed(d.history.committed, r[x.term], x.snapshot.index)
              /\ x.snapshot.data = Commands(r[x.term], x.snapshot.index)
  <2>1. /\ x.term \in DOMAIN l
        /\ Decided(l, a, l[x.term], x.snapshot.index, x.term)
        /\ Claimed(c.history.committed, l[x.term], x.snapshot.index)
        /\ x.snapshot.data = Commands(l[x.term], x.snapshot.index)
    BY <1>1, <1>13 DEF Reports, Replicates
  <2>2. x.snapshot.index \in Nat
    BY <1>9, <1>13
  <2>3. /\ Decided(r, b, r[x.term], x.snapshot.index, x.term)
        /\ Claimed(d.history.committed, r[x.term], x.snapshot.index)
        /\ Commands(r[x.term], x.snapshot.index) = Commands(l[x.term], x.snapshot.index)
    BY <1>4, <2>1, <2>2, OldReports DEF t
  <2> QED BY <2>1, <2>3
<1>14. ASSUME NEW x \in m.sends, x \in Message, Replicates(x)
       PROVE  /\ x.term \in DOMAIN r
              /\ Part(Carried(x), Whole(r[x.term]))
              /\ x.to # x.from
              /\ [term |-> x.term, leader |-> x.from] \in d.history.victories
              /\ x.kind = "AppendEntries" =>
                    /\ Decided(r, b, r[x.term], x.leader_commit, x.term)
                    /\ Claimed(d.history.committed, r[x.term], x.leader_commit)
              /\ x.kind = "InstallSnapshot" =>
                    /\ Decided(r, b, r[x.term], x.snapshot.index, x.term)
                    /\ Claimed(d.history.committed, r[x.term], x.snapshot.index)
                    /\ x.snapshot.data = Commands(r[x.term], x.snapshot.index)
  <2>1. /\ x.from = i /\ x.to # x.from /\ x.term = m.current_term
        /\ m.role = "Leader"
        /\ m.current_term \in DOMAIN r /\ r[m.current_term] = s
        /\ Part(Carried(x), Whole(s))
        /\ x.kind = "AppendEntries" =>
             x.leader_commit \in Nat /\ x.leader_commit <= m.last_applied
        /\ x.kind = "InstallSnapshot" =>
             /\ x.snapshot.index = m.log.base_index
             /\ x.snapshot.data = m.log.data
    BY <1>14, NewReports
  <2>2. [term |-> x.term, leader |-> x.from] \in d.history.victories
    <3>1. [term |-> x.term, leader |-> x.from] \in VictoryOf(m)
      BY <1>2, <2>1 DEF VictoryOf
    <3> QED BY <1>6, <3>1
  <2>3. ASSUME NEW z \in Nat, z <= m.last_applied
        PROVE  Decided(r, b, s, z, t) /\ Claimed(d.history.committed, s, z)
    <3>1. Decided(r, b, s, z, t)
      BY <1>2, <1>3, <1>5, <1>7, <2>3, DecidedDown
    <3>2. Keeps(s, s, z)
      BY <1>5, <1>7, <2>3 DEF Keeps
    <3> QED BY <1>7, <2>3, <3>1, <3>2, ClaimedLess
  <2>4. m.log.base_index <= m.last_applied
    BY <1>7
  <2> HIDE DEF t
  <2>5. x.term = t /\ r[t] = s
    BY <2>1 DEF t
  <2> QED BY <1>7, <2>1, <2>2, <2>3, <2>4, <2>5
<1>15. ASSUME NEW x \in m.sends, x.kind = "AppendEntriesReply"
       PROVE  Acked(b, x.from, x.term, x.match_index)
  <2>1. AckOf(x) = x.match_index
    BY <1>15 DEF AckOf
  <2> QED BY <1>10, <2>1 DEF Acked
<1>16. ASSUME NEW x \in m.sends, x.kind = "InstallSnapshotReply"
       PROVE  Acked(b, x.from, x.term, x.last_index)
  <2>1. AckOf(x) = x.last_index
    BY <1>16 DEF AckOf
  <2> QED BY <1>10, <2>1 DEF Acked
<1>17. ASSUME NEW x \in c.wire
       PROVE  /\ x.kind = "AppendEntriesReply" => Acked(b, x.from, x.term, x.match_index)
              /\ x.kind = "InstallSnapshotReply" => Acked(b, x.from, x.term, x.last_index)
  BY <1>1, <1>8 DEF Reports
<1> HIDE DEF t
<1> SUFFICES ASSUME NEW x \in d.wire
             PROVE  /\ Replicates(x) =>
                        /\ x.term \in DOMAIN r
                        /\ Part(Carried(x), Whole(r[x.term]))
                        /\ x.to # x.from
                        /\ [term |-> x.term, leader |-> x.from] \in d.history.victories
                    /\ x.kind = "AppendEntries" =>
                        /\ Decided(r, b, r[x.term], x.leader_commit, x.term)
                        /\ Claimed(d.history.committed, r[x.term], x.leader_commit)
                    /\ x.kind = "InstallSnapshot" =>
                        /\ Decided(r, b, r[x.term], x.snapshot.index, x.term)
                        /\ Claimed(d.history.committed, r[x.term], x.snapshot.index)
                        /\ x.snapshot.data = Commands(r[x.term], x.snapshot.index)
                    /\ x.kind = "AppendEntriesReply" =>
                        Acked(b, x.from, x.term, x.match_index)
                    /\ x.kind = "InstallSnapshotReply" =>
                        Acked(b, x.from, x.term, x.last_index)
  BY DEF Reports
<1>18. x \in Message /\ (x \in c.wire \/ x \in m.sends)
  BY <1>2
<1>19. x.kind \in {"AppendEntries", "InstallSnapshot"} => Replicates(x)
  BY DEF Replicates
<1>20. CASE x \in c.wire
  BY <1>11, <1>12, <1>13, <1>17, <1>18, <1>20
<1>21. CASE x \in m.sends
  BY <1>14, <1>15, <1>16, <1>18, <1>19, <1>21
<1> QED BY <1>18, <1>20, <1>21

(* After the turn there are such logs and acknowledgements again. *)
LEMMA TurnKeepsShadow ==
    ASSUME FixedMembership, NEW c, NEW i, NEW m, NEW d, NEW f, NEW l, NEW a, NEW s, NEW r,
           Scene(c, i, m, d, f, l, a, s, r), NEW b, b = Replied(c.node[i], m, s, a)
    PROVE  Shadow(d, Held(f, i, s), r, b)
<1> DEFINE g == Held(f, i, s)
<1>1. Earned(b, a, i, m.current_term, s, r) /\ Vows(b, a, i, m.current_term) /\ Heard(r, b)
  BY TurnFit
<1>2. Made(r)
  BY SceneMade
<1>3. DOMAIN r = {v.term : v \in d.history.victories}
  <2>1. /\ Made(l) /\ Made(r) /\ Longer(l, r) /\ Grown(r, s, m.current_term)
        /\ DOMAIN r = {v.term : v \in d.history.victories}
        /\ Authors(c.node[i], m) => m.current_term \in DOMAIN r /\ r[m.current_term] = s
        /\ ~ Authors(c.node[i], m) => r = l
        /\ \A u \in DOMAIN r : \/ u \in DOMAIN l /\ r[u] = l[u]
                               \/ u = m.current_term /\ Authors(c.node[i], m)
        /\ \A u \in DOMAIN r : \/ u \in DOMAIN l
                               \/ /\ u = m.current_term /\ s = f[i] /\ m.role = "Leader"
                                  /\ m.current_term \notin DOMAIN l
    BY SceneLeaders
  <2> QED BY <2>1
<1>4. Owns(d, g, r)
  BY TurnKeepsOwns
<1>5. StillHolds(d, g, r, b)
  BY <1>1, TurnKeepsWord
<1>6. Listens(d, b)
  BY TurnKeepsListening
<1>7. Candidacies(d, g, r, b)
  BY TurnKeepsCandidacies
<1>8. Past(d)
  BY TurnKeepsPast
<1>9. Backed(r, b, d.node)
  BY <1>1, SceneBacked
<1>10. Settled(d, g, r, b)
  BY TurnKeepsSettled
<1>11. Records(d, r, b)
  BY TurnKeepsRecords
<1>12. Reports(d, r, b)
  BY TurnKeepsReports
<1> HIDE DEF g
<1> QED BY <1>1, <1>2, <1>3, <1>4, <1>5, <1>6, <1>7, <1>8, <1>9, <1>10, <1>11, <1>12
    DEF Shadow, g

-----------------------------------------------------------------------------
(* The cluster of the specification. *)

(* Every turn of the cluster is one. *)
LEMMA TurnIsTurned ==
    ASSUME FixedMembership, MatchInv, MatchInv', ElectionSafety',
           NEW i \in Server, NEW m, Turns(i, m),
           NEW c, c.node = node, c.wire = wire, c.history = history,
           NEW d, d.node = node', d.wire = wire', d.history = history'
    PROVE  Turned(c, i, m, d)
<1>1. ElectionInv /\ LawfulInv /\ Inv /\ TypeOK
  BY DEF MatchInv, ElectionInv, LawfulInv, Inv
<1>2. \A j \in Server : Ready(c.node[j]) /\ c.node[j].id = j
  BY <1>1, NodeReady DEF LawfulInv
<1>3. /\ m \in NodeRecord /\ m.id = i /\ Lawful(m)
      /\ node[i] \in NodeRecord /\ Lawful(node[i])
      /\ node'[i].role = m.role /\ node'[i].votes = m.votes
      /\ node'[i].current_term = m.current_term
      /\ node[i].current_term <= m.current_term
  BY <1>1, TurnTyped
<1>4. m.voters = Server /\ c.node[i].voters = Server
  BY <1>3, EveryoneVotes
<1>5. c.wire \subseteq Message
  BY <1>1 DEF TypeOK
<1>6. /\ Handled(c.node[i], m, c.wire) /\ Stands(c.node[i], m, c.wire)
      /\ Rewrites(c.node[i], m, c.wire)
      /\ \A x \in m.sends : Says(m, x)
      /\ d.wire \subseteq c.wire \cup m.sends
  BY DEF Turns, Outcome
<1>7. \A j \in Server : d.node[j] = IF j = i THEN [m EXCEPT !.sends = {}] ELSE c.node[j]
  BY <1>1, AfterTurn
<1>8. /\ d.history.victories = c.history.victories \cup VictoryOf(m)
      /\ d.history.committed = Claim(c.history.committed, CommitmentsOf(c.node[i], m))
  BY DEF Turns, Record
<1>9. \A v, w \in d.history.victories : v.term = w.term => v.leader = w.leader
  BY DEF ElectionSafety
<1>10. \A j \in Server : c.node[j].role = "Leader" =>
            [term |-> c.node[j].current_term, leader |-> j] \in c.history.victories
  BY <1>1 DEF ElectionInv, LeadersWon
<1>11. ASSUME m.role = "Leader"
       PROVE  /\ m.votes \in Majorities
              /\ m.current_term > 0
              /\ \/ c.node[i].role = "Leader" /\ m.current_term = c.node[i].current_term
                 \/ \A v \in c.history.victories : v.term # m.current_term
  <2>1. ElectionInv' /\ LeadersWon' /\ TermZeroIsQuiet'
    BY DEF MatchInv, ElectionInv
  <2>2. m.votes \in Majorities
    BY <1>3, <1>11, <2>1 DEF LeadersWon
  <2>3. m.current_term > 0
    BY <1>3, <1>11, <2>1 DEF TermZeroIsQuiet
  <2>4. ~ (node[i].role = "Leader" /\ m.current_term = node[i].current_term)
            => \A v \in history.victories : v.term # m.current_term
    BY <1>11, <2>1, NewLeaderIsAhead
  <2> QED BY <2>2, <2>3, <2>4
<1> QED BY <1>2, <1>3, <1>4, <1>5, <1>6, <1>7, <1>8, <1>9, <1>10, <1>11 DEF Turned

(* What the network does to messages loses nothing of it. *)
LEMMA LossKeepsShadow ==
    ASSUME NEW c, NEW d, NEW f, NEW l, NEW a, Shadow(c, f, l, a),
           d.node = c.node, d.history = c.history, d.wire \subseteq c.wire
    PROVE  Shadow(d, f, l, a)
<1>1. /\ Made(l) /\ DOMAIN l = {v.term : v \in d.history.victories} /\ Heard(l, a)
      /\ Backed(l, a, d.node)
  BY DEF Shadow
<1>2. Owns(d, f, l)
  BY DEF Shadow, Owns
<1>3. StillHolds(d, f, l, a)
  BY DEF Shadow, StillHolds
<1>4. Listens(d, a)
  BY DEF Shadow, Listens
<1>5. Candidacies(d, f, l, a)
  BY DEF Shadow, Candidacies
<1>6. Past(d)
  BY DEF Shadow, Past
<1>7. Settled(d, f, l, a)
  BY DEF Shadow, Settled
<1>8. Records(d, l, a)
  BY DEF Shadow, Records
<1>9. Reports(d, l, a)
  BY DEF Shadow, Reports
<1> QED BY <1>1, <1>2, <1>3, <1>4, <1>5, <1>6, <1>7, <1>8, <1>9 DEF Shadow

(* At first nothing has been led, acknowledged or applied. *)
LEMMA InitHasShadow ==
    ASSUME Init, NEW c, c.node = node, c.wire = wire, c.history = history
    PROVE  Shadow(c, [j \in Server |-> << >>], [t \in {} |-> << >>], {})
<1> DEFINE f == [j \in Server |-> << >>]
           l == [t \in {} |-> << >>]
<1>1. /\ c.wire = {} /\ c.history.victories = {} /\ c.history.committed = {}
      /\ \A j \in Server : c.node[j] = WithLog(j, EmptyLog)
  BY DEF Init
<1>2. DOMAIN l = {}
  OBVIOUS
<1>3. /\ EmptyLog.base_index = 0 /\ EmptyLog.base_term = 0 /\ EmptyLog.entries = << >>
      /\ EmptyLog.data = {}
  BY DEF EmptyLog
<1>4. ASSUME NEW j \in Server
      PROVE  LET n == c.node[j]
             IN  /\ n.role = "Follower" /\ n.log = EmptyLog /\ n.id = j
                 /\ n.commit_index = 0 /\ n.last_applied = 0 /\ n.app = {}
                 /\ n.progress = [p \in Server |-> None]
  <2> DEFINE n == WithLog(j, EmptyLog)
  <2>1. /\ n.role = "Follower" /\ n.log = EmptyLog /\ n.id = j
        /\ n.commit_index = EmptyLog.base_index /\ n.last_applied = EmptyLog.base_index
        /\ n.app = EmptyLog.data /\ n.progress = NoProgress
    BY DEF WithLog
  <2> HIDE DEF n
  <2>2. c.node[j] = n
    BY <1>1 DEF n
  <2> QED BY <1>3, <2>1, <2>2 DEF NoProgress
<1> DEFINE e == << >>
<1>5. e \in Seq(LogEntry) /\ Len(e) = 0
  OBVIOUS
<1>6. Holding(EmptyLog, e)
  <2>1. IsPiece(EmptyLog) /\ IsPiece(Whole(e))
    BY <1>3, <1>5 DEF IsPiece, Whole
  <2>2. Span(EmptyLog) = {0} /\ Span(Whole(e)) = {0} /\ LastIndex(EmptyLog) = 0
    BY <1>3, <1>5 DEF Span, LastIndex, Whole
  <2>3. TermAt(EmptyLog, 0) = 0 /\ TermAt(Whole(e), 0) = 0
    BY <1>3 DEF TermAt, Whole
  <2>4. ~ HasEntry(EmptyLog, 0)
    BY <1>3, <2>2 DEF HasEntry
  <2>5. Whole(e).base_index = 0
    BY DEF Whole
  <2>6. Same(EmptyLog, Whole(e), 0)
    BY <2>3, <2>4 DEF Same
  <2> QED BY <1>3, <1>5, <2>2, <2>5, <2>6 DEF Holding, Part
<1>7. \A j \in Server : f[j] = e
  OBVIOUS
<1>8. Grown(l, e, 0) /\ Commands(e, 0) = {}
  BY <1>5 DEF Grown, Commands, CommandsIn
<1> HIDE DEF e, f, l
<1>9. Made(l) /\ Heard(l, {}) /\ Backed(l, {}, c.node)
  BY <1>2 DEF Made, Heard, Backed
<1>10. DOMAIN l = {v.term : v \in c.history.victories}
  BY <1>1, <1>2
<1>11. Owns(c, f, l)
  <2>1. \A n : Grown(l, e, n)
    BY <1>5 DEF Grown
  <2> QED BY <1>4, <1>5, <1>6, <1>7, <2>1 DEF Owns
<1>12. StillHolds(c, f, l, {})
  BY DEF StillHolds
<1>13. Listens(c, {})
  <2> SUFFICES ASSUME NEW j \in Server
               PROVE  Tracks(c.node[j], [acks |-> {}]) /\ c.node[j].role # "Leader"
    BY DEF Listens
  <2>1. Tracked(c.node[j]) = {} /\ c.node[j].progress[c.node[j].id] = None
    BY <1>4 DEF Tracked
  <2> QED BY <1>4, <2>1 DEF Tracks
<1>14. Candidacies(c, f, l, {})
  BY <1>4 DEF Candidacies
<1>15. Past(c) /\ Records(c, l, {}) /\ Reports(c, l, {})
  BY <1>1 DEF Past, Records, Reports
<1>16. Settled(c, f, l, {})
  <2>1. \A s, h : Decided(l, {}, s, 0, h)
    BY DEF Decided
  <2>2. \A s, h : Claimed(h, s, 0)
    BY DEF Claimed
  <2>3. ASSUME NEW j \in Server
        PROVE  LET n == c.node[j]
               IN  /\ n.log.base_index <= n.commit_index
                   /\ n.commit_index <= n.last_applied
                   /\ Decided(l, {}, e, n.last_applied, n.current_term)
                   /\ Claimed(c.history.committed, e, n.last_applied)
                   /\ n.app = Commands(e, n.last_applied)
                   /\ n.log.data = Commands(e, n.log.base_index)
    <3>1. LET n == c.node[j]
          IN  n.log = EmptyLog /\ n.commit_index = 0 /\ n.last_applied = 0 /\ n.app = {}
      BY <1>4
    <3> DEFINE n == c.node[j]
    <3>2. /\ n.last_applied = 0 /\ n.commit_index = 0 /\ n.log.base_index = 0
          /\ n.app = {} /\ n.log.data = {}
      BY <1>3, <3>1
    <3>3. Decided(l, {}, e, n.last_applied, n.current_term)
      BY <2>1, <3>2
    <3>4. Claimed(c.history.committed, e, n.last_applied)
      BY <2>2, <3>2
    <3>5. n.app = Commands(e, n.last_applied) /\ n.log.data = Commands(e, n.log.base_index)
      BY <1>8, <3>2
    <3> QED BY <3>2, <3>3, <3>4, <3>5
  <2> QED BY <1>7, <2>3 DEF Settled
<1>17. Shadow(c, f, l, {})
  BY <1>9, <1>10, <1>11, <1>12, <1>13, <1>14, <1>15, <1>16 DEF Shadow
<1> QED BY <1>17 DEF f, l

Now == [node |-> node, wire |-> wire, history |-> history]

(* There are whole logs, leaders' logs and acknowledgements that fit.       *)
Shadowed == \E f, l, a : Shadow(Now, f, l, a)

CommitInv == MatchInv /\ Shadowed

LEMMA NowFields ==
    /\ Now.node = node /\ Now.wire = wire /\ Now.history = history
    /\ Now'.node = node' /\ Now'.wire = wire' /\ Now'.history = history'
BY DEF Now

LEMMA TurnScene ==
    ASSUME FixedMembership, MatchInv, MatchInv', ElectionSafety',
           NEW i \in Server, NEW m, Turns(i, m),
           NEW f, NEW l, NEW a, Shadow(Now, f, l, a)
    PROVE  \E s, r : Scene(Now, i, m, Now', f, l, a, s, r)
<1> DEFINE s == Rewritten(Now.node[i], m, f[i], l)
           r == Remade(Now.node[i], m, s, l)
<1>1. Turned(Now, i, m, Now')
  BY NowFields, TurnIsTurned
<1>2. Scene(Now, i, m, Now', f, l, a, s, r)
  BY <1>1 DEF Scene
<1> QED BY <1>2

LEMMA TurnKeepsShadowed ==
    ASSUME FixedMembership, MatchInv, MatchInv', ElectionSafety',
           NEW i \in Server, NEW m, Turns(i, m), Shadowed
    PROVE  Shadowed'
<1>1. PICK f, l, a : Shadow(Now, f, l, a)
  BY DEF Shadowed
<1>2. PICK s, r : Scene(Now, i, m, Now', f, l, a, s, r)
  BY <1>1, TurnScene
<1>3. Shadow(Now', Held(f, i, s), r, Replied(Now.node[i], m, s, a))
  BY <1>2, TurnKeepsShadow
<1> QED BY <1>3 DEF Shadowed

LEMMA NextKeepsCommits ==
    ASSUME FixedMembership
    PROVE  CommitInv /\ MatchInv' /\ ElectionSafety' /\ [Next]_vars => CommitInv'
<1> SUFFICES ASSUME CommitInv, MatchInv', ElectionSafety', [Next]_vars PROVE Shadowed'
  BY DEF CommitInv
<1>1. CASE UNCHANGED <<node, history>> /\ wire' \subseteq wire
  <2>1. PICK f, l, a : Shadow(Now, f, l, a)
    BY DEF CommitInv, Shadowed
  <2>2. Now'.node = Now.node /\ Now'.history = Now.history /\ Now'.wire \subseteq Now.wire
    BY <1>1, NowFields
  <2>3. Shadow(Now', f, l, a)
    BY <2>1, <2>2, LossKeepsShadow
  <2> QED BY <2>3 DEF Shadowed
<1>2. ASSUME NEW i \in Server, NEW m, Turns(i, m) PROVE Shadowed'
  BY <1>2, TurnKeepsShadowed DEF CommitInv
<1>3. Moves
  BY NextMoves DEF CommitInv, MatchInv, ElectionInv, LawfulInv
<1> QED BY <1>1, <1>2, <1>3 DEF Moves

LEMMA InitHasCommits == Init => CommitInv
<1> SUFFICES ASSUME Init PROVE CommitInv
  OBVIOUS
<1>1. Shadow(Now, [j \in Server |-> << >>], [t \in {} |-> << >>], {})
  BY NowFields, InitHasShadow
<1> QED BY <1>1, InitHasMatching DEF CommitInv, Shadowed

LEMMA CommitInvariance == ASSUME FixedMembership PROVE Spec => []CommitInv
BY InitHasCommits, NextKeepsCommits, MatchInvariance, ElectionSafe, PTL DEF Spec

-----------------------------------------------------------------------------
(* What follows for what is committed. *)

LEMMA ShadowComplete ==
    ASSUME FixedMembership, NEW c, NEW f, NEW l, NEW a, Shadow(c, f, l, a)
    PROVE  Made(l) /\ Complete(l, a)
BY ChosenStays DEF Shadow

(* An index has one entry on record. *)
LEMMA OneRecord ==
    ASSUME FixedMembership, NEW c, NEW f, NEW l, NEW a, Shadow(c, f, l, a),
           NEW g \in c.history.committed, NEW h \in c.history.committed, g.index = h.index
    PROVE  g.entry = h.entry
<1>1. Made(l) /\ Complete(l, a)
  BY ShadowComplete
<1>2. \A x \in c.history.committed : \E t \in DOMAIN l :
        \E k \in 1 .. Len(l[t]) :
            Chosen(l, a, t, k) /\ x.index \in 1 .. k /\ l[t][x.index] = x.entry
  BY DEF Shadow, Records
<1>3. ASSUME NEW x \in c.history.committed, NEW y \in c.history.committed, x.index = y.index,
             NEW t \in DOMAIN l, NEW u \in DOMAIN l, t <= u,
             NEW k \in 1 .. Len(l[t]), Chosen(l, a, t, k), x.index \in 1 .. k,
             l[t][x.index] = x.entry, l[u][y.index] = y.entry
      PROVE  x.entry = y.entry
  <2>1. Keeps(l[u], l[t], k)
    BY <1>1, <1>3 DEF Complete
  <2> QED BY <1>3, <2>1 DEF Keeps
<1>4. PICK t \in DOMAIN l : \E k \in 1 .. Len(l[t]) :
            Chosen(l, a, t, k) /\ g.index \in 1 .. k /\ l[t][g.index] = g.entry
  BY <1>2
<1>5. PICK u \in DOMAIN l : \E k \in 1 .. Len(l[u]) :
            Chosen(l, a, u, k) /\ h.index \in 1 .. k /\ l[u][h.index] = h.entry
  BY <1>2
<1>6. t \in Nat /\ u \in Nat
  BY <1>1, MadeLogs
<1>7. CASE t <= u
  BY <1>3, <1>4, <1>5, <1>7
<1>8. CASE u <= t
  BY <1>3, <1>4, <1>5, <1>8
<1> QED BY <1>6, <1>7, <1>8

(* While the membership is fixed: a leader has every entry committed in its *)
(* term or an earlier one, or has it in its snapshot.                       *)
THEOREM LeadersComplete == ASSUME FixedMembership PROVE Spec => []LeaderCompleteness
<1>1. ASSUME CommitInv PROVE LeaderCompleteness
  <2> SUFFICES ASSUME NEW i \in Server, NEW c \in history.committed,
                      node[i].role = "Leader", node[i].current_term >= c.at,
                      ~ (c.index <= node[i].log.base_index)
               PROVE  HasEntry(node[i].log, c.index) /\ EntryAt(node[i].log, c.index) = c.entry
    BY DEF LeaderCompleteness
  <2> DEFINE u == node[i].current_term
  <2>1. PICK f, l, a : Shadow(Now, f, l, a)
    BY <1>1 DEF CommitInv, Shadowed
  <2>2. Made(l) /\ Complete(l, a)
    BY <2>1, ShadowComplete
  <2>3. /\ u \in DOMAIN l /\ l[u] = f[i] /\ Holding(node[i].log, f[i])
        /\ f[i] \in Seq(LogEntry) /\ Len(f[i]) \in Nat
    BY <2>1, NowFields, EntryTerm DEF Shadow, Owns
  <2>4. /\ node[i].log \in Log /\ node[i].log.base_index \in Nat
        /\ c.at \in Nat /\ c.index \in Nat
    <3>1. TypeOK
      BY <1>1 DEF CommitInv, MatchInv, ElectionInv, LawfulInv, Inv
    <3>2. c \in Commitment
      BY <3>1 DEF TypeOK
    <3>3. node[i] \in NodeRecord
      BY <3>1 DEF TypeOK
    <3> QED BY <3>2, <3>3, NodeFields, LogFields DEF Commitment
  <2>5. PICK t \in DOMAIN l : /\ t <= c.at
                              /\ \E k \in 1 .. Len(l[t]) :
                                    /\ Chosen(l, a, t, k) /\ c.index \in 1 .. k
                                    /\ l[t][c.index] = c.entry
    BY <2>1, NowFields DEF Shadow, Records
  <2>6. PICK k \in 1 .. Len(l[t]) : /\ Chosen(l, a, t, k) /\ c.index \in 1 .. k
                                    /\ l[t][c.index] = c.entry
    BY <2>5
  <2>7. t \in Nat /\ u \in Nat /\ t <= u
    BY <2>2, <2>3, <2>4, <2>5, MadeLogs
  <2>8. Keeps(f[i], l[t], k)
    BY <2>2, <2>3, <2>6, <2>7 DEF Complete
  <2>9. c.index <= Len(f[i]) /\ f[i][c.index] = c.entry
    BY <2>3, <2>4, <2>6, <2>8 DEF Keeps
  <2>10. c.index > node[i].log.base_index
    BY <2>4
  <2> QED BY <2>3, <2>4, <2>9, <2>10, HoldingReads
<1> QED BY <1>1, CommitInvariance, PTL

-----------------------------------------------------------------------------
(* What every node is. *)
LEMMA NowTyped ==
    ASSUME FixedMembership, CommitInv
    PROVE  /\ \A i \in Server :
                /\ node[i] \in NodeRecord /\ node[i].id = i /\ node[i].voters = Server
                /\ node[i].disk = node[i].log /\ node[i].log \in Log /\ IsPiece(node[i].log)
                /\ node[i].current_term \in Nat /\ node[i].last_applied \in Nat
                /\ node[i].commit_index \in Nat
           /\ wire \subseteq Message
           /\ history.committed \subseteq Commitment
<1>1. Inv /\ LawfulInv /\ TypeOK
  BY DEF CommitInv, MatchInv, ElectionInv, LawfulInv, Inv
<1>2. \A i \in Server : /\ node[i] \in NodeRecord /\ node[i].id = i /\ Lawful(node[i])
  BY <1>1 DEF TypeOK, LawfulInv
<1>3. \A i \in Server : node[i].disk = node[i].log /\ node[i].voters = Server
  BY <1>2, EveryoneVotes DEF Lawful
<1>4. \A i \in Server : node[i].log \in Log /\ IsPiece(node[i].log)
  BY <1>2, NodeFields, LogIsPiece
<1>5. \A i \in Server : /\ node[i].current_term \in Nat /\ node[i].last_applied \in Nat
                        /\ node[i].commit_index \in Nat
  BY <1>2, NodeFields
<1>6. wire \subseteq Message /\ history.committed \subseteq Commitment
  BY <1>1 DEF TypeOK
<1> QED BY <1>2, <1>3, <1>4, <1>5, <1>6

(* The commands on record up to an index are those of any log that is on    *)
(* record that far.                                                         *)
LEMMA ClaimedCommands ==
    ASSUME FixedMembership, CommitInv, NEW f, NEW l, NEW a, Shadow(Now, f, l, a),
           NEW s, NEW x \in Nat, Claimed(history.committed, s, x)
    PROVE  Commands(s, x) = CommandsThrough(x)
<1>1. \A h \in history.committed : h.index \in Nat /\ h.index >= 1
  <2>1. \A h \in history.committed : \E t \in DOMAIN l : \E k \in 1 .. Len(l[t]) :
            h.index \in 1 .. k
    BY NowFields DEF Shadow, Records
  <2> QED BY <2>1
<1>2. \A g, h \in history.committed : g.index = h.index => g.entry = h.entry
  BY OneRecord, NowFields
<1>3. \A k \in 1 .. x : \E h \in history.committed : h.index = k /\ h.entry = s[k]
  BY DEF Claimed
<1>4. \A h \in history.committed : h.index <= x => h.index \in 1 .. x /\ s[h.index] = h.entry
  <2> SUFFICES ASSUME NEW h \in history.committed, h.index <= x
               PROVE  h.index \in 1 .. x /\ s[h.index] = h.entry
    OBVIOUS
  <2>1. h.index \in 1 .. x
    BY <1>1
  <2> QED BY <1>2, <1>3, <2>1
<1>5. ASSUME NEW z \in Commands(s, x) PROVE z \in CommandsThrough(x)
  <2>1. PICK k \in 1 .. x : /\ s[k].kind = "Normal"
                            /\ z = [index |-> k, command |-> s[k].body]
    BY <1>5 DEF Commands, CommandsIn
  <2>2. PICK h \in history.committed : h.index = k /\ h.entry = s[k]
    BY <1>3
  <2>3. h.index <= x /\ h.entry.kind = "Normal"
        /\ z = [index |-> h.index, command |-> h.entry.body]
    BY <2>1, <2>2
  <2> QED BY <2>3 DEF CommandsThrough
<1>6. ASSUME NEW z \in CommandsThrough(x) PROVE z \in Commands(s, x)
  <2>1. PICK h \in history.committed :
            /\ h.index <= x /\ h.entry.kind = "Normal"
            /\ z = [index |-> h.index, command |-> h.entry.body]
    BY <1>6 DEF CommandsThrough
  <2>2. h.index \in 1 .. x /\ s[h.index] = h.entry
    BY <1>4, <2>1
  <2> QED BY <2>1, <2>2 DEF Commands, CommandsIn
<1> QED BY <1>5, <1>6

(* While the membership is fixed: no two nodes commit different entries at  *)
(* an index, and every application holds the commands committed up to       *)
(* last_applied, whether deliver_committed handed them to it one by one or  *)
(* handle_install_snapshot all at once.                                     *)
THEOREM MachinesSafe == ASSUME FixedMembership PROVE Spec => []StateMachineSafety
<1>1. ASSUME CommitInv PROVE StateMachineSafety
  <2>1. PICK f, l, a : Shadow(Now, f, l, a)
    BY <1>1 DEF CommitInv, Shadowed
  <2>2. \A c, d \in history.committed : c.index = d.index => c.entry = d.entry
    BY <2>1, OneRecord, NowFields
  <2>3. ASSUME NEW i \in Server PROVE node[i].app = CommandsThrough(node[i].last_applied)
    <3>1. /\ node[i].app = Commands(f[i], node[i].last_applied)
          /\ Claimed(history.committed, f[i], node[i].last_applied)
      BY <2>1, NowFields DEF Shadow, Settled
    <3>2. node[i].last_applied \in Nat
      BY <1>1, NowTyped
    <3> QED BY <1>1, <2>1, <3>1, <3>2, ClaimedCommands
  <2> QED BY <2>2, <2>3 DEF StateMachineSafety
<1> QED BY <1>1, CommitInvariance, PTL

(* A snapshot of a log that is on record as far as the snapshot goes ends   *)
(* at an entry on record and holds the commands through it.                 *)
LEMMA ClaimedSnapshot ==
    ASSUME FixedMembership, CommitInv, NEW f, NEW l, NEW a, Shadow(Now, f, l, a),
           NEW s \in Seq(LogEntry), NEW p, IsPiece(p), Part(p, Whole(s)), NEW snap,
           snap.index = p.base_index, snap.term = p.base_term, snap.index > 0,
           Claimed(history.committed, s, snap.index),
           snap.data = Commands(s, snap.index)
    PROVE  /\ \E c \in history.committed :
                    c.index = snap.index /\ c.entry.term = snap.term
           /\ snap.data = CommandsThrough(snap.index)
<1> DEFINE x == snap.index
<1>1. x \in Nat /\ x \in Span(p) /\ TermAt(p, x) = snap.term
  BY PieceFields DEF TermAt
<1>2. x \in 1 .. x /\ snap.term = s[x].term
  BY <1>1, PartReads
<1>3. PICK c \in history.committed : c.index = x /\ c.entry = s[x]
  BY <1>2 DEF Claimed
<1>4. snap.data = CommandsThrough(x)
  BY <1>1, ClaimedCommands
<1> QED BY <1>2, <1>3, <1>4

(* While the membership is fixed: compact takes its boundary from what is   *)
(* applied, so every snapshot, on disk or sent by snapshot_for, ends at a   *)
(* committed entry and holds the state through it.                          *)
THEOREM SnapshotsHold == ASSUME FixedMembership PROVE Spec => []SnapshotsAreCommitted
<1>1. ASSUME CommitInv PROVE SnapshotsAreCommitted
  <2>1. PICK f, l, a : Shadow(Now, f, l, a)
    BY <1>1 DEF CommitInv, Shadowed
  <2>2. ASSUME NEW i \in Server, node[i].log.base_index > 0
        PROVE  LET snap == SnapshotOf(node[i].disk)
               IN  /\ \E c \in history.committed :
                            c.index = snap.index /\ c.entry.term = snap.term
                   /\ snap.data = CommandsThrough(snap.index)
    <3> DEFINE snap == SnapshotOf(node[i].disk)
               p == node[i].log
    <3>1. node[i].disk = p /\ IsPiece(p) /\ p.base_index \in Nat
          /\ node[i].commit_index \in Nat /\ node[i].last_applied \in Nat
      BY <1>1, NowTyped DEF IsPiece
    <3>2. snap.index = p.base_index /\ snap.term = p.base_term /\ snap.data = p.data
      BY <3>1 DEF SnapshotOf
    <3>3. f[i] \in Seq(LogEntry) /\ Part(p, Whole(f[i]))
      BY <2>1, NowFields DEF Shadow, Owns, Holding
    <3>4. /\ p.base_index <= node[i].commit_index
          /\ node[i].commit_index <= node[i].last_applied
          /\ Claimed(history.committed, f[i], node[i].last_applied)
          /\ p.data = Commands(f[i], p.base_index)
      BY <2>1, NowFields DEF Shadow, Settled
    <3>5. Claimed(history.committed, f[i], p.base_index)
      BY <3>1, <3>4 DEF Claimed
    <3> HIDE DEF snap, p
    <3>6. snap.index > 0
      BY <2>2, <3>2 DEF p
    <3>7. Claimed(history.committed, f[i], snap.index)
          /\ snap.data = Commands(f[i], snap.index)
      BY <3>2, <3>4, <3>5
    <3>8. /\ \E c \in history.committed : c.index = snap.index /\ c.entry.term = snap.term
          /\ snap.data = CommandsThrough(snap.index)
      BY <1>1, <2>1, <3>1, <3>2, <3>3, <3>6, <3>7, ClaimedSnapshot
    <3> QED BY <3>8 DEF snap
  <2>3. ASSUME NEW m \in wire, m.kind = "InstallSnapshot", m.snapshot.index > 0
        PROVE  /\ \E c \in history.committed :
                        c.index = m.snapshot.index /\ c.entry.term = m.snapshot.term
               /\ m.snapshot.data = CommandsThrough(m.snapshot.index)
    <3>1. m \in Message /\ Replicates(m)
      BY <1>1, <2>3, NowTyped DEF Replicates
    <3>2. /\ IsPiece(Carried(m))
          /\ Carried(m).base_index = m.snapshot.index
          /\ Carried(m).base_term = m.snapshot.term
      BY <2>3, <3>1, CarriedIsPiece
    <3>3. /\ m.term \in DOMAIN l
          /\ Part(Carried(m), Whole(l[m.term]))
          /\ Claimed(history.committed, l[m.term], m.snapshot.index)
          /\ m.snapshot.data = Commands(l[m.term], m.snapshot.index)
      BY <2>1, <2>3, <3>1, NowFields DEF Shadow, Reports
    <3>4. l[m.term] \in Seq(LogEntry)
      BY <2>1, <3>3, MadeLogs DEF Shadow
    <3> QED BY <1>1, <2>1, <2>3, <3>2, <3>3, <3>4, ClaimedSnapshot
  <2>4. \A i \in Server : SnapshotOf(node[i].disk).index = node[i].log.base_index
    BY <1>1, NowTyped DEF SnapshotOf
  <2> QED BY <2>2, <2>3, <2>4 DEF SnapshotsAreCommitted
<1> QED BY <1>1, CommitInvariance, PTL

-----------------------------------------------------------------------------
(* What servers hold. *)

(* A server holds what it acknowledged, if the leaders up to its term have  *)
(* kept it.                                                                 *)
LEMMA AckedIsHeld ==
    ASSUME NEW c, NEW f, NEW l, NEW a, Shadow(c, f, l, a),
           NEW q, NEW t, NEW k \in Nat, k > 0, Acked(a, q, t, k),
           Handed(l, t, k, c.node[q].current_term + 1)
    PROVE  Keeps(f[q], l[t], k)
<1>1. PICK b \in a : b.server = q /\ b.term = t /\ k <= b.index
  BY DEF Acked
<1>2. b.index \in Nat
  BY DEF Shadow, Heard
<1>3. \A j \in 1 .. b.index :
        Handed(l, b.term, j, c.node[b.server].current_term + 1) => Keeps(f[b.server], l[b.term], j)
  BY DEF Shadow, StillHolds
<1>4. k \in 1 .. b.index
  BY <1>1, <1>2
<1> QED BY <1>1, <1>3, <1>4

(* In the term of the leader itself there is no later leader. *)
LEMMA HandedToNobody ==
    ASSUME NEW l, Made(l), NEW t \in Nat, NEW k, NEW u \in Nat, u <= t
    PROVE  Handed(l, t, k, u + 1)
BY MadeLogs DEF Handed

(* Two logs that are parts of wholes that agree up to k have the same term  *)
(* there.                                                                   *)
LEMMA KeepsReads ==
    ASSUME NEW s \in Seq(LogEntry), NEW r \in Seq(LogEntry),
           NEW p, IsPiece(p), Part(p, Whole(s)), NEW o, IsPiece(o), Part(o, Whole(r)),
           NEW k \in Nat, k = 0 \/ Keeps(s, r, k), k \in Span(p), k \in Span(o)
    PROVE  TermAt(p, k) = TermAt(o, k)
<1>1. k > 0 => TermAt(p, k) = s[k].term /\ TermAt(o, k) = r[k].term
  BY PartReads
<1>2. k = 0 => TermAt(p, k) = 0 /\ TermAt(o, k) = 0
  BY PartReads
<1>3. k > 0 => s[k] = r[k]
  BY DEF Keeps
<1> QED BY <1>1, <1>2, <1>3

(* While the membership is fixed: handle_append_entries_response believes   *)
(* the match_index of a reply, however old, and the peer still holds the    *)
(* leader's log that far unless it has moved on to a later term.            *)
THEOREM MatchesHeld == ASSUME FixedMembership PROVE Spec => []MatchIndexIsHeld
<1>1. ASSUME CommitInv PROVE MatchIndexIsHeld
  <2> SUFFICES ASSUME NEW i \in Server, node[i].role = "Leader",
                      NEW p \in Tracked(node[i]),
                      node[p].current_term <= node[i].current_term
               PROVE  LET match == node[i].progress[p].match_index
                          held  == node[p].disk
                      IN  /\ match <= LastIndex(held)
                          /\ match >= held.base_index /\ match >= node[i].log.base_index =>
                                TermAt(held, match) = TermAt(node[i].log, match)
    BY DEF MatchIndexIsHeld
  <2> DEFINE match == node[i].progress[p].match_index
             held  == node[p].disk
             t     == node[i].current_term
  <2>1. PICK f, l, a : Shadow(Now, f, l, a)
    BY <1>1 DEF CommitInv, Shadowed
  <2>2. p \in Server /\ node[i].progress[p] # None
    BY DEF Tracked
  <2>3. /\ node[i] \in NodeRecord /\ t \in Nat /\ IsPiece(node[i].log)
        /\ held = node[p].log /\ IsPiece(held) /\ node[p].current_term \in Nat
    BY <1>1, <2>2, NowTyped
  <2>4. match \in Nat
    <3>1. node[i].progress[p] \in Progress
      BY <2>2, <2>3, NodeFields
    <3> QED BY <3>1 DEF Progress
  <2>5. /\ f[i] \in Seq(LogEntry) /\ Part(node[i].log, Whole(f[i]))
        /\ f[p] \in Seq(LogEntry) /\ Part(node[p].log, Whole(f[p]))
        /\ LastIndex(node[i].log) = Len(f[i])
        /\ LastIndex(node[p].log) = Len(f[p])
        /\ t \in DOMAIN l /\ l[t] = f[i] /\ Made(l)
    BY <2>1, <2>2, NowFields DEF Shadow, Owns, Holding
  <2>6. Acked(a, p, t, match)
    BY <2>1, NowFields DEF Shadow, Listens, Tracks
  <2> HIDE DEF match, held, t
  <2>7. match = 0 \/ Keeps(f[p], f[i], match)
    <3>1. Handed(l, t, match, node[p].current_term + 1)
      BY <2>3, <2>5, HandedToNobody DEF t
    <3>2. match > 0 => Keeps(f[p], l[t], match)
      BY <2>1, <2>4, <2>6, <3>1, AckedIsHeld, NowFields
    <3> QED BY <2>4, <2>5, <3>2
  <2>8. match <= LastIndex(held) /\ match <= LastIndex(node[i].log)
    <3>1. Len(f[p]) \in Nat /\ Len(f[i]) \in Nat
      BY <2>5, EntryTerm
    <3> QED BY <2>3, <2>4, <2>5, <2>7, <3>1 DEF Keeps
  <2>9. ASSUME match >= held.base_index, match >= node[i].log.base_index
        PROVE  TermAt(held, match) = TermAt(node[i].log, match)
    <3>1. match \in Span(held) /\ match \in Span(node[i].log)
      BY <2>3, <2>4, <2>8, <2>9, PieceFields DEF Span
    <3> QED BY <2>3, <2>4, <2>5, <2>7, <3>1, KeepsReads
  <2> QED BY <2>8, <2>9 DEF match, held
<1> QED BY <1>1, CommitInvariance, PTL

(* While the membership is fixed: the next index that back-tracking and     *)
(* the hints of a rejection compute stays above what is known to match and  *)
(* within the log.                                                          *)
THEOREM ProgressStaysInRange == ASSUME FixedMembership PROVE Spec => []ProgressInRange
<1>1. ASSUME CommitInv PROVE ProgressInRange
  <2>1. PICK f, l, a : Shadow(Now, f, l, a)
    BY <1>1 DEF CommitInv, Shadowed
  <2> QED BY <2>1, NowFields DEF Shadow, Listens, Tracks, ProgressInRange
<1> QED BY <1>1, CommitInvariance, PTL

-----------------------------------------------------------------------------
(* What a step may do. *)

(* A turn keeps what its node has committed. *)
LEMMA TurnKeepsCommitted ==
    ASSUME FixedMembership, NEW c, NEW i, NEW m, NEW d, NEW f, NEW l, NEW a, NEW s, NEW r,
           Scene(c, i, m, d, f, l, a, s, r),
           NEW k \in Span(c.node[i].log), k <= c.node[i].commit_index, k >= m.log.base_index
    PROVE  TermAt(m.log, k) = TermAt(c.node[i].log, k)
<1> DEFINE n == c.node[i]
<1>1. Turned(c, i, m, d) /\ Shadow(c, f, l, a)
  BY DEF Scene
<1>2. i \in Server /\ n \in NodeRecord /\ n.log \in Log /\ m.log \in Log
  BY <1>1, TurnedTyped
<1>3. /\ IsPiece(n.log) /\ IsPiece(m.log) /\ k \in Nat /\ n.commit_index \in Nat
      /\ m.log.base_index \in Nat
  BY <1>2, LogIsPiece, PieceFields, NodeFields DEF Span
<1>4. /\ s \in Seq(LogEntry) /\ Len(s) \in Nat /\ Part(m.log, Whole(s))
      /\ LastIndex(m.log) = Len(s)
      /\ f[i] \in Seq(LogEntry) /\ Len(f[i]) \in Nat /\ Part(n.log, Whole(f[i]))
  BY SceneNode DEF Holding
<1>5. Keeps(s, f[i], n.last_applied) /\ n.last_applied \in Nat
  BY SceneApplied
<1>6. n.commit_index <= n.last_applied
  BY <1>1, <1>2 DEF Shadow, Settled
<1> HIDE DEF n
<1>7. k <= n.last_applied
  BY <1>3, <1>5, <1>6 DEF n
<1>8. Keeps(s, f[i], k) /\ k <= Len(s)
  BY <1>3, <1>4, <1>5, <1>7 DEF Keeps
<1>9. k \in Span(m.log)
  BY <1>3, <1>4, <1>8 DEF Span
<1> QED BY <1>3, <1>4, <1>8, <1>9, KeepsReads DEF n

(* A step is a turn of one node in some scene, or nothing but a loss.       *)
LEMMA NextScene ==
    ASSUME FixedMembership, CommitInv, MatchInv', ElectionSafety', [Next]_vars
    PROVE  \/ UNCHANGED <<node, history>> /\ wire' \subseteq wire
           \/ \E i \in Server : \E m, f, l, a, s, r :
                Turns(i, m) /\ Scene(Now, i, m, Now', f, l, a, s, r)
<1>1. Moves
  BY NextMoves DEF CommitInv, MatchInv, ElectionInv, LawfulInv
<1>2. ASSUME NEW i \in Server, NEW m, Turns(i, m)
      PROVE  \E f, l, a, s, r : Scene(Now, i, m, Now', f, l, a, s, r)
  <2>1. PICK f, l, a : Shadow(Now, f, l, a)
    BY DEF CommitInv, Shadowed
  <2>2. \E s, r : Scene(Now, i, m, Now', f, l, a, s, r)
    BY <1>2, <2>1, TurnScene DEF CommitInv
  <2> QED BY <2>2
<1> QED BY <1>1, <1>2 DEF Moves

(* While the membership is fixed: truncate_from and the installation of a   *)
(* snapshot never take back what the node's commit index covers.            *)
THEOREM CommittedStays == ASSUME FixedMembership PROVE Spec => CommittedNeverTruncated
<1>1. CommitInv /\ MatchInv' /\ ElectionSafety' /\ [Next]_vars =>
        [\A i \in Server : \A k \in Span(node[i].log) :
            k <= node[i].commit_index /\ k >= node'[i].log.base_index =>
                TermAt(node'[i].log, k) = TermAt(node[i].log, k)]_vars
  <2> SUFFICES ASSUME CommitInv, MatchInv', ElectionSafety', [Next]_vars,
                      NEW i \in Server, NEW k \in Span(node[i].log),
                      k <= node[i].commit_index, k >= node'[i].log.base_index
               PROVE  TermAt(node'[i].log, k) = TermAt(node[i].log, k)
    OBVIOUS
  <2>1. CASE UNCHANGED <<node, history>> /\ wire' \subseteq wire
    BY <2>1
  <2>2. ASSUME NEW j \in Server, NEW m, NEW f, NEW l, NEW a, NEW s, NEW r,
               Scene(Now, j, m, Now', f, l, a, s, r)
        PROVE  TermAt(node'[i].log, k) = TermAt(node[i].log, k)
    <3>1. /\ node'[j].log = m.log
          /\ \A h \in Server : h # j => node'[h] = node[h]
      <4>1. Turned(Now, j, m, Now')
        BY <2>2 DEF Scene
      <4>2. /\ Now'.node[j].log = m.log
            /\ \A h \in Server : h # j => Now'.node[h] = Now.node[h]
        BY <4>1, TurnedTyped
      <4> QED BY <4>2, NowFields
    <3>2. CASE i # j
      BY <3>1, <3>2
    <3>3. CASE i = j
      <4>1. /\ k \in Span(Now.node[j].log) /\ k <= Now.node[j].commit_index
            /\ k >= m.log.base_index
        BY <3>1, <3>3, NowFields
      <4>2. TermAt(m.log, k) = TermAt(Now.node[j].log, k)
        BY <2>2, <4>1, TurnKeepsCommitted
      <4> QED BY <3>1, <3>3, <4>2, NowFields
    <3> QED BY <3>2, <3>3
  <2> QED BY <2>1, <2>2, NextScene
<1> QED BY <1>1, CommitInvariance, MatchInvariance, ElectionSafe, PTL
        DEF Spec, CommittedNeverTruncated

(* What a node has committed a majority of the voters holds. *)
CommitHeld ==
    \A i \in Server :
        LET n == node[i]
            k == n.commit_index
        IN  /\ k \in Nat
            /\ k > 0 => 2 * Cardinality({p \in n.voters :
                                \/ k <= node[p].disk.base_index
                                \/ TermAt(node[p].disk, k) = TermAt(n.log, k)})
                            > Cardinality(n.voters)

(* More than a majority is a majority. *)
LEMMA MajorityWithin ==
    ASSUME FixedMembership, NEW S, S \subseteq Server, NEW Q \in Majorities, Q \subseteq S
    PROVE  2 * Cardinality(S) > Cardinality(Server)
<1>1. IsFiniteSet(Server)
  BY DEF FixedMembership
<1>2. IsFiniteSet(S) /\ IsFiniteSet(Q)
  BY <1>1, FS_Subset
<1>3. Cardinality(Q) <= Cardinality(S)
  BY <1>2, FS_Subset
<1>4. Cardinality(Q) \in Nat /\ Cardinality(S) \in Nat /\ Cardinality(Server) \in Nat
  BY <1>1, <1>2, FS_CardinalityType
<1> QED BY <1>3, <1>4 DEF Majorities

(* What is decided a majority holds. *)
LEMMA DecidedIsHeld ==
    ASSUME FixedMembership, NEW c, NEW f, NEW l, NEW a, Shadow(c, f, l, a),
           NEW s, NEW x \in Nat, NEW k \in Nat, k > 0, k <= x, NEW top,
           Decided(l, a, s, x, top)
    PROVE  \E Q \in Majorities : \A q \in Q : Keeps(f[q], s, k)
<1>1. PICK t \in DOMAIN l : \E z \in 1 .. Len(l[t]) :
            Chosen(l, a, t, z) /\ x <= z /\ Keeps(s, l[t], x)
  BY DEF Decided
<1>2. PICK z \in 1 .. Len(l[t]) : Chosen(l, a, t, z) /\ x <= z /\ Keeps(s, l[t], x)
  BY <1>1
<1>3. PICK Q \in Majorities : \A q \in Q : Acked(a, q, t, z)
  BY <1>2 DEF Chosen
<1>4. Made(l) /\ Complete(l, a)
  BY ShadowComplete
<1>5. t \in Nat /\ Len(l[t]) \in Nat /\ \A w \in DOMAIN l : w \in Nat
  BY <1>4, MadeLogs
<1>6. z \in Nat /\ z > 0
  BY <1>5
<1>7. ASSUME NEW q \in Q PROVE Keeps(f[q], s, k)
  <2>1. \A w \in DOMAIN l : t <= w => Keeps(l[w], l[t], z)
    BY <1>2, <1>4 DEF Complete
  <2>2. Handed(l, t, z, c.node[q].current_term + 1)
    BY <1>5, <2>1 DEF Handed
  <2>3. Keeps(f[q], l[t], z)
    BY <1>3, <1>6, <1>7, <2>2, AckedIsHeld
  <2> QED BY <1>2, <1>6, <2>3 DEF Keeps
<1> QED BY <1>3, <1>7

(* While the membership is fixed: advance_commit counts match indices, and  *)
(* whatever a node has committed, as a leader or because one told it, a     *)
(* majority of the voters holds on disk.                                    *)
THEOREM CommitsAreHeld == ASSUME FixedMembership PROVE Spec => CommitsOnMajority
<1>1. CommitInv => CommitHeld
  <2>0. ASSUME CommitInv PROVE \A i \in Server : node[i].commit_index \in Nat
    BY <2>0, NowTyped
  <2> SUFFICES ASSUME CommitInv, NEW i \in Server, node[i].commit_index > 0
               PROVE  LET n == node[i]
                          k == n.commit_index
                      IN  2 * Cardinality({p \in n.voters :
                                \/ k <= node[p].disk.base_index
                                \/ TermAt(node[p].disk, k) = TermAt(n.log, k)})
                            > Cardinality(n.voters)
    BY <2>0 DEF CommitHeld
  <2> DEFINE n == node[i]
             k == n.commit_index
             S == {p \in n.voters : \/ k <= node[p].disk.base_index
                                    \/ TermAt(node[p].disk, k) = TermAt(n.log, k)}
  <2>1. PICK f, l, a : Shadow(Now, f, l, a)
    BY DEF CommitInv, Shadowed
  <2>2. /\ n.voters = Server /\ IsPiece(n.log) /\ k \in Nat /\ n.last_applied \in Nat
        /\ \A p \in Server : node[p].disk = node[p].log /\ IsPiece(node[p].log)
    BY NowTyped
  <2>3. \A p \in Server : /\ f[p] \in Seq(LogEntry) /\ Len(f[p]) \in Nat
                          /\ Part(node[p].log, Whole(f[p]))
                          /\ LastIndex(node[p].log) = Len(f[p])
    BY <2>1, NowFields, EntryTerm DEF Shadow, Owns, Holding
  <2>4. /\ n.log.base_index <= k /\ k <= n.last_applied
        /\ Decided(l, a, f[i], n.last_applied, n.current_term)
    BY <2>1, NowFields DEF Shadow, Settled
  <2> HIDE DEF n, k
  <2>5. PICK Q \in Majorities : \A q \in Q : Keeps(f[q], f[i], k)
    BY <2>1, <2>2, <2>4, DecidedIsHeld DEF k, n
  <2>6. ASSUME NEW q \in Q PROVE q \in S
    <3>1. q \in Server /\ Keeps(f[q], f[i], k)
      BY <2>5 DEF Majorities
    <3>2. k <= Len(f[q]) /\ k <= Len(f[i])
      BY <3>1 DEF Keeps
    <3>3. k \in Span(n.log)
      BY <2>2, <2>3, <2>4, <3>2, PieceFields DEF Span, n
    <3>4. CASE k <= node[q].log.base_index
      BY <2>2, <3>1, <3>4
    <3>5. CASE ~ (k <= node[q].log.base_index)
      <4>1. k \in Span(node[q].log)
        BY <2>2, <2>3, <3>1, <3>2, <3>5, PieceFields DEF Span
      <4>2. TermAt(node[q].log, k) = TermAt(n.log, k)
        BY <2>2, <2>3, <3>1, <3>3, <4>1, KeepsReads DEF n
      <4> QED BY <2>2, <3>1, <4>2
    <3> QED BY <3>4, <3>5
  <2>7. S \subseteq Server /\ Q \subseteq S
    BY <2>2, <2>6
  <2> HIDE DEF S
  <2>8. 2 * Cardinality(S) > Cardinality(n.voters)
    BY <2>2, <2>7, MajorityWithin
  <2> QED BY <2>8 DEF S, k, n
<1>2. CommitInv => \A i \in Server : node[i].commit_index \in Nat
  BY NowTyped
<1>3. CommitInv /\ CommitHeld' =>
        [\A i \in Server :
            LET n == node'[i]
                k == n.commit_index
            IN  /\ node[i].role = "Leader"
                /\ n.current_term = node[i].current_term
                /\ k > node[i].commit_index
                => 2 * Cardinality({p \in n.voters :
                            \/ k <= node'[p].disk.base_index
                            \/ TermAt(node'[p].disk, k) = TermAt(n.log, k)})
                        > Cardinality(n.voters)]_vars
  <2> SUFFICES ASSUME CommitInv, CommitHeld', NEW i \in Server,
                      node'[i].commit_index > node[i].commit_index
               PROVE  LET n == node'[i]
                          k == n.commit_index
                      IN  2 * Cardinality({p \in n.voters :
                                \/ k <= node'[p].disk.base_index
                                \/ TermAt(node'[p].disk, k) = TermAt(n.log, k)})
                            > Cardinality(n.voters)
    OBVIOUS
  <2>1. node'[i].commit_index > 0
    <3>1. node[i].commit_index \in Nat
      BY <1>2
    <3>2. node'[i].commit_index \in Nat
      BY DEF CommitHeld
    <3> QED BY <3>1, <3>2
  <2> QED BY <2>1 DEF CommitHeld
<1> QED BY <1>1, <1>3, CommitInvariance, PTL DEF Spec, CommitsOnMajority
(* Whom a turn tells to take over has the whole log of the leader. *)
LEMMA TurnHandsOver ==
    ASSUME FixedMembership, NEW c, NEW i, NEW m, NEW d, NEW f, NEW l, NEW a, NEW s, NEW r,
           Scene(c, i, m, d, f, l, a, s, r),
           NEW x \in d.wire, x \notin c.wire, x.kind = "TimeoutNow"
    PROVE  /\ x.from = i /\ x.to \in Server /\ x.term \in Nat
           /\ \/ c.node[x.to].current_term > x.term
              \/ Len(f[x.to]) >= Len(f[i])
<1> DEFINE n == c.node[i]
           t == m.current_term
           q == x.to
           b == Replied(n, m, s, a)
           e == Sheet(c, n, t, s, r, b)
<1>1. Turned(c, i, m, d) /\ Shadow(c, f, l, a)
  BY DEF Scene
<1>2. /\ i \in Server /\ m.id = i /\ t \in Nat
      /\ x \in Message /\ x \in m.sends /\ Says(m, x)
      /\ \A j \in Server : c.node[j].current_term \in Nat
  BY <1>1, TurnedTyped
<1>3. q \in Server /\ x.from = i
  BY <1>2, MessageFields DEF Says, Told
<1>4. Vows(b, a, i, t) /\ Fit(m, e)
  BY TurnFit
<1>5. e.acks = b
  BY SheetFields
<1> HIDE DEF b, e
<1>6. /\ m.role = "Leader" /\ x.term = t /\ q # i
      /\ Acked(b, q, t, LastIndex(m.log))
  BY <1>2, <1>4, <1>5 DEF Fit, Speaks
<1>7. /\ Len(s) \in Nat /\ LastIndex(m.log) = Len(s) /\ Len(f[i]) \in Nat
      /\ Authors(n, m) => Keeps(s, f[i], Len(f[i]))
  BY SceneNode DEF Holding
<1>8. Len(f[i]) <= Len(s)
  BY <1>6, <1>7 DEF Authors, Keeps
<1>9. f[q] \in Seq(LogEntry) /\ Len(f[q]) \in Nat
  BY <1>1, <1>3, EntryTerm DEF Shadow, Owns
<1>10. ASSUME c.node[q].current_term <= t, Len(s) > 0
       PROVE  Len(s) <= Len(f[q])
  <2>1. Acked(a, q, t, Len(s))
    BY <1>4, <1>6, <1>7, <1>10 DEF Acked, Vows
  <2>2. Handed(l, t, Len(s), c.node[q].current_term + 1)
    BY <1>1, <1>2, <1>3, <1>10, HandedToNobody DEF Shadow
  <2>3. Keeps(f[q], l[t], Len(s))
    BY <1>1, <1>7, <1>10, <2>1, <2>2, AckedIsHeld
  <2> QED BY <2>3 DEF Keeps
<1>11. c.node[q].current_term \in Nat
  BY <1>2, <1>3
<1> QED BY <1>2, <1>3, <1>6, <1>7, <1>8, <1>9, <1>10, <1>11

(* While the membership is fixed: transfer_leadership waits until the       *)
(* target has acknowledged the leader's last entry before it sends          *)
(* TimeoutNow, and the target then holds the whole log, unless it has moved *)
(* on to a later term.                                                      *)
THEOREM HandsOverSafely == ASSUME FixedMembership PROVE Spec => HandsOverToCaughtUp
<1>1. CommitInv /\ MatchInv' /\ ElectionSafety' /\ [Next]_vars =>
        [\A m \in wire' \ wire : m.kind = "TimeoutNow" =>
            \/ node[m.to].current_term > m.term
            \/ LastIndex(node[m.to].disk) >= LastIndex(node[m.from].log)]_vars
  <2> SUFFICES ASSUME CommitInv, MatchInv', ElectionSafety', [Next]_vars,
                      NEW x \in wire' \ wire, x.kind = "TimeoutNow"
               PROVE  \/ node[x.to].current_term > x.term
                      \/ LastIndex(node[x.to].disk) >= LastIndex(node[x.from].log)
    OBVIOUS
  <2>1. CASE UNCHANGED <<node, history>> /\ wire' \subseteq wire
    BY <2>1
  <2>2. ASSUME NEW i \in Server, NEW m, NEW f, NEW l, NEW a, NEW s, NEW r,
               Scene(Now, i, m, Now', f, l, a, s, r)
        PROVE  \/ node[x.to].current_term > x.term
               \/ LastIndex(node[x.to].disk) >= LastIndex(node[x.from].log)
    <3>1. x \in Now'.wire /\ x \notin Now.wire
      BY NowFields
    <3>2. /\ x.from = i /\ x.to \in Server
          /\ \/ Now.node[x.to].current_term > x.term
             \/ Len(f[x.to]) >= Len(f[i])
      BY <2>2, <3>1, TurnHandsOver
    <3>3. \A p \in Server : LastIndex(node[p].log) = Len(f[p])
      BY <2>2, NowFields DEF Scene, Shadow, Owns, Holding
    <3>4. node[x.to].disk = node[x.to].log
      BY <3>2, NowTyped
    <3> QED BY <3>2, <3>3, <3>4, NowFields
  <2> QED BY <2>1, <2>2, NextScene
<1> QED BY <1>1, CommitInvariance, MatchInvariance, ElectionSafe, PTL
        DEF Spec, HandsOverToCaughtUp
=============================================================================
