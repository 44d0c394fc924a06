---------------------------- MODULE RoundsTheorems ----------------------------
(***************************************************************************)
(* A cluster with clocks and mailboxes: the proofs.                        *)
(*                                                                         *)
(* Every step of module Rounds is one of module RaftCluster, so whatever   *)
(* is proved of clusters is true of clusters with clocks.  It takes an     *)
(* invariant about the clocks (a leader's own is the one it won with, a    *)
(* follower's runs behind what it has heard), the mailboxes (what is in    *)
(* them is on the wire) and the terms (none passes MaxTerm).  Then: a      *)
(* follower that hears from its leader is loyal to it, and the             *)
(* applications' maps are those of the commands committed.                 *)
(***************************************************************************)
EXTENDS RoundsProperties, RaftCommits

-----------------------------------------------------------------------------
(* The invariant. *)

(* The election timer has not run on since the node last heard from its    *)
(* leader, as far as the minimum timeout is concerned.                     *)
Lately(i) == Smaller(timer[i].elapsed, Configured[i].election_timeout_min) <= heard[i]

(* What a node of Rounds goes by. *)
Standing(i) ==
    [bound |-> MaxTerm, since |-> node[i].current_term, clock |-> Ripe(i, timer[i]),
     polled |-> Server, known |-> IF Lately(i) THEN Server ELSE {},
     probes |-> TRUE, asks |-> TRUE, grants |-> {"PreVoteReply", "RequestVoteReply"}]

Timed(i, t) ==
    /\ t \in Timer
    /\ t.timeout \in Configured[i].election_timeout_min
                        .. Configured[i].election_timeout_max
    /\ t.elapsed <= t.timeout

ClockInv ==
    /\ timer \in [Server -> Timer]
    /\ heard \in [Server -> Nat]
    /\ \A i \in Server : /\ Timed(i, timer[i])
                         /\ heard[i] <= Configured[i].election_timeout_min

MailInv ==
    /\ Founders \subseteq running /\ running \subseteq Server
    /\ mailbox \in [Server -> Seq(wire)]
    /\ \A i \in Server : /\ \A k \in DOMAIN mailbox[i] : mailbox[i][k].to = i
                         /\ i \notin running => mailbox[i] = << >>

(* What the history holds of a node. *)
Recorded ==
    /\ history = [ballots   |-> history.ballots, victories |-> history.victories,
                  committed |-> history.committed]
    /\ \A i \in Server : /\ BallotOf(node[i]) \subseteq history.ballots
                         /\ VictoryOf(node[i]) \subseteq history.victories

StandInv ==
    /\ \A i \in Server : Orderly(node[i], Standing(i))
    /\ \A m \in wire : /\ m.term < MaxTerm
                       /\ m.kind = "TimeoutNow" => m.term + 1 < MaxTerm
                       /\ m.kind = "RequestVote" => m.to # m.from

RoundsInv == LawfulInv /\ ClockInv /\ MailInv /\ Recorded /\ StandInv

(* What only node i's steps do. *)
Alone(i) ==
    /\ \A j \in Server : j # i => node'[j] = node[j]
    /\ \A s \in wire' : s \in wire \/ s.from = i

-----------------------------------------------------------------------------
(* Timers. *)

LEMMA MinTimeout ==
    ASSUME NEW i \in Server
    PROVE  /\ Configured[i].election_timeout_min \in Nat
           /\ Configured[i].election_timeout_min >= 1
           /\ Configured[i].election_timeout_max \in Nat
           /\ Configured[i].election_timeout_max >= Configured[i].election_timeout_min
BY ConfiguredAssumption

LEMMA DrawnTimeouts ==
    ASSUME NEW i \in Server, NEW d \in Timeouts(i)
    PROVE  /\ d \in Nat /\ d >= 1
           /\ d \in Configured[i].election_timeout_min
                        .. Configured[i].election_timeout_max
BY MinTimeout DEF Timeouts, GenRange

LEMMA OutcomesTimed ==
    ASSUME NEW n, n.id \in Server, NEW t, Timed(n.id, t), NEW after, NEW reset \in BOOLEAN,
           NEW outcome \in Outcomes(n, t, after, reset)
    PROVE  /\ outcome[1] = after /\ Timed(n.id, outcome[2])
           /\ reset => outcome[2].elapsed = 0
           /\ ~ reset => outcome[2].elapsed = t.elapsed
<1> DEFINE led == [t EXCEPT !.beat = IF StartsToLead(n, after) THEN 0 ELSE @]
<1>1. t \in Timer
  BY DEF Timed
<1>2. led \in Timer /\ led.elapsed = t.elapsed /\ led.timeout = t.timeout
  BY <1>1 DEF Timer
<1>3. outcome \in {<<after, u>> : u \in IF reset THEN ResetElectionTimer(n.id, led)
                                                 ELSE {led}}
  BY DEF Outcomes
<1> HIDE DEF led
<1>4. CASE reset
  <2>1. PICK d \in Timeouts(n.id) :
            outcome = <<after, [led EXCEPT !.elapsed = 0, !.timeout = d]>>
    BY <1>3, <1>4 DEF ResetElectionTimer
  <2>2. /\ d \in Nat /\ d >= 1
        /\ d \in Configured[n.id].election_timeout_min
                        .. Configured[n.id].election_timeout_max
    BY DrawnTimeouts
  <2> DEFINE u == [led EXCEPT !.elapsed = 0, !.timeout = d]
  <2>3. u \in Timer /\ u.elapsed = 0 /\ u.timeout = d
    BY <1>2, <2>2 DEF Timer
  <2> HIDE DEF u
  <2>4. Timed(n.id, u)
    BY <2>2, <2>3 DEF Timed
  <2> QED BY <1>4, <2>1, <2>3, <2>4 DEF u
<1>5. CASE ~ reset
  <2>1. outcome = <<after, led>>
    BY <1>3, <1>5
  <2>2. Timed(n.id, led)
    BY <1>2 DEF Timed
  <2> QED BY <1>2, <1>5, <2>1, <2>2
<1> QED BY <1>4, <1>5

LEMMA TickTimed ==
    ASSUME NEW n, n.id \in Server, NEW t, Timed(n.id, t), NEW outcome \in Tick(n, t)
    PROVE  /\ Timed(n.id, outcome[2])
           /\ \/ /\ TimesOut(n, t)
                 /\ outcome[1] = TickTimeout(n) /\ outcome[2].elapsed = 0
              \/ /\ Waits(n) /\ ~ TimesOut(n, t)
                 /\ outcome[1] = n /\ outcome[2].elapsed <= t.elapsed + 1
              \/ /\ n.role = "Leader" /\ outcome[2].elapsed = t.elapsed
                 /\ outcome[1] \in {n, TickHeartbeat(n)}
<1>1. /\ t \in Timer /\ t.elapsed \in Nat /\ t.timeout \in Nat /\ t.beat \in Nat
      /\ t.elapsed <= t.timeout
  BY DEF Timed, Timer
<1>2. CASE TimesOut(n, t)
  <2>1. outcome \in Outcomes(n, t, TickTimeout(n), TRUE)
    BY <1>2 DEF Tick
  <2>2. /\ outcome[1] = TickTimeout(n) /\ Timed(n.id, outcome[2])
        /\ outcome[2].elapsed = 0
    <3> DEFINE reset == TRUE
    <3>1. outcome \in Outcomes(n, t, TickTimeout(n), reset) /\ reset \in BOOLEAN
      BY <2>1
    <3>2. reset
      OBVIOUS
    <3> HIDE DEF reset
    <3>3. /\ outcome[1] = TickTimeout(n) /\ Timed(n.id, outcome[2])
          /\ reset => outcome[2].elapsed = 0
      BY <3>1, OutcomesTimed
    <3> QED BY <3>2, <3>3
  <2> QED BY <1>2, <2>2
<1>3. CASE ~ TimesOut(n, t) /\ Waits(n)
  <2> DEFINE e == Smaller(t.elapsed + 1, t.timeout)
             u == [t EXCEPT !.elapsed = Smaller(@ + 1, t.timeout)]
  <2>1. outcome = <<n, u>>
    BY <1>3 DEF Tick
  <2>2. e \in Nat /\ e <= t.elapsed + 1 /\ e <= t.timeout
    BY <1>1 DEF Smaller
  <2>3. u \in Timer /\ u.elapsed = e /\ u.timeout = t.timeout
    BY <1>1, <2>2 DEF Timer
  <2> HIDE DEF u, e
  <2>4. Timed(n.id, u)
    BY <2>2, <2>3 DEF Timed
  <2> QED BY <1>3, <2>1, <2>2, <2>3, <2>4
<1>4. CASE ~ Waits(n)
  <2>1. ~ TimesOut(n, t) /\ n.role = "Leader"
    BY <1>4 DEF TimesOut, Waits
  <2>2. PICK b \in Nat : /\ outcome[2] = [t EXCEPT !.beat = b]
                         /\ outcome[1] \in {n, TickHeartbeat(n)}
    <3>1. CASE HeartbeatDue(n, t)
      <4>1. outcome = <<TickHeartbeat(n), [t EXCEPT !.beat = 0]>>
        BY <1>4, <2>1, <3>1 DEF Tick
      <4> QED BY <4>1
    <3>2. CASE ~ HeartbeatDue(n, t)
      <4>1. outcome = <<n, [t EXCEPT !.beat = @ + 1]>>
        BY <1>4, <2>1, <3>2 DEF Tick
      <4>2. outcome = <<n, [t EXCEPT !.beat = t.beat + 1]>> /\ t.beat + 1 \in Nat
        BY <1>1, <4>1
      <4> QED BY <4>2
    <3> QED BY <3>1, <3>2
  <2> DEFINE u == [t EXCEPT !.beat = b]
  <2>3. u \in Timer /\ u.elapsed = t.elapsed /\ u.timeout = t.timeout
    BY <1>1 DEF Timer
  <2> HIDE DEF u
  <2>4. Timed(n.id, u)
    BY <2>3 DEF Timed
  <2> QED BY <2>1, <2>2, <2>3, <2>4 DEF u
<1> QED BY <1>2, <1>3, <1>4

LEMMA FeedTimed ==
    ASSUME NEW n, n.id \in Server, NEW t, Timed(n.id, t), NEW m, NEW outcome \in Feed(n, t, m)
    PROVE  LET ripe  == Ripe(n.id, t)
               after == HandleMessage(n, m, ripe)
           IN  /\ outcome[1] = after /\ Timed(n.id, outcome[2])
               /\ ResetsTimer(n, m, ripe, after) => outcome[2].elapsed = 0
               /\ ~ ResetsTimer(n, m, ripe, after) => outcome[2].elapsed = t.elapsed
<1> DEFINE ripe  == Ripe(n.id, t)
           after == HandleMessage(n, m, ripe)
           reset == ResetsTimer(n, m, ripe, after)
<1>1. outcome \in Outcomes(n, t, after, reset)
  BY DEF Feed
<1>2. reset \in BOOLEAN
  BY DEF ResetsTimer
<1> HIDE DEF after, reset
<1>3. /\ outcome[1] = after /\ Timed(n.id, outcome[2])
      /\ reset => outcome[2].elapsed = 0
      /\ ~ reset => outcome[2].elapsed = t.elapsed
  BY <1>1, <1>2, OutcomesTimed
<1> QED BY <1>3 DEF after, reset
-----------------------------------------------------------------------------
(* Mailboxes. *)

(* A set made a sequence: its members and no other. *)
LEMMA ListedSet ==
    ASSUME NEW S, IsFiniteSet(S), NEW T, S \subseteq T
    PROVE  SetToSeq(S) \in Seq(T) /\ \A k \in DOMAIN SetToSeq(S) : SetToSeq(S)[k] \in S
<1> DEFINE c == Cardinality(S)
           q == SetToSeq(S)
<1>1. c \in Nat /\ ExistsBijection(1 .. c, S)
  BY FS_CardinalityType
<1>2. PICK f \in [1 .. c -> S] : IsInjective(f)
  BY <1>1 DEF ExistsBijection, Bijection, Injection, IsInjective
<1>3. q \in [1 .. c -> S]
  BY <1>2 DEF SetToSeq
<1> HIDE DEF c, q
<1>4. q \in Seq(T) /\ \A k \in DOMAIN q : q[k] \in S
  BY <1>1, <1>3
<1> QED BY <1>4 DEF q

(* Appending to a mailbox. *)
LEMMA JoinedBoxes ==
    ASSUME NEW T, NEW U, T \subseteq U, NEW a \in Seq(T), NEW b \in Seq(U), NEW p,
           \A k \in DOMAIN a : a[k].to = p, \A k \in DOMAIN b : b[k].to = p
    PROVE  a \o b \in Seq(U) /\ \A k \in DOMAIN (a \o b) : (a \o b)[k].to = p
<1>1. a \in Seq(U) /\ Len(a) \in Nat /\ Len(b) \in Nat
  BY LenProperties
<1>2. a \o b \in Seq(U) /\ Len(a \o b) = Len(a) + Len(b)
  BY <1>1, ConcatProperties
<1>3. \A k \in 1 .. Len(a) + Len(b) :
        (a \o b)[k] = IF k <= Len(a) THEN a[k] ELSE b[k - Len(a)]
  BY <1>1, ConcatProperties
<1>4. ASSUME NEW k \in DOMAIN (a \o b) PROVE (a \o b)[k].to = p
  <2>1. k \in 1 .. Len(a) + Len(b)
    BY <1>2, LenProperties
  <2>2. CASE k <= Len(a)
    <3>1. k \in DOMAIN a
      BY <1>1, <2>1, <2>2, LenProperties
    <3> QED BY <1>3, <2>1, <2>2, <3>1
  <2>3. CASE ~ (k <= Len(a))
    <3>1. k - Len(a) \in DOMAIN b
      BY <1>1, <2>1, <2>3, LenProperties
    <3> QED BY <1>3, <2>1, <2>3, <3>1
  <2> QED BY <2>2, <2>3
<1> QED BY <1>2, <1>4

(* Posting what a node sends. *)
LEMMA PostedMail ==
    ASSUME NEW boxes \in [Server -> Seq(wire)],
           \A p \in Server : /\ \A k \in DOMAIN boxes[p] : boxes[p][k].to = p
                             /\ p \notin running' => boxes[p] = << >>,
           Founders \subseteq running', running' \subseteq Server,
           NEW i, NEW messages, IsFiniteSet(messages),
           wire' = wire \cup messages, mailbox' = Posted(boxes, i, messages)
    PROVE  MailInv'
<1> DEFINE new(p) == {m \in messages : m.to = p /\ p \in running' /\ Connected(i, p)}
<1>1. \A p \in Server : mailbox'[p] = boxes[p] \o SetToSeq(new(p))
  BY DEF Posted
<1>2. \A p : IsFiniteSet(new(p)) /\ new(p) \subseteq wire'
  <2> SUFFICES ASSUME NEW p PROVE IsFiniteSet(new(p)) /\ new(p) \subseteq wire'
    OBVIOUS
  <2>1. new(p) \subseteq messages
    OBVIOUS
  <2> HIDE DEF new
  <2> QED BY <2>1, FS_Subset
<1>3. \A p : \A m \in new(p) : m.to = p
  OBVIOUS
<1>4. \A p : p \notin running' => new(p) = {}
  OBVIOUS
<1>5. mailbox' = [p \in Server |-> mailbox'[p]]
  BY DEF Posted
<1> HIDE DEF new
<1>6. ASSUME NEW p \in Server
      PROVE  /\ mailbox'[p] \in Seq(wire')
             /\ \A k \in DOMAIN mailbox'[p] : mailbox'[p][k].to = p
             /\ p \notin running' => mailbox'[p] = << >>
  <2> DEFINE box  == boxes[p]
             list == SetToSeq(new(p))
  <2>1. list \in Seq(wire') /\ \A k \in DOMAIN list : list[k] \in new(p)
    BY <1>2, ListedSet
  <2>2. \A k \in DOMAIN list : list[k].to = p
    BY <1>3, <2>1
  <2>3. box \in Seq(wire) /\ wire \subseteq wire' /\ \A k \in DOMAIN box : box[k].to = p
    OBVIOUS
  <2> HIDE DEF box, list
  <2>0. p \notin running' => box = << >>
    BY DEF box
  <2>4. p \notin running' => box = << >> /\ list = << >>
    <3> SUFFICES ASSUME p \notin running' PROVE list = << >>
      BY <2>0
    <3>1. new(p) = {}
      BY <1>4
    <3>2. \A k \in DOMAIN list : FALSE
      BY <2>1, <3>1
    <3>3. Len(list) \in Nat /\ DOMAIN list = 1 .. Len(list)
      BY <2>1, LenProperties
    <3>4. Len(list) = 0
      <4>1. 1 \notin DOMAIN list
        BY <3>2
      <4>2. ~ (1 <= Len(list))
        BY <3>3, <4>1
      <4> QED BY <3>3, <4>2
    <3> QED BY <2>1, <3>4, EmptySeq
  <2>5. box \o list \in Seq(wire') /\ \A k \in DOMAIN (box \o list) : (box \o list)[k].to = p
    BY <2>1, <2>2, <2>3, JoinedBoxes
  <2>6. p \notin running' => box \o list = << >>
    BY <2>4
  <2>7. mailbox'[p] = box \o list
    BY <1>1 DEF box, list
  <2> QED BY <2>5, <2>6, <2>7
<1>7. mailbox' \in [Server -> Seq(wire')]
  BY <1>5, <1>6
<1> QED BY <1>6, <1>7 DEF MailInv

(* Taking the first message out of a mailbox. *)
LEMMA TakenMail ==
    ASSUME MailInv, NEW i \in Server, mailbox[i] # << >>, running' = running
    PROVE  LET boxes == [mailbox EXCEPT ![i] = Tail(@)]
           IN  /\ boxes \in [Server -> Seq(wire)]
               /\ \A p \in Server : /\ \A k \in DOMAIN boxes[p] : boxes[p][k].to = p
                                    /\ p \notin running' => boxes[p] = << >>
               /\ Head(mailbox[i]) \in wire /\ Head(mailbox[i]).to = i
<1> DEFINE box   == mailbox[i]
           boxes == [mailbox EXCEPT ![i] = Tail(@)]
<1>1. /\ mailbox \in [Server -> Seq(wire)]
      /\ \A p \in Server : /\ \A k \in DOMAIN mailbox[p] : mailbox[p][k].to = p
                           /\ p \notin running' => mailbox[p] = << >>
  BY DEF MailInv
<1>2. box \in Seq(wire) /\ box # << >> /\ \A k \in DOMAIN box : box[k].to = i
  BY <1>1
<1>3. boxes = [p \in Server |-> IF p = i THEN Tail(box) ELSE mailbox[p]]
  BY <1>1
<1> HIDE DEF box, boxes
<1>4. /\ Head(box) \in wire /\ Head(box) = box[1] /\ 1 \in DOMAIN box
      /\ Tail(box) \in Seq(wire) /\ Len(Tail(box)) = Len(box) - 1 /\ Len(box) \in Nat
      /\ \A k \in 1 .. Len(box) - 1 : Tail(box)[k] = box[k + 1]
  BY <1>2, HeadTailProperties, LenProperties
<1>5. \A k \in DOMAIN Tail(box) : Tail(box)[k].to = i
  <2> SUFFICES ASSUME NEW k \in DOMAIN Tail(box) PROVE Tail(box)[k].to = i
    OBVIOUS
  <2>1. k \in 1 .. Len(box) - 1
    BY <1>4, LenProperties
  <2>2. k + 1 \in DOMAIN box
    BY <1>2, <1>4, <2>1, LenProperties
  <2> QED BY <1>2, <1>4, <2>1, <2>2
<1>6. i \in running'
  BY <1>1, <1>2 DEF box
<1>7. boxes \in [Server -> Seq(wire)]
  BY <1>1, <1>3, <1>4
<1>8. \A p \in Server : /\ \A k \in DOMAIN boxes[p] : boxes[p][k].to = p
                        /\ p \notin running' => boxes[p] = << >>
  BY <1>1, <1>3, <1>5, <1>6
<1>9. Head(box) \in wire /\ Head(box).to = i
  BY <1>2, <1>4
<1> QED BY <1>7, <1>8, <1>9 DEF box, boxes

-----------------------------------------------------------------------------
(* One step. *)

(* A node without what it has sent. *)
LEMMA SentFields ==
    ASSUME NEW m, [m EXCEPT !.sends = {}] \in NodeRecord
    PROVE  LET k == [m EXCEPT !.sends = {}]
           IN  /\ k.id = m.id /\ k.role = m.role /\ k.current_term = m.current_term
               /\ k.voted_for = m.voted_for /\ k.leader_id = m.leader_id
               /\ k.ripe = m.ripe /\ k.pre_voting = m.pre_voting
               /\ k.pre_votes = m.pre_votes /\ k.transfer_target = m.transfer_target
               /\ k.sends = {}
<1> DEFINE k == [m EXCEPT !.sends = {}]
<1>1. Marks \subseteq DOMAIN k
  BY NodeMarks
<1>2. DOMAIN k = DOMAIN m
  OBVIOUS
<1>3. /\ "id" \in DOMAIN m /\ "role" \in DOMAIN m /\ "current_term" \in DOMAIN m
      /\ "voted_for" \in DOMAIN m /\ "leader_id" \in DOMAIN m /\ "ripe" \in DOMAIN m
      /\ "pre_voting" \in DOMAIN m /\ "pre_votes" \in DOMAIN m
      /\ "transfer_target" \in DOMAIN m /\ "sends" \in DOMAIN m
  BY <1>1, <1>2 DEF Marks
<1> QED BY <1>3

(* What a step leaves of the node that takes it, and of the others. *)
LEMMA StepNodes ==
    ASSUME RoundsInv, LawfulInv', NEW i \in Server, NEW m, Local(i, m)
    PROVE  LET k == node'[i]
           IN  /\ m.id = i /\ k.id = i /\ k.role = m.role
               /\ k.current_term = m.current_term /\ k.voted_for = m.voted_for
               /\ k.leader_id = m.leader_id /\ k.ripe = m.ripe
               /\ k.pre_voting = m.pre_voting /\ k.pre_votes = m.pre_votes
               /\ k.transfer_target = m.transfer_target /\ k.sends = {}
               /\ k \in NodeRecord
               /\ \A j \in Server : j # i => node'[j] = node[j]
               /\ wire' = wire \cup m.sends /\ history' = Record(node[i], m)
<1>1. /\ node \in [Server -> NodeRecord] /\ node'[i] \in NodeRecord /\ node'[i].id = i
  BY DEF RoundsInv, LawfulInv, Inv, TypeOK
<1>2. /\ node' = [node EXCEPT ![i] = [m EXCEPT !.sends = {}]]
      /\ wire' = wire \cup m.sends /\ history' = Record(node[i], m)
  BY ClusterAssumption DEF Local, Become
<1> DEFINE k == [m EXCEPT !.sends = {}]
<1>3. node'[i] = k /\ \A j \in Server : j # i => node'[j] = node[j]
  BY <1>1, <1>2
<1>4. /\ k.id = m.id /\ k.role = m.role /\ k.current_term = m.current_term
      /\ k.voted_for = m.voted_for /\ k.leader_id = m.leader_id
      /\ k.ripe = m.ripe /\ k.pre_voting = m.pre_voting
      /\ k.pre_votes = m.pre_votes /\ k.transfer_target = m.transfer_target
      /\ k.sends = {}
  BY <1>1, <1>3, SentFields
<1> HIDE DEF k
<1> QED BY <1>1, <1>2, <1>3, <1>4

(* The history records the step. *)
LEMMA StepRecorded ==
    ASSUME RoundsInv, LawfulInv', NEW i \in Server, NEW m, Local(i, m)
    PROVE  Recorded'
<1>1. /\ m.id = i /\ node'[i].id = i /\ node'[i].role = m.role
      /\ node'[i].current_term = m.current_term /\ node'[i].voted_for = m.voted_for
      /\ \A j \in Server : j # i => node'[j] = node[j]
      /\ history' = Record(node[i], m)
  BY StepNodes
<1>2. /\ history'.ballots = history.ballots \cup BallotOf(m)
      /\ history'.victories = history.victories \cup VictoryOf(m)
      /\ history' = [ballots   |-> history'.ballots, victories |-> history'.victories,
                     committed |-> history'.committed]
  BY <1>1 DEF Record
<1>3. BallotOf(node'[i]) = BallotOf(m) /\ VictoryOf(node'[i]) = VictoryOf(m)
  BY <1>1 DEF BallotOf, VictoryOf
<1>4. \A j \in Server : j # i =>
        /\ BallotOf(node'[j]) = BallotOf(node[j])
        /\ VictoryOf(node'[j]) = VictoryOf(node[j])
  BY <1>1
<1>5. \A j \in Server : /\ BallotOf(node[j]) \subseteq history.ballots
                        /\ VictoryOf(node[j]) \subseteq history.victories
  BY DEF RoundsInv, Recorded
<1>6. \A j \in Server : /\ BallotOf(node'[j]) \subseteq history'.ballots
                        /\ VictoryOf(node'[j]) \subseteq history'.victories
  BY <1>2, <1>3, <1>4, <1>5
<1> QED BY <1>2, <1>6 DEF Recorded, BallotOf, VictoryOf

(* A node that is orderly for what it goes by is so when the step is over.  *)
LEMMA StepStands ==
    ASSUME RoundsInv, LawfulInv', NEW i \in Server, NEW m, Local(i, m),
           NEW c, Orderly(m, c), c.bound = MaxTerm,
           m.leader_id \in (IF Lately(i)' THEN Server ELSE {}) \cup {None, i},
           m.role = "Leader" => m.ripe = Ripe(i, timer'[i]),
           \A j \in Server : j # i => timer'[j] = timer[j] /\ heard'[j] = heard[j]
    PROVE  StandInv'
<1> DEFINE k == node'[i]
<1>1. /\ m.id = i /\ k.id = i /\ k.role = m.role
      /\ k.current_term = m.current_term /\ k.voted_for = m.voted_for
      /\ k.leader_id = m.leader_id /\ k.ripe = m.ripe
      /\ k.pre_voting = m.pre_voting /\ k.pre_votes = m.pre_votes
      /\ k.transfer_target = m.transfer_target /\ k.sends = {}
      /\ k \in NodeRecord
      /\ \A j \in Server : j # i => node'[j] = node[j]
      /\ wire' = wire \cup m.sends
  BY StepNodes
<1>2. k.current_term \in Nat /\ k.pre_votes \subseteq Server
  BY <1>1, NodeFields
<1> HIDE DEF k
<1>3. ASSUME NEW d, d.since = k.current_term, d.bound = MaxTerm,
             d.clock = Ripe(i, timer'[i]), d.polled = Server, d.probes,
             d.known = IF Lately(i)' THEN Server ELSE {}
      PROVE  Orderly(k, d)
  <2>1. /\ k.current_term < MaxTerm
        /\ k.pre_voting \/ k.transfer_target # None => k.current_term + 1 < MaxTerm
        /\ k.leader_id # None => ~ k.pre_voting
        /\ k.role = "Leader" => k.leader_id = k.id
        /\ k.role # "Follower" => k.voted_for = k.id
    BY <1>1 DEF Orderly
  <2>2. k.role = "Leader" => k.ripe = (d.clock /\ k.current_term <= d.since)
    <3>1. k.current_term <= d.since
      BY <1>2, <1>3
    <3>2. k.role = "Leader" => k.ripe = d.clock
      BY <1>1, <1>3
    <3>3. d.clock \in BOOLEAN
      BY <1>3 DEF Ripe
    <3> QED BY <3>1, <3>2, <3>3
  <2>3. k.leader_id \in d.known \cup {None, k.id}
    BY <1>1, <1>3
  <2>4. d.since <= k.current_term /\ k.pre_votes \subseteq d.polled
    BY <1>2, <1>3
  <2> QED BY <1>1, <1>3, <2>1, <2>2, <2>3, <2>4, FS_EmptySet DEF Orderly
<1>4. Orderly(k, Standing(i)')
  <2> DEFINE d == Standing(i)'
  <2>1. /\ d.since = k.current_term /\ d.bound = MaxTerm
        /\ d.clock = Ripe(i, timer'[i]) /\ d.polled = Server /\ d.probes
        /\ d.known = IF Lately(i)' THEN Server ELSE {}
    BY DEF Standing, k, Ripe
  <2> HIDE DEF d
  <2>2. Orderly(k, d)
    BY <1>3, <2>1
  <2> QED BY <2>2 DEF d
<1>5. ASSUME NEW j \in Server, j # i PROVE Orderly(node'[j], Standing(j)')
  <2>1. Standing(j)' = Standing(j)
    BY <1>1, <1>5 DEF Standing, Ripe, Lately
  <2>2. Orderly(node[j], Standing(j))
    BY DEF RoundsInv, StandInv
  <2> QED BY <1>1, <1>5, <2>1, <2>2
<1>6. \A j \in Server : Orderly(node'[j], Standing(j)')
  BY <1>4, <1>5 DEF k
<1>7. \A j \in Server : (Orderly(node[j], Standing(j)))'
  BY <1>6
<1>8. ASSUME NEW s \in wire'
      PROVE  /\ s.term < MaxTerm
             /\ s.kind = "TimeoutNow" => s.term + 1 < MaxTerm
             /\ s.kind = "RequestVote" => s.to # s.from
  <2>1. CASE s \in wire
    BY <2>1 DEF RoundsInv, StandInv
  <2>2. CASE s \in m.sends
    BY <2>2 DEF Orderly, Proper
  <2> QED BY <1>1, <2>1, <2>2
<1> QED BY <1>7, <1>8 DEF StandInv

(* A step that posts what the node sends. *)
LEMMA StepKeeps ==
    ASSUME RoundsInv, LawfulInv', ClockInv', NEW i \in Server, NEW m, Local(i, m),
           NEW c, Orderly(m, c), c.bound = MaxTerm,
           c.known \subseteq IF Lately(i)' THEN Server ELSE {},
           m.role = "Leader" => m.ripe = Ripe(i, timer'[i]),
           \A j \in Server : j # i => timer'[j] = timer[j] /\ heard'[j] = heard[j],
           Founders \subseteq running', running' \subseteq Server,
           NEW boxes \in [Server -> Seq(wire)],
           \A p \in Server : /\ \A k \in DOMAIN boxes[p] : boxes[p][k].to = p
                             /\ p \notin running' => boxes[p] = << >>,
           mailbox' = Posted(boxes, i, m.sends)
    PROVE  RoundsInv' /\ Alone(i)
<1>1. /\ m.id = i /\ wire' = wire \cup m.sends
      /\ \A j \in Server : j # i => node'[j] = node[j]
  BY StepNodes
<1>2. m.leader_id \in (IF Lately(i)' THEN Server ELSE {}) \cup {None, i}
  BY <1>1 DEF Orderly
<1>3. StandInv'
  BY <1>2, StepStands
<1>4. Recorded'
  BY StepRecorded
<1>5. IsFiniteSet(m.sends)
  BY DEF Orderly
<1>6. MailInv'
  BY <1>1, <1>5, PostedMail
<1>7. Alone(i)
  <2>1. \A s \in m.sends : s.from = i
    BY <1>1 DEF Orderly, Proper
  <2> QED BY <1>1, <2>1 DEF Alone
<1> QED BY <1>3, <1>4, <1>6, <1>7 DEF RoundsInv

-----------------------------------------------------------------------------
(* Steps of the cluster. *)

LEMMA IdleStep ==
    ASSUME RoundsInv, NEW i \in Server, Local(i, node[i])
    PROVE  UNCHANGED vars
<1> DEFINE n == node[i]
<1>1. /\ node \in [Server -> NodeRecord] /\ n \in NodeRecord /\ n.sends = {}
      /\ n.commit_index \in Nat
  BY NodeFields DEF RoundsInv, LawfulInv, Inv, TypeOK
<1>2. /\ node' = [node EXCEPT ![i] = [n EXCEPT !.sends = {}]]
      /\ wire' = wire \cup n.sends /\ history' = Record(n, n)
      /\ UNCHANGED <<crashes, losses>>
  BY ClusterAssumption DEF Local, Become
<1>3. [n EXCEPT !.sends = {}] = n
  BY <1>1 DEF NodeRecord
<1>4. node' = node /\ wire' = wire
  BY <1>1, <1>2, <1>3
<1>5. n.commit_index + 1 .. n.commit_index = {}
  BY <1>1
<1>6. CommitmentsOf(n, n) = {}
  BY <1>5 DEF CommitmentsOf
<1>7. Claim(history.committed, {}) = history.committed
  BY DEF Claim
<1>8. /\ history.ballots \cup BallotOf(n) = history.ballots
      /\ history.victories \cup VictoryOf(n) = history.victories
  BY DEF RoundsInv, Recorded
<1>9. Record(n, n) = [ballots   |-> history.ballots, victories |-> history.victories,
                      committed |-> history.committed]
  BY <1>6, <1>7, <1>8 DEF Record
<1>10. history' = history
  BY <1>2, <1>9 DEF RoundsInv, Recorded
<1> QED BY <1>2, <1>4, <1>10 DEF vars

(* Every message has one of the kinds handle_message tells apart. *)
LEMMA MessageKinds ==
    ASSUME NEW m \in Message
    PROVE  m.kind \in {"PreVote", "PreVoteReply", "RequestVote", "RequestVoteReply",
                       "AppendEntries", "AppendEntriesReply", "InstallSnapshot",
                       "InstallSnapshotReply", "TimeoutNow"}
BY DEF Message, PreVote, PreVoteReply, RequestVote, RequestVoteReply,
       AppendEntries, AppendEntriesReply, InstallSnapshot, InstallSnapshotReply,
       TimeoutNow

(* The message is ignored, or handed to the handler of its kind. *)
LEMMA HandleMessageCases ==
    ASSUME NEW n, NEW m \in Message, NEW ripe
    PROVE  LET k == AdoptTerm(n, m.term)
               a == HandleMessage(n, m, ripe)
           IN  \/ Ignored(n, m, ripe) /\ a = n
               \/ m.kind = "PreVote" /\ a = HandlePreVote(n, m, ripe)
               \/ m.kind = "PreVoteReply" /\ a = HandlePreVoteReply(n, m)
               \/ m.kind = "RequestVote" /\ ~ Ignored(n, m, ripe) /\ a = HandleRequestVote(k, m)
               \/ m.kind = "RequestVoteReply" /\ a = HandleVoteReply(k, m, ripe)
               \/ m.kind = "AppendEntries" /\ a = HandleAppendEntries(k, m)
               \/ m.kind = "AppendEntriesReply" /\ a = HandleAppendReply(k, m)
               \/ m.kind = "InstallSnapshot" /\ a = HandleInstallSnapshot(k, m)
               \/ m.kind = "InstallSnapshotReply" /\ a = HandleInstallSnapshotReply(k, m)
               \/ m.kind = "TimeoutNow" /\ a = HandleTimeoutNow(k, m)
<1>1. Ignored(n, m, ripe) => m.kind = "RequestVote"
  BY DEF Ignored
<1>2. Ignored(n, m, ripe) => HandleMessage(n, m, ripe) = n
  BY <1>1 DEF HandleMessage
<1>3. m.kind = "PreVote" => HandleMessage(n, m, ripe) = HandlePreVote(n, m, ripe)
  BY <1>1 DEF HandleMessage
<1>4. m.kind = "PreVoteReply" => HandleMessage(n, m, ripe) = HandlePreVoteReply(n, m)
  BY <1>1 DEF HandleMessage
<1>5. m.kind = "RequestVoteReply"
        => HandleMessage(n, m, ripe) = HandleVoteReply(AdoptTerm(n, m.term), m, ripe)
  BY <1>1 DEF HandleMessage
<1>6. m.kind = "AppendEntries"
        => HandleMessage(n, m, ripe) = HandleAppendEntries(AdoptTerm(n, m.term), m)
  BY <1>1 DEF HandleMessage
<1>7. m.kind = "AppendEntriesReply"
        => HandleMessage(n, m, ripe) = HandleAppendReply(AdoptTerm(n, m.term), m)
  BY <1>1 DEF HandleMessage
<1>8. m.kind = "InstallSnapshot"
        => HandleMessage(n, m, ripe) = HandleInstallSnapshot(AdoptTerm(n, m.term), m)
  BY <1>1 DEF HandleMessage
<1>9. m.kind = "InstallSnapshotReply"
        => HandleMessage(n, m, ripe) = HandleInstallSnapshotReply(AdoptTerm(n, m.term), m)
  BY <1>1 DEF HandleMessage
<1>10. m.kind = "TimeoutNow"
        => HandleMessage(n, m, ripe) = HandleTimeoutNow(AdoptTerm(n, m.term), m)
  BY <1>1 DEF HandleMessage
<1>11. m.kind = "RequestVote" /\ ~ Ignored(n, m, ripe)
        => HandleMessage(n, m, ripe) = HandleRequestVote(AdoptTerm(n, m.term), m)
  BY DEF HandleMessage
<1> QED BY <1>2, <1>3, <1>4, <1>5, <1>6, <1>7, <1>8, <1>9, <1>10, <1>11, MessageKinds

LEMMA HandleMessageReplies ==
    ASSUME NEW n, NEW m \in Message, NEW ripe
    PROVE  Replies(n, m, ripe, HandleMessage(n, m, ripe))
BY HandleMessageCases DEF Replies

(* A delivery is the receipt of a message with the node's own clock: a     *)
(* leader's still shows what it did when the leader won.                   *)
LEMMA DeliveryIsStep ==
    ASSUME RoundsInv, NEW i \in Server, NEW m \in wire, m.to = i,
           Local(i, HandleMessage(node[i], m, Ripe(i, timer[i])))
    PROVE  Next
<1> DEFINE n    == node[i]
           ripe == Ripe(i, timer[i])
           k    == AdoptTerm(n, m.term)
           a    == HandleMessage(n, m, ripe)
<1>1. m \in Message /\ m.term \in Nat /\ n \in NodeRecord /\ n.current_term \in Nat
  BY MessageFields, NodeFields DEF RoundsInv, LawfulInv, Inv, TypeOK
<1>2. ripe \in Ripeness(n)
  <2>1. ripe \in BOOLEAN
    BY DEF Ripe
  <2>2. Orderly(n, Standing(i)) /\ Standing(i).clock = ripe
        /\ Standing(i).since = n.current_term
    BY DEF RoundsInv, StandInv, Standing
  <2> HIDE DEF ripe, n
  <2>3. n.role = "Leader" => n.ripe = ripe
    BY <1>1, <2>1, <2>2 DEF Orderly
  <2> QED BY <2>1, <2>3 DEF Ripeness, Waits
<1>3. k.current_term < MaxTerm \/ m.kind # "TimeoutNow"
  <2>1. m.kind = "TimeoutNow" => m.term + 1 < MaxTerm
    BY DEF RoundsInv, StandInv
  <2>2. n.current_term < MaxTerm
    BY DEF RoundsInv, StandInv, Standing, Orderly
  <2>3. MaxTerm \in Nat
    BY BoundsAssumption
  <2>4. k = n \/ k.current_term = m.term
    BY <1>1, AdoptTermMarks
  <2> HIDE DEF k, n
  <2> QED BY <1>1, <2>1, <2>2, <2>3, <2>4
<1>4. Receive(m, a) /\ m.to = i /\ Known(m) = k
  BY ClusterAssumption DEF Local, Receive, Become, Known
<1>5. \/ Ignored(n, m, ripe) /\ a = n
      \/ m.kind = "PreVote" /\ a = HandlePreVote(n, m, ripe)
      \/ m.kind = "PreVoteReply" /\ a = HandlePreVoteReply(n, m)
      \/ m.kind = "RequestVote" /\ ~ Ignored(n, m, ripe) /\ a = HandleRequestVote(k, m)
      \/ m.kind = "RequestVoteReply" /\ a = HandleVoteReply(k, m, ripe)
      \/ m.kind = "AppendEntries" /\ a = HandleAppendEntries(k, m)
      \/ m.kind = "AppendEntriesReply" /\ a = HandleAppendReply(k, m)
      \/ m.kind = "InstallSnapshot" /\ a = HandleInstallSnapshot(k, m)
      \/ m.kind = "InstallSnapshotReply" /\ a = HandleInstallSnapshotReply(k, m)
      \/ m.kind = "TimeoutNow" /\ a = HandleTimeoutNow(k, m)
  BY <1>1, HandleMessageCases
<1> HIDE DEF ripe, k, a
<1>6. ASSUME Ignored(n, m, ripe), a = n PROVE DropRequestVote(m)
  BY <1>2, <1>4, <1>6 DEF DropRequestVote
<1>7. ASSUME m.kind = "PreVote", a = HandlePreVote(n, m, ripe) PROVE ReceivePreVote(m)
  BY <1>2, <1>4, <1>7 DEF ReceivePreVote
<1>8. ASSUME m.kind = "PreVoteReply", a = HandlePreVoteReply(n, m)
      PROVE  ReceivePreVoteReply(m)
  BY <1>4, <1>8 DEF ReceivePreVoteReply
<1>9. ASSUME m.kind = "RequestVote", ~ Ignored(n, m, ripe), a = HandleRequestVote(k, m)
      PROVE  ReceiveRequestVote(m)
  BY <1>2, <1>4, <1>9 DEF ReceiveRequestVote
<1>10. ASSUME m.kind = "RequestVoteReply", a = HandleVoteReply(k, m, ripe)
       PROVE  ReceiveVoteReply(m)
  BY <1>2, <1>4, <1>10 DEF ReceiveVoteReply
<1>11. ASSUME m.kind = "AppendEntries", a = HandleAppendEntries(k, m)
       PROVE  ReceiveAppendEntries(m)
  BY <1>4, <1>11 DEF ReceiveAppendEntries
<1>12. ASSUME m.kind = "AppendEntriesReply", a = HandleAppendReply(k, m)
       PROVE  ReceiveAppendReply(m)
  BY <1>4, <1>12 DEF ReceiveAppendReply
<1>13. ASSUME m.kind = "InstallSnapshot", a = HandleInstallSnapshot(k, m)
       PROVE  ReceiveInstallSnapshot(m)
  BY <1>4, <1>13 DEF ReceiveInstallSnapshot
<1>14. ASSUME m.kind = "InstallSnapshotReply", a = HandleInstallSnapshotReply(k, m)
       PROVE  ReceiveInstallSnapshotReply(m)
  BY <1>4, <1>14 DEF ReceiveInstallSnapshotReply
<1>15. ASSUME m.kind = "TimeoutNow", a = HandleTimeoutNow(k, m)
       PROVE  ReceiveTimeoutNow(m)
  BY <1>3, <1>4, <1>15 DEF ReceiveTimeoutNow
<1> QED BY <1>5, <1>6, <1>7, <1>8, <1>9, <1>10, <1>11, <1>12, <1>13, <1>14, <1>15
        DEF Next

-----------------------------------------------------------------------------
(* A tick. *)

LEMMA TickIsStep ==
    ASSUME RoundsInv, NEW i \in Server, TickNode(i)
    PROVE  [Next]_vars
<1> DEFINE n == node[i]
<1>1. PICK outcome \in Tick(n, timer[i]) : Local(i, outcome[1])
  BY DEF TickNode, Absorb
<1>2. n.id = i /\ Timed(i, timer[i])
  BY DEF RoundsInv, LawfulInv, Inv, TypeOK, ClockInv
<1>3. \/ TimesOut(n, timer[i]) /\ outcome[1] = TickTimeout(n)
      \/ outcome[1] = n
      \/ n.role = "Leader" /\ outcome[1] = TickHeartbeat(n)
  <2> HIDE DEF n
  <2>1. Tick(n, timer[i]) = Tick(n, timer[i]) /\ n.id \in Server /\ Timed(n.id, timer[i])
    BY <1>2
  <2> QED BY <1>1, <2>1, TickTimed
<1>4. ASSUME TimesOut(n, timer[i]), outcome[1] = TickTimeout(n)
      PROVE  ElectionTimeout(i)
  <2>1. Waits(n) /\ IsVoter(n)
    BY <1>4 DEF TimesOut
  <2>2. n.current_term < MaxTerm /\ i \in Campaigners
    BY ClusterAssumption DEF RoundsInv, StandInv, Standing, Orderly
  <2> QED BY <1>1, <1>4, <2>1, <2>2 DEF ElectionTimeout
<1>5. ASSUME outcome[1] = n PROVE UNCHANGED vars
  BY <1>1, <1>5, IdleStep
<1>6. ASSUME n.role = "Leader", outcome[1] = TickHeartbeat(n) PROVE Heartbeat(i)
  BY <1>1, <1>6 DEF Heartbeat
<1> QED BY <1>3, <1>4, <1>5, <1>6 DEF Next

LEMMA TicksCounted ==
    ASSUME NEW a \in Nat, NEW b \in Nat, NEW h \in Nat, NEW min \in Nat,
           Smaller(a, min) <= h, h <= min, b <= a + 1
    PROVE  Smaller(b, min) <= Smaller(h + 1, min)
BY DEF Smaller

LEMMA TickKeepsClocks ==
    ASSUME RoundsInv, NEW i \in Server, TickNode(i)
    PROVE  ClockInv' /\ (Lately(i) => Lately(i)')
<1> DEFINE n   == node[i]
           t   == timer[i]
           min == Configured[i].election_timeout_min
<1>1. PICK outcome \in Tick(n, t) : timer' = [timer EXCEPT ![i] = outcome[2]]
  BY DEF TickNode
<1>2. heard' = [heard EXCEPT ![i] = Smaller(@ + 1, min)]
  BY DEF TickNode
<1>3. /\ n.id = i /\ Timed(i, t) /\ timer \in [Server -> Timer] /\ heard \in [Server -> Nat]
      /\ heard[i] \in Nat /\ heard[i] <= min
      /\ \A j \in Server : Timed(j, timer[j]) /\ heard[j] <= Configured[j].election_timeout_min
  BY DEF RoundsInv, LawfulInv, Inv, TypeOK, ClockInv
<1>4. Timed(i, outcome[2]) /\ outcome[2].elapsed <= t.elapsed + 1 /\ t.elapsed \in Nat
  <2>1. t.elapsed \in Nat
    BY <1>3 DEF Timed, Timer
  <2>2. n.id \in Server /\ Timed(n.id, t)
    BY <1>3
  <2> HIDE DEF n, t
  <2>3. /\ Timed(n.id, outcome[2])
        /\ \/ outcome[2].elapsed = 0
           \/ outcome[2].elapsed <= t.elapsed + 1
           \/ outcome[2].elapsed = t.elapsed
    BY <1>1, <2>2, TickTimed
  <2> QED BY <1>3, <2>1, <2>3
<1>5. outcome[2] \in Timer /\ outcome[2].elapsed \in Nat
  BY <1>4 DEF Timed, Timer
<1>6. min \in Nat
  BY MinTimeout
<1>7. Smaller(heard[i] + 1, min) \in Nat /\ Smaller(heard[i] + 1, min) <= min
  BY <1>3, <1>6 DEF Smaller
<1>8. /\ timer' \in [Server -> Timer] /\ timer'[i] = outcome[2]
      /\ \A j \in Server : j # i => timer'[j] = timer[j]
  BY <1>1, <1>3, <1>5
<1>9. /\ heard' \in [Server -> Nat] /\ heard'[i] = Smaller(heard[i] + 1, min)
      /\ \A j \in Server : j # i => heard'[j] = heard[j]
  BY <1>2, <1>3, <1>7
<1>10. ClockInv'
  BY <1>3, <1>4, <1>7, <1>8, <1>9 DEF ClockInv, Timed
<1>11. Lately(i) => Lately(i)'
  <2> SUFFICES ASSUME Lately(i) PROVE Smaller(timer'[i].elapsed, min) <= heard'[i]
    BY DEF Lately
  <2>1. Smaller(t.elapsed, min) <= heard[i]
    BY DEF Lately
  <2> HIDE DEF t, min
  <2>2. Smaller(outcome[2].elapsed, min) <= Smaller(heard[i] + 1, min)
    BY <1>3, <1>4, <1>5, <1>6, <2>1, TicksCounted
  <2> QED BY <1>8, <1>9, <2>2
<1> QED BY <1>10, <1>11

LEMMA TickKeeps ==
    ASSUME IsFiniteSet(Server), RoundsInv, NEW i \in Server, TickNode(i), LawfulInv'
    PROVE  RoundsInv' /\ Alone(i)
<1> DEFINE n == node[i]
           t == timer[i]
           d == Standing(i)
<1>1. /\ n \in NodeRecord /\ n.id = i /\ n.sends = {} /\ n.current_term \in Nat
      /\ Timed(i, t) /\ timer \in [Server -> Timer] /\ heard \in [Server -> Nat]
  BY NodeFields DEF RoundsInv, LawfulInv, Inv, TypeOK, ClockInv
<1>2. PICK outcome \in Tick(n, t) :
        Absorb(i, outcome[1], mailbox) /\ timer' = [timer EXCEPT ![i] = outcome[2]]
  BY DEF TickNode
<1>3. /\ UNCHANGED running /\ heard' = [heard EXCEPT ![i] =
                                    Smaller(@ + 1, Configured[i].election_timeout_min)]
      /\ TimesOut(n, t) => n.current_term + 1 < MaxTerm
  BY DEF TickNode, MayCampaign
<1>4. ClockInv' /\ (Lately(i) => Lately(i)')
  BY TickKeepsClocks
<1> DEFINE m == outcome[1]
<1>5. Local(i, m) /\ mailbox' = Posted(mailbox, i, m.sends)
  BY <1>2 DEF Absorb
<1>6. /\ timer'[i] = outcome[2] /\ timer'[i].elapsed \in Nat
      /\ \A j \in Server : j # i => timer'[j] = timer[j] /\ heard'[j] = heard[j]
  <2>1. timer'[i] = outcome[2]
    BY <1>1, <1>2
  <2>2. timer'[i].elapsed \in Nat
    BY <1>4 DEF ClockInv, Timed, Timer
  <2> QED BY <1>1, <1>2, <1>3, <2>1, <2>2
<1>7. /\ Timed(n.id, outcome[2])
      /\ \/ /\ TimesOut(n, t) /\ Waits(n)
            /\ m = TickTimeout(n) /\ outcome[2].elapsed = 0
         \/ Waits(n) /\ m = n
         \/ /\ n.role = "Leader" /\ outcome[2].elapsed = t.elapsed
            /\ m \in {n, TickHeartbeat(n)}
  <2>1. n.id \in Server /\ Timed(n.id, t)
    BY <1>1
  <2> HIDE DEF n, t, m
  <2> QED BY <1>2, <2>1, TickTimed DEF TimesOut, m
<1>8. /\ d.bound = MaxTerm /\ d.since = n.current_term /\ d.clock = Ripe(i, t)
      /\ d.polled = Server /\ d.probes /\ d.known = IF Lately(i) THEN Server ELSE {}
      /\ d.clock \in BOOLEAN
  BY DEF Standing, Ripe
<1>9. Orderly(n, d)
  BY DEF RoundsInv, StandInv
<1>10. Configured[i].election_timeout_min \in Nat /\ Configured[i].election_timeout_min >= 1
  BY MinTimeout
<1> SUFFICES \E c : /\ Orderly(m, c) /\ c.bound = MaxTerm
                    /\ c.known \subseteq IF Lately(i)' THEN Server ELSE {}
                    /\ m.role = "Leader" => m.ripe = Ripe(i, timer'[i])
  <2>1. PICK c : /\ Orderly(m, c) /\ c.bound = MaxTerm
                 /\ c.known \subseteq IF Lately(i)' THEN Server ELSE {}
                 /\ m.role = "Leader" => m.ripe = Ripe(i, timer'[i])
    OBVIOUS
  <2> HIDE DEF m
  <2>2. /\ mailbox \in [Server -> Seq(wire)] /\ Founders \subseteq running'
        /\ running' \subseteq Server
        /\ \A p \in Server : /\ \A k \in DOMAIN mailbox[p] : mailbox[p][k].to = p
                             /\ p \notin running' => mailbox[p] = << >>
    BY <1>3 DEF RoundsInv, MailInv
  <2> QED BY <1>4, <1>5, <1>6, <2>1, <2>2, StepKeeps
<1>11. CASE TimesOut(n, t) /\ Waits(n) /\ m = TickTimeout(n) /\ outcome[2].elapsed = 0
  <2> DEFINE c == [d EXCEPT !.clock = FALSE]
  <2>1. /\ c.bound = MaxTerm /\ c.since = n.current_term /\ c.clock = FALSE
        /\ c.polled = Server /\ c.probes /\ c.known = d.known
    BY DEF Standing
  <2> HIDE DEF c, d, m
  <2>2. Orderly(n, c)
    <3>1. n.role # "Leader"
      BY <1>11 DEF Waits
    <3>2. \A s : s \notin n.sends
      BY <1>1
    <3> QED BY <1>8, <1>9, <2>1, <3>1, <3>2 DEF Orderly
  <2>3. Orderly(m, c)
    <3>1. c.since \in Nat /\ n.current_term + 1 < c.bound /\ n.id \in c.polled
      BY <1>1, <1>3, <1>11, <2>1
    <3>2. c.probes
      BY <2>1
    <3> HIDE DEF n
    <3> QED BY <1>1, <1>11, <2>2, <3>1, <3>2, StartPreVoteOrderly DEF TickTimeout, n
  <2>4. m.role = "Leader" => m.ripe = FALSE
    BY <2>1, <2>3 DEF Orderly
  <2>5. Ripe(i, timer'[i]) = FALSE
    BY <1>6, <1>10, <1>11 DEF Ripe
  <2>6. c.known \subseteq IF Lately(i)' THEN Server ELSE {}
    BY <1>4, <1>8, <2>1
  <2> QED BY <2>1, <2>3, <2>4, <2>5, <2>6
<1>12. CASE Waits(n) /\ m = n
  <2>1. m.role # "Leader"
    BY <1>12 DEF Waits
  <2>2. d.known \subseteq IF Lately(i)' THEN Server ELSE {}
    BY <1>4, <1>8
  <2> HIDE DEF d
  <2> QED BY <1>8, <1>9, <1>12, <2>1, <2>2
<1>13. CASE /\ n.role = "Leader" /\ outcome[2].elapsed = t.elapsed
            /\ m \in {n, TickHeartbeat(n)}
  <2>1. Orderly(m, d) /\ m.current_term = n.current_term
    <3> HIDE DEF d, m
    <3>1. CASE m = n
      BY <1>9, <3>1
    <3>2. CASE m = TickHeartbeat(n)
      <4>1. Orderly(m, d)
        <5> HIDE DEF n
        <5> QED BY <1>1, <1>9, <3>2, ReplicateOrderly DEF TickHeartbeat, n
      <4>2. Calm(n, ReplicateToAll(n))
        <5> HIDE DEF n
        <5> QED BY <1>1, <1>13, ReplicateCalm
      <4>3. m.current_term = n.current_term
        BY <3>2, <4>2 DEF TickHeartbeat, Calm, Steady
      <4> QED BY <4>1, <4>3
    <3> QED BY <1>13, <3>1, <3>2
  <2>2. m.role = "Leader" => m.ripe = Ripe(i, timer'[i])
    <3>1. Ripe(i, timer'[i]) = d.clock
      BY <1>6, <1>8, <1>13 DEF Ripe
    <3> HIDE DEF d, m, n
    <3>2. m.role = "Leader" => m.ripe = (d.clock /\ m.current_term <= d.since)
      BY <2>1 DEF Orderly
    <3>3. m.current_term <= d.since
      BY <1>1, <1>8, <2>1
    <3> QED BY <1>8, <3>1, <3>2, <3>3
  <2>3. d.known \subseteq IF Lately(i)' THEN Server ELSE {}
    BY <1>4, <1>8
  <2> HIDE DEF d, m
  <2> QED BY <1>8, <2>1, <2>2, <2>3
<1> QED BY <1>7, <1>11, <1>12, <1>13

-----------------------------------------------------------------------------
(* A delivery. *)

LEMMA DeliverIsStep ==
    ASSUME RoundsInv, NEW i \in Server, Deliver(i)
    PROVE  [Next]_vars
<1> DEFINE m == Head(mailbox[i])
<1>1. m \in wire /\ m.to = i
  BY TakenMail DEF RoundsInv, Deliver
<1>2. PICK outcome \in Feed(node[i], timer[i], m) : Local(i, outcome[1])
  BY DEF Deliver, Absorb
<1>3. node[i].id = i /\ Timed(i, timer[i])
  BY DEF RoundsInv, LawfulInv, Inv, TypeOK, ClockInv
<1> HIDE DEF m
<1>4. outcome[1] = HandleMessage(node[i], m, Ripe(i, timer[i]))
  <2> DEFINE n == node[i]
             t == timer[i]
  <2>1. n.id \in Server /\ Timed(n.id, t) /\ outcome \in Feed(n, t, m) /\ n.id = i
    BY <1>2, <1>3
  <2> HIDE DEF n, t
  <2>2. outcome[1] = HandleMessage(n, m, Ripe(n.id, t))
    BY <2>1, FeedTimed
  <2> QED BY <2>1, <2>2 DEF n, t
<1>5. Next
  BY <1>1, <1>2, <1>4, DeliveryIsStep
<1> QED BY <1>5

(* A node that hears from the leader of its term, or of a later one, follows *)
(* it, whatever it was.                                                     *)
LEMMA LeaderIsFollowed ==
    ASSUME NEW n \in NodeRecord, NEW c, Orderly(n, c), c.since = n.current_term,
           n.sends = {}, NEW m \in Message, m.term < c.bound, FromLeader(n, m),
           m.from \in c.known, NEW ripe
    PROVE  LET a == HandleMessage(n, m, ripe)
           IN  a.role = "Follower" /\ a.leader_id = m.from /\ ~ a.pre_voting
<1> DEFINE k == AdoptTerm(n, m.term)
           a == HandleMessage(n, m, ripe)
<1>1. m.term \in Nat /\ n.current_term \in Nat
  BY MessageFields, NodeFields
<1>2. /\ k \in NodeRecord /\ Orderly(k, c) /\ (k = n \/ k.current_term = m.term)
  BY <1>1, AdoptTermMarks, AdoptTermOrderly
<1>3. m.kind \in {"AppendEntries", "InstallSnapshot"} /\ m.term >= n.current_term
  BY DEF FromLeader
<1>4. /\ m.kind = "AppendEntries" => a = HandleAppendEntries(k, m)
      /\ m.kind = "InstallSnapshot" => a = HandleInstallSnapshot(k, m)
  BY HandleMessageCases DEF Ignored
<1> HIDE DEF k, a
<1>5. m.term >= k.current_term
  BY <1>1, <1>2, <1>3
<1>6. Obeys(k, m, a)
  <2>1. CASE m.kind = "AppendEntries"
    <3>1. Obeys(k, m, HandleAppendEntries(k, m))
      BY <1>2, <1>5, <2>1, HandleAppendEntriesOrderly
    <3> QED BY <1>4, <2>1, <3>1
  <2>2. CASE m.kind = "InstallSnapshot"
    <3>1. Obeys(k, m, HandleInstallSnapshot(k, m))
      BY <1>2, <1>5, <2>2, HandleInstallSnapshotOrderly
    <3> QED BY <1>4, <2>2, <3>1
  <2> QED BY <1>3, <2>1, <2>2
<1> QED BY <1>6 DEF Obeys, a

(* A vote makes no leader. *)
LEMMA VoteKeepsRole ==
    ASSUME NEW n \in NodeRecord, NEW m \in Message
    PROVE  HandleRequestVote(n, m).role = n.role
<1> DEFINE v == [n EXCEPT !.voted_for = m.from]
           p == PersistHardState(v)
<1>1. v \in NodeRecord /\ v.role = n.role
  BY MessageFields DEF NodeRecord
<1>2. p.role = v.role
  <2> HIDE DEF v
  <2> QED BY <1>1, PersistMute DEF Mute
<1>3. p \in NodeRecord
  <2> HIDE DEF v
  <2> QED BY <1>1, PersistHardStateTyped
<1>4. \A a \in NodeRecord : \A messages : Send(a, messages).role = a.role
  BY NodeMarks DEF Send, Marks
<1> HIDE DEF v, p
<1>5. CASE CanGrantVote(n, m)
  <2>1. \E messages : HandleRequestVote(n, m) = Send(p, messages)
    BY <1>5 DEF HandleRequestVote, p, v
  <2> QED BY <1>1, <1>2, <1>3, <1>4, <2>1
<1>6. CASE ~ CanGrantVote(n, m)
  <2>1. \E messages : HandleRequestVote(n, m) = Send(n, messages)
    BY <1>6 DEF HandleRequestVote
  <2> QED BY <1>4, <2>1
<1> QED BY <1>5, <1>6

(* A leader grants nobody else its vote. *)
LEMMA LeaderGrantsNone ==
    ASSUME NEW n \in NodeRecord, n.role = "Leader", n.voted_for = n.id,
           NEW m \in Message, m.to = n.id, m.kind = "RequestVote" => m.to # m.from,
           NEW ripe, GrantsVote(n, m, ripe)
    PROVE  HandleMessage(n, m, ripe).role = "Follower"
<1> DEFINE k == AdoptTerm(n, m.term)
<1>1. m.kind = "RequestVote" /\ ~ Ignored(n, m, ripe) /\ CanGrantVote(k, m)
  BY DEF GrantsVote
<1>2. HandleMessage(n, m, ripe) = HandleRequestVote(k, m)
  BY <1>1, HandleMessageCases
<1>3. m.term \in Nat
  BY MessageFields
<1>4. k \in NodeRecord /\ (k = n \/ k.role = "Follower")
  BY <1>3, AdoptTermMarks
<1> HIDE DEF k
<1>5. k # n
  <2> SUFFICES ASSUME k = n PROVE FALSE
    OBVIOUS
  <2>1. n.voted_for \in {None, m.from} /\ n.id \in Server
    BY <1>1, NodeFields DEF CanGrantVote
  <2> QED BY <1>1, <2>1, NoneAssumption
<1> QED BY <1>2, <1>4, <1>5, VoteKeepsRole

LEMMA DeliverKeepsClocks ==
    ASSUME RoundsInv, NEW i \in Server, Deliver(i)
    PROVE  LET m == Head(mailbox[i])
               a == HandleMessage(node[i], m, Ripe(i, timer[i]))
               reset == ResetsTimer(node[i], m, Ripe(i, timer[i]), a)
           IN  /\ ClockInv' /\ (Lately(i) => Lately(i)')
               /\ FromLeader(node[i], m) => Lately(i)'
               /\ Absorb(i, a, [mailbox EXCEPT ![i] = Tail(@)])
               /\ reset => timer'[i].elapsed = 0
               /\ ~ reset => timer'[i].elapsed = timer[i].elapsed
               /\ \A j \in Server : j # i => timer'[j] = timer[j] /\ heard'[j] = heard[j]
<1> DEFINE n   == node[i]
           t   == timer[i]
           m   == Head(mailbox[i])
           min == Configured[i].election_timeout_min
           a   == HandleMessage(n, m, Ripe(i, t))
           reset == ResetsTimer(n, m, Ripe(i, t), a)
           boxes == [mailbox EXCEPT ![i] = Tail(@)]
<1>1. PICK outcome \in Feed(n, t, m) :
            /\ Absorb(i, outcome[1], boxes)
            /\ timer' = [timer EXCEPT ![i] = outcome[2]]
  BY DEF Deliver
<1>2. heard' = [heard EXCEPT ![i] = IF FromLeader(n, m) THEN 0 ELSE @]
  BY DEF Deliver
<1>3. /\ n.id = i /\ Timed(i, t) /\ timer \in [Server -> Timer] /\ heard \in [Server -> Nat]
      /\ heard[i] \in Nat /\ heard[i] <= min /\ t.elapsed \in Nat
      /\ \A j \in Server : Timed(j, timer[j]) /\ heard[j] <= Configured[j].election_timeout_min
  <2>1. Timed(i, t)
    BY DEF RoundsInv, ClockInv
  <2>2. t.elapsed \in Nat
    BY <2>1 DEF Timed, Timer
  <2> QED BY <2>1, <2>2 DEF RoundsInv, LawfulInv, Inv, TypeOK, ClockInv
<1>4. min \in Nat
  BY MinTimeout
<1>5. /\ outcome[1] = a /\ Timed(i, outcome[2])
      /\ reset => outcome[2].elapsed = 0
      /\ ~ reset => outcome[2].elapsed = t.elapsed
  <2>1. n.id \in Server /\ Timed(n.id, t)
    BY <1>3
  <2> HIDE DEF n, t, m
  <2> QED BY <1>1, <1>3, <2>1, FeedTimed
<1>6. FromLeader(n, m) => reset
  BY DEF ResetsTimer
<1> HIDE DEF reset, a, boxes
<1>7. outcome[2] \in Timer
  BY <1>5 DEF Timed
<1>8. /\ timer' \in [Server -> Timer] /\ timer'[i] = outcome[2]
      /\ \A j \in Server : j # i => timer'[j] = timer[j]
  BY <1>1, <1>3, <1>7
<1>9. /\ heard' \in [Server -> Nat] /\ heard'[i] = IF FromLeader(n, m) THEN 0 ELSE heard[i]
      /\ \A j \in Server : j # i => heard'[j] = heard[j]
  BY <1>2, <1>3
<1>10. heard'[i] <= min
  BY <1>3, <1>4, <1>9
<1>11. ClockInv'
  BY <1>3, <1>5, <1>8, <1>9, <1>10 DEF ClockInv, Timed
<1>12. /\ Smaller(0, min) = 0
       /\ reset => Smaller(timer'[i].elapsed, min) = 0
       /\ ~ reset => timer'[i].elapsed = t.elapsed
  <2>1. Smaller(0, min) = 0
    BY <1>4 DEF Smaller
  <2> QED BY <1>5, <1>8, <2>1
<1>13. FromLeader(n, m) => Smaller(timer'[i].elapsed, min) <= heard'[i]
  BY <1>6, <1>9, <1>12
<1>14. Smaller(t.elapsed, min) <= heard[i] => Smaller(timer'[i].elapsed, min) <= heard'[i]
  BY <1>3, <1>9, <1>12, <1>13
<1>15. (Lately(i) => Lately(i)') /\ (FromLeader(n, m) => Lately(i)')
  BY <1>13, <1>14 DEF Lately
<1> QED BY <1>1, <1>5, <1>8, <1>9, <1>11, <1>15 DEF reset, a, boxes

LEMMA DeliverKeeps ==
    ASSUME IsFiniteSet(Server), RoundsInv, NEW i \in Server, Deliver(i), LawfulInv'
    PROVE  RoundsInv' /\ Alone(i)
<1> DEFINE n     == node[i]
           t     == timer[i]
           ripe  == Ripe(i, t)
           r     == Head(mailbox[i])
           a     == HandleMessage(n, r, ripe)
           reset == ResetsTimer(n, r, ripe, a)
           boxes == [mailbox EXCEPT ![i] = Tail(@)]
           d     == Standing(i)
           c     == [d EXCEPT !.known = IF Lately(i)' THEN Server ELSE {}]
<1>1. /\ n \in NodeRecord /\ n.id = i /\ n.sends = {} /\ n.current_term \in Nat
  BY NodeFields DEF RoundsInv, LawfulInv, Inv, TypeOK
<1>2. /\ UNCHANGED running /\ mailbox[i] # << >>
      /\ Founders \subseteq running /\ running \subseteq Server
  BY DEF Deliver, RoundsInv, MailInv
<1>3. /\ boxes \in [Server -> Seq(wire)]
      /\ \A p \in Server : /\ \A k \in DOMAIN boxes[p] : boxes[p][k].to = p
                           /\ p \notin running' => boxes[p] = << >>
      /\ r \in wire /\ r.to = i
  BY <1>2, TakenMail DEF RoundsInv
<1>4. /\ ClockInv' /\ (Lately(i) => Lately(i)') /\ (FromLeader(n, r) => Lately(i)')
      /\ Absorb(i, a, boxes)
      /\ reset => timer'[i].elapsed = 0
      /\ ~ reset => timer'[i].elapsed = t.elapsed
      /\ \A j \in Server : j # i => timer'[j] = timer[j] /\ heard'[j] = heard[j]
  BY DeliverKeepsClocks
<1>5. Local(i, a) /\ mailbox' = Posted(boxes, i, a.sends)
  BY <1>4 DEF Absorb
<1>6. /\ d.bound = MaxTerm /\ d.since = n.current_term /\ d.clock = ripe
      /\ d.polled = Server /\ d.probes /\ d.asks
      /\ d.known = IF Lately(i) THEN Server ELSE {}
      /\ d.grants = {"PreVoteReply", "RequestVoteReply"} /\ ripe \in BOOLEAN
      /\ c.bound = MaxTerm /\ c.since = n.current_term /\ c.clock = ripe
      /\ c.polled = Server /\ c.probes /\ c.asks
      /\ c.known = IF Lately(i)' THEN Server ELSE {}
      /\ c.grants = {"PreVoteReply", "RequestVoteReply"}
  BY DEF Standing, Ripe
<1>7. Orderly(n, d)
  BY DEF RoundsInv, StandInv
<1>8. /\ r \in Message /\ r.from \in Server /\ r.term \in Nat
      /\ r.term < MaxTerm /\ (r.kind = "TimeoutNow" => r.term + 1 < MaxTerm)
      /\ r.kind = "RequestVote" => r.to # r.from
  BY <1>3, MessageFields DEF RoundsInv, StandInv, LawfulInv, Inv, TypeOK
<1>9. Replies(n, r, ripe, a)
  BY <1>8, HandleMessageReplies
<1>10. Configured[i].election_timeout_min \in Nat /\ Configured[i].election_timeout_min >= 1
  BY MinTimeout
<1>11. Ripe(i, timer'[i]) = (timer'[i].elapsed >= Configured[i].election_timeout_min)
       /\ ripe = (t.elapsed >= Configured[i].election_timeout_min)
  BY DEF Ripe
<1> HIDE DEF n, t, ripe, r, a, reset, boxes, d, c
<1>12. Orderly(n, c)
  <2>1. d.known \subseteq c.known
    BY <1>4, <1>6
  <2> QED BY <1>6, <1>7, <2>1, WiderOrderly
<1>13. Orderly(a, c)
  <2>1. r.kind \in {"AppendEntries", "InstallSnapshot"} /\ r.term >= n.current_term
            => r.from \in c.known
    BY <1>4, <1>6, <1>8 DEF FromLeader
  <2>2. n.role # "Leader" => c.clock = ripe
    BY <1>6
  <2>3. r.kind = "PreVoteReply" /\ r.vote_granted => r.from \in c.polled
    BY <1>6, <1>8
  <2>4. "PreVoteReply" \in c.grants /\ "RequestVoteReply" \in c.grants
    BY <1>6
  <2>5. r.term < c.bound /\ (r.kind = "TimeoutNow" => r.term + 1 < c.bound)
    BY <1>6, <1>8
  <2>6. \A grantors \in SUBSET c.polled : Cardinality(grantors) >= Quorum(n) => c.asks
    BY <1>6
  <2> QED BY <1>1, <1>6, <1>8, <1>9, <1>12, <2>1, <2>2, <2>3, <2>4, <2>5, <2>6,
             RepliesOrderly
<1>14. a.role = "Leader" => a.ripe = Ripe(i, timer'[i])
  <2> SUFFICES ASSUME a.role = "Leader" PROVE a.ripe = Ripe(i, timer'[i])
    OBVIOUS
  <2>1. /\ a.ripe = (ripe /\ a.current_term <= n.current_term)
        /\ n.current_term <= a.current_term /\ a.voted_for = a.id
    BY <1>6, <1>13 DEF Orderly
  <2>2. a.id = i
    BY <1>5, StepNodes
  <2>3. a.current_term \in Nat
    <3>1. node'[i] \in NodeRecord /\ node'[i].current_term = a.current_term
      BY <1>5, StepNodes
    <3> QED BY <3>1, NodeFields
  <2>4. CASE ~ reset
    <3>1. ~ Campaigns(n, a)
      BY <2>4 DEF reset, ResetsTimer
    <3>2. ~ (a.current_term > n.current_term)
      BY <1>1, <2>1, <2>2, <3>1 DEF Campaigns
    <3>3. a.current_term <= n.current_term
      BY <1>1, <2>3, <3>2
    <3>4. Ripe(i, timer'[i]) = ripe
      BY <1>4, <1>11, <2>4
    <3> QED BY <1>6, <2>1, <3>3, <3>4
  <2>5. CASE reset
    <3>1. Ripe(i, timer'[i]) = FALSE
      <4>1. timer'[i].elapsed = 0
        BY <1>4, <2>5
      <4>2. ~ (timer'[i].elapsed >= Configured[i].election_timeout_min)
        BY <1>10, <4>1
      <4> QED BY <4>2 DEF Ripe
    <3>2. ~ FromLeader(n, r)
      <4> SUFFICES ASSUME FromLeader(n, r) PROVE FALSE
        OBVIOUS
      <4>1. r.from \in c.known /\ r.term < c.bound
        BY <1>4, <1>6, <1>8
      <4>2. a.role = "Follower"
        BY <1>1, <1>6, <1>8, <1>12, <4>1, LeaderIsFollowed DEF a
      <4> QED BY <4>2
    <3>3. CASE GrantsVote(n, r, ripe)
      <4>1. n.role # "Leader"
        <5> SUFFICES ASSUME n.role = "Leader" PROVE FALSE
          OBVIOUS
        <5>1. n.voted_for = n.id /\ r.to = n.id
          BY <1>1, <1>3, <1>7 DEF Orderly
        <5>2. a.role = "Follower"
          BY <1>1, <1>8, <3>3, <5>1, LeaderGrantsNone DEF a
        <5> QED BY <5>2
      <4>2. r.kind = "RequestVote" /\ ~ Ignored(n, r, ripe)
        BY <3>3 DEF GrantsVote
      <4>3. a = HandleRequestVote(AdoptTerm(n, r.term), r)
        BY <1>8, <4>2, HandleMessageCases DEF a
      <4>4. /\ AdoptTerm(n, r.term) \in NodeRecord
            /\ AdoptTerm(n, r.term) = n \/ AdoptTerm(n, r.term).role = "Follower"
        BY <1>1, <1>8, AdoptTermMarks
      <4>5. a.role = AdoptTerm(n, r.term).role
        BY <1>8, <4>3, <4>4, VoteKeepsRole
      <4> QED BY <4>1, <4>4, <4>5
    <3>4. CASE Campaigns(n, a)
      <4>1. ~ (a.current_term <= n.current_term)
        BY <1>1, <2>3, <3>4 DEF Campaigns
      <4> QED BY <2>1, <3>1, <4>1
    <3> QED BY <2>5, <3>2, <3>3, <3>4 DEF reset, ResetsTimer
  <2> QED BY <2>4, <2>5
<1>15. c.known \subseteq IF Lately(i)' THEN Server ELSE {}
  BY <1>6
<1>16. Founders \subseteq running' /\ running' \subseteq Server
  BY <1>2
<1> QED BY <1>3, <1>4, <1>5, <1>6, <1>13, <1>14, <1>15, <1>16, StepKeeps

-----------------------------------------------------------------------------
(* Requests and hints. *)

LEMMA RequestIsStep ==
    ASSUME RoundsInv, NEW i \in running
    PROVE  /\ \A c \in Value : Write(i, c) => Next
           /\ \A s \in Server : Join(i, s) => Next
           /\ \A s \in Targets : HandOver(i, s) => Next
           /\ AnswerHint(i) => Next
<1>1. i \in Server /\ Founders \subseteq running
  BY DEF RoundsInv, MailInv
<1>2. ASSUME NEW c \in Value, Write(i, c) PROVE ClientPropose(i, c)
  BY <1>2 DEF Write, Request, Absorb, ClientPropose
<1>3. ASSUME NEW s \in Server, Join(i, s) PROVE s \in Candidates /\ AddServer(i, s)
  BY <1>1, <1>3, ClusterAssumption DEF Join, Request, Absorb, AddServer
<1>4. ASSUME NEW s \in Targets, HandOver(i, s) PROVE Transfer(i, s)
  BY <1>4 DEF HandOver, FirstLeader, Request, Absorb, Transfer
<1>5. ASSUME AnswerHint(i) PROVE SnapshotEvent(i)
  BY <1>5 DEF AnswerHint, SnapshotEvent
<1> QED BY <1>1, <1>2, <1>3, <1>4, <1>5 DEF Next

LEMMA RequestKeeps ==
    ASSUME RoundsInv, LawfulInv', NEW i \in running, NEW m, Request(i, m),
           Orderly(m, Standing(i)), m.current_term = node[i].current_term,
           running \subseteq running', running' \subseteq Server
    PROVE  RoundsInv' /\ Alone(i)
<1> DEFINE d == Standing(i)
<1>1. /\ Local(i, m) /\ mailbox' = Posted(mailbox, i, m.sends) /\ UNCHANGED <<timer, heard>>
  BY DEF Request, Absorb
<1>2. ClockInv' /\ Lately(i)' = Lately(i)
  BY <1>1 DEF RoundsInv, ClockInv, Timed, Lately
<1>3. /\ i \in Server /\ Founders \subseteq running /\ mailbox \in [Server -> Seq(wire)]
      /\ \A p \in Server : /\ \A k \in DOMAIN mailbox[p] : mailbox[p][k].to = p
                           /\ p \notin running => mailbox[p] = << >>
  BY DEF RoundsInv, MailInv
<1>4. /\ d.bound = MaxTerm /\ d.since = node[i].current_term
      /\ d.clock = Ripe(i, timer[i]) /\ d.clock \in BOOLEAN
      /\ d.known = IF Lately(i) THEN Server ELSE {}
  BY DEF Standing, Ripe
<1>5. Orderly(m, d) /\ node[i].current_term \in Nat
  BY <1>3, NodeFields DEF RoundsInv, LawfulInv, Inv, TypeOK
<1> HIDE DEF d
<1>6. m.role = "Leader" => m.ripe = Ripe(i, timer'[i])
  <2>1. m.role = "Leader" => m.ripe = (d.clock /\ m.current_term <= d.since)
    BY <1>5 DEF Orderly
  <2>2. m.current_term <= d.since
    BY <1>4, <1>5
  <2>3. Ripe(i, timer'[i]) = d.clock
    BY <1>1, <1>4
  <2> QED BY <1>4, <2>1, <2>2, <2>3
<1>7. d.known \subseteq IF Lately(i)' THEN Server ELSE {}
  BY <1>2, <1>4
<1>8. /\ Founders \subseteq running'
      /\ \A p \in Server : /\ \A k \in DOMAIN mailbox[p] : mailbox[p][k].to = p
                           /\ p \notin running' => mailbox[p] = << >>
  BY <1>3
<1>9. \A j \in Server : j # i => timer'[j] = timer[j] /\ heard'[j] = heard[j]
  BY <1>1
<1> QED BY <1>1, <1>2, <1>3, <1>4, <1>5, <1>6, <1>7, <1>8, <1>9, StepKeeps

(* A leader that neither probes nor hands over has no later term to go to.  *)
LEMMA StaysInTerm ==
    ASSUME NEW n \in NodeRecord, NEW c, Orderly(n, c), c.since = n.current_term,
           n.sends = {}, n.role = "Leader", n.transfer_target = None
    PROVE  \E e : /\ Orderly(n, e)
                  /\ \A m : m.current_term \in Int /\ Orderly(m, e)
                        => m.current_term = n.current_term
<1> DEFINE e == [bound |-> n.current_term + 1, since |-> c.since, clock |-> c.clock,
                 polled |-> c.polled, known |-> c.known, probes |-> c.probes,
                 asks |-> c.asks, grants |-> c.grants]
<1>1. /\ e.bound = n.current_term + 1 /\ e.since = n.current_term /\ e.clock = c.clock
      /\ e.polled = c.polled /\ e.known = c.known /\ e.probes = c.probes
  OBVIOUS
<1>2. n.current_term \in Nat /\ n.id # None
  BY NodeFields, NoneAssumption
<1> HIDE DEF e
<1>3. /\ n.leader_id = n.id /\ ~ n.pre_voting
  BY <1>2 DEF Orderly
<1>4. n.role = "Leader" => n.ripe = (e.clock /\ n.current_term <= e.since)
  <2>1. n.ripe = (c.clock /\ n.current_term <= c.since)
    BY DEF Orderly
  <2> QED BY <1>1, <2>1
<1>5. e.since <= n.current_term /\ n.current_term < e.bound
  BY <1>1, <1>2
<1>6. Orderly(n, e)
  BY <1>1, <1>3, <1>4, <1>5 DEF Orderly
<1>7. ASSUME NEW m, m.current_term \in Int, Orderly(m, e)
      PROVE  m.current_term = n.current_term
  <2>1. n.current_term <= m.current_term /\ m.current_term < n.current_term + 1
    BY <1>1, <1>7 DEF Orderly
  <2> QED BY <1>2, <1>7, <2>1
<1> QED BY <1>6, <1>7

LEMMA RequestsKeep ==
    ASSUME IsFiniteSet(Server), RoundsInv, LawfulInv', NEW i \in running
    PROVE  /\ \A c \in Value : Write(i, c) => RoundsInv' /\ Alone(i)
           /\ \A s \in Server : Join(i, s) => RoundsInv' /\ Alone(i)
           /\ \A s \in Targets : HandOver(i, s) => RoundsInv' /\ Alone(i)
<1> DEFINE n == node[i]
           d == Standing(i)
<1>1. /\ i \in Server /\ running \subseteq Server
      /\ n \in NodeRecord /\ n.id = i /\ n.sends = {} /\ n.current_term \in Nat
      /\ n.voters \subseteq Server
  BY NodeFields DEF RoundsInv, LawfulInv, Inv, TypeOK, MailInv
<1>2. Orderly(n, d) /\ d.since = n.current_term /\ d.bound = MaxTerm
  BY <1>1 DEF RoundsInv, StandInv, Standing
<1>3. ASSUME NEW m, Request(i, m) PROVE m.current_term \in Nat
  <2>1. Local(i, m)
    BY <1>3 DEF Request, Absorb
  <2>2. node'[i] \in NodeRecord /\ node'[i].current_term = m.current_term
    BY <1>1, <2>1, StepNodes
  <2> QED BY <2>2, NodeFields
<1>4. ASSUME NEW c \in Value, Write(i, c) PROVE RoundsInv' /\ Alone(i)
  <2> DEFINE m == Propose(n, c)
  <2>1. /\ n.role = "Leader" /\ n.transfer_target = None /\ Request(i, m)
        /\ running' = running
    BY <1>4 DEF Write, AcceptsRequests
  <2>2. \A e : Orderly(n, e) => Orderly(m, e)
    <3> HIDE DEF n
    <3> QED BY <1>1, ProposeOrderly
  <2> HIDE DEF m, n, d
  <2>3. m.current_term = n.current_term
    BY <1>1, <1>2, <1>3, <2>1, <2>2, StaysInTerm
  <2> QED BY <1>1, <1>2, <2>1, <2>2, <2>3, RequestKeeps DEF n, d
<1>5. ASSUME NEW s \in Server, Join(i, s) PROVE RoundsInv' /\ Alone(i)
  <2> DEFINE members == n.voters \cup {s}
             m == ChangeMembership(n, members)
  <2>1. /\ n.role = "Leader" /\ n.transfer_target = None /\ Request(i, m)
        /\ running' = running \cup {s}
    BY <1>5 DEF Join, AcceptsRequests
  <2>2. members \in SUBSET Server
    BY <1>1
  <2> HIDE DEF members
  <2>3. \A e : Orderly(n, e) => Orderly(m, e)
    <3> HIDE DEF n
    <3> QED BY <1>1, <2>2, ChangeMembershipOrderly
  <2> HIDE DEF m, n, d
  <2>4. m.current_term = n.current_term
    BY <1>1, <1>2, <1>3, <2>1, <2>3, StaysInTerm
  <2>5. running \subseteq running' /\ running' \subseteq Server
    BY <1>1, <2>1
  <2> QED BY <1>1, <1>2, <2>1, <2>3, <2>4, <2>5, RequestKeeps DEF n, d
<1>6. ASSUME NEW s \in Targets, HandOver(i, s) PROVE RoundsInv' /\ Alone(i)
  <2> DEFINE m == TransferLeadership(n, s)
  <2>1. Request(i, m) /\ running' = running /\ n.current_term + 1 < MaxTerm
    BY <1>6 DEF HandOver, MayCampaign
  <2>2. s \in Server
    BY BoundsAssumption
  <2> HIDE DEF n, d
  <2>3. Orderly(m, d)
    BY <1>1, <1>2, <2>1, <2>2, TransferLeadershipOrderly
  <2>4. m.current_term = n.current_term
    BY <1>1, <2>2, TransferLeadershipCalm DEF Calm, Steady
  <2> HIDE DEF m
  <2> QED BY <1>1, <2>1, <2>3, <2>4, RequestKeeps DEF n, d
<1> QED BY <1>4, <1>5, <1>6

LEMMA AnswerKeeps ==
    ASSUME RoundsInv, LawfulInv', NEW i \in running, AnswerHint(i)
    PROVE  /\ RoundsInv' /\ Alone(i)
           /\ wire' = wire /\ node'[i].pre_voting = node[i].pre_voting
<1> DEFINE n == node[i]
           d == Standing(i)
<1>1. /\ i \in Server /\ n \in NodeRecord /\ n.sends = {} /\ n.current_term \in Nat
      /\ n.hints \subseteq Nat /\ Orderly(n, d)
  BY NodeFields DEF RoundsInv, LawfulInv, Inv, TypeOK, MailInv, StandInv
<1>2. PICK index \in n.hints :
        /\ Local(i, [HandleSnapshotEvent(n, index) EXCEPT !.hints = @ \ {index}])
        /\ UNCHANGED <<timer, heard, mailbox, running>>
  BY DEF AnswerHint
<1> DEFINE m == [HandleSnapshotEvent(n, index) EXCEPT !.hints = @ \ {index}]
<1>3. Mute(n, m)
  <2>1. index \in Nat
    BY <1>1
  <2> HIDE DEF n
  <2> QED BY <1>1, <2>1, HandleSnapshotEventMute
<1>4. Local(i, m)
  BY <1>2
<1>5. /\ d.bound = MaxTerm /\ d.since = n.current_term
      /\ d.clock = Ripe(i, timer[i]) /\ d.clock \in BOOLEAN
      /\ d.known = IF Lately(i) THEN Server ELSE {}
  BY DEF Standing, Ripe
<1> HIDE DEF m, d
<1>6. /\ Orderly(m, d) /\ m.sends = {} /\ m.current_term = n.current_term
      /\ wire' = wire /\ m.id = i /\ node'[i].pre_voting = n.pre_voting
      /\ \A j \in Server : j # i => node'[j] = node[j]
  <2>1. m.sends = {} /\ m.current_term = n.current_term /\ m.pre_voting = n.pre_voting
    BY <1>1, <1>3 DEF Mute
  <2>2. /\ wire' = wire \cup m.sends /\ m.id = i /\ node'[i].pre_voting = m.pre_voting
        /\ \A j \in Server : j # i => node'[j] = node[j]
    BY <1>1, <1>4, StepNodes
  <2> QED BY <1>1, <1>3, <2>1, <2>2, MuteOrderly
<1>7. ClockInv' /\ MailInv' /\ Lately(i)' = Lately(i)
  BY <1>2, <1>6 DEF RoundsInv, ClockInv, Timed, Lately, MailInv
<1>8. m.role = "Leader" => m.ripe = Ripe(i, timer'[i])
  <2>1. m.role = "Leader" => m.ripe = (d.clock /\ m.current_term <= d.since)
    BY <1>6 DEF Orderly
  <2>2. m.current_term <= d.since
    BY <1>1, <1>5, <1>6
  <2>3. Ripe(i, timer'[i]) = d.clock
    BY <1>2, <1>5
  <2> QED BY <1>5, <2>1, <2>2, <2>3
<1>9. m.leader_id \in (IF Lately(i)' THEN Server ELSE {}) \cup {None, i}
  BY <1>5, <1>6, <1>7 DEF Orderly
<1>10. \A j \in Server : j # i => timer'[j] = timer[j] /\ heard'[j] = heard[j]
  BY <1>2
<1>11. StandInv'
  BY <1>1, <1>4, <1>5, <1>6, <1>8, <1>9, <1>10, StepStands
<1>12. Recorded'
  BY <1>1, <1>4, StepRecorded
<1>13. Alone(i)
  BY <1>6 DEF Alone
<1> QED BY <1>6, <1>7, <1>11, <1>12, <1>13 DEF RoundsInv

-----------------------------------------------------------------------------
(* Every behaviour with clocks is one of the cluster. *)

LEMMA InitHasRounds == RoundsInit => RoundsInv
<1> SUFFICES ASSUME RoundsInit PROVE RoundsInv
  OBVIOUS
<1>1. /\ Init /\ LawfulInv /\ wire = {}
      /\ history = [ballots |-> {}, victories |-> {}, committed |-> {}]
      /\ \A i \in Server : node[i] = WithLog(i, EmptyLog)
  BY InitIsLawful DEF RoundsInit, Init
<1>2. EmptyLog \in Log /\ EmptyLog.hard.term = 0 /\ EmptyLog.hard.voted_for = None
  BY EmptyLogTyped DEF EmptyLog
<1>3. ASSUME NEW i \in Server
      PROVE  /\ node[i].role = "Follower" /\ node[i].current_term = 0
             /\ node[i].voted_for = None
  <2>1. WithLog(i, EmptyLog).voted_for = EmptyLog.hard.voted_for
    BY DEF WithLog
  <2>2. /\ WithLog(i, EmptyLog).role = "Follower"
        /\ WithLog(i, EmptyLog).current_term = EmptyLog.hard.term
    BY <1>2, WithLogFields
  <2> QED BY <1>1, <1>2, <2>1, <2>2
<1>4. ClockInv
  <2>1. /\ timer \in [Server -> UNION {FreshTimers(i) : i \in Server}]
        /\ \A i \in Server : timer[i] \in FreshTimers(i)
    BY DEF RoundsInit, StartTimers
  <2>2. ASSUME NEW i \in Server PROVE Timed(i, timer[i])
    <3>1. PICK d \in Timeouts(i) : timer[i] = [elapsed |-> 0, timeout |-> d, beat |-> 0]
      BY <2>1 DEF FreshTimers
    <3>2. d \in Nat /\ d \in Configured[i].election_timeout_min
                                .. Configured[i].election_timeout_max
      BY DrawnTimeouts
    <3> QED BY <3>1, <3>2 DEF Timed, Timer
  <2>3. \A i \in Server : timer[i] \in Timer
    BY <2>2 DEF Timed
  <2>4. timer \in [Server -> Timer]
    BY <2>1, <2>3
  <2>5. heard = [i \in Server |-> 0]
    BY DEF RoundsInit
  <2>6. \A i \in Server : heard[i] <= Configured[i].election_timeout_min
    BY <2>5, MinTimeout
  <2> QED BY <2>2, <2>4, <2>5, <2>6 DEF ClockInv
<1>5. MailInv
  <2>1. running = Founders /\ mailbox = [i \in Server |-> << >>]
    BY DEF RoundsInit
  <2>2. Founders \subseteq Server
    BY RoundsAssumption
  <2> QED BY <2>1, <2>2 DEF MailInv
<1>6. Recorded
  <2>1. \A i \in Server : BallotOf(node[i]) = {} /\ VictoryOf(node[i]) = {}
    BY <1>3 DEF BallotOf, VictoryOf
  <2> QED BY <1>1, <2>1 DEF Recorded
<1>7. StandInv
  <2>1. 0 < MaxTerm
    BY ClusterAssumption
  <2>2. ASSUME NEW i \in Server PROVE Orderly(node[i], Standing(i))
    <3>1. Standing(i).since = 0 /\ Standing(i).bound = MaxTerm
      BY <1>3 DEF Standing
    <3> QED BY <1>1, <1>2, <2>1, <3>1, WithLogOrderly
  <2> QED BY <1>1, <2>2 DEF StandInv
<1> QED BY <1>1, <1>4, <1>5, <1>6, <1>7 DEF RoundsInv

(* A step that leaves the nodes, the clocks and the mailboxes alone. *)
LEMMA IdleKeeps ==
    ASSUME RoundsInv, UNCHANGED <<vars, timer, heard, mailbox, running>>
    PROVE  RoundsInv'
<1>1. UNCHANGED <<node, wire, history, timer, heard, mailbox, running>> /\ UNCHANGED vars
  BY DEF vars
<1>2. LawfulInv'
  BY <1>1, NextIsLawful DEF RoundsInv
<1>3. ClockInv' /\ MailInv' /\ Recorded'
  BY <1>1 DEF RoundsInv, ClockInv, Timed, MailInv, Recorded, BallotOf, VictoryOf
<1>4. \A i \in Server : Standing(i)' = Standing(i)
  BY <1>1 DEF Standing, Ripe, Lately
<1>5. StandInv'
  BY <1>1, <1>4 DEF RoundsInv, StandInv
<1> QED BY <1>2, <1>3, <1>5 DEF RoundsInv

LEMMA RoundsSteps ==
    ASSUME RoundsInv, [RoundsNext]_roundsVars
    PROVE  [Next]_vars /\ RoundsInv'
<1> DEFINE Good == [Next]_vars /\ (LawfulInv' => RoundsInv')
<1>1. SUFFICES Good
  BY NextIsLawful DEF RoundsInv
<1>2. running \subseteq Server /\ IsFiniteSet(Server)
  BY RoundsAssumption DEF RoundsInv, MailInv
<1>3. ASSUME NEW i \in running, TickNode(i) PROVE Good
  BY <1>2, <1>3, TickIsStep, TickKeeps
<1>4. ASSUME NEW i \in running, Deliver(i) PROVE Good
  BY <1>2, <1>4, DeliverIsStep, DeliverKeeps
<1>5. ASSUME NEW i \in running, AnswerHint(i) PROVE Good
  BY <1>5, RequestIsStep, AnswerKeeps
<1>6. ASSUME NEW i \in running, NEW c \in Value, Write(i, c) PROVE Good
  BY <1>2, <1>6, RequestIsStep, RequestsKeep
<1>7. ASSUME NEW i \in running, NEW s \in Server, Join(i, s) PROVE Good
  BY <1>2, <1>7, RequestIsStep, RequestsKeep
<1>8. ASSUME NEW i \in running, NEW s \in Targets, HandOver(i, s) PROVE Good
  BY <1>2, <1>8, RequestIsStep, RequestsKeep
<1>9. ASSUME UNCHANGED <<vars, timer, heard, mailbox, running>> PROVE Good
  BY <1>9, IdleKeeps
<1>10. /\ \A i \in running : Drained(i) => Good
       /\ EndRound => Good
       /\ \A group \in Sides : Partition(group) => Good
       /\ Heal => Good
       /\ UNCHANGED roundsVars => Good
  <2> HIDE DEF Good
  <2> QED BY <1>9 DEF Drained, EndRound, Partition, Heal, roundsVars
<1> HIDE DEF Good
<1> QED BY <1>3, <1>4, <1>5, <1>6, <1>7, <1>8, <1>10 DEF RoundsNext, StepRound

LEMMA RoundsInvariance == RoundsSpec => []RoundsInv
<1>1. RoundsInit => RoundsInv
  BY InitHasRounds
<1>2. RoundsInv /\ [RoundsNext]_roundsVars => RoundsInv'
  BY RoundsSteps
<1> QED BY <1>1, <1>2, PTL DEF RoundsSpec

(* With clocks, mailboxes and a caller that executes every action at once   *)
(* there is nothing a cluster of module RaftCluster does not do: a tick is  *)
(* a timeout, a heartbeat or nothing, a delivery is the receipt of a        *)
(* message that was sent, with the clock RaftNode::is_ripe goes by, and a   *)
(* request is one the cluster accepts.                                      *)
THEOREM StepsAreSteps == RoundsSpec => TakesClusterSteps
<1>1. RoundsInv /\ [RoundsNext]_roundsVars => [Next]_vars
  BY RoundsSteps
<1> QED BY <1>1, RoundsInvariance, PTL DEF RoundsSpec, TakesClusterSteps

THEOREM RoundsAreCluster == RoundsSpec => ImplementsCluster
<1>1. RoundsInit => Init
  BY DEF RoundsInit
<1> QED BY <1>1, StepsAreSteps, PTL DEF RoundsSpec, Spec, ImplementsCluster, TakesClusterSteps

(* In particular nobody in it asks for votes without a majority of          *)
(* pre-votes, however the ticks fall: those that were there from the start  *)
(* are enough of a quorum, whoever joins.                                   *)
THEOREM RoundsPreVotesFirst ==
    ASSUME InitialVoters \subseteq Founders
    PROVE  RoundsSpec => []PreVoteBeforeElection
<1>1. Redeliver /\ IsFiniteSet(Server) /\ InitialVoters \cap Candidates = {}
  BY ClusterAssumption, RoundsAssumption
<1>2. Spec => []PreVoteBeforeElection
  BY <1>1, PreVotesFirst
<1> QED BY <1>2, RoundsAreCluster, PTL DEF ImplementsCluster

-----------------------------------------------------------------------------
(* Followers are loyal. *)

(* What a follower that hears from its leader does not do in a step. *)
Loyal(i) ==
    /\ ~ node'[i].pre_voting
    /\ \A m \in wire' \ wire :
            /\ m.from = i
            /\ m.kind \in {"PreVoteReply", "RequestVoteReply"}
            /\ m.vote_granted
            => m.kind = "RequestVoteReply" /\ Head(mailbox[i]).force

(* Its own election timer is not ripe. *)
LEMMA HearingIsFresh ==
    ASSUME RoundsInv, NEW i \in Server, NEW l \in Server, l # i, Hears(i, l)
    PROVE  /\ node[i].leader_id # None /\ ~ node[i].pre_voting
           /\ node[i].role # "Leader" /\ ~ Ripe(i, timer[i])
           /\ timer[i].elapsed <= heard[i]
<1> DEFINE n   == node[i]
           d   == Standing(i)
           min == Configured[i].election_timeout_min
<1>1. n.leader_id = l /\ heard[i] < min /\ l # None
  BY NoneAssumption DEF Hears
<1>2. n.id = i /\ Orderly(n, d) /\ d.known = IF Lately(i) THEN Server ELSE {}
  BY DEF RoundsInv, LawfulInv, Inv, TypeOK, StandInv, Standing
<1>3. /\ min \in Nat /\ heard[i] \in Nat /\ timer[i].elapsed \in Nat
  <2>1. timer[i] \in Timer /\ heard[i] \in Nat
    BY DEF RoundsInv, ClockInv
  <2> QED BY <2>1, MinTimeout DEF Timer
<1> HIDE DEF n, d, min
<1>4. ~ n.pre_voting /\ n.role # "Leader"
  BY <1>1, <1>2 DEF Orderly
<1>5. Lately(i)
  BY <1>1, <1>2 DEF Orderly
<1>6. Smaller(timer[i].elapsed, min) <= heard[i]
  BY <1>5 DEF Lately, min
<1>7. timer[i].elapsed <= heard[i] /\ timer[i].elapsed < min
  BY <1>1, <1>3, <1>6 DEF Smaller
<1>8. ~ Ripe(i, timer[i])
  BY <1>3, <1>7 DEF Ripe, min
<1> QED BY <1>1, <1>4, <1>7, <1>8 DEF n

(* Hearing from it, a node grants its vote only when it is told to. *)
LEMMA DeliveryIsLoyal ==
    ASSUME IsFiniteSet(Server), RoundsInv, LawfulInv', NEW i \in Server,
           NEW l \in Server, l # i, Hears(i, l), Deliver(i)
    PROVE  Loyal(i)
<1> DEFINE n    == node[i]
           ripe == Ripe(i, timer[i])
           r    == Head(mailbox[i])
           a    == HandleMessage(n, r, ripe)
           c    == [bound |-> MaxTerm, since |-> n.current_term, clock |-> ripe,
                    polled |-> Server, known |-> Server, probes |-> FALSE, asks |-> TRUE,
                    grants |-> IF r.kind = "RequestVote" /\ r.force
                               THEN {"RequestVoteReply"} ELSE {}]
<1>1. /\ n \in NodeRecord /\ n.id = i /\ n.sends = {} /\ n.current_term \in Nat
      /\ Orderly(n, Standing(i))
  BY NodeFields DEF RoundsInv, LawfulInv, Inv, TypeOK, StandInv
<1>2. /\ n.leader_id # None /\ ~ n.pre_voting /\ n.role # "Leader" /\ ripe = FALSE
  BY HearingIsFresh
<1>3. Local(i, a)
  BY DeliverKeepsClocks DEF Absorb
<1>4. /\ node'[i].pre_voting = a.pre_voting /\ a.id = i /\ wire' = wire \cup a.sends
  BY <1>3, StepNodes
<1>5. r \in wire
  BY TakenMail DEF RoundsInv, Deliver
<1>6. /\ r \in Message /\ r.from \in Server
      /\ r.term < MaxTerm /\ (r.kind = "TimeoutNow" => r.term + 1 < MaxTerm)
  BY <1>5, MessageFields DEF RoundsInv, StandInv, LawfulInv, Inv, TypeOK
<1>7. Replies(n, r, ripe, a)
  BY <1>6, HandleMessageReplies
<1>8. r.kind = "RequestVote" /\ ~ r.force => a = n
  <2>1. r.kind = "RequestVote" /\ ~ r.force => Ignored(n, r, ripe)
    BY <1>2 DEF Ignored, HasActiveLeader
  <2> QED BY <1>6, <2>1, HandleMessageCases
<1>9. ~ CanGrantPreVote(n, r, ripe)
  BY <1>2 DEF CanGrantPreVote, HasActiveLeader
<1>10. /\ c.bound = MaxTerm /\ c.since = n.current_term /\ c.clock = ripe
       /\ c.polled = Server /\ c.known = Server /\ ~ c.probes /\ c.asks
       /\ r.kind = "RequestVote" /\ r.force => "RequestVoteReply" \in c.grants
       /\ \A kind \in c.grants : kind = "RequestVoteReply" /\ r.force
  OBVIOUS
<1>11. n.current_term < MaxTerm /\ n.transfer_target # None => n.current_term + 1 < MaxTerm
  BY <1>1 DEF Orderly, Standing
<1> HIDE DEF n, ripe, a, c, r
<1>12. Orderly(n, c)
  <2>1. /\ n.current_term < MaxTerm /\ n.pre_votes \subseteq Server
        /\ n.transfer_target # None => n.current_term + 1 < MaxTerm
        /\ n.leader_id \in Server \cup {None, n.id}
        /\ n.role # "Follower" => n.voted_for = n.id
    BY <1>1, NodeFields DEF Orderly, Standing
  <2> QED BY <1>1, <1>2, <1>10, <2>1, FS_EmptySet DEF Orderly
<1>13. Orderly(a, c)
  <2>1. r.kind = "RequestVote" /\ a # n => "RequestVoteReply" \in c.grants
    BY <1>8, <1>10
  <2>2. \A grantors \in SUBSET c.polled : Cardinality(grantors) >= Quorum(n) => c.asks
    BY <1>10
  <2>3. ripe \in BOOLEAN
    BY <1>2
  <2>4. r.term < c.bound /\ (r.kind = "TimeoutNow" => r.term + 1 < c.bound)
    BY <1>6, <1>10
  <2>5. r.from \in c.known /\ r.from \in c.polled
    BY <1>6, <1>10
  <2> QED BY <1>1, <1>6, <1>7, <1>9, <1>10, <1>12, <2>1, <2>2, <2>3, <2>4, <2>5,
             RepliesOrderly
<1>14. ~ a.pre_voting
  BY <1>10, <1>13 DEF Orderly
<1>15. ASSUME NEW s \in a.sends, s.kind \in {"PreVoteReply", "RequestVoteReply"},
              s.vote_granted
       PROVE  s.kind = "RequestVoteReply" /\ r.force
  <2>1. s.kind \in c.grants
    BY <1>13, <1>15 DEF Orderly, Proper
  <2> QED BY <1>10, <2>1
<1> QED BY <1>4, <1>14, <1>15 DEF Loyal, r

(* Its timer does not expire. *)
LEMMA TickIsLoyal ==
    ASSUME RoundsInv, NEW i \in Server, NEW l \in Server, l # i, Hears(i, l),
           TickNode(i), heard'[i] < Configured[i].election_timeout_min
    PROVE  Loyal(i)
<1> DEFINE n   == node[i]
           t   == timer[i]
           min == Configured[i].election_timeout_min
<1>1. n.id = i /\ Timed(i, t) /\ heard \in [Server -> Nat]
  BY DEF RoundsInv, LawfulInv, Inv, TypeOK, ClockInv
<1>2. /\ t.elapsed \in Nat /\ t.timeout \in Nat /\ min \in Nat /\ t.timeout >= min
      /\ heard[i] \in Nat
  <2>1. /\ t \in Timer
        /\ t.timeout \in Configured[i].election_timeout_min
                            .. Configured[i].election_timeout_max
    BY <1>1 DEF Timed
  <2> QED BY <1>1, <2>1, MinTimeout DEF Timer
<1>3. ~ n.pre_voting /\ n.role # "Leader" /\ t.elapsed <= heard[i]
  BY HearingIsFresh
<1>4. PICK outcome \in Tick(n, t) : Local(i, outcome[1])
  BY DEF TickNode, Absorb
<1>5. heard'[i] = Smaller(heard[i] + 1, min) /\ heard'[i] < min
  BY <1>1 DEF TickNode
<1> HIDE DEF n, t, min
<1>6. heard[i] + 1 < min
  BY <1>2, <1>5 DEF Smaller
<1>7. ~ TimesOut(n, t)
  BY <1>2, <1>3, <1>6 DEF TimesOut
<1>8. outcome[1] = n
  <2>1. n.id \in Server /\ Timed(n.id, t)
    BY <1>1
  <2> QED BY <1>3, <1>4, <1>7, <2>1, TickTimed
<1>9. UNCHANGED vars
  BY <1>4, <1>8, IdleStep DEF n
<1> QED BY <1>3, <1>9 DEF Loyal, vars, n

LEMMA StepsAreLoyal ==
    ASSUME RoundsInv, [RoundsNext]_roundsVars,
           NEW i \in Server, NEW l \in Server, l # i, Hears(i, l),
           heard'[i] < Configured[i].election_timeout_min
    PROVE  Loyal(i)
<1>1. /\ running \subseteq Server /\ IsFiniteSet(Server) /\ LawfulInv'
      /\ RoundsInv'
  BY RoundsAssumption, RoundsSteps DEF RoundsInv, MailInv
<1>2. ~ node[i].pre_voting /\ node[i].role # "Leader"
  BY HearingIsFresh
<1>3. ASSUME NEW j \in running, j # i, Alone(j) PROVE Loyal(i)
  BY <1>2, <1>3 DEF Alone, Loyal
<1>4. ASSUME UNCHANGED vars PROVE Loyal(i)
  BY <1>2, <1>4 DEF Loyal, vars
<1>5. ASSUME NEW j \in running, TickNode(j) PROVE Loyal(i)
  <2>1. CASE j = i
    BY <1>5, <2>1, TickIsLoyal
  <2>2. CASE j # i
    BY <1>1, <1>3, <1>5, <2>2, TickKeeps
  <2> QED BY <2>1, <2>2
<1>6. ASSUME NEW j \in running, Deliver(j) PROVE Loyal(i)
  <2>1. CASE j = i
    BY <1>1, <1>6, <2>1, DeliveryIsLoyal
  <2>2. CASE j # i
    BY <1>1, <1>3, <1>6, <2>2, DeliverKeeps
  <2> QED BY <2>1, <2>2
<1>7. ASSUME NEW j \in running, AnswerHint(j) PROVE Loyal(i)
  <2>1. Alone(j) /\ wire' = wire /\ node'[j].pre_voting = node[j].pre_voting
    BY <1>1, <1>7, AnswerKeeps
  <2>2. CASE j = i
    BY <1>2, <2>1, <2>2 DEF Loyal
  <2> QED BY <1>3, <2>1, <2>2
<1>8. ASSUME NEW j \in running, j = i
      PROVE  /\ \A c \in Value : ~ Write(j, c)
             /\ \A s \in Server : ~ Join(j, s)
             /\ \A s \in Targets : ~ HandOver(j, s)
  BY <1>2, <1>8 DEF Write, Join, HandOver, FirstLeader
<1>9. ASSUME NEW j \in running, j # i
      PROVE  /\ \A c \in Value : Write(j, c) => Loyal(i)
             /\ \A s \in Server : Join(j, s) => Loyal(i)
             /\ \A s \in Targets : HandOver(j, s) => Loyal(i)
  BY <1>1, <1>3, <1>9, RequestsKeep
<1>10. /\ \A j \in running : Drained(j) => Loyal(i)
       /\ EndRound => Loyal(i)
       /\ \A group \in Sides : Partition(group) => Loyal(i)
       /\ Heal => Loyal(i)
       /\ UNCHANGED roundsVars => Loyal(i)
  BY <1>4 DEF Drained, EndRound, Partition, Heal, roundsVars
<1> QED BY <1>5, <1>6, <1>7, <1>8, <1>9, <1>10 DEF RoundsNext, StepRound

(* A node that has heard from its leader within the minimum election        *)
(* timeout, and still has after the step, starts no pre-vote round and      *)
(* grants nobody a pre-vote or a vote, unless the request is forced by a    *)
(* hand-over: has_active_leader holds, as election_elapsed never runs ahead *)
(* of the time since the leader was heard.                                  *)
THEOREM FollowersStayLoyal == RoundsSpec => FollowersAreLoyal
<1> DEFINE Step == \A i \in running :
                        /\ \E l \in running \ {i} : Hears(i, l)
                        /\ heard'[i] < Configured[i].election_timeout_min
                        => Loyal(i)
<1>1. RoundsInv /\ [RoundsNext]_roundsVars => Step
  <2> SUFFICES ASSUME RoundsInv, [RoundsNext]_roundsVars, NEW i \in running,
                      NEW l \in running \ {i}, Hears(i, l),
                      heard'[i] < Configured[i].election_timeout_min
               PROVE  Loyal(i)
    OBVIOUS
  <2>1. i \in Server /\ l \in Server /\ l # i
    BY DEF RoundsInv, MailInv
  <2> QED BY <2>1, StepsAreLoyal
<1>2. RoundsInv /\ [RoundsNext]_roundsVars => [Step]_roundsVars
  BY <1>1
<1>3. FollowersAreLoyal <=> [][Step]_roundsVars
  BY DEF FollowersAreLoyal, Loyal
<1> QED BY <1>2, <1>3, RoundsInvariance, PTL DEF RoundsSpec

-----------------------------------------------------------------------------
(* What a step has the application do. *)

(* Snapshot, application and hints stay as they are. *)
Still(n, m) ==
    /\ m.log.base_index = n.log.base_index
    /\ m.last_applied = n.last_applied /\ m.app = n.app /\ m.hints = n.hints

(* More is applied, and an index that has been is hinted at. *)
Onward(n, m) ==
    /\ m.log.base_index = n.log.base_index
    /\ n.last_applied <= m.last_applied /\ n.app \subseteq m.app
    /\ \A a \in m.app \ n.app : n.last_applied < a.index /\ a.index <= m.last_applied
    /\ m.hints \subseteq n.hints \cup {m.last_applied}

Organs == {"log", "last_applied", "app", "hints"}

LEMMA NodeOrgans == ASSUME NEW n \in NodeRecord PROVE Organs \subseteq DOMAIN n
BY DEF NodeRecord, Organs

LEMMA StillIsOnward ==
    ASSUME NEW n \in NodeRecord, NEW m, Still(n, m) PROVE Onward(n, m)
BY NodeFields DEF Still, Onward

LEMMA OnwardStill ==
    ASSUME NEW n, NEW m, NEW k, Onward(n, m), Still(m, k) PROVE Onward(n, k)
BY DEF Still, Onward

LEMMA StillOnward ==
    ASSUME NEW n, NEW m, NEW k, Still(n, m), Onward(m, k) PROVE Onward(n, k)
BY DEF Still, Onward

LEMMA StillStill ==
    ASSUME NEW n, NEW m, NEW k, Still(n, m), Still(m, k) PROVE Still(n, k)
BY DEF Still

(* Functions that leave all this alone. *)
LEMMA SyncStill == ASSUME NEW n \in NodeRecord PROVE Still(n, Sync(n))
BY NodeOrgans DEF Sync, Still, Organs

LEMMA StoreStill ==
    ASSUME NEW n \in NodeRecord, NEW log,
           log.base_index = n.log.base_index
    PROVE  Still(n, Sync([n EXCEPT !.log = log]))
<1> DEFINE a == [n EXCEPT !.log = log]
<1>1. Organs \subseteq DOMAIN a /\ Still(n, a)
  BY NodeOrgans DEF Still, Organs
<1> HIDE DEF a
<1>2. Still(n, Sync(a))
  BY <1>1 DEF Sync, Still, Organs
<1> QED BY <1>2 DEF a

(* What is done to the tail of a log leaves its snapshot alone. *)
LEMMA TailOnly ==
    ASSUME NEW log \in Log
    PROVE  /\ \A new : AppendTo(log, new).base_index = log.base_index
           /\ \A from : Truncate(log, from).base_index = log.base_index
           /\ \A t, v : SetHardState(log, t, v).base_index = log.base_index
BY DEF Log, AppendTo, Truncate, SetHardState

LEMMA PersistStill == ASSUME NEW n \in NodeRecord PROVE Still(n, PersistHardState(n))
<1>1. n.log \in Log
  BY NodeFields
<1> QED BY <1>1, TailOnly, StoreStill DEF PersistHardState

LEMMA RebuildProgressStill ==
    ASSUME NEW n \in NodeRecord PROVE Still(n, RebuildProgress(n))
BY NodeOrgans DEF RebuildProgress, Still, Organs

LEMMA SetConfigStill ==
    ASSUME NEW n \in NodeRecord, NEW voters \in SUBSET Server, NEW index \in Nat
    PROVE  Still(n, SetConfig(n, voters, index))
<1> DEFINE a == [n EXCEPT !.voters = voters, !.config_index = index]
<1>1. a \in NodeRecord
  BY DEF NodeRecord
<1>2. Still(n, a)
  BY NodeOrgans DEF Still, Organs
<1> HIDE DEF a
<1>3. Still(n, RebuildProgress(a))
  BY <1>1, <1>2, RebuildProgressStill, StillStill
<1>4. SetConfig(n, voters, index) \in {a, RebuildProgress(a)}
  BY DEF SetConfig, a
<1> QED BY <1>2, <1>3, <1>4

LEMMA RefreshConfigStill == ASSUME NEW n \in NodeRecord PROVE Still(n, RefreshConfig(n))
<1>1. /\ ConfigAt(n.log, LastIndex(n.log), n.base_config) \in SUBSET Server
      /\ ConfigIndexAt(n.log, LastIndex(n.log)) \in Nat
  BY NodeFields, LogFields, ConfigTyped
<1> QED BY <1>1, SetConfigStill DEF RefreshConfig

LEMMA ProgressUpdateStill ==
    ASSUME NEW n \in NodeRecord, NEW p, NEW pr
    PROVE  Still(n, [n EXCEPT !.progress[p] = pr])
BY NodeOrgans DEF Still, Organs

LEMMA SendStill ==
    ASSUME NEW n \in NodeRecord, NEW messages PROVE Still(n, Send(n, messages))
BY NodeOrgans DEF Send, Still, Organs

LEMMA SendAppendStill ==
    ASSUME NEW n \in NodeRecord, NEW peers PROVE Still(n, SendAppend(n, peers))
BY NodeOrgans DEF SendAppend, Still, Organs

LEMMA ReplicateStill ==
    ASSUME NEW n \in NodeRecord
    PROVE  Still(n, ReplicateToAll(n)) /\ Still(n, ReplicateToStreaming(n))
BY SendAppendStill DEF ReplicateToAll, ReplicateToStreaming

LEMMA StepDownStill ==
    ASSUME NEW n \in NodeRecord PROVE Still(n, StepDownToFollower(n))
BY NodeOrgans DEF StepDownToFollower, Still, Organs

LEMMA AcceptLeaderStill ==
    ASSUME NEW n \in NodeRecord, NEW m PROVE Still(n, AcceptLeader(n, m))
BY NodeOrgans DEF AcceptLeader, Still, Organs

LEMMA MaybeSendTimeoutNowStill ==
    ASSUME NEW n \in NodeRecord, NEW target PROVE Still(n, MaybeSendTimeoutNow(n, target))
<1> DEFINE a == [n EXCEPT !.transfer_target = None]
<1>1. Organs \subseteq DOMAIN a /\ Still(n, a)
  BY NodeOrgans DEF Still, Organs
<1> HIDE DEF a
<1>2. \A messages : Still(n, Send(a, messages))
  BY <1>1 DEF Send, Still, Organs
<1>3. Still(n, n)
  BY DEF Still
<1> QED BY <1>2, <1>3 DEF MaybeSendTimeoutNow, a

LEMMA TransferLeadershipStill ==
    ASSUME NEW n \in NodeRecord, NEW target \in Server
    PROVE  Still(n, TransferLeadership(n, target))
<1> DEFINE a == [n EXCEPT !.transfer_target = target]
           b == MaybeSendTimeoutNow(a, target)
<1>1. a \in NodeRecord
  BY DEF NodeRecord
<1>2. Still(n, a)
  BY NodeOrgans DEF Still, Organs
<1> HIDE DEF a
<1>3. b \in NodeRecord /\ Still(n, b)
  BY <1>1, <1>2, MaybeSendTimeoutNowTyped, MaybeSendTimeoutNowStill, StillStill
<1> HIDE DEF b
<1>4. \A peers : Still(n, SendAppend(b, peers))
  BY <1>3, SendAppendStill, StillStill
<1>5. Still(n, n)
  BY DEF Still
<1> QED BY <1>4, <1>5 DEF TransferLeadership, b, a

LEMMA BecomeFollowerStill ==
    ASSUME NEW n \in NodeRecord, NEW term \in Nat
    PROVE  Still(n, BecomeFollower(n, term, None))
<1> DEFINE a == [n EXCEPT !.role = "Follower", !.leader_id = None,
                          !.transfer_target = None, !.pre_voting = FALSE,
                          !.pre_votes = {}, !.votes = {},
                          !.progress = NoProgress, !.ripe = FALSE]
           b == [a EXCEPT !.current_term = term, !.voted_for = None]
<1>1. a \in NodeRecord
  BY DEF NodeRecord, Role, NoProgress
<1>2. Still(n, a)
  BY NodeOrgans DEF Still, Organs
<1> HIDE DEF a
<1>3. b \in NodeRecord
  BY <1>1 DEF NodeRecord
<1>4. Still(a, b)
  BY <1>1, NodeOrgans DEF Still, Organs
<1> HIDE DEF b
<1>5. Still(n, PersistHardState(b))
  BY <1>2, <1>3, <1>4, PersistStill, StillStill
<1>6. BecomeFollower(n, term, None) \in {a, PersistHardState(b)}
  BY DEF BecomeFollower, b, a
<1> QED BY <1>2, <1>5, <1>6

LEMMA AdoptTermStill ==
    ASSUME NEW n \in NodeRecord, NEW term \in Nat PROVE Still(n, AdoptTerm(n, term))
<1>1. Still(n, n)
  BY DEF Still
<1> QED BY <1>1, BecomeFollowerStill DEF AdoptTerm

LEMMA StoreEntriesStill ==
    ASSUME NEW n \in NodeRecord, NEW m \in Message, m.kind = "AppendEntries"
    PROVE  Still(n, StoreEntries(n, m))
<1> DEFINE a == AppendFromLeader(n, m)
<1>1. Still(n, n) /\ n.log \in Log
  BY NodeFields DEF Still
<1>2. a = n \/ \E log : /\ a = Sync([n EXCEPT !.log = log])
                        /\ log.base_index = n.log.base_index
  <2> DEFINE next == m.prev_log_index + MatchingPrefix(n, m) + 1
             kept == IF Diverges(n, m) THEN Truncate(n.log, next) ELSE n.log
             missing == SubSeq(m.entries, MatchingPrefix(n, m) + 1, Len(m.entries))
  <2>1. a = n \/ a = Sync([n EXCEPT !.log = AppendTo(kept, missing)])
    BY DEF AppendFromLeader
  <2>2. DOMAIN kept = DOMAIN n.log
    BY DEF Truncate
  <2>3. kept.base_index = n.log.base_index
    BY <1>1, TailOnly
  <2>4. "base_index" \in DOMAIN kept
    BY <1>1, <2>2 DEF Log
  <2> HIDE DEF kept, missing, a
  <2>5. AppendTo(kept, missing).base_index = n.log.base_index
    BY <2>3, <2>4 DEF AppendTo
  <2> QED BY <2>1, <2>5
<1>3. a \in NodeRecord
  BY AppendFromLeaderTyped
<1>4. Still(n, a)
  <2> HIDE DEF a
  <2> QED BY <1>1, <1>2, StoreStill
<1>5. StoreEntries(n, m) \in {a, RefreshConfig(a)}
  BY DEF StoreEntries
<1> HIDE DEF a
<1>6. Still(n, RefreshConfig(a))
  BY <1>3, <1>4, RefreshConfigStill, StillStill
<1> QED BY <1>4, <1>5, <1>6

(* Applying what is committed. *)
LEMMA HintOnward ==
    ASSUME NEW n, NEW m, Organs \subseteq DOMAIN m, Onward(n, m)
    PROVE  Onward(n, MaybeHintSnapshot(m))
BY DEF MaybeHintSnapshot, Onward, Organs

LEMMA DrainOnward == ASSUME NEW n \in NodeRecord PROVE Onward(n, DrainApplies(n))
<1> DEFINE c   == n.commit_index
           la  == n.last_applied
           due == {k \in la + 1 .. c : HasEntry(n.log, k) /\ EntryAt(n.log, k).kind = "Normal"}
           add == {[index |-> k, command |-> EntryAt(n.log, k).body] : k \in due}
           top == Larger(la, c)
           m   == [n EXCEPT !.last_applied = top, !.app = @ \cup add]
<1>1. c \in Nat /\ la \in Nat
  BY NodeFields
<1>2. la <= top /\ c <= top
  BY <1>1 DEF Larger
<1>3. \A a \in add : la < a.index /\ a.index <= top
  <2> SUFFICES ASSUME NEW k \in due PROVE la < k /\ k <= top
    OBVIOUS
  <2>1. k \in la + 1 .. c
    OBVIOUS
  <2> HIDE DEF due
  <2> QED BY <1>1, <1>2, <2>1 DEF Larger
<1> HIDE DEF add, top
<1>4. /\ Organs \subseteq DOMAIN m /\ m.log = n.log /\ m.last_applied = top
      /\ m.app = n.app \cup add /\ m.hints = n.hints
  BY NodeOrgans DEF Organs
<1> HIDE DEF m
<1>5. Onward(n, m)
  BY <1>2, <1>3, <1>4 DEF Onward
<1>6. DrainApplies(n) = MaybeHintSnapshot(m)
  BY Zenon DEF DrainApplies, m, top, add
<1> QED BY <1>4, <1>5, <1>6, HintOnward

LEMMA AdvanceCommitOnward ==
    ASSUME NEW n \in NodeRecord PROVE Onward(n, AdvanceCommit(n))
<1>0. Onward(n, n)
  BY NodeFields DEF Onward
<1>1. CASE Committable(n) = {}
  BY <1>0, <1>1 DEF AdvanceCommit
<1>2. CASE Committable(n) # {}
  <2> DEFINE m == [n EXCEPT !.commit_index = Max(Committable(n))]
             d == DrainApplies(m)
  <2>1. Max(Committable(n)) \in Nat
    <3>1. /\ Committable(n) \subseteq Int
          /\ \A k \in Committable(n) : k <= LastIndex(n.log) /\ k \in Nat
      BY NodeFields, LogFields DEF Committable
    <3>2. LastIndex(n.log) \in Int
      BY NodeFields, LogFields
    <3>3. Max(Committable(n)) \in Committable(n)
      BY <1>2, <3>1, <3>2, MaxExists, Zenon
    <3> QED BY <3>1, <3>3
  <2>2. m \in NodeRecord
    BY <2>1 DEF NodeRecord
  <2>3. Still(n, m)
    BY NodeOrgans DEF Still, Organs
  <2> HIDE DEF m
  <2>4. d \in NodeRecord /\ Onward(n, d)
    BY <2>2, <2>3, DrainAppliesTyped, DrainOnward, StillOnward
  <2> HIDE DEF d
  <2>5. Onward(n, StepDownToFollower(d))
    BY <2>4, StepDownStill, OnwardStill
  <2>6. AdvanceCommit(n) \in {d, StepDownToFollower(d)}
    BY <1>2 DEF AdvanceCommit, d, m
  <2> QED BY <2>4, <2>5, <2>6
<1> QED BY <1>1, <1>2

LEMMA RoundOnward ==
    ASSUME NEW n \in NodeRecord
    PROVE  /\ Onward(n, AdvanceCommit(ReplicateToAll(n)))
           /\ Onward(n, AdvanceCommit(ReplicateToStreaming(n)))
<1>1. ReplicateToAll(n) \in NodeRecord /\ ReplicateToStreaming(n) \in NodeRecord
  BY ReplicateTyped
<1> QED BY <1>1, ReplicateStill, AdvanceCommitOnward, StillOnward

LEMMA AdoptCommitOnward ==
    ASSUME NEW n \in NodeRecord, NEW m \in Message, m.kind = "AppendEntries",
           NEW covered \in Nat
    PROVE  Onward(n, AdoptCommit(n, m, covered))
<1> DEFINE index == Smaller(m.leader_commit, covered)
           a == [n EXCEPT !.commit_index = index]
<1>1. index \in Nat
  BY AppendEntriesFields, SmallerLarger
<1> HIDE DEF index
<1>2. a \in NodeRecord
  BY <1>1 DEF NodeRecord
<1>3. Still(n, a)
  BY NodeOrgans DEF Still, Organs
<1> HIDE DEF a
<1>4. Onward(n, DrainApplies(a))
  BY <1>2, <1>3, DrainOnward, StillOnward
<1>5. AdoptCommit(n, m, covered) \in {n, DrainApplies(a)}
  BY DEF AdoptCommit, a, index
<1>6. Onward(n, n)
  BY NodeFields DEF Onward
<1> QED BY <1>4, <1>5, <1>6

(* What an acknowledgement sets in motion. *)
LEMMA AfterAckOnward ==
    ASSUME NEW n \in NodeRecord, NEW p \in Server PROVE Onward(n, AfterAck(n, p))
<1> DEFINE advanced == AdvanceCommit(n)
           told     == MaybeSendTimeoutNow(advanced, p)
<1>1. advanced \in NodeRecord /\ Onward(n, advanced)
  BY AdvanceCommitTyped, AdvanceCommitOnward
<1> HIDE DEF advanced
<1>2. told \in NodeRecord /\ Onward(n, told)
  BY <1>1, MaybeSendTimeoutNowTyped, MaybeSendTimeoutNowStill, OnwardStill
<1> HIDE DEF told
<1>3. Onward(n, SendAppend(told, {p}))
  BY <1>2, SendAppendStill, OnwardStill
<1> QED BY <1>2, <1>3 DEF AfterAck, told, advanced

LEMMA HandleAppendReplyOnward ==
    ASSUME NEW n \in NodeRecord, NEW m \in Message, m.kind = "AppendEntriesReply"
    PROVE  Onward(n, HandleAppendReply(n, m))
<1> DEFINE p     == m.from
           old   == n.progress[p]
           match == Larger(old.match_index, m.match_index)
           acked == [next_index  |-> Larger(old.next_index, match + 1),
                     match_index |-> match, state |-> "Replicate"]
           rejected == [old EXCEPT !.next_index = RejectedNext(n, m), !.state = "Probe"]
<1>0. Onward(n, n)
  BY NodeFields DEF Onward
<1>1. CASE ~ Heeds(n, m)
  BY <1>0, <1>1 DEF HandleAppendReply
<1>2. CASE Heeds(n, m)
  <2>1. p \in Tracked(n) /\ p \in Server
    BY <1>2, MessageFields DEF Heeds
  <2>2. old \in Progress /\ old.next_index \in Nat /\ old.match_index \in Nat
    BY <2>1, TrackedTyped
  <2>3. match \in Nat
    BY <2>2, AppendReplyFields, SmallerLarger
  <2> HIDE DEF match
  <2>4. acked \in Progress
    <3>1. Larger(old.next_index, match + 1) \in Nat
      BY <2>2, <2>3, SmallerLarger
    <3> QED BY <2>3, <3>1 DEF Progress
  <2>5. rejected \in Progress
    BY <2>1, <2>2, RejectedNextTyped DEF Progress
  <2> HIDE DEF acked, rejected
  <2>6. \A pr \in Progress : /\ [n EXCEPT !.progress[p] = pr] \in NodeRecord
                             /\ Still(n, [n EXCEPT !.progress[p] = pr])
    BY <2>1, ProgressUpdateTyped, ProgressUpdateStill
  <2>7. Onward(n, AfterAck([n EXCEPT !.progress[p] = acked], p))
    BY <2>1, <2>4, <2>6, AfterAckOnward, StillOnward
  <2>8. Onward(n, SendAppend([n EXCEPT !.progress[p] = rejected], {p}))
    <3>1. Onward(n, [n EXCEPT !.progress[p] = rejected])
      BY <2>5, <2>6, StillIsOnward
    <3> QED BY <2>5, <2>6, <3>1, SendAppendStill, OnwardStill
  <2>9. HandleAppendReply(n, m) =
            IF m.success THEN AfterAck([n EXCEPT !.progress[p] = acked], p)
            ELSE SendAppend([n EXCEPT !.progress[p] = rejected], {p})
    BY <1>2 DEF HandleAppendReply, acked, rejected, match
  <2> QED BY <2>7, <2>8, <2>9
<1> QED BY <1>1, <1>2

LEMMA HandleInstallSnapshotReplyOnward ==
    ASSUME NEW n \in NodeRecord, NEW m \in Message, m.kind = "InstallSnapshotReply"
    PROVE  Onward(n, HandleInstallSnapshotReply(n, m))
<1> DEFINE p     == m.from
           match == Larger(n.progress[p].match_index, m.last_index)
           acked == [next_index |-> match + 1, match_index |-> match,
                     state |-> "Replicate"]
<1>0. Onward(n, n)
  BY NodeFields DEF Onward
<1>1. CASE ~ Heeds(n, m)
  BY <1>0, <1>1 DEF HandleInstallSnapshotReply
<1>2. CASE Heeds(n, m)
  <2>1. p \in Tracked(n) /\ p \in Server
    BY <1>2, MessageFields DEF Heeds
  <2>2. match \in Nat
    BY <2>1, TrackedTyped, InstallSnapshotReplyFields, SmallerLarger
  <2> HIDE DEF match
  <2>3. acked \in Progress
    BY <2>2 DEF Progress
  <2> HIDE DEF acked
  <2>4. /\ [n EXCEPT !.progress[p] = acked] \in NodeRecord
        /\ Still(n, [n EXCEPT !.progress[p] = acked])
    BY <2>1, <2>3, ProgressUpdateTyped, ProgressUpdateStill
  <2>5. Onward(n, AfterAck([n EXCEPT !.progress[p] = acked], p))
    BY <2>1, <2>4, AfterAckOnward, StillOnward
  <2>6. HandleInstallSnapshotReply(n, m) = AfterAck([n EXCEPT !.progress[p] = acked], p)
    BY <1>2 DEF HandleInstallSnapshotReply, acked, match
  <2> QED BY <2>5, <2>6
<1> QED BY <1>1, <1>2

(* Requests. *)
LEMMA ProposeOnward ==
    ASSUME NEW n \in NodeRecord, NEW v \in Value PROVE Onward(n, Propose(n, v))
<1> DEFINE log    == AppendTo(n.log, << NormalEntry(n.current_term, v) >>)
           stored == Sync([n EXCEPT !.log = log])
<1>1. << NormalEntry(n.current_term, v) >> \in Seq(LogEntry)
  <2>1. NormalEntry(n.current_term, v) \in LogEntry
    BY NodeFields DEF NormalEntry, LogEntry
  <2> QED BY <2>1
<1>2. /\ log \in Log /\ log.base_index = n.log.base_index
  BY <1>1, NodeFields, AppendToTyped, TailOnly
<1> HIDE DEF log
<1>3. stored \in NodeRecord /\ Still(n, stored)
  BY <1>2, StoreTyped, StoreStill
<1> HIDE DEF stored
<1>4. Onward(n, AdvanceCommit(ReplicateToStreaming(stored)))
  BY <1>3, RoundOnward, StillOnward
<1> QED BY <1>4 DEF Propose, stored, log

LEMMA ChangeMembershipOnward ==
    ASSUME NEW n \in NodeRecord, NEW members \in SUBSET Server
    PROVE  Onward(n, ChangeMembership(n, members))
<1> DEFINE log    == AppendTo(n.log, << ConfigEntry(n.current_term, members) >>)
           stored == Sync([n EXCEPT !.log = log])
           config == SetConfig(stored, members, LastIndex(stored.log))
<1>0. Onward(n, n)
  BY NodeFields DEF Onward
<1>1. << ConfigEntry(n.current_term, members) >> \in Seq(LogEntry)
  <2>1. ConfigEntry(n.current_term, members) \in LogEntry
    BY NodeFields DEF ConfigEntry, LogEntry
  <2> QED BY <2>1
<1>2. /\ log \in Log /\ log.base_index = n.log.base_index
  BY <1>1, NodeFields, AppendToTyped, TailOnly
<1> HIDE DEF log
<1>3. stored \in NodeRecord /\ Still(n, stored)
  BY <1>2, StoreTyped, StoreStill
<1> HIDE DEF stored
<1>4. config \in NodeRecord /\ Still(n, config)
  <2>1. LastIndex(stored.log) \in Nat
    BY <1>3, NodeFields, LogFields
  <2> QED BY <1>3, <2>1, SetConfigTyped, SetConfigStill, StillStill
<1> HIDE DEF config
<1>5. Onward(n, AdvanceCommit(ReplicateToAll(config)))
  BY <1>4, RoundOnward, StillOnward
<1> QED BY <1>0, <1>5 DEF ChangeMembership, config, stored, log

(* Elections. *)
LEMMA BecomeLeaderOnward ==
    ASSUME NEW n \in NodeRecord PROVE Onward(n, BecomeLeader(n))
<1> DEFINE a == [n EXCEPT !.role = "Leader", !.leader_id = n.id,
                          !.transfer_target = None, !.pre_voting = FALSE,
                          !.pre_votes = {}]
<1>1. a \in NodeRecord
  BY DEF NodeRecord, Role
<1>2. Still(n, a)
  BY NodeOrgans DEF Still, Organs
<1> HIDE DEF a
<1>3. RebuildProgress(a) \in NodeRecord /\ Still(n, RebuildProgress(a))
  BY <1>1, <1>2, RebuildProgressTyped, RebuildProgressStill, StillStill
<1>4. Onward(n, AdvanceCommit(ReplicateToAll(RebuildProgress(a))))
  BY <1>3, RoundOnward, StillOnward
<1> QED BY <1>4 DEF BecomeLeader, a

LEMMA StartElectionOnward ==
    ASSUME NEW n \in NodeRecord, NEW force \in BOOLEAN
    PROVE  Onward(n, StartElection(n, force))
<1> DEFINE a == [n EXCEPT !.role = "Candidate", !.current_term = @ + 1,
                          !.voted_for = n.id, !.leader_id = None,
                          !.transfer_target = None, !.pre_voting = FALSE,
                          !.pre_votes = {}, !.progress = NoProgress,
                          !.votes = {n.id}, !.ripe = FALSE]
           d == PersistHardState(a)
<1>1. a \in NodeRecord
  BY CampaignTyped
<1>2. Still(n, a)
  BY NodeOrgans, ZenonT(60) DEF Still, Organs
<1> HIDE DEF a
<1>3. d \in NodeRecord /\ Still(n, d)
  BY <1>1, <1>2, PersistHardStateTyped, PersistStill, StillStill
<1> HIDE DEF d
<1>4. Onward(n, BecomeLeader(d))
  BY <1>3, BecomeLeaderOnward, StillOnward
<1>5. Onward(n, d)
  BY <1>3, StillIsOnward
<1>6. Onward(n, Send(d, RequestVotes(d, force)))
  BY <1>3, <1>5, SendStill, OnwardStill
<1> QED BY <1>4, <1>6 DEF StartElection, d, a

LEMMA StartPreVoteOnward ==
    ASSUME NEW n \in NodeRecord PROVE Onward(n, StartPreVote(n))
<1> DEFINE a == [n EXCEPT !.role = "Follower", !.leader_id = None,
                          !.pre_voting = TRUE, !.pre_votes = {n.id}]
<1>1. a \in NodeRecord
  BY DEF NodeRecord, Role
<1>2. Still(n, a)
  BY NodeOrgans DEF Still, Organs
<1> HIDE DEF a
<1>3. Onward(n, StartElection(a, FALSE))
  BY <1>1, <1>2, StartElectionOnward, StillOnward
<1>4. Onward(n, Send(a, PreVotes(a)))
  BY <1>1, <1>2, SendStill, StillStill, StillIsOnward
<1> QED BY <1>3, <1>4 DEF StartPreVote, a

LEMMA HandlePreVoteOnward ==
    ASSUME NEW n \in NodeRecord, NEW m, NEW ripe
    PROVE  Onward(n, HandlePreVote(n, m, ripe))
BY SendStill, StillIsOnward DEF HandlePreVote

LEMMA HandlePreVoteReplyOnward ==
    ASSUME NEW n \in NodeRecord, NEW m \in Message
    PROVE  Onward(n, HandlePreVoteReply(n, m))
<1> DEFINE a == [n EXCEPT !.pre_votes = @ \cup {m.from}]
<1>1. m.from \in Server /\ m.term \in Nat
  BY MessageFields
<1>2. a \in NodeRecord
  BY <1>1 DEF NodeRecord
<1>3. Still(n, a)
  BY NodeOrgans DEF Still, Organs
<1> HIDE DEF a
<1>4. Onward(n, a) /\ Onward(n, StartElection(a, FALSE))
  BY <1>2, <1>3, StartElectionOnward, StillOnward, StillIsOnward
<1>5. Onward(n, BecomeFollower(n, m.term, None))
  BY <1>1, BecomeFollowerStill, StillIsOnward
<1>6. Onward(n, n)
  BY NodeFields DEF Onward
<1> QED BY <1>4, <1>5, <1>6 DEF HandlePreVoteReply, a

LEMMA HandleRequestVoteOnward ==
    ASSUME NEW n \in NodeRecord, NEW m \in Message
    PROVE  Onward(n, HandleRequestVote(n, m))
<1> DEFINE a == [n EXCEPT !.voted_for = m.from]
<1>1. a \in NodeRecord
  BY MessageFields DEF NodeRecord
<1>2. Still(n, a)
  BY NodeOrgans DEF Still, Organs
<1> HIDE DEF a
<1>3. PersistHardState(a) \in NodeRecord /\ Still(n, PersistHardState(a))
  BY <1>1, <1>2, PersistHardStateTyped, PersistStill, StillStill
<1>4. \A messages : /\ Still(n, Send(PersistHardState(a), messages))
                    /\ Still(n, Send(n, messages))
  BY <1>3, SendStill, StillStill
<1>5. \E messages : HandleRequestVote(n, m) \in {Send(PersistHardState(a), messages),
                                                 Send(n, messages)}
  BY DEF HandleRequestVote, a
<1>6. Still(n, HandleRequestVote(n, m))
  BY <1>4, <1>5
<1> QED BY <1>6, StillIsOnward

LEMMA HandleVoteReplyOnward ==
    ASSUME NEW n \in NodeRecord, NEW m \in Message, NEW ripe \in BOOLEAN
    PROVE  Onward(n, HandleVoteReply(n, m, ripe))
<1> DEFINE a == [n EXCEPT !.votes = @ \cup {m.from}]
           b == [a EXCEPT !.ripe = ripe]
<1>1. a \in NodeRecord
  BY MessageFields DEF NodeRecord
<1>2. Still(n, a)
  BY NodeOrgans DEF Still, Organs
<1> HIDE DEF a
<1>3. b \in NodeRecord
  BY <1>1 DEF NodeRecord
<1>4. Still(a, b)
  BY <1>1, NodeOrgans DEF Still, Organs
<1> HIDE DEF b
<1>5. Onward(n, a) /\ Still(n, b)
  BY <1>2, <1>4, StillIsOnward, StillStill
<1>6. Onward(n, BecomeLeader(b))
  BY <1>3, <1>5, BecomeLeaderOnward, StillOnward
<1>7. Onward(n, n)
  BY NodeFields DEF Onward
<1> QED BY <1>5, <1>6, <1>7 DEF HandleVoteReply, a, b

LEMMA HandleTimeoutNowOnward ==
    ASSUME NEW n \in NodeRecord, NEW m PROVE Onward(n, HandleTimeoutNow(n, m))
<1>1. Onward(n, n)
  BY NodeFields DEF Onward
<1> QED BY <1>1, StartElectionOnward DEF HandleTimeoutNow

(* Messages of a leader. *)
LEMMA HandleAppendEntriesOnward ==
    ASSUME NEW n \in NodeRecord, NEW m \in Message, m.kind = "AppendEntries"
    PROVE  Onward(n, HandleAppendEntries(n, m))
<1> DEFINE base  == n.log.base_index
           match == m.prev_log_index + Len(m.entries)
           ours  == AcceptLeader(n, m)
<1>1. base \in Nat /\ match \in Nat
  BY NodeFields, LogFields, AppendEntriesFields
<1>2. ours \in NodeRecord /\ Still(n, ours)
  BY AcceptLeaderTyped, AcceptLeaderStill
<1> HIDE DEF match, ours
<1>3. Onward(n, n) /\ Onward(n, ours)
  BY <1>2, StillIsOnward, NodeFields DEF Onward
<1>4. /\ AdoptCommit(ours, m, base) \in NodeRecord
      /\ Onward(n, AdoptCommit(ours, m, base))
  BY <1>1, <1>2, AdoptCommitTyped, AdoptCommitOnward, StillOnward
<1>5. /\ AdoptCommit(StoreEntries(ours, m), m, match) \in NodeRecord
      /\ Onward(n, AdoptCommit(StoreEntries(ours, m), m, match))
  <2> DEFINE z == StoreEntries(ours, m)
  <2>1. z \in NodeRecord /\ Still(n, z)
    BY <1>2, StoreEntriesTyped, StoreEntriesStill, StillStill
  <2> HIDE DEF z
  <2>2. /\ AdoptCommit(z, m, match) \in NodeRecord
        /\ Onward(n, AdoptCommit(z, m, match))
    BY <1>1, <2>1, AdoptCommitTyped, AdoptCommitOnward, StillOnward
  <2> QED BY <2>2 DEF z
<1>6. \E a \in {n, ours, AdoptCommit(ours, m, base),
                AdoptCommit(StoreEntries(ours, m), m, match)} :
         \E messages : HandleAppendEntries(n, m) = Send(a, messages)
  <2>1. CASE m.term < n.current_term
    <3>1. HandleAppendEntries(n, m) = Send(n, AppendReply(n, m, FALSE, 0, 0, 0))
      BY <2>1 DEF HandleAppendEntries
    <3> QED BY <3>1
  <2>2. CASE ~ (m.term < n.current_term) /\ m.prev_log_index < base
    <3>1. HandleAppendEntries(n, m) = Send(AdoptCommit(ours, m, base),
                                           AppendReply(n, m, TRUE, base, 0, 0))
      BY <2>2 DEF HandleAppendEntries, ours
    <3> QED BY <3>1
  <2>3. CASE /\ ~ (m.term < n.current_term) /\ ~ (m.prev_log_index < base)
             /\ ~ PrevOk(n, m)
    <3>1. HandleAppendEntries(n, m) = Send(ours, ConflictReply(n, m))
      BY <2>3 DEF HandleAppendEntries, ours
    <3> QED BY <3>1
  <2>4. CASE /\ ~ (m.term < n.current_term) /\ ~ (m.prev_log_index < base)
             /\ PrevOk(n, m)
    <3>1. HandleAppendEntries(n, m) =
                Send(AdoptCommit(StoreEntries(ours, m), m, match),
                     AppendReply(n, m, TRUE, match, 0, 0))
      BY <2>4 DEF HandleAppendEntries, ours, match
    <3> QED BY <3>1
  <2> QED BY <2>1, <2>2, <2>3, <2>4
<1>7. PICK a \in {n, ours, AdoptCommit(ours, m, base),
                  AdoptCommit(StoreEntries(ours, m), m, match)} :
         \E messages : HandleAppendEntries(n, m) = Send(a, messages)
  BY <1>6
<1>8. a \in NodeRecord /\ Onward(n, a)
  BY <1>2, <1>3, <1>4, <1>5
<1> QED BY <1>7, <1>8, SendStill, OnwardStill

(* The snapshot a message carries takes the place of everything. *)
Installed(n, m, after) ==
    /\ m.kind = "InstallSnapshot"
    /\ after.log.base_index = m.snapshot.index /\ n.log.base_index < m.snapshot.index
    /\ after.last_applied = m.snapshot.index
    /\ after.hints = n.hints

LEMMA HandleInstallSnapshotInstalls ==
    ASSUME NEW n \in NodeRecord, NEW m \in Message, m.kind = "InstallSnapshot"
    PROVE  \/ Onward(n, HandleInstallSnapshot(n, m))
           \/ Installed(n, m, HandleInstallSnapshot(n, m))
<1> DEFINE snap == m.snapshot
           ours == AcceptLeader(n, m)
           log  == ApplySnapshot(n.log, snap)
           put  == [ours EXCEPT
                        !.base_config = IF snap.config = {} THEN @ ELSE snap.config,
                        !.log = ApplySnapshot(n.log, snap),
                        !.commit_index = snap.index,
                        !.last_applied = snap.index,
                        !.snapshot_hinted_at = Larger(@, snap.index),
                        !.app = snap.data]
           after == IF snap.index > n.log.base_index /\ snap.index > n.commit_index
                    THEN RefreshConfig(Sync(put)) ELSE ours
           s(k) == [kind |-> "InstallSnapshotReply", from |-> n.id, to |-> m.from,
                    term |-> n.current_term, last_index |-> k]
           z == Larger(after.log.base_index, Smaller(snap.index, after.commit_index))
<1>1. \E a \in {n, after} : \E messages : HandleInstallSnapshot(n, m) = Send(a, messages)
  <2>1. CASE m.term < n.current_term
    <3>1. HandleInstallSnapshot(n, m) = Send(n, {s(0)})
      BY <2>1, Zenon DEF HandleInstallSnapshot
    <3> HIDE DEF s, z, after
    <3> QED BY <3>1
  <2>2. CASE ~ (m.term < n.current_term)
    <3>1. HandleInstallSnapshot(n, m) = Send(after, {s(z)})
      BY <2>2, Zenon DEF HandleInstallSnapshot
    <3> HIDE DEF s, z, after
    <3> QED BY <3>1
  <2> QED BY <2>1, <2>2
<1>2. ours \in NodeRecord /\ Still(n, ours) /\ Onward(n, ours) /\ Onward(n, n)
  <2>1. ours \in NodeRecord /\ Still(n, ours)
    BY AcceptLeaderTyped, AcceptLeaderStill
  <2>2. Onward(n, n)
    BY NodeFields DEF Onward
  <2> HIDE DEF ours
  <2> QED BY <2>1, <2>2, StillIsOnward
<1> HIDE DEF ours
<1>3. /\ snap.index \in Nat /\ snap.config \in SUBSET Server
      /\ snap.data \in SUBSET Applied /\ snap \in Snapshot
  BY InstallSnapshotFields DEF Snapshot
<1>4. put \in NodeRecord
  <2>1. ApplySnapshot(n.log, snap) \in Log
    BY <1>3, NodeFields, ApplySnapshotTyped
  <2>2. Larger(ours.snapshot_hinted_at, snap.index) \in Nat
    BY <1>2, <1>3, NodeFields, SmallerLarger
  <2> HIDE DEF snap
  <2> QED BY <1>2, <1>3, <2>1, <2>2, ZenonT(60) DEF NodeRecord
<1>5. put.log = log /\ put.last_applied = snap.index /\ put.hints = n.hints
  <2>1. Organs \subseteq DOMAIN ours /\ ours.hints = n.hints
    BY <1>2, NodeOrgans DEF Still
  <2> HIDE DEF snap
  <2> QED BY <2>1, ZenonT(60) DEF Organs
<1> HIDE DEF put
<1>6. snap.index > n.log.base_index => log.base_index = snap.index
  <2>1. n.log \in Log /\ n.log.base_index \in Nat
    BY NodeFields, LogFields
  <2> HIDE DEF snap
  <2> QED BY <1>3, <2>1 DEF ApplySnapshot, Log
<1> HIDE DEF log
<1>7. Still(put, RefreshConfig(Sync(put))) /\ RefreshConfig(Sync(put)) \in NodeRecord
  BY <1>4, SyncTyped, SyncStill, RefreshConfigTyped, RefreshConfigStill, StillStill
<1>8. n.log.base_index \in Nat
  BY NodeFields, LogFields
<1>9. after \in NodeRecord /\ (Onward(n, after) \/ Installed(n, m, after))
  <2>1. CASE snap.index > n.log.base_index /\ snap.index > n.commit_index
    <3>1. after = RefreshConfig(Sync(put))
      BY <2>1
    <3>2. Still(put, after) /\ after \in NodeRecord
      BY <1>7, <3>1
    <3> HIDE DEF after
    <3>3. Installed(n, m, after)
      BY <1>3, <1>5, <1>6, <1>8, <2>1, <3>2 DEF Installed, Still
    <3> QED BY <3>2, <3>3
  <2>2. CASE ~ (snap.index > n.log.base_index /\ snap.index > n.commit_index)
    <3>1. after = ours
      BY <2>2
    <3> HIDE DEF after
    <3> QED BY <1>2, <3>1
  <2> QED BY <2>1, <2>2
<1> HIDE DEF after
<1>10. PICK a \in {n, after} : \E messages : HandleInstallSnapshot(n, m) = Send(a, messages)
  BY <1>1
<1>11. PICK messages : HandleInstallSnapshot(n, m) = Send(a, messages)
  BY <1>10
<1>12. a \in NodeRecord /\ (Onward(n, a) \/ Installed(n, m, a))
  BY <1>2, <1>9
<1>13. Still(a, Send(a, messages))
  BY <1>12, SendStill
<1>14. Installed(n, m, a) => Installed(n, m, Send(a, messages))
  BY <1>13 DEF Installed, Still
<1> QED BY <1>11, <1>12, <1>13, <1>14, OnwardStill

(* The application hands over what it holds, and the log may be compacted. *)
Answered(n, index, after) ==
    /\ after.log.base_index \in {n.log.base_index, index}
    /\ after.last_applied = n.last_applied /\ after.app = n.app
    /\ after.hints = n.hints \ {index}

LEMMA HandleSnapshotEventAnswers ==
    ASSUME NEW n \in NodeRecord, NEW index \in Nat
    PROVE  Answered(n, index, [HandleSnapshotEvent(n, index) EXCEPT !.hints = @ \ {index}])
<1> DEFINE m == HandleSnapshotEvent(n, index)
           config == ConfigAt(n.log, index, n.base_config)
           snap == [index |-> index, term |-> TermAt(n.log, index),
                    config |-> config, data |-> {a \in n.app : a.index <= index}]
           log  == ApplySnapshot(n.log, snap)
           hint == Larger(n.snapshot_hinted_at, index)
           put  == [n EXCEPT !.base_config = config, !.log = log,
                             !.snapshot_hinted_at = hint]
           Goes(k) == /\ k.log.base_index \in {n.log.base_index, index}
                      /\ k.last_applied = n.last_applied /\ k.app = n.app
                      /\ k.hints = n.hints
<1>1. Goes(n)
  OBVIOUS
<1>2. m \in {n, RefreshConfig(Sync(put))}
  BY DEF HandleSnapshotEvent
<1>3. m # n => TermAt(n.log, index) \in Nat /\ index > n.log.base_index
  <2>1. n.log.base_index \in Nat
    BY NodeFields, LogFields
  <2> QED BY <2>1, NodeFields, TermTyped DEF HandleSnapshotEvent
<1>4. TermAt(n.log, index) \in Nat => put \in NodeRecord
  <2> SUFFICES ASSUME TermAt(n.log, index) \in Nat PROVE put \in NodeRecord
    OBVIOUS
  <2>1. config \in SUBSET Server /\ {a \in n.app : a.index <= index} \in SUBSET Applied
    BY NodeFields, ConfigTyped
  <2> HIDE DEF config
  <2>2. snap \in Snapshot
    BY <2>1 DEF Snapshot
  <2> HIDE DEF snap
  <2>3. log \in Log /\ hint \in Nat
    BY <2>2, NodeFields, ApplySnapshotTyped, SmallerLarger
  <2> HIDE DEF log, hint
  <2> QED BY <2>1, <2>3 DEF NodeRecord
<1>5. index > n.log.base_index => log.base_index = index
  <2>1. n.log \in Log /\ n.log.base_index \in Nat /\ snap.index = index
    BY NodeFields, LogFields
  <2> HIDE DEF snap
  <2> QED BY <2>1 DEF ApplySnapshot, Log
<1>6. /\ put.log = log /\ put.last_applied = n.last_applied /\ put.app = n.app
      /\ put.hints = n.hints
  <2> HIDE DEF config, log, hint
  <2> QED BY NodeOrgans DEF Organs
<1>7. index > n.log.base_index => Goes(put)
  BY <1>5, <1>6
<1> HIDE DEF put, log
<1>8. put \in NodeRecord => Still(put, RefreshConfig(Sync(put)))
  BY SyncTyped, SyncStill, RefreshConfigStill, StillStill
<1>9. \A k : Goes(put) /\ Still(put, k) => Goes(k)
  BY DEF Still
<1>10. m \in NodeRecord
  BY HandleSnapshotEventTyped
<1> HIDE DEF m
<1>11. Goes(m)
  <2> HIDE DEF Goes
  <2> QED BY <1>1, <1>2, <1>3, <1>4, <1>7, <1>8, <1>9
<1>12. Answered(n, index, [m EXCEPT !.hints = @ \ {index}])
  BY <1>10, <1>11, NodeOrgans DEF Answered, Organs
<1> QED BY <1>12 DEF m

(* A message handled. *)
LEMMA HandleMessageServes ==
    ASSUME NEW n \in NodeRecord, NEW m \in Message, NEW ripe \in BOOLEAN
    PROVE  \/ Onward(n, HandleMessage(n, m, ripe))
           \/ Installed(n, m, HandleMessage(n, m, ripe))
<1> DEFINE k == AdoptTerm(n, m.term)
           a == HandleMessage(n, m, ripe)
<1>1. m.term \in Nat
  BY MessageFields
<1>2. k \in NodeRecord /\ Still(n, k)
  BY <1>1, AdoptTermTyped, AdoptTermStill
<1>3. Onward(n, n)
  BY NodeFields DEF Onward
<1>4. \A z : Onward(k, z) => Onward(n, z)
  BY <1>2, StillOnward
<1>5. \A z : Installed(k, m, z) => Installed(n, m, z)
  BY <1>2 DEF Installed, Still
<1>6. Onward(n, HandlePreVote(n, m, ripe)) /\ Onward(n, HandlePreVoteReply(n, m))
  BY HandlePreVoteOnward, HandlePreVoteReplyOnward
<1> HIDE DEF k
<1>7. /\ Onward(n, HandleRequestVote(k, m)) /\ Onward(n, HandleVoteReply(k, m, ripe))
      /\ Onward(n, HandleTimeoutNow(k, m))
  BY <1>2, <1>4, HandleRequestVoteOnward, HandleVoteReplyOnward, HandleTimeoutNowOnward
<1>8. /\ m.kind = "AppendEntries" => Onward(n, HandleAppendEntries(k, m))
      /\ m.kind = "AppendEntriesReply" => Onward(n, HandleAppendReply(k, m))
      /\ m.kind = "InstallSnapshotReply" => Onward(n, HandleInstallSnapshotReply(k, m))
  BY <1>2, <1>4, HandleAppendEntriesOnward, HandleAppendReplyOnward,
     HandleInstallSnapshotReplyOnward
<1>9. m.kind = "InstallSnapshot" => \/ Onward(n, HandleInstallSnapshot(k, m))
                                    \/ Installed(n, m, HandleInstallSnapshot(k, m))
  BY <1>2, <1>4, <1>5, HandleInstallSnapshotInstalls
<1>10. \/ a = n
       \/ a \in {HandlePreVote(n, m, ripe), HandlePreVoteReply(n, m),
                 HandleRequestVote(k, m), HandleVoteReply(k, m, ripe),
                 HandleTimeoutNow(k, m)}
       \/ m.kind = "AppendEntries" /\ a = HandleAppendEntries(k, m)
       \/ m.kind = "AppendEntriesReply" /\ a = HandleAppendReply(k, m)
       \/ m.kind = "InstallSnapshot" /\ a = HandleInstallSnapshot(k, m)
       \/ m.kind = "InstallSnapshotReply" /\ a = HandleInstallSnapshotReply(k, m)
  BY HandleMessageCases DEF k
<1> HIDE DEF a
<1>11. Onward(n, a) \/ Installed(n, m, a)
  BY <1>3, <1>6, <1>7, <1>8, <1>9, <1>10
<1> QED BY <1>11 DEF a

(* A tick. *)
LEMMA TickServes ==
    ASSUME NEW n \in NodeRecord, NEW t, Timed(n.id, t), NEW outcome \in Tick(n, t)
    PROVE  Onward(n, outcome[1])
<1>1. n.id \in Server
  BY NodeFields
<1>2. outcome[1] \in {n, TickTimeout(n), TickHeartbeat(n)}
  BY <1>1, TickTimed
<1>3. Onward(n, n)
  BY NodeFields DEF Onward
<1>4. Onward(n, TickTimeout(n))
  BY StartPreVoteOnward DEF TickTimeout
<1>5. Onward(n, TickHeartbeat(n))
  BY ReplicateStill, StillIsOnward DEF TickHeartbeat
<1> QED BY <1>2, <1>3, <1>4, <1>5

(* Node i steps to m, and its application with it. *)
Serves(i, m) ==
    /\ Local(i, m) /\ node[i].hints = {}
    /\ store' = [store EXCEPT ![i] = Executed(@, node[i], m)]
    /\ images' = images
    /\ Onward(node[i], m) \/ \E s \in wire : Installed(node[i], s, m)

LEMMA RoundsServe ==
    ASSUME RoundsInv, [RoundsNext]_roundsVars
    PROVE  \/ UNCHANGED <<vars, store, images>>
           \/ \E i \in running : \E m : Serves(i, m)
           \/ \E i \in running : AnswerHint(i)
<1> DEFINE Good == \/ UNCHANGED <<vars, store, images>>
                   \/ \E i \in running : \E m : Serves(i, m)
                   \/ \E i \in running : AnswerHint(i)
<1>1. /\ running \subseteq Server /\ Targets \subseteq Server
      /\ \A i \in Server : /\ node[i] \in NodeRecord /\ node[i].id = i
                           /\ Timed(i, timer[i]) /\ Ripe(i, timer[i]) \in BOOLEAN
      /\ wire \subseteq Message
  BY BoundsAssumption DEF RoundsInv, MailInv, LawfulInv, Inv, TypeOK, ClockInv, Ripe
<1>2. ASSUME NEW i \in running, NoHints, images' = images, NEW m, NEW boxes,
             Absorb(i, m, boxes),
             Onward(node[i], m) \/ \E s \in wire : Installed(node[i], s, m)
      PROVE  Good
  <2>1. Serves(i, m)
    BY <1>2 DEF Serves, Absorb, NoHints
  <2> QED BY <2>1
<1> HIDE DEF Good
<1>3. ASSUME NEW i \in running, TickNode(i) PROVE Good
  <2>1. PICK outcome \in Tick(node[i], timer[i]) : Absorb(i, outcome[1], mailbox)
    BY <1>3 DEF TickNode
  <2>2. Onward(node[i], outcome[1])
    BY <1>1, TickServes
  <2>3. NoHints /\ images' = images
    BY <1>3 DEF TickNode
  <2> QED BY <1>2, <2>1, <2>2, <2>3
<1>4. ASSUME NEW i \in running, Deliver(i) PROVE Good
  <2> DEFINE r == Head(mailbox[i])
             a == HandleMessage(node[i], r, Ripe(i, timer[i]))
             boxes == [mailbox EXCEPT ![i] = Tail(@)]
  <2>1. Absorb(i, a, boxes)
    BY <1>1, <1>4, DeliverKeepsClocks
  <2>2. r \in wire
    BY <1>1, <1>4, TakenMail DEF RoundsInv, Deliver
  <2> HIDE DEF r
  <2>3. Onward(node[i], a) \/ Installed(node[i], r, a)
    BY <1>1, <2>2, HandleMessageServes
  <2>4. NoHints /\ images' = images
    BY <1>4 DEF Deliver
  <2> HIDE DEF a, boxes
  <2> QED BY <1>2, <2>1, <2>2, <2>3, <2>4
<1>5. ASSUME NEW i \in running, NoHints, NEW m, Request(i, m), Onward(node[i], m)
      PROVE  Good
  BY <1>2, <1>5 DEF Request
<1>6. ASSUME NEW i \in running, NEW c \in Value, Write(i, c) PROVE Good
  <2>1. NoHints /\ Request(i, Propose(node[i], c))
    BY <1>6 DEF Write, MayCall
  <2> QED BY <1>1, <1>5, <2>1, ProposeOnward
<1>7. ASSUME NEW i \in running, NEW s \in Server, Join(i, s) PROVE Good
  <2> DEFINE members == node[i].voters \cup {s}
  <2>1. NoHints /\ Request(i, ChangeMembership(node[i], members))
    BY <1>7 DEF Join, MayCall
  <2>2. members \in SUBSET Server
    BY <1>1, NodeFields
  <2> HIDE DEF members
  <2> QED BY <1>1, <1>5, <2>1, <2>2, ChangeMembershipOnward
<1>8. ASSUME NEW i \in running, NEW s \in Targets, HandOver(i, s) PROVE Good
  <2>1. NoHints /\ Request(i, TransferLeadership(node[i], s))
    BY <1>8 DEF HandOver, MayCall
  <2>2. Onward(node[i], TransferLeadership(node[i], s))
    BY <1>1, TransferLeadershipStill, StillIsOnward
  <2> QED BY <1>5, <2>1, <2>2
<1>9. UNCHANGED <<vars, store, images>> => Good
  BY DEF Good
<1>10. \A i \in running : AnswerHint(i) => Good
  BY DEF Good
<1>11. /\ \A i \in running : Drained(i) => Good
       /\ EndRound => Good
       /\ \A group \in Sides : Partition(group) => Good
       /\ Heal => Good
       /\ UNCHANGED roundsVars => Good
  BY <1>9 DEF Drained, EndRound, Partition, Heal, roundsVars
<1>12. Good
  BY <1>3, <1>4, <1>6, <1>7, <1>8, <1>10, <1>11 DEF RoundsNext, StepRound
<1> QED BY <1>12 DEF Good

(* What a step of node i leaves of its log and its application. *)
LEMMA StepOrgans ==
    ASSUME RoundsInv, LawfulInv', NEW i \in Server, NEW m, Local(i, m)
    PROVE  LET k == node'[i]
           IN  /\ k.log = m.log /\ k.last_applied = m.last_applied /\ k.app = m.app
               /\ k.hints = m.hints /\ k.commit_index = m.commit_index
<1>1. /\ node \in [Server -> NodeRecord] /\ node'[i] \in NodeRecord
      /\ node' = [node EXCEPT ![i] = [m EXCEPT !.sends = {}]]
  BY DEF RoundsInv, LawfulInv, Inv, TypeOK, Local, Become
<1>2. node'[i] = [m EXCEPT !.sends = {}]
  BY <1>1
<1>3. {"commit_index", "sends"} \cup Organs \subseteq DOMAIN node'[i]
  BY <1>1 DEF NodeRecord, Organs
<1> QED BY <1>2, <1>3 DEF Organs

-----------------------------------------------------------------------------
(* Maps. *)

Maps == [Key -> Datum \cup {Absent}]

LEMMA RestoreTyped == ASSUME NEW map, NEW lines PROVE Restore(map, lines) \in Maps
BY DEF Restore, Maps

(* Of finitely many commands for a key one is the last. *)
LEMMA LastWrite ==
    ASSUME NEW W, W # {}, NEW b \in Nat, \A a \in W : a.index \in Nat /\ a.index <= b
    PROVE  \E a \in W : \A z \in W : z.index <= a.index
<1> DEFINE K == {a.index : a \in W}
<1>1. K \subseteq Int /\ K # {} /\ b \in Int /\ \A x \in K : x <= b
  OBVIOUS
<1>2. Max(K) \in K /\ \A x \in K : x <= Max(K)
  BY <1>1, MaxExists
<1> QED BY <1>2

LEMMA CommandTyped ==
    ASSUME NEW map \in Maps, NEW c \in Command
    PROVE  /\ c.key \in Key
           /\ ApplyCommand(map, c)[c.key] = IF c.op = "PUT" THEN c.value ELSE Absent
           /\ c.op = "PUT" => c.value \in Datum
BY DEF Command, Put, Del, ApplyCommand, Maps

LEMMA ReplayTyped ==
    ASSUME NEW map \in Maps, NEW applied, applied \subseteq Applied,
           NEW b \in Nat, \A a \in applied : a.index <= b
    PROVE  Replay(map, applied) \in Maps
<1> SUFFICES ASSUME NEW k \in Key PROVE Replay(map, applied)[k] \in Datum \cup {Absent}
  BY DEF Replay, Maps
<1> DEFINE W    == {a \in applied : a.command.key = k}
           last == CHOOSE a \in W : \A z \in W : z.index <= a.index
<1>1. Replay(map, applied)[k] = IF W = {} THEN map[k] ELSE ApplyCommand(map, last.command)[k]
  BY DEF Replay
<1>2. \A a \in W : /\ a.index \in Nat /\ a.index <= b /\ a.command \in Command
                   /\ a.command.key = k
  BY RoundsAssumption DEF Applied
<1> HIDE DEF W
<1>3. CASE W = {}
  BY <1>1, <1>3 DEF Maps
<1>4. CASE W # {}
  <2>1. last \in W
    BY <1>2, <1>4, LastWrite
  <2> HIDE DEF last
  <2>2. ApplyCommand(map, last.command)[k] \in Datum \cup {Absent}
    BY <1>2, <2>1, CommandTyped
  <2> QED BY <1>1, <1>4, <2>2
<1> QED BY <1>3, <1>4

(* Every application holds a map. *)
StoreInv == store \in [Server -> Maps]

LEMMA StepsKeepMaps ==
    ASSUME RoundsInv, RoundsInv', StoreInv, [RoundsNext]_roundsVars
    PROVE  StoreInv'
<1>1. ASSUME NEW i \in running, NEW m, Serves(i, m) PROVE StoreInv'
  <2> DEFINE n == node[i]
  <2>1. /\ i \in Server /\ LawfulInv' /\ node'[i] \in NodeRecord
    BY DEF RoundsInv, MailInv, LawfulInv, Inv, TypeOK
  <2>2. Local(i, m) /\ store' = [store EXCEPT ![i] = Executed(@, n, m)]
    BY <1>1 DEF Serves
  <2>3. /\ m.last_applied \in Nat /\ m.app \subseteq Applied /\ m.log.base_index \in Nat
        /\ n.log.base_index \in Nat
    <3>1. n \in NodeRecord
      BY <2>1 DEF RoundsInv, LawfulInv, Inv, TypeOK
    <3>2. node'[i].last_applied = m.last_applied /\ node'[i].app = m.app
          /\ node'[i].log = m.log
      BY <2>1, <2>2, StepOrgans
    <3> HIDE DEF n
    <3> QED BY <2>1, <3>1, <3>2, NodeFields, LogFields
  <2>4. store[i] \in Maps
    BY <2>1 DEF StoreInv
  <2>5. Executed(store[i], n, m) \in Maps
    <3>1. CASE m.log.base_index > n.log.base_index
      BY <3>1, RestoreTyped DEF Executed
    <3>2. CASE ~ (m.log.base_index > n.log.base_index)
      <4>1. Onward(n, m)
        <5>1. \A s : ~ Installed(n, s, m)
          BY <2>3, <3>2 DEF Installed
        <5> QED BY <1>1, <5>1 DEF Serves
      <4> DEFINE more == m.app \ n.app
      <4>2. more \subseteq Applied /\ \A a \in more : a.index <= m.last_applied
        BY <2>3, <4>1 DEF Onward
      <4> HIDE DEF more
      <4>3. Replay(store[i], more) \in Maps
        BY <2>3, <2>4, <4>2, ReplayTyped
      <4> QED BY <3>2, <4>3 DEF Executed, more
    <3> QED BY <3>1, <3>2
  <2> QED BY <2>2, <2>5 DEF StoreInv
<1>2. UNCHANGED <<vars, store, images>> => StoreInv'
  BY DEF StoreInv
<1>3. \A i \in running : AnswerHint(i) => StoreInv'
  BY DEF AnswerHint, StoreInv
<1> QED BY <1>1, <1>2, <1>3, RoundsServe

(* Timers stay within what RaftConfig allows, a mailbox holds messages on   *)
(* the wire to its owner, a server not created yet has none, and every      *)
(* application holds a map: what a snapshot restores is one whatever its    *)
(* lines, and what is applied at once has a last command for each key.      *)
THEOREM RoundsTyped == RoundsSpec => []RoundsTypeOK
<1>1. RoundsInit => StoreInv
  BY DEF RoundsInit, StoreInv, Maps, EmptyMap
<1>2. RoundsInv /\ RoundsInv' /\ StoreInv /\ [RoundsNext]_roundsVars => StoreInv'
  BY StepsKeepMaps
<1>3. RoundsInv /\ StoreInv => RoundsTypeOK
  <2> SUFFICES ASSUME RoundsInv, StoreInv, NEW i \in Server
               PROVE  /\ TypeOK
                      /\ timer[i] \in Timer
                      /\ timer[i].timeout \in Configured[i].election_timeout_min
                                                .. Configured[i].election_timeout_max
                      /\ timer[i].elapsed <= timer[i].timeout
                      /\ heard[i] \in 0 .. Configured[i].election_timeout_min
                      /\ \A k \in DOMAIN mailbox[i] :
                            mailbox[i][k] \in {m \in wire : m.to = i}
                      /\ i \notin running => mailbox[i] = << >>
                      /\ store[i] \in [Key -> Datum \cup {Absent}]
    BY DEF RoundsTypeOK, RoundsInv, LawfulInv, Inv
  <2>1. TypeOK
    BY DEF RoundsInv, LawfulInv, Inv
  <2>2. Timed(i, timer[i]) /\ heard[i] \in Nat
        /\ heard[i] <= Configured[i].election_timeout_min
    BY DEF RoundsInv, ClockInv
  <2>3. heard[i] \in 0 .. Configured[i].election_timeout_min
    BY <2>2, MinTimeout
  <2>4. /\ mailbox[i] \in Seq(wire) /\ \A k \in DOMAIN mailbox[i] : mailbox[i][k].to = i
        /\ i \notin running => mailbox[i] = << >>
    BY DEF RoundsInv, MailInv
  <2>5. \A k \in DOMAIN mailbox[i] : mailbox[i][k] \in wire
    <3> DEFINE box == mailbox[i]
    <3>1. box \in Seq(wire)
      BY <2>4
    <3> HIDE DEF box
    <3>2. \A k \in DOMAIN box : box[k] \in wire
      BY <3>1
    <3> QED BY <3>2 DEF box
  <2>6. store[i] \in [Key -> Datum \cup {Absent}]
    BY DEF StoreInv, Maps
  <2> QED BY <2>1, <2>2, <2>3, <2>4, <2>5, <2>6 DEF Timed
<1> QED BY <1>1, <1>2, <1>3, RoundsInvariance, PTL DEF RoundsSpec

-----------------------------------------------------------------------------
(* Replaying commands and restoring snapshots. *)

(* What was serialized is what is restored, whatever was there. *)
LEMMA RestoreLines ==
    ASSUME NEW map, NEW held \in Maps
    PROVE  Restore(map, LinesOf(held)) = held
<1> DEFINE lines == LinesOf(held)
<1>1. \A k \in Key : \A v : <<k, v>> \in lines <=> v = held[k] /\ held[k] # Absent
  BY DEF LinesOf
<1> HIDE DEF lines
<1>2. ASSUME NEW k \in Key PROVE Restore(map, lines)[k] = held[k]
  <2>1. held[k] \in Datum \cup {Absent}
    BY DEF Maps
  <2>2. CASE held[k] = Absent
    <3>1. ~ \E v \in Datum : <<k, v>> \in lines
      BY <1>1, <2>2
    <3> QED BY <2>2, <3>1 DEF Restore
  <2>3. CASE held[k] # Absent
    <3>1. \E v \in Datum : <<k, v>> \in lines
      BY <1>1, <2>1, <2>3
    <3>2. \A v \in Datum : <<k, v>> \in lines <=> v = held[k]
      BY <1>1, <2>3
    <3>3. (CHOOSE v \in Datum : <<k, v>> \in lines) = held[k]
      BY <3>1, <3>2
    <3> QED BY <3>1, <3>3 DEF Restore
  <2> QED BY <2>2, <2>3
<1>3. Restore(map, lines) \in Maps
  BY RestoreTyped
<1>4. Restore(map, lines) = held
  BY <1>2, <1>3 DEF Maps
<1> QED BY <1>4 DEF lines

LEMMA ReplayNothing == ASSUME NEW map \in Maps PROVE Replay(map, {}) = map
BY DEF Replay, Maps

(* At one index there is one command. *)
OneEach(applied) == \A a, z \in applied : a.index = z.index => a = z

(* Commands replayed in two lots, the later ones after the earlier. *)
LEMMA ReplayOnward ==
    ASSUME NEW map \in Maps, NEW A, NEW B, A \cup B \subseteq Applied, OneEach(A \cup B),
           NEW b \in Nat, \A a \in A \cup B : a.index <= b,
           \A a \in A, z \in B : a.index < z.index
    PROVE  Replay(Replay(map, A), B) = Replay(map, A \cup B)
<1> DEFINE first == Replay(map, A)
           U == A \cup B
<1>1. first \in Maps
  BY ReplayTyped
<1>2. \A x \in U : /\ x.index \in Nat /\ x.index <= b /\ x.command \in Command
  BY RoundsAssumption DEF Applied
<1>3. ASSUME NEW k \in Key PROVE Replay(first, B)[k] = Replay(map, U)[k]
  <2> DEFINE In(S)   == {a \in S : a.command.key = k}
             Final(W) == CHOOSE a \in W : \A z \in W : z.index <= a.index
  <2>1. \A from, S : Replay(from, S)[k] =
            IF In(S) = {} THEN from[k] ELSE ApplyCommand(from, Final(In(S)).command)[k]
    BY DEF Replay
  <2>2. In(U) = In(A) \cup In(B) /\ In(U) \subseteq U /\ In(A) \subseteq A /\ In(B) \subseteq B
    OBVIOUS
  <2>3. CASE In(B) = {}
    <3>1. In(U) = In(A)
      BY <2>2, <2>3
    <3>2. Replay(first, B)[k] = first[k]
      BY <2>1, <2>3
    <3> HIDE DEF In, Final, U
    <3> QED BY <2>1, <3>1, <3>2
  <2>4. CASE In(B) # {}
    <3> DEFINE l == Final(In(B))
               u == Final(In(U))
    <3>1. \A W : W # {} /\ W \subseteq U =>
                    Final(W) \in W /\ \A z \in W : z.index <= Final(W).index
      <4> HIDE DEF U
      <4> SUFFICES ASSUME NEW W, W # {}, W \subseteq U
                   PROVE  \E a \in W : \A z \in W : z.index <= a.index
        OBVIOUS
      <4> QED BY <1>2, LastWrite
    <3>2. /\ l \in In(B) /\ \A z \in In(B) : z.index <= l.index
          /\ u \in In(U) /\ \A z \in In(U) : z.index <= u.index
      <4>1. In(B) # {} /\ In(B) \subseteq U /\ In(U) # {} /\ In(U) \subseteq U
        BY <2>2, <2>4
      <4> HIDE DEF Final, In, U
      <4> QED BY <3>1, <4>1
    <3> HIDE DEF l, u, Final
    <3>3. u = l
      <4>1. l \in U /\ u \in U /\ l \in In(U)
        BY <2>2, <3>2
      <4>2. l.index <= u.index
        BY <3>2, <4>1
      <4>3. u.index <= l.index
        <5>1. CASE u \in B
          BY <3>2, <5>1
        <5>2. CASE u \in A
          <6>1. u.index < l.index
            BY <3>2, <5>2
          <6> QED BY <1>2, <4>1, <6>1
        <5> QED BY <4>1, <5>1, <5>2
      <4>4. u.index = l.index
        BY <1>2, <4>1, <4>2, <4>3
      <4> QED BY <4>1, <4>4 DEF OneEach
    <3>4. l \in U /\ l.command \in Command /\ l.command.key = k
      BY <1>2, <2>2, <3>2
    <3>5. ApplyCommand(first, l.command)[k] = ApplyCommand(map, l.command)[k]
      <4> HIDE DEF first
      <4> QED BY <1>1, <3>4, CommandTyped
    <3>6. In(U) # {}
      BY <3>2
    <3>7. Replay(first, B)[k] = ApplyCommand(first, l.command)[k]
      BY <2>1, <2>4 DEF l
    <3>8. Replay(map, U)[k] = ApplyCommand(map, u.command)[k]
      <4> HIDE DEF U
      <4> QED BY <2>1, <3>6 DEF u
    <3> QED BY <3>3, <3>5, <3>7, <3>8
  <2> QED BY <2>3, <2>4
<1> HIDE DEF first, U
<1>4. Replay(first, B) = [k \in Key |-> Replay(first, B)[k]]
      /\ Replay(map, U) = [k \in Key |-> Replay(map, U)[k]]
  BY DEF Replay
<1>5. Replay(first, B) = Replay(map, U)
  BY <1>3, <1>4
<1> QED BY <1>5 DEF first, U

-----------------------------------------------------------------------------
(* What is on record. *)

(* The commands on record up to an index. *)
Issued(C, x) ==
    {[index |-> c.index, command |-> c.entry.body] :
        c \in {c \in C : c.index <= x /\ c.entry.kind = "Normal"}}

(* Every index up to x is on record. *)
Reaches(C, x) == \A k \in 1 .. x : \E c \in C : c.index = k

(* A record: no two entries at an index, and none at index 0. *)
Register(C) ==
    /\ C \subseteq Commitment
    /\ \A c, d \in C : c.index = d.index => c.entry = d.entry
    /\ \A c \in C : c.index >= 1

LEMMA IssuedOneEach ==
    ASSUME NEW C, Register(C), NEW x \in Nat
    PROVE  /\ OneEach(Issued(C, x))
           /\ \A a \in Issued(C, x) : a.index \in Nat /\ a.index <= x
<1>1. \A a \in Issued(C, x) : \E c \in C : /\ c.index <= x
                                           /\ a = [index |-> c.index, command |-> c.entry.body]
  BY DEF Issued
<1>2. \A a \in Issued(C, x) : a.index \in Nat /\ a.index <= x
  BY <1>1 DEF Register, Commitment
<1>3. ASSUME NEW a \in Issued(C, x), NEW z \in Issued(C, x), a.index = z.index PROVE a = z
  <2>1. PICK c \in C : a = [index |-> c.index, command |-> c.entry.body]
    BY <1>1
  <2>2. PICK d \in C : z = [index |-> d.index, command |-> d.entry.body]
    BY <1>1
  <2>3. c.index = d.index
    BY <1>3, <2>1, <2>2
  <2> QED BY <2>1, <2>2, <2>3 DEF Register
<1> QED BY <1>2, <1>3 DEF OneEach

(* A record that grows keeps what it reaches. *)
LEMMA IssuedStays ==
    ASSUME NEW C, NEW D, C \subseteq D, Register(D), NEW x \in Nat, Reaches(C, x)
    PROVE  Reaches(D, x) /\ Issued(D, x) = Issued(C, x)
<1>1. ASSUME NEW c \in D, c.index <= x PROVE \E d \in C : d.index = c.index /\ d.entry = c.entry
  <2>1. c.index \in 1 .. x
    BY <1>1 DEF Register, Commitment
  <2>2. PICK d \in C : d.index = c.index
    BY <2>1 DEF Reaches
  <2> QED BY <2>2 DEF Register
<1>2. ASSUME NEW a \in Issued(D, x) PROVE a \in Issued(C, x)
  <2>1. PICK c \in D : /\ c.index <= x /\ c.entry.kind = "Normal"
                       /\ a = [index |-> c.index, command |-> c.entry.body]
    BY <1>2 DEF Issued
  <2>2. PICK d \in C : d.index = c.index /\ d.entry = c.entry
    BY <1>1, <2>1
  <2> QED BY <2>1, <2>2 DEF Issued
<1>3. Issued(C, x) \subseteq Issued(D, x)
  BY DEF Issued
<1>4. Reaches(D, x)
  BY DEF Reaches
<1> QED BY <1>2, <1>3, <1>4

(* The commands up to y are those up to x and those beyond. *)
LEMMA IssuedOnward ==
    ASSUME NEW C, Register(C), NEW x \in Nat, NEW y \in Nat, x <= y
    PROVE  Issued(C, y) = Issued(C, x) \cup {a \in Issued(C, y) : a.index > x}
<1>1. Issued(C, x) \subseteq Issued(C, y)
  <2> SUFFICES ASSUME NEW a \in Issued(C, x) PROVE a \in Issued(C, y)
    OBVIOUS
  <2>1. PICK c \in C : /\ c.index <= x /\ c.entry.kind = "Normal"
                       /\ a = [index |-> c.index, command |-> c.entry.body]
    BY DEF Issued
  <2>2. c.index \in Nat
    BY DEF Register, Commitment
  <2>3. c.index <= y
    BY <2>1, <2>2
  <2> QED BY <2>1, <2>3 DEF Issued
<1>2. ASSUME NEW a \in Issued(C, y), ~ (a.index > x) PROVE a \in Issued(C, x)
  <2>1. PICK c \in C : /\ c.index <= y /\ c.entry.kind = "Normal"
                       /\ a = [index |-> c.index, command |-> c.entry.body]
    BY DEF Issued
  <2>2. c.index \in Nat /\ a.index = c.index
    BY <2>1 DEF Register, Commitment
  <2>3. c.index <= x
    BY <1>2, <2>2
  <2> QED BY <2>1, <2>3 DEF Issued
<1> QED BY <1>1, <1>2

(* A record without gaps is as long as its last index. *)
LEMMA LedgerLength ==
    ASSUME NEW C, Register(C), NEW N \in Nat, {c.index : c \in C} = 1 .. N,
           NEW f, DOMAIN f = C, \A c \in C : f[c].index = c.index,
           \A c, d \in C : c.index = d.index => f[c] = f[d]
    PROVE  LET E == {f[c] : c \in C}
           IN  {e.index : e \in E} = 1 .. N /\ Cardinality(E) = N
<1> DEFINE E == {f[c] : c \in C}
           g == [e \in E |-> e.index]
<1>1. {e.index : e \in E} = 1 .. N
  <2>1. \A e \in E : e.index \in 1 .. N
    <3> SUFFICES ASSUME NEW c \in C PROVE f[c].index \in 1 .. N
      OBVIOUS
    <3> QED OBVIOUS
  <2>2. \A k \in 1 .. N : \E e \in E : e.index = k
    <3> SUFFICES ASSUME NEW k \in 1 .. N PROVE \E c \in C : f[c].index = k
      OBVIOUS
    <3>1. k \in {c.index : c \in C}
      OBVIOUS
    <3> QED BY <3>1
  <2> HIDE DEF E
  <2> QED BY <2>1, <2>2
<1>2. \A e, d \in E : e.index = d.index => e = d
  OBVIOUS
<1> HIDE DEF E
<1>3. g \in [E -> 1 .. N]
  BY <1>1
<1>4. g \in Bijection(E, 1 .. N)
  <2>1. g \in Injection(E, 1 .. N)
    BY <1>2, <1>3 DEF Injection, IsInjective
  <2>2. \A k \in 1 .. N : \E e \in E : g[e] = k
    BY <1>1
  <2> QED BY <1>3, <2>1, <2>2 DEF Bijection, Surjection
<1>5. IsFiniteSet(1 .. N) /\ Cardinality(1 .. N) = N
  BY FS_Interval
<1>6. Cardinality(E) = N
  <2>1. g \in Injection(E, 1 .. N) /\ g \in Surjection(E, 1 .. N)
    BY <1>4 DEF Bijection
  <2> HIDE DEF g
  <2> QED BY <1>5, <2>1, FS_Injection
<1> QED BY <1>1, <1>6 DEF E

-----------------------------------------------------------------------------
(* What the applications hold. *)

(* What is on record is the history of every application, of every snapshot *)
(* and of every message that brings one, so far.                            *)
OnRecord ==
    LET C == history.committed
    IN  /\ Register(C)
        /\ \A i \in Server : LET n == node[i]
                             IN  /\ n.app = Issued(C, n.last_applied)
                                 /\ Reaches(C, n.last_applied)
                                 /\ n.commit_index <= n.last_applied
        /\ \A m \in wire : m.kind = "InstallSnapshot" => Reaches(C, m.snapshot.index)

(* A node's map is that of the commands on record up to what it has         *)
(* applied, a hint is the last index it has applied, and there is an image  *)
(* for its snapshot.                                                        *)
Replica(C, n, map, I) ==
    /\ map = Replay(EmptyMap, Issued(C, n.last_applied))
    /\ n.hints \subseteq {n.last_applied}
    /\ n.log.base_index > 0 => \E image \in I : image.index = n.log.base_index

(* An image is the map of the commands up to its index. *)
Pictures(C, image) ==
    /\ image.index \in Nat /\ Reaches(C, image.index)
    /\ image.lines = LinesOf(Replay(EmptyMap, Issued(C, image.index)))

MapInv ==
    /\ \A i \in Server : Replica(history.committed, node[i], store[i], images)
    /\ \A image \in images : Pictures(history.committed, image)
    /\ \A m \in wire : m.kind = "InstallSnapshot" /\ m.snapshot.index > 0 =>
            \E image \in images : image.index = m.snapshot.index

(* No index is left out of the record. *)
Gapless == \E N \in Nat : {c.index : c \in history.committed} = 1 .. N

LEMMA IssuedIs == \A x : CommandsThrough(x) = Issued(history.committed, x)
BY DEF CommandsThrough, Issued

LEMMA CommitsOnRecord == ASSUME FixedMembership, CommitInv PROVE OnRecord
<1> DEFINE C == history.committed
<1>1. PICK f, l, a : Shadow(Now, f, l, a)
  BY DEF CommitInv, Shadowed
<1>2. Register(C)
  <2>1. C \subseteq Commitment
    BY NowTyped
  <2>2. \A c, d \in C : c.index = d.index => c.entry = d.entry
    BY <1>1, OneRecord, NowFields
  <2>3. \A c \in C : \E t \in DOMAIN l : \E k \in 1 .. Len(l[t]) : c.index \in 1 .. k
    BY <1>1, NowFields DEF Shadow, Records
  <2>4. \A c \in C : c.index >= 1
    BY <2>3
  <2> QED BY <2>1, <2>2, <2>4 DEF Register
<1>3. \A s, x : Claimed(C, s, x) => Reaches(C, x)
  BY DEF Claimed, Reaches
<1>4. ASSUME NEW i \in Server
      PROVE  /\ node[i].app = Issued(C, node[i].last_applied)
             /\ Reaches(C, node[i].last_applied)
             /\ node[i].commit_index <= node[i].last_applied
  <2>1. /\ node[i].app = Commands(f[i], node[i].last_applied)
        /\ Claimed(C, f[i], node[i].last_applied)
        /\ node[i].commit_index <= node[i].last_applied
    BY <1>1, NowFields DEF Shadow, Settled
  <2>2. node[i].last_applied \in Nat
    BY NowTyped
  <2>3. node[i].app = CommandsThrough(node[i].last_applied)
    BY <1>1, <2>1, <2>2, ClaimedCommands
  <2> QED BY <1>3, <2>1, <2>3, IssuedIs
<1>5. ASSUME NEW m \in wire, m.kind = "InstallSnapshot" PROVE Reaches(C, m.snapshot.index)
  <2>1. Claimed(C, l[m.term], m.snapshot.index)
    BY <1>1, <1>5, NowFields DEF Shadow, Reports
  <2> QED BY <1>3, <2>1
<1> QED BY <1>2, <1>4, <1>5 DEF OnRecord

(* A step adds to the record what the node that makes it commits. *)
LEMMA RecordGrows ==
    ASSUME RoundsInv, LawfulInv', NEW i \in Server, NEW m, Local(i, m)
    PROVE  /\ history.committed \subseteq history'.committed
           /\ \A c \in history'.committed :
                    c \in history.committed
                        \/ c.index \in node[i].commit_index + 1 .. node'[i].commit_index
<1>1. history' = Record(node[i], m) /\ node'[i].commit_index = m.commit_index
  BY StepOrgans DEF Local, Become
<1>2. history'.committed = Claim(history.committed, CommitmentsOf(node[i], m))
  BY <1>1 DEF Record
<1>3. \A c \in CommitmentsOf(node[i], m) :
            c.index \in node[i].commit_index + 1 .. m.commit_index
  BY DEF CommitmentsOf
<1> QED BY <1>1, <1>2, <1>3 DEF Claim

LEMMA StepsLeaveNoGap ==
    ASSUME RoundsInv, LawfulInv', OnRecord', Gapless, NEW i \in Server, NEW m, Local(i, m)
    PROVE  Gapless'
<1> DEFINE C == history.committed
           D == history'.committed
           low == node[i].commit_index
           high == node'[i].commit_index
           la == node'[i].last_applied
<1>1. low \in Nat /\ high \in Nat /\ la \in Nat
  <2>1. node[i] \in NodeRecord /\ node'[i] \in NodeRecord
    BY DEF RoundsInv, LawfulInv, Inv, TypeOK
  <2> QED BY <2>1, NodeFields
<1>2. C \subseteq D /\ \A c \in D : c \in C \/ c.index \in low + 1 .. high
  BY RecordGrows
<1>3. PICK N \in Nat : {c.index : c \in C} = 1 .. N
  BY DEF Gapless
<1>4. Reaches(D, la) /\ high <= la
  BY DEF OnRecord
<1> HIDE DEF C, D, low, high, la
<1>5. \A c \in D : c.index \in 1 .. N \/ c.index \in 1 .. la
  BY <1>1, <1>2, <1>3, <1>4
<1>6. \A k \in 1 .. N : \E c \in D : c.index = k
  <2> SUFFICES ASSUME NEW k \in 1 .. N PROVE \E c \in D : c.index = k
    OBVIOUS
  <2>1. k \in {c.index : c \in C}
    BY <1>3
  <2>2. PICK c \in C : c.index = k
    BY <2>1
  <2> QED BY <1>2, <2>2
<1>7. \A k \in 1 .. la : \E c \in D : c.index = k
  BY <1>4 DEF Reaches
<1>8. Larger(N, la) \in Nat /\ 1 .. Larger(N, la) = 1 .. N \cup 1 .. la
  BY <1>1, <1>3 DEF Larger
<1>9. {c.index : c \in D} = 1 .. Larger(N, la)
  BY <1>5, <1>6, <1>7, <1>8
<1> QED BY <1>8, <1>9 DEF Gapless, D

(* As the record grows. *)
LEMMA ReplicaStays ==
    ASSUME NEW C, NEW D, C \subseteq D, Register(D), NEW n, n.last_applied \in Nat,
           Reaches(C, n.last_applied), NEW I, NEW J, I \subseteq J,
           NEW map, Replica(C, n, map, I)
    PROVE  Replica(D, n, map, J)
<1>1. Issued(D, n.last_applied) = Issued(C, n.last_applied)
  BY IssuedStays
<1> QED BY <1>1 DEF Replica

LEMMA PicturesStay ==
    ASSUME NEW C, NEW D, C \subseteq D, Register(D), NEW image, Pictures(C, image)
    PROVE  Pictures(D, image)
<1>1. image.index \in Nat /\ Reaches(C, image.index)
  BY DEF Pictures
<1>2. Reaches(D, image.index) /\ Issued(D, image.index) = Issued(C, image.index)
  BY <1>1, IssuedStays
<1> QED BY <1>2 DEF Pictures

(* A node whose map was right applies more. *)
LEMMA ReplicaOnward ==
    ASSUME NEW C, NEW D, C \subseteq D, Register(D),
           NEW n, n.last_applied \in Nat, Reaches(C, n.last_applied),
           n.app = Issued(C, n.last_applied), n.hints = {}, n.log.base_index \in Nat,
           NEW m, m.last_applied \in Nat, m.app = Issued(D, m.last_applied),
           m.app \subseteq Applied, Onward(n, m),
           NEW map, NEW I, Replica(C, n, map, I)
    PROVE  Replica(D, m, Executed(map, n, m), I)
<1> DEFINE x == n.last_applied
           y == m.last_applied
           more == m.app \ n.app
<1>1. /\ m.log.base_index = n.log.base_index /\ x <= y
      /\ \A a \in more : x < a.index /\ a.index <= y
      /\ m.hints \subseteq {y}
  BY DEF Onward
<1>2. n.app = Issued(D, x)
  BY IssuedStays
<1>3. n.app \cup more = m.app /\ n.app \subseteq m.app
  BY DEF Onward
<1>4. map = Replay(EmptyMap, n.app)
  BY DEF Replica
<1>5. OneEach(m.app) /\ \A a \in m.app : a.index \in Nat /\ a.index <= y
  BY IssuedOneEach
<1>6. \A a \in n.app : a.index \in Nat /\ a.index <= x
  BY <1>2, IssuedOneEach
<1>7. \A a \in n.app, z \in more : a.index < z.index
  <2> SUFFICES ASSUME NEW a \in n.app, NEW z \in more PROVE a.index < z.index
    OBVIOUS
  <2>1. a.index \in Nat /\ a.index <= x
    BY <1>6
  <2>2. z.index \in Nat /\ x < z.index
    BY <1>1, <1>5
  <2> QED BY <2>1, <2>2
<1>8. EmptyMap \in Maps
  BY DEF EmptyMap, Maps
<1> HIDE DEF more, x, y
<1>9. Replay(Replay(EmptyMap, n.app), more) = Replay(EmptyMap, m.app)
  <2> DEFINE A == n.app
             U == m.app
  <2>1. A \cup more = U /\ U \subseteq Applied /\ y \in Nat
    BY <1>3 DEF y
  <2>2. \A a \in A, z \in more : a.index < z.index
    BY <1>7
  <2>3. OneEach(U) /\ \A a \in U : a.index <= y
    BY <1>5
  <2> HIDE DEF A, U
  <2>4. Replay(Replay(EmptyMap, A), more) = Replay(EmptyMap, A \cup more)
    BY <1>8, <2>1, <2>2, <2>3, ReplayOnward
  <2> QED BY <2>1, <2>4 DEF A, U
<1>10. Executed(map, n, m) = Replay(map, more)
  BY <1>1 DEF Executed, more
<1>11. Executed(map, n, m) = Replay(EmptyMap, Issued(D, m.last_applied))
  BY <1>4, <1>9, <1>10
<1> QED BY <1>1, <1>11 DEF Replica, y

(* A node restores the image of the snapshot it has been sent. *)
LEMMA ReplicaInstalled ==
    ASSUME NEW C, NEW D, C \subseteq D, Register(D), NEW n, n.log.base_index \in Nat,
           n.hints = {}, NEW m, m.last_applied \in Nat,
           m.app = Issued(D, m.last_applied), m.app \subseteq Applied,
           NEW s, Installed(n, s, m),
           s.snapshot.index > 0 => \E image \in images : image.index = s.snapshot.index,
           \A image \in images : Pictures(C, image), NEW map
    PROVE  Replica(D, m, Executed(map, n, m), images)
<1> DEFINE x == m.log.base_index
           picked == CHOOSE image \in images : image.index = x
<1>1. /\ x > n.log.base_index /\ x = m.last_applied /\ x = s.snapshot.index
      /\ m.hints = {}
  BY DEF Installed
<1>2. \E image \in images : image.index = x
  BY <1>1
<1>3. picked \in images /\ picked.index = x
  BY <1>2
<1>4. Executed(map, n, m) = Restore(map, picked.lines)
  BY <1>1 DEF Executed
<1> HIDE DEF picked
<1>5. Pictures(D, picked)
  BY <1>3, PicturesStay
<1>6. picked.lines = LinesOf(Replay(EmptyMap, m.app))
  BY <1>1, <1>3, <1>5 DEF Pictures
<1>7. Replay(EmptyMap, m.app) \in Maps
  <2> DEFINE U == m.app
  <2>1. U \subseteq Applied /\ \A a \in U : a.index <= m.last_applied
    BY IssuedOneEach
  <2>2. EmptyMap \in Maps
    BY DEF EmptyMap, Maps
  <2> HIDE DEF U
  <2>3. Replay(EmptyMap, U) \in Maps
    BY <2>1, <2>2, ReplayTyped
  <2> QED BY <2>3 DEF U
<1>8. Executed(map, n, m) = Replay(EmptyMap, m.app)
  BY <1>4, <1>6, <1>7, RestoreLines
<1> QED BY <1>1, <1>2, <1>8 DEF Replica

(* A snapshot is sent as the sender has it. *)
LEMMA SnapshotsSent ==
    ASSUME RoundsInv, [Next]_vars, NEW s \in wire' \ wire, s.kind = "InstallSnapshot"
    PROVE  \E j \in Server : s.snapshot.index = node'[j].log.base_index
<1>1. Moves
  BY NextMoves DEF RoundsInv, LawfulInv
<1>2. PICK j \in Server : \E m : Turns(j, m)
  BY <1>1 DEF Moves
<1>3. PICK k : Turns(j, k)
  BY <1>2
<1>4. s \in k.sends
  BY <1>3 DEF Turns
<1>5. Told(k, s)
  BY <1>3, <1>4 DEF Turns, Outcome, Says
<1>6. s.snapshot.index = k.log.base_index
  BY <1>5 DEF Told, SnapshotOf
<1>7. node'[j].log = k.log
  <2>1. TypeOK
    BY DEF RoundsInv, LawfulInv, Inv
  <2>2. node'[j] = [k EXCEPT !.sends = {}] /\ [k EXCEPT !.sends = {}].log = k.log
    BY <1>3, <2>1, AfterTurn
  <2> QED BY <2>2
<1> QED BY <1>6, <1>7

LEMMA StepsKeepReplicas ==
    ASSUME RoundsInv, RoundsInv', OnRecord, OnRecord', StoreInv, MapInv, [Next]_vars,
           [RoundsNext]_roundsVars
    PROVE  MapInv'
<1> DEFINE C == history.committed
           D == history'.committed
<1>1. /\ Register(D)
      /\ \A i \in Server : /\ node[i] \in NodeRecord /\ node'[i] \in NodeRecord
                           /\ node[i].last_applied \in Nat /\ node'[i].last_applied \in Nat
                           /\ node[i].log.base_index \in Nat
                           /\ node'[i].app \subseteq Applied
  <2>1. Register(D)
    BY DEF OnRecord
  <2>2. \A i \in Server : node[i] \in NodeRecord /\ node'[i] \in NodeRecord
    BY DEF RoundsInv, LawfulInv, Inv, TypeOK
  <2> QED BY <2>1, <2>2, NodeFields, LogFields
<1>2. \A i \in Server : /\ node[i].app = Issued(C, node[i].last_applied)
                        /\ Reaches(C, node[i].last_applied)
                        /\ node'[i].app = Issued(D, node'[i].last_applied)
  BY DEF OnRecord
<1>3. /\ \A i \in Server : Replica(C, node[i], store[i], images)
      /\ \A image \in images : Pictures(C, image)
      /\ \A s \in wire : s.kind = "InstallSnapshot" /\ s.snapshot.index > 0 =>
            \E image \in images : image.index = s.snapshot.index
  BY DEF MapInv
<1>4. running \subseteq Server
  BY DEF RoundsInv, MailInv
<1>5. UNCHANGED <<vars, store, images>> => MapInv'
  BY DEF MapInv, vars
<1> DEFINE Good(j) == Replica(D, node'[j], store'[j], images')
<1>6. ASSUME C \subseteq D, images \subseteq images', NEW i \in Server,
             \A j \in Server : j # i => node'[j] = node[j] /\ store'[j] = store[j],
             Good(i), \A image \in images' : image \in images \/ Pictures(D, image)
      PROVE  MapInv'
  <2>1. \A j \in Server : Good(j)
    <3> SUFFICES ASSUME NEW j \in Server, j # i PROVE Good(j)
      BY <1>6
    <3>1. node'[j] = node[j] /\ store'[j] = store[j]
      BY <1>6
    <3>2. Replica(D, node[j], store[j], images')
      BY <1>1, <1>2, <1>3, <1>6, ReplicaStays
    <3> QED BY <3>1, <3>2
  <2>2. \A image \in images' : Pictures(D, image)
    BY <1>1, <1>3, <1>6, PicturesStay
  <2>3. ASSUME NEW s \in wire', s.kind = "InstallSnapshot", s.snapshot.index > 0
        PROVE  \E image \in images' : image.index = s.snapshot.index
    <3>1. CASE s \in wire
      BY <1>3, <1>6, <2>3, <3>1
    <3>2. CASE s \notin wire
      <4>1. PICK j \in Server : s.snapshot.index = node'[j].log.base_index
        BY <2>3, <3>2, SnapshotsSent
      <4> QED BY <2>1, <2>3, <4>1 DEF Replica
    <3> QED BY <3>1, <3>2
  <2> HIDE DEF Good
  <2> QED BY <2>1, <2>2, <2>3 DEF MapInv, Good
<1>7. ASSUME NEW i \in Server, NEW m, Local(i, m)
      PROVE  /\ C \subseteq D
             /\ \A j \in Server : j # i => node'[j] = node[j]
             /\ node'[i].log = m.log /\ node'[i].last_applied = m.last_applied
             /\ node'[i].app = m.app /\ node'[i].hints = m.hints
  <2>1. LawfulInv'
    BY DEF RoundsInv
  <2>2. C \subseteq D
    BY <1>7, <2>1, RecordGrows
  <2>3. /\ node'[i].log = m.log /\ node'[i].last_applied = m.last_applied
        /\ node'[i].app = m.app /\ node'[i].hints = m.hints
    BY <1>7, <2>1, StepOrgans
  <2>4. node \in [Server -> NodeRecord] /\ node' = [node EXCEPT ![i] = [m EXCEPT !.sends = {}]]
    BY <1>7 DEF Local, Become, RoundsInv, LawfulInv, Inv, TypeOK
  <2>5. \A j \in Server : j # i => node'[j] = node[j]
    BY <2>4
  <2> QED BY <2>2, <2>3, <2>5
<1>8. ASSUME NEW i \in running, NEW m, Serves(i, m) PROVE MapInv'
  <2> DEFINE n == node[i]
             map == store[i]
  <2>1. i \in Server /\ Local(i, m)
    BY <1>4, <1>8 DEF Serves
  <2>2. /\ C \subseteq D
        /\ \A j \in Server : j # i => node'[j] = node[j]
        /\ node'[i].log = m.log /\ node'[i].last_applied = m.last_applied
        /\ node'[i].app = m.app /\ node'[i].hints = m.hints
    BY <1>7, <2>1
  <2>3. /\ store'[i] = Executed(map, n, m)
        /\ \A j \in Server : j # i => store'[j] = store[j]
        /\ images' = images /\ n.hints = {}
        /\ Onward(n, m) \/ \E s \in wire : Installed(n, s, m)
    BY <1>8, <2>1 DEF Serves, StoreInv
  <2>4. /\ m.last_applied \in Nat /\ m.app = Issued(D, m.last_applied) /\ m.app \subseteq Applied
        /\ n.last_applied \in Nat /\ n.log.base_index \in Nat
        /\ n.app = Issued(C, n.last_applied) /\ Reaches(C, n.last_applied)
        /\ Replica(C, n, map, images)
    <3>1. m.last_applied \in Nat /\ m.app = Issued(D, m.last_applied) /\ m.app \subseteq Applied
      BY <1>1, <1>2, <2>1, <2>2
    <3> QED BY <1>1, <1>2, <1>3, <2>1, <3>1
  <2> HIDE DEF n, map, Good
  <2>5. Replica(D, m, Executed(map, n, m), images)
    <3>1. CASE Onward(n, m)
      BY <1>1, <2>2, <2>3, <2>4, <3>1, ReplicaOnward
    <3>2. CASE \E s \in wire : Installed(n, s, m)
      <4>1. PICK s \in wire : Installed(n, s, m)
        BY <3>2
      <4>2. s.snapshot.index > 0 => \E image \in images : image.index = s.snapshot.index
        BY <1>3, <4>1 DEF Installed
      <4> QED BY <1>1, <1>3, <2>2, <2>3, <2>4, <4>1, <4>2, ReplicaInstalled
    <3> QED BY <2>3, <3>1, <3>2
  <2>6. Good(i)
    BY <2>2, <2>3, <2>5 DEF Replica, Good
  <2> QED BY <1>6, <2>1, <2>2, <2>3, <2>6
<1>9. ASSUME NEW i \in running, AnswerHint(i) PROVE MapInv'
  <2> DEFINE n == node[i]
  <2>1. i \in Server /\ n \in NodeRecord /\ n.hints \subseteq Nat /\ n.hints \subseteq {n.last_applied}
    BY <1>1, <1>3, <1>4, NodeFields DEF Replica
  <2>2. PICK index \in n.hints :
            LET after == [HandleSnapshotEvent(n, index) EXCEPT !.hints = @ \ {index}]
            IN  /\ Local(i, after)
                /\ images' = images \cup {[index |-> index, lines |-> LinesOf(store[i])]}
                /\ store' = store
    BY <1>9 DEF AnswerHint
  <2> DEFINE m == [HandleSnapshotEvent(n, index) EXCEPT !.hints = @ \ {index}]
             image == [index |-> index, lines |-> LinesOf(store[i])]
  <2>3. /\ Local(i, m) /\ images' = images \cup {image} /\ store' = store
        /\ index = n.last_applied /\ index \in Nat
    BY <2>1, <2>2
  <2>4. Answered(n, index, m)
    BY <2>1, <2>3, HandleSnapshotEventAnswers
  <2> HIDE DEF m
  <2>5. /\ C \subseteq D
        /\ \A j \in Server : j # i => node'[j] = node[j]
        /\ node'[i].log = m.log /\ node'[i].last_applied = m.last_applied
        /\ node'[i].app = m.app /\ node'[i].hints = m.hints
    BY <1>7, <2>1, <2>3
  <2>6. /\ Replica(C, n, store[i], images) /\ Reaches(C, n.last_applied)
        /\ n.last_applied \in Nat
    BY <1>1, <1>2, <1>3, <2>1
  <2>7. Pictures(D, image)
    <3>1. image.index = n.last_applied /\ image.lines = LinesOf(store[i])
      BY <2>3
    <3>2. store[i] = Replay(EmptyMap, Issued(C, n.last_applied))
      BY <2>6 DEF Replica
    <3> HIDE DEF image
    <3>3. Pictures(C, image)
      BY <2>6, <3>1, <3>2 DEF Pictures
    <3> QED BY <1>1, <2>5, <3>3, PicturesStay
  <2>8. image \in images' /\ image.index = index
    BY <2>3
  <2> HIDE DEF image, n
  <2>9. Replica(D, n, store[i], images')
    BY <1>1, <2>3, <2>5, <2>6, ReplicaStays
  <2>10. Good(i)
    BY <2>3, <2>4, <2>5, <2>8, <2>9 DEF Replica, Answered
  <2> HIDE DEF Good
  <2> QED BY <1>6, <2>1, <2>3, <2>5, <2>7, <2>10
<1> QED BY <1>5, <1>8, <1>9, RoundsServe

LEMMA MapsInvariance ==
    ASSUME FixedMembership
    PROVE  RoundsSpec => [](RoundsInv /\ OnRecord /\ StoreInv /\ MapInv /\ Gapless)
<1>1. Spec => []CommitInv
  BY CommitInvariance
<1>2. CommitInv => OnRecord
  BY CommitsOnRecord
<1>3. RoundsSpec => []OnRecord
  BY <1>1, <1>2, RoundsAreCluster, PTL DEF ImplementsCluster
<1>4. RoundsInit => StoreInv /\ MapInv /\ Gapless
  <2> SUFFICES ASSUME RoundsInit PROVE StoreInv /\ MapInv /\ Gapless
    OBVIOUS
  <2>1. EmptyMap \in Maps
    BY DEF EmptyMap, Maps
  <2>2. StoreInv
    BY <2>1 DEF RoundsInit, StoreInv
  <2>3. ASSUME NEW i \in Server PROVE Replica({}, node[i], store[i], {})
    <3>1. node[i] = WithLog(i, EmptyLog) /\ store[i] = EmptyMap
      BY DEF RoundsInit, Init
    <3>2. /\ node[i].last_applied = 0 /\ node[i].hints = {} /\ node[i].log.base_index = 0
      BY <3>1 DEF WithLog, EmptyLog
    <3>3. Issued({}, 0) = {}
      BY DEF Issued
    <3>4. Replay(EmptyMap, {}) = EmptyMap
      BY <2>1, ReplayNothing
    <3> QED BY <3>1, <3>2, <3>3, <3>4 DEF Replica
  <2>4. images = {} /\ wire = {} /\ history.committed = {}
    BY DEF RoundsInit, Init
  <2>5. MapInv
    BY <2>3, <2>4 DEF MapInv
  <2>6. {c.index : c \in {}} = 1 .. 0
    OBVIOUS
  <2>7. Gapless
    BY <2>4, <2>6 DEF Gapless
  <2> QED BY <2>2, <2>5, <2>7
<1>5. RoundsInv /\ RoundsInv' /\ OnRecord /\ OnRecord' /\ StoreInv /\ MapInv /\ Gapless
            /\ [RoundsNext]_roundsVars => StoreInv' /\ MapInv' /\ Gapless'
  <2> SUFFICES ASSUME RoundsInv, RoundsInv', OnRecord, OnRecord', StoreInv, MapInv, Gapless,
                      [RoundsNext]_roundsVars
               PROVE  StoreInv' /\ MapInv' /\ Gapless'
    OBVIOUS
  <2>1. StoreInv'
    BY StepsKeepMaps
  <2>2. [Next]_vars
    BY RoundsSteps
  <2>3. MapInv'
    BY <2>2, StepsKeepReplicas
  <2>4. ASSUME NEW i \in running, NEW m, Local(i, m) PROVE Gapless'
    <3>1. i \in Server /\ LawfulInv'
      BY DEF RoundsInv, MailInv
    <3> QED BY <2>4, <3>1, StepsLeaveNoGap
  <2>5. UNCHANGED vars => Gapless'
    BY DEF vars, Gapless
  <2>6. \A i \in running : \A m : Serves(i, m) => Gapless'
    BY <2>4 DEF Serves
  <2>7. \A i \in running : AnswerHint(i) => Gapless'
    BY <2>4 DEF AnswerHint
  <2> QED BY <2>1, <2>3, <2>5, <2>6, <2>7, RoundsServe
<1> QED BY <1>3, <1>4, <1>5, RoundsInvariance, PTL DEF RoundsSpec

(* Every map is the one that the commands committed make.                   *)
MapsReplayed ==
    \A i \in Server : store[i] = Replay(EmptyMap, CommandsThrough(node[i].last_applied))

(* While the membership is fixed: a node's map is always that of the        *)
(* commands committed up to what it has applied, replayed in log order,     *)
(* whether deliver_committed had it apply them batch after batch or         *)
(* handle_install_snapshot had it restore what another node's application   *)
(* handed over in an Event::Snapshot.                                       *)
THEOREM MapsAreReplays == ASSUME FixedMembership PROVE RoundsSpec => []MapsReplayed
<1>1. MapInv => MapsReplayed
  BY IssuedIs DEF MapInv, Replica, MapsReplayed
<1> QED BY <1>1, MapsInvariance, PTL

-----------------------------------------------------------------------------
(* The map all of them implement. *)

(* A record as the sequence of commands it decides on. *)
Decisions(C) ==
    {[index |-> c.index, command |-> IF c.entry.kind = "Normal" THEN c.entry.body ELSE None] :
        c \in C}

LEMMA DecisionsLength ==
    ASSUME NEW C, Register(C), NEW N \in Nat, {c.index : c \in C} = 1 .. N
    PROVE  {e.index : e \in Decisions(C)} = 1 .. N /\ Cardinality(Decisions(C)) = N
<1> DEFINE f == [c \in C |-> [index   |-> c.index,
                              command |-> IF c.entry.kind = "Normal" THEN c.entry.body
                                          ELSE None]]
<1>1. Decisions(C) = {f[c] : c \in C}
  BY DEF Decisions
<1>2. DOMAIN f = C /\ \A c \in C : f[c].index = c.index
  OBVIOUS
<1>3. \A c, d \in C : c.index = d.index => f[c] = f[d]
  BY DEF Register
<1> HIDE DEF f
<1> QED BY <1>1, <1>2, <1>3, LedgerLength

LEMMA DecidedCommands ==
    ASSUME NEW C, Register(C), None \notin Command, NEW x \in Nat, NEW y \in Nat,
           \A a \in Issued(C, y) : a.command \in Command
    PROVE  {e \in Decisions(C) : e.index \in x + 1 .. y /\ e.command \in Command}
             = {a \in Issued(C, y) : a.index > x}
<1> DEFINE E == {e \in Decisions(C) : e.index \in x + 1 .. y /\ e.command \in Command}
           B == {a \in Issued(C, y) : a.index > x}
<1>1. ASSUME NEW e \in E PROVE e \in B
  <2>1. e \in Decisions(C) /\ e.index \in x + 1 .. y /\ e.command \in Command
    OBVIOUS
  <2>2. PICK c \in C : e = [index   |-> c.index,
                            command |-> IF c.entry.kind = "Normal" THEN c.entry.body
                                        ELSE None]
    BY <2>1 DEF Decisions
  <2>3. c.entry.kind = "Normal"
    BY <2>1, <2>2
  <2>4. c.index <= y /\ e = [index |-> c.index, command |-> c.entry.body]
    BY <2>1, <2>2, <2>3
  <2>5. e \in Issued(C, y)
    BY <2>3, <2>4 DEF Issued
  <2> QED BY <2>1, <2>5
<1>2. ASSUME NEW a \in B PROVE a \in E
  <2>1. a \in Issued(C, y) /\ a.index > x /\ a.command \in Command
    OBVIOUS
  <2>2. PICK c \in C : /\ c.index <= y /\ c.entry.kind = "Normal"
                       /\ a = [index |-> c.index, command |-> c.entry.body]
    BY <2>1 DEF Issued
  <2>3. c.index \in Nat
    BY DEF Register, Commitment
  <2>4. a \in Decisions(C)
    BY <2>2 DEF Decisions
  <2>5. a.index \in x + 1 .. y
    BY <2>1, <2>2, <2>3
  <2> QED BY <2>1, <2>4, <2>5
<1> QED BY <1>1, <1>2

(* The abstract map's words are the application's. *)
LEMMA ServiceWords ==
    /\ \A entries, from, to :
            Service!Commands(entries, from, to)
                = {e \in entries : e.index \in from + 1 .. to /\ e.command \in Command}
    /\ \A map, applied : Service!Replay(map, applied) = Replay(map, applied)
    /\ Service!EmptyMap = EmptyMap
    /\ \A S : Service!Cardinality(S) = Cardinality(S)
<1>1. Service!Command = Command
  BY DEF Service!Command, Command, Service!Put, Put, Service!Del, Del
<1>2. \A map, c : Service!ApplyCommand(map, c) = ApplyCommand(map, c)
  BY DEF Service!ApplyCommand, ApplyCommand
<1>3. \A map, applied : Service!Replay(map, applied) = Replay(map, applied)
  BY <1>2 DEF Service!Replay, Replay
<1>4. Service!EmptyMap = EmptyMap
  BY DEF Service!EmptyMap, EmptyMap
<1>5. \A S : Service!Cardinality(S) = Cardinality(S)
  BY DEF Service!Cardinality, Cardinality
<1> QED BY <1>1, <1>3, <1>4, <1>5 DEF Service!Commands

(* From what it had applied a map comes to what it has by what was decided  *)
(* in between.                                                              *)
LEMMA ReplayedOnward ==
    ASSUME None \notin Command, NEW C, NEW D, C \subseteq D, Register(D),
           NEW x \in Nat, Reaches(C, x), NEW y \in Nat, x <= y, Issued(D, y) \subseteq Applied
    PROVE  Replay(EmptyMap, Issued(D, y)) =
             Replay(Replay(EmptyMap, Issued(C, x)),
                    {e \in Decisions(D) : e.index \in x + 1 .. y /\ e.command \in Command})
<1> DEFINE A == Issued(D, x)
           B == {a \in Issued(D, y) : a.index > x}
<1>1. Issued(C, x) = A
  BY IssuedStays
<1>2. Issued(D, y) = A \cup B
  BY IssuedOnward
<1>3. OneEach(A \cup B) /\ \A a \in A \cup B : a.index \in Nat /\ a.index <= y
  BY <1>2, IssuedOneEach
<1>4. \A a \in A, z \in B : a.index < z.index
  <2> SUFFICES ASSUME NEW a \in A, NEW z \in B PROVE a.index < z.index
    OBVIOUS
  <2>1. a.index \in Nat /\ a.index <= x
    BY IssuedOneEach
  <2>2. z.index \in Nat /\ z.index > x
    BY <1>3
  <2> QED BY <2>1, <2>2
<1>5. \A a \in Issued(D, y) : a.command \in Command
  BY RoundsAssumption DEF Applied
<1>6. {e \in Decisions(D) : e.index \in x + 1 .. y /\ e.command \in Command} = B
  BY <1>5, DecidedCommands
<1>7. EmptyMap \in Maps
  BY DEF EmptyMap, Maps
<1> HIDE DEF A, B
<1>8. Replay(Replay(EmptyMap, A), B) = Replay(EmptyMap, A \cup B)
  BY <1>2, <1>3, <1>4, <1>7, ReplayOnward
<1> QED BY <1>1, <1>2, <1>6, <1>8

LEMMA IsServed ==
    ASSUME RoundsInv, OnRecord, StoreInv, MapInv, Gapless, None \notin Command
    PROVE  Service!Init
<1> DEFINE C == history.committed
           chosen == Decisions(C)
           applied == [i \in Server |-> node[i].last_applied]
<1>1. /\ Register(C)
      /\ \A i \in Server : /\ node[i].last_applied \in Nat
                           /\ node[i].app \subseteq Applied
                           /\ node[i].app = Issued(C, node[i].last_applied)
                           /\ Reaches(C, node[i].last_applied)
  <2>1. \A i \in Server : node[i] \in NodeRecord
    BY DEF RoundsInv, LawfulInv, Inv, TypeOK
  <2> QED BY <2>1, NodeFields DEF OnRecord
<1>2. PICK N \in Nat : {c.index : c \in C} = 1 .. N
  BY DEF Gapless
<1>3. {e.index : e \in chosen} = 1 .. N /\ Cardinality(chosen) = N
  BY <1>1, <1>2, DecisionsLength
<1>4. ASSUME NEW i \in Server
      PROVE  /\ node[i].last_applied \in 0 .. N
             /\ store[i] = Replay(EmptyMap, {e \in chosen : e.index \in 0 + 1 .. node[i].last_applied
                                                            /\ e.command \in Command})
  <2> DEFINE x == node[i].last_applied
  <2>1. x \in Nat /\ Reaches(C, x) /\ Issued(C, x) \subseteq Applied
    BY <1>1
  <2>2. x <= N
    <3>1. CASE x = 0
      BY <3>1
    <3>2. CASE x # 0
      <4>1. x \in 1 .. x
        BY <2>1, <3>2
      <4>2. PICK c \in C : c.index = x
        BY <2>1, <4>1 DEF Reaches
      <4>3. x \in 1 .. N
        BY <1>2, <4>2
      <4> QED BY <4>3
    <3> QED BY <3>1, <3>2
  <2>3. store[i] = Replay(EmptyMap, Issued(C, x))
    BY DEF MapInv, Replica
  <2> HIDE DEF x
  <2>4. \A a \in Issued(C, x) : a.command \in Command /\ a.index \in Nat
    BY <2>1, RoundsAssumption DEF Applied
  <2>5. {e \in chosen : e.index \in 0 + 1 .. x /\ e.command \in Command}
          = {a \in Issued(C, x) : a.index > 0}
    BY <1>1, <2>1, <2>4, DecidedCommands
  <2>6. \A a \in Issued(C, x) : a.index > 0
    <3> SUFFICES ASSUME NEW a \in Issued(C, x) PROVE a.index > 0
      OBVIOUS
    <3>1. PICK c \in C : a.index = c.index
      BY DEF Issued
    <3> QED BY <1>1, <2>4, <3>1 DEF Register
  <2>7. {a \in Issued(C, x) : a.index > 0} = Issued(C, x)
    BY <2>6
  <2>8. store[i] = Replay(EmptyMap, {e \in chosen : e.index \in 0 + 1 .. x
                                                   /\ e.command \in Command})
    BY <2>3, <2>5, <2>7
  <2> QED BY <2>1, <2>2, <2>8 DEF x
<1>5. store = [i \in Server |-> store[i]]
  BY DEF StoreInv
<1> HIDE DEF C
<1>6. \A i \in Server : applied[i] = node[i].last_applied
  OBVIOUS
<1>7. applied \in [Server -> 0 .. N]
  BY <1>4
<1> HIDE DEF applied
<1>8. \A i \in Server :
        store[i] = Replay(EmptyMap, Service!Commands(chosen, 0, applied[i]))
  BY <1>4, <1>6, ServiceWords
<1>9. store = [i \in Server |->
                Service!Replay(Service!EmptyMap, Service!Commands(chosen, 0, applied[i]))]
  BY <1>5, <1>8, ServiceWords
<1>10. Service!IsSequence(chosen)
  BY <1>3, ServiceWords DEF Service!IsSequence
<1>11. Service!Cardinality(chosen) = N
  BY <1>3, ServiceWords
<1> QED BY <1>11, <1>7, <1>9, <1>10 DEF Service!Init, chosen, applied, C, Decisions

(* No node is taken back behind what it has applied. *)
NobodyGoesBack == [][\A i \in Server : node[i].last_applied <= node'[i].last_applied]_vars

LEMMA StepsServe ==
    ASSUME RoundsInv, RoundsInv', OnRecord, OnRecord', StoreInv, StoreInv', MapInv, MapInv',
           Gapless, Gapless', [RoundsNext]_roundsVars, None \notin Command,
           \A i \in Server : node[i].last_applied <= node'[i].last_applied
    PROVE  \/ Service!Next
           \/ UNCHANGED <<Decisions(history.committed),
                          [i \in Server |-> node[i].last_applied], store>>
<1> DEFINE C == history.committed
           D == history'.committed
           old == [i \in Server |-> node[i].last_applied]
           new == [i \in Server |-> node'[i].last_applied]
<1>1. ASSUME NEW i \in running, NEW m, Local(i, m),
             \A j \in Server : j # i => store'[j] = store[j]
      PROVE  Service!Next
  <2>1. i \in Server /\ LawfulInv' /\ C \subseteq D
    <3>1. i \in Server /\ LawfulInv'
      BY DEF RoundsInv, MailInv
    <3> QED BY <1>1, <3>1, RecordGrows
  <2>2. \A j \in Server : j # i => node'[j] = node[j]
    BY <1>1 DEF Local, Become, RoundsInv, LawfulInv, Inv, TypeOK
  <2>3. PICK N \in Nat : {c.index : c \in D} = 1 .. N
    BY DEF Gapless
  <2>4. /\ Register(D)
        /\ node[i].last_applied \in Nat /\ node'[i].last_applied \in Nat
        /\ node'[i].app \subseteq Applied /\ node'[i].app = Issued(D, node'[i].last_applied)
        /\ Reaches(C, node[i].last_applied) /\ Reaches(D, node'[i].last_applied)
    <3>1. node[i] \in NodeRecord /\ node'[i] \in NodeRecord
      BY <2>1 DEF RoundsInv, LawfulInv, Inv, TypeOK
    <3> QED BY <2>1, <3>1, NodeFields DEF OnRecord
  <2>5. {e.index : e \in Decisions(D)} = 1 .. N /\ Cardinality(Decisions(D)) = N
    BY <2>3, <2>4, DecisionsLength
  <2>6. node[i].last_applied <= node'[i].last_applied
    BY <2>1
  <2> DEFINE x == node[i].last_applied
             y == node'[i].last_applied
  <2>7. y \in x .. N
    <3>1. CASE y = 0
      BY <2>4, <2>6, <3>1
    <3>2. CASE y # 0
      <4>1. y \in 1 .. y
        BY <2>4, <3>2
      <4>2. PICK c \in D : c.index = y
        BY <2>4, <4>1 DEF Reaches
      <4>3. y \in 1 .. N
        BY <2>3, <4>2
      <4> QED BY <2>4, <2>6, <4>3
    <3> QED BY <3>1, <3>2
  <2>8. store[i] = Replay(EmptyMap, Issued(C, x)) /\ store'[i] = Replay(EmptyMap, Issued(D, y))
    BY <2>1 DEF MapInv, Replica
  <2>9. store'[i] = Replay(store[i], {e \in Decisions(D) : e.index \in x + 1 .. y
                                                          /\ e.command \in Command})
    <3>1. Issued(D, y) \subseteq Applied
      BY <2>4
    <3>2. x \in Nat /\ y \in Nat /\ x <= y /\ Reaches(C, x)
      BY <2>4, <2>6
    <3> HIDE DEF C, D, x, y
    <3> QED BY <2>1, <2>4, <2>8, <3>1, <3>2, ReplayedOnward
  <2>10. store' = [store EXCEPT ![i] = store'[i]] /\ new = [old EXCEPT ![i] = y]
    <3>1. store' = [store EXCEPT ![i] = store'[i]]
      BY <1>1, <2>1 DEF StoreInv
    <3>2. new = [old EXCEPT ![i] = y]
      BY <2>1, <2>2
    <3> QED BY <3>1, <3>2
  <2>11. old[i] = x /\ new[i] = y
    BY <2>1
  <2>12. Decisions(C) \subseteq Decisions(D)
    BY <2>1 DEF Decisions
  <2> HIDE DEF old, new, x, y, C, D
  <2>13. Service!Replay(store[i], Service!Commands(Decisions(D), x, y)) = store'[i]
    BY <2>9, ServiceWords
  <2>14. Service!IsSequence(Decisions(D)) /\ Service!Cardinality(Decisions(D)) = N
    BY <2>5, ServiceWords DEF Service!IsSequence
  <2>15. Decisions(C) \subseteq Decisions(D) /\ Service!IsSequence(Decisions(D))
    BY <2>12, <2>14
  <2>16. Service!Choose
    BY <2>15 DEF Service!Choose, Decisions, C, D
  <2>17. /\ new[i] \in old[i] .. Service!Cardinality(Decisions(D))
         /\ new = [old EXCEPT ![i] = new[i]]
         /\ store' = [store EXCEPT ![i] =
                        Service!Replay(@, Service!Commands(Decisions(D), old[i], new[i]))]
    BY <2>7, <2>10, <2>11, <2>13, <2>14
  <2>18. Service!Advance(i)
    BY <2>17 DEF Service!Advance, Decisions, old, new, D
  <2> QED BY <2>1, <2>16, <2>18 DEF Service!Next
<1>2. ASSUME NEW i \in running, NEW m, Serves(i, m) PROVE Service!Next
  <2>1. \A j \in Server : j # i => store'[j] = store[j]
    BY <1>2 DEF Serves, StoreInv
  <2> QED BY <1>1, <1>2, <2>1 DEF Serves
<1>3. ASSUME NEW i \in running, AnswerHint(i) PROVE Service!Next
  <2>1. \A j \in Server : j # i => store'[j] = store[j]
    BY <1>3 DEF AnswerHint
  <2> QED BY <1>1, <1>3, <2>1 DEF AnswerHint
<1>4. UNCHANGED <<vars, store, images>> => new = old /\ D = C /\ store' = store
  BY DEF vars
<1> HIDE DEF C, D
<1>5. D = C => Decisions(D) = Decisions(C)
  OBVIOUS
<1>6. UNCHANGED <<vars, store, images>> =>
        UNCHANGED <<Decisions(history.committed),
                    [i \in Server |-> node[i].last_applied], store>>
  BY <1>4, <1>5 DEF Decisions, C, D
<1> QED BY <1>2, <1>3, <1>6, RoundsServe

(* While the membership is fixed: the applications of a cluster driven      *)
(* round by round are one map, to which one sequence of commands, decided   *)
(* once and for all and without a gap, is applied in order, by every server *)
(* in its own time, whether commands reach it through deliver_committed or  *)
(* a snapshot does through handle_install_snapshot; unless a node is taken  *)
(* back behind what it has applied.                                         *)
THEOREM MapImplemented ==
    ASSUME FixedMembership, None \notin Command
    PROVE  RoundsSpec /\ NobodyGoesBack => ImplementsMap
<1> DEFINE All == RoundsInv /\ OnRecord /\ StoreInv /\ MapInv /\ Gapless
<1>1. All => Service!Init
  BY IsServed
<1>2. /\ All /\ All' /\ [RoundsNext]_roundsVars
      /\ [\A i \in Server : node[i].last_applied <= node'[i].last_applied]_vars
      => [Service!Next]_<<Decisions(history.committed),
                          [i \in Server |-> node[i].last_applied], store>>
  <2>1. UNCHANGED vars => \A i \in Server : node[i].last_applied = node'[i].last_applied
    BY DEF vars
  <2>2. All => \A i \in Server : node[i].last_applied \in Nat
    <3>1. RoundsInv => \A i \in Server : node[i] \in NodeRecord
      BY DEF RoundsInv, LawfulInv, Inv, TypeOK
    <3> QED BY <3>1, NodeFields
  <2>3. /\ All /\ [\A i \in Server : node[i].last_applied <= node'[i].last_applied]_vars
        => \A i \in Server : node[i].last_applied <= node'[i].last_applied
    BY <2>1, <2>2
  <2> QED BY <2>3, StepsServe
<1>3. RoundsSpec => []All
  BY MapsInvariance
<1> QED BY <1>1, <1>2, <1>3, PTL
        DEF RoundsSpec, NobodyGoesBack, ImplementsMap, Service!Spec, Decisions

=============================================================================
