-------------------------------- MODULE Rounds --------------------------------
(***************************************************************************)
(* A cluster in one process, as examples/ and tests/ drive it: the nodes   *)
(* and the messages of module RaftCluster, with real clocks, one mailbox   *)
(* per node, and a caller that executes the actions of every step at once. *)
(*                                                                         *)
(*   timer         the clocks of the nodes                                 *)
(*   heard         ticks since the node last heard from its leader         *)
(*   mailbox       messages for a node, in the order they were sent        *)
(*   running       the servers created so far                              *)
(*   side          the servers cut off from the others                     *)
(*   turn          whose turn it is in step_round: 1 to Size for the       *)
(*                 ticks, Size + 1 to 2 * Size for the mailboxes, then the *)
(*                 client; 0 when nodes and messages come in any order     *)
(*   store         the application's map on each node                      *)
(*   images        the snapshots applications have handed over             *)
(*   calls         how many requests and partitions there have been        *)
(*                                                                         *)
(* The wire keeps every message ever sent; what is delivered comes out of  *)
(* the mailboxes.                                                          *)
(***************************************************************************)
EXTENDS RaftProperties, Timing, KvStore, SequencesExt

CONSTANTS
    Order,          \* the place of each server in the order of creation
    Founders,       \* the servers created at the start
    Sides,          \* the groups of servers that may be cut off
    MaxCalls,       \* requests and partitions in a behaviour
    MaxMail         \* ticks wait while a mailbox is this long (in any order)

ASSUME RoundsAssumption ==
    /\ Value \subseteq Command
    /\ IsFiniteSet(Server)
    /\ Order \in [Server -> Nat]
    /\ Founders \subseteq Server
    /\ Sides \subseteq SUBSET Server
    /\ {MaxCalls, MaxMail} \subseteq Nat

(* The cluster this is one of: any server may time out, those not there    *)
(* from the start may join, and the wire forgets nothing.                  *)
ASSUME ClusterAssumption ==
    /\ Redeliver
    /\ Campaigners = Server
    /\ Candidates = Server \ Founders
    /\ MaxTerm > 0

VARIABLES timer, heard, mailbox, running, side, turn, store, images, calls

roundsVars == <<vars, timer, heard, mailbox, running, side, turn, store, images, calls>>

-----------------------------------------------------------------------------
(* Whose turn it is. *)

Place(i) == Cardinality({j \in running : Order[j] <= Order[i]})

Size == Cardinality(running)

IsTurn(k) == turn \in {0, k}

NextTurn == turn' = CASE turn = 0            -> 0
                      [] turn = 2 * Size + 1 -> 1
                      [] OTHER               -> turn + 1

(* A snapshot hint is answered before anything else happens. *)
NoHints == \A i \in running : node[i].hints = {}

(* No election opens term MaxTerm, so no TimeoutNow comes too late. *)
MayCampaign(n) == n.current_term + 1 < MaxTerm

-----------------------------------------------------------------------------
(* Executing the actions of a step. *)

Connected(a, b) == (a \in side) = (b \in side)

(* No step sends a server two messages. *)
Posted(boxes, i, messages) ==
    [p \in Server |->
        boxes[p] \o SetToSeq({m \in messages :
                                m.to = p /\ p \in running' /\ Connected(i, p)})]

(* What a step has the application do: restore the snapshot just installed, *)
(* or apply the commands just committed.                                    *)
Executed(map, n, after) ==
    IF after.log.base_index > n.log.base_index
    THEN Restore(map, (CHOOSE image \in images :
                            image.index = after.log.base_index).lines)
    ELSE Replay(map, after.app \ n.app)

(* Node i steps to after, with these mailboxes left. *)
Absorb(i, after, boxes) ==
    /\ Local(i, after)
    /\ mailbox' = Posted(boxes, i, after.sends)
    /\ store' = [store EXCEPT ![i] = Executed(@, node[i], after)]

(* A request to the leader, outside a step of time. *)
Request(i, after) ==
    /\ Absorb(i, after, mailbox)
    /\ NextTurn
    /\ calls' = calls + 1
    /\ UNCHANGED <<timer, heard, side, images>>

StartTimers ==
    {t \in [Server -> UNION {FreshTimers(i) : i \in Server}] :
        \A i \in Server : t[i] \in FreshTimers(i)}

RoundsInit ==
    /\ Init
    /\ timer \in StartTimers
    /\ heard = [i \in Server |-> 0]
    /\ mailbox = [i \in Server |-> << >>]
    /\ running = Founders
    /\ side = {}
    /\ turn \in {0, 1}
    /\ store = [i \in Server |-> EmptyMap]
    /\ images = {}
    /\ calls = 0

-----------------------------------------------------------------------------
(* A round. *)

TickNode(i) ==
    /\ IsTurn(Place(i)) /\ NoHints
    /\ turn = 0 => \A p \in running : Len(mailbox[p]) < MaxMail
    /\ TimesOut(node[i], timer[i]) => MayCampaign(node[i])
    /\ UNCHANGED <<running, side, images, calls>>
    /\ \E outcome \in Tick(node[i], timer[i]) :
            /\ Absorb(i, outcome[1], mailbox)
            /\ timer' = [timer EXCEPT ![i] = outcome[2]]
    /\ heard' = [heard EXCEPT ![i] = Smaller(@ + 1, Configured[i].election_timeout_min)]
    /\ NextTurn

Deliver(i) ==
    LET m == Head(mailbox[i])
    IN  /\ IsTurn(Size + Place(i)) /\ NoHints
        /\ mailbox[i] # << >>
        /\ UNCHANGED <<running, side, turn, images, calls>>
        /\ \E outcome \in Feed(node[i], timer[i], m) :
                /\ Absorb(i, outcome[1], [mailbox EXCEPT ![i] = Tail(@)])
                /\ timer' = [timer EXCEPT ![i] = outcome[2]]
        /\ heard' = [heard EXCEPT ![i] = IF FromLeader(node[i], m) THEN 0 ELSE @]

Drained(i) ==
    /\ turn = Size + Place(i) /\ NoHints
    /\ mailbox[i] = << >>
    /\ NextTurn
    /\ UNCHANGED <<vars, timer, heard, mailbox, running, side, store, images, calls>>

(* The application serializes its map and hands it back. *)
AnswerHint(i) ==
    \E index \in node[i].hints :
        LET after == [HandleSnapshotEvent(node[i], index) EXCEPT !.hints = @ \ {index}]
        IN  /\ Local(i, after)
            /\ images' = images \cup {[index |-> index, lines |-> LinesOf(store[i])]}
            /\ UNCHANGED <<timer, heard, mailbox, running, side, turn, store, calls>>

EndRound ==
    /\ turn = 2 * Size + 1 /\ NoHints
    /\ NextTurn
    /\ UNCHANGED <<vars, timer, heard, mailbox, running, side, store, images, calls>>

-----------------------------------------------------------------------------
(* Between the rounds: requests to the first node that leads, a new node,  *)
(* and a network that splits and heals.                                    *)

MayCall == IsTurn(2 * Size + 1) /\ NoHints /\ calls < MaxCalls

FirstLeader(i) ==
    /\ node[i].role = "Leader"
    /\ \A j \in running : Order[j] < Order[i] => node[j].role # "Leader"

Write(i, c) ==
    /\ MayCall
    /\ FirstLeader(i) /\ AcceptsRequests(node[i])
    /\ LastIndex(node[i].log) < MaxIndex
    /\ UNCHANGED running
    /\ Request(i, Propose(node[i], c))

Join(i, s) ==
    /\ MayCall
    /\ s \notin running
    /\ FirstLeader(i) /\ AcceptsRequests(node[i]) /\ ~ ConfigInProgress(node[i])
    /\ LastIndex(node[i].log) < MaxIndex
    /\ running' = running \cup {s}
    /\ Request(i, ChangeMembership(node[i], node[i].voters \cup {s}))

HandOver(i, s) ==
    /\ MayCall
    /\ FirstLeader(i)
    /\ MayCampaign(node[i])
    /\ UNCHANGED running
    /\ Request(i, TransferLeadership(node[i], s))

Partition(group) ==
    /\ MayCall
    /\ side = {}
    /\ side' = group
    /\ calls' = calls + 1
    /\ UNCHANGED <<vars, timer, heard, mailbox, running, turn, store, images>>

Heal ==
    /\ IsTurn(2 * Size + 1) /\ NoHints
    /\ side # {}
    /\ side' = {}
    /\ UNCHANGED <<vars, timer, heard, mailbox, running, turn, store, images, calls>>

-----------------------------------------------------------------------------
StepRound ==
    \/ \E i \in running : TickNode(i)
    \/ \E i \in running : Deliver(i)
    \/ \E i \in running : Drained(i)
    \/ \E i \in running : AnswerHint(i)
    \/ EndRound

RoundsNext ==
    \/ StepRound
    \/ \E i \in running, c \in Value : Write(i, c)
    \/ \E i \in running, s \in Server : Join(i, s)
    \/ \E i \in running, s \in Targets : HandOver(i, s)
    \/ \E group \in Sides : Partition(group)
    \/ Heal

(* The caller keeps calling step_round; requests and partitions may or may *)
(* not come.                                                               *)
RoundsSpec == RoundsInit /\ [][RoundsNext]_roundsVars /\ WF_turn(NextTurn)
=============================================================================
