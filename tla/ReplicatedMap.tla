---------------------------- MODULE ReplicatedMap ----------------------------
(***************************************************************************)
(* What a cluster is for: one sequence of commands, decided once and for   *)
(* all, which every server applies to its own map, in order, none left out *)
(* and none twice (docs/PROTOCOL.md section 10, 5).      *)
(*                                                                         *)
(*   chosen   the entries decided on, each at its index; a change of the   *)
(*            membership takes an index and carries no command             *)
(*   applied  how far each server has come                                 *)
(*   map      its application's map                                        *)
(***************************************************************************)
EXTENDS KvStore, FiniteSets

CONSTANT Server

VARIABLES chosen, applied, map

(* The commands chosen at the indices beyond from, up to to. *)
Commands(entries, from, to) ==
    {c \in entries : c.index \in from + 1 .. to /\ c.command \in Command}

(* One entry at each index, and no index left out. *)
IsSequence(entries) ==
    {c.index : c \in entries} = 1 .. Cardinality(entries)

(* At the start, or whenever one begins to watch. *)
Init ==
    /\ IsSequence(chosen)
    /\ applied \in [Server -> 0 .. Cardinality(chosen)]
    /\ map = [i \in Server |-> Replay(EmptyMap, Commands(chosen, 0, applied[i]))]

(* More is decided. *)
Choose == chosen \subseteq chosen' /\ IsSequence(chosen')

(* Server i applies what comes next, as far as it is decided, or is given   *)
(* the map of a server that has.                                            *)
Advance(i) ==
    /\ applied'[i] \in applied[i] .. Cardinality(chosen')
    /\ applied' = [applied EXCEPT ![i] = applied'[i]]
    /\ map' = [map EXCEPT ![i] =
                    Replay(@, Commands(chosen', applied[i], applied'[i]))]

Next == Choose /\ \E i \in Server : Advance(i)

Spec == Init /\ [][Next]_<<chosen, applied, map>>
=============================================================================
