------------------------------- MODULE KvStore -------------------------------
(***************************************************************************)
(* The application of examples/kv_store.rs: a map, the two commands that   *)
(* change it, and the lines a snapshot of it consists of.  Keys and values *)
(* are free of the tabs and newlines that separate them.                   *)
(***************************************************************************)
EXTENDS Naturals

CONSTANTS Key, Datum, Absent

ASSUME AbsentAssumption == Absent \notin Datum

Put(k, v) == [op |-> "PUT", key |-> k, value |-> v]
Del(k)    == [op |-> "DEL", key |-> k]

Command == {Put(k, v) : k \in Key, v \in Datum} \cup {Del(k) : k \in Key}

EmptyMap == [k \in Key |-> Absent]

ApplyCommand(map, c) ==
    [map EXCEPT ![c.key] = IF c.op = "PUT" THEN c.value ELSE Absent]

(* The map serialized: one line for every key it holds. *)
LinesOf(map) == {<<k, map[k]>> : k \in {k \in Key : map[k] # Absent}}

(* Mutant: the map is not cleared first. *)
RestoreOver(map, lines) ==
    [k \in Key |-> IF \E v \in Datum : <<k, v>> \in lines
                   THEN CHOOSE v \in Datum : <<k, v>> \in lines
                   ELSE map[k]]

Restore(map, lines) ==
    [k \in Key |-> IF \E v \in Datum : <<k, v>> \in lines
                   THEN CHOOSE v \in Datum : <<k, v>> \in lines
                   ELSE Absent]

(* A map with commands, each at its log index, applied in log order: of     *)
(* those for a key the last one counts.                                    *)
Replay(map, applied) ==
    [k \in Key |->
        LET writes == {a \in applied : a.command.key = k}
            last   == CHOOSE a \in writes : \A b \in writes : b.index <= a.index
        IN  IF writes = {} THEN map[k] ELSE ApplyCommand(map, last.command)[k]]
=============================================================================
