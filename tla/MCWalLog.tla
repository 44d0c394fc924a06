------------------------------- MODULE MCWalLog -------------------------------
(***************************************************************************)
(* Entries and votes of two terms.  Snapshots through the first or the     *)
(* second index, of either term: taken of the log, or sent by a leader     *)
(* whose log goes further or differs.                                      *)
(***************************************************************************)
EXTENDS WalLog

CONSTANTS s1, v1

E(term) == NormalEntry(term, v1)

SomeBatches == {<<E(1)>>, <<E(1), E(2)>>, <<E(2), ConfigEntry(2, {s1})>>}

SomeHardStates == [term : 1 .. 2, voted_for : {s1, None}]

SomeSnapshots ==
    [index : 1 .. 2, term : 1 .. 2, config : {{s1}},
     data : {{[index |-> 1, command |-> v1]}}]
=============================================================================
