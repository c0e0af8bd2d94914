----------------------------- MODULE OrderedMap -----------------------------
(***************************************************************************)
(* What a table promises to its users: a map from keys to values in which  *)
(* an operation changes one key and no other.                              *)
(***************************************************************************)
CONSTANTS Keys, Vals, Absent

VARIABLE map

Init == map = [k \in Keys |-> Absent]

OthersKept(k) == \A j \in Keys \ {k} : map'[j] = map[j]

Put(k, v) == map'[k] = v /\ OthersKept(k)

Del(k) == map'[k] = Absent /\ OthersKept(k)

Next ==
  /\ \E k \in Keys : Del(k) \/ \E v \in Vals : Put(k, v)
  /\ map' \in [Keys -> Vals \cup {Absent}]

Spec == Init /\ [][Next]_map
=============================================================================
