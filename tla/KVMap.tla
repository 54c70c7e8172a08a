------------------------------- MODULE KVMap -------------------------------
(* What the storage engine promises its writers: a map from keys to values, *)
(* changed by one operation at a time, each with its answer.                *)
CONSTANTS Keys, Values, Absent

VARIABLES
  map,     \* the value of each key, or Absent
  answer   \* what the latest SET or DEL found

Init == map = [k \in Keys |-> Absent] /\ answer = "none"

Found(k) == IF map[k] = Absent THEN "absent" ELSE "present"

Set(k, v) == /\ answer' = Found(k)
             /\ map' = [map EXCEPT ![k] = v]

Del(k) == /\ answer' = Found(k)
          /\ map' = [map EXCEPT ![k] = Absent]

Next == \E k \in Keys : Del(k) \/ \E v \in Values : Set(k, v)

Spec == Init /\ [][Next]_<<map, answer>>
=============================================================================
