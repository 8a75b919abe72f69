--------------------------------- MODULE KMap ---------------------------------
(***************************************************************************)
(* What a hash table promises (kgtables.c, the comments at its top): a     *)
(* finite map, of which one key is set or deleted at a time.               *)
(***************************************************************************)
CONSTANTS Keys, Values, Free

VARIABLE map

Init == map = [k \in Keys |-> Free]

Set(k, v) == map' = [map EXCEPT ![k] = v]

Delete(k) == map' = [map EXCEPT ![k] = Free]

Next == \E k \in Keys : Delete(k) \/ \E v \in Values : Set(k, v)

Spec == Init /\ [][Next]_map
=============================================================================
