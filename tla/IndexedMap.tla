----------------------------- MODULE IndexedMap -----------------------------
(***************************************************************************)
(* What heyp/threads/par-indexed-map.h promises: keys get the numbers 0,   *)
(* 1, ... in the order they come, an entry is never moved or freed, and    *)
(* every operation on an entry happens at once.  A value is the number of  *)
(* operations done on it.                                                  *)
(***************************************************************************)
EXTENDS Integers, FiniteSets

CONSTANT Keys

VARIABLES id_of,    \* key -> id, for the keys that have one
          value     \* id -> value

avars == <<id_of, value>>

Init == id_of = <<>> /\ value = <<>>

GetID(k) ==
    LET id == Cardinality(DOMAIN id_of)
    IN  /\ k \notin DOMAIN id_of
        /\ id_of' = [x \in DOMAIN id_of \cup {k} |-> IF x = k THEN id ELSE id_of[x]]
        /\ value' = [x \in 0 .. id |-> IF x = id THEN 0 ELSE value[x]]

OnID(id) == /\ id \in DOMAIN value
            /\ value' = [value EXCEPT ![id] = @ + 1]
            /\ UNCHANGED id_of

Next == (\E k \in Keys : GetID(k)) \/ (\E id \in DOMAIN value : OnID(id))

Spec == Init /\ [][Next]_avars
=============================================================================
