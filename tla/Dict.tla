-------------------------------- MODULE Dict --------------------------------
(***************************************************************************)
(* What a b-tree promises: a finite map from keys to values, and for every *)
(* operation the answer that map gives.  BTree implements it.  The map is  *)
(* its graph, a set of entries with at most one for a key.                 *)
(***************************************************************************)
CONSTANTS Keys, Values

VARIABLES map, ret

Init == map = {} /\ ret = "none"

At(k) == {e \in map : e.key = k}

Insert(k, v) ==
    \/ /\ ret' = "ok" /\ At(k) = {}
       /\ map' = map \cup {[key |-> k, value |-> v]}
    \/ /\ ret' = "duplicate" /\ At(k) # {}
       /\ UNCHANGED map

Update(k, v) ==
    \/ /\ ret' = "ok" /\ At(k) # {}
       /\ map' = (map \ At(k)) \cup {[key |-> k, value |-> v]}
    \/ /\ ret' = "absent" /\ At(k) = {}
       /\ UNCHANGED map

Remove(k) ==
    \/ /\ ret' = "ok" /\ At(k) # {}
       /\ map' = map \ At(k)
    \/ /\ ret' = "absent" /\ At(k) = {}
       /\ UNCHANGED map

Find(k) ==
    /\ ret' \notin {"ok", "duplicate"}
    /\ ret' \in IF At(k) = {} THEN {"absent"} ELSE {e.value : e \in At(k)}
    /\ UNCHANGED map

Next ==
    \E k \in Keys :
        \/ Remove(k) \/ Find(k)
        \/ \E v \in Values : Insert(k, v) \/ Update(k, v)

Spec == Init /\ [][Next]_<<map, ret>>
=============================================================================
