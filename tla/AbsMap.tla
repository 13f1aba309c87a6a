------------------------------- MODULE AbsMap -------------------------------
(***************************************************************************)
(* What an index of the kernel promises its users: it holds a set of keys, *)
(* an insertion adds one that was absent, an erasure removes one that was  *)
(* present, an exchange does both at once, and nothing else changes the    *)
(* set.                                                                    *)
(***************************************************************************)
CONSTANT Keys

VARIABLE keys

Init == keys = {}

Add(k) ==
  /\ k \notin keys
  /\ keys' = keys \cup {k}

Remove(k) ==
  /\ k \in keys
  /\ keys' = keys \ {k}

Exchange(old, new) ==
  /\ old \in keys /\ new \notin keys
  /\ keys' = (keys \ {old}) \cup {new}

Next ==
  \/ \E k \in Keys : Add(k) \/ Remove(k)
  \/ \E old, new \in Keys : Exchange(old, new)

Spec == Init /\ [][Next]_keys
=============================================================================
