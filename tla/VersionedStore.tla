--------------------------- MODULE VersionedStore ---------------------------
(***************************************************************************)
(* What the coordination bus promises about its shared context: a write    *)
(* raises one key's version by exactly one, from zero when it is absent,   *)
(* and takes no other key's entry away unless the key is new and the store *)
(* is full, and then exactly one.                                          *)
(***************************************************************************)
EXTENDS Naturals, FiniteSets

CONSTANTS Keys, Capacity

VARIABLE store   \* stored key -> version

Init == store = <<>>

Current(k) == IF k \in DOMAIN store THEN store[k] ELSE 0

Without(removed, k) ==
    [x \in (DOMAIN store \ removed) \cup {k} |->
        IF x = k THEN Current(k) + 1 ELSE store[x]]

Rewrite(k) ==
    /\ k \in DOMAIN store
    /\ store' = Without({}, k)

Insert(k) ==
    /\ k \notin DOMAIN store
    /\ Cardinality(DOMAIN store) < Capacity
    /\ store' = Without({}, k)

Replace(k, victim) ==
    /\ k \notin DOMAIN store
    /\ Cardinality(DOMAIN store) >= Capacity
    /\ store' = Without({victim}, k)

Next ==
    \E k \in Keys :
        \/ Rewrite(k)
        \/ Insert(k)
        \/ \E victim \in DOMAIN store : Replace(k, victim)

Spec == Init /\ [][Next]_store
=============================================================================
