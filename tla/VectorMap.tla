----------------------------- MODULE VectorMap -----------------------------
(***************************************************************************)
(* What a vector segment promises: a map from vector ids to vectors.       *)
(***************************************************************************)
CONSTANTS
  Id,     \* vector ids
  Code,   \* vectors, normalised and in the configured precision
  NoCode  \* what an id without a vector is mapped to

VARIABLE held

Init == held = [i \in Id |-> NoCode]

Put(i, c) == held' = [held EXCEPT ![i] = c]
Drop(i) == held[i] # NoCode /\ held' = [held EXCEPT ![i] = NoCode]

Next == \E i \in Id : Drop(i) \/ \E c \in Code : Put(i, c)

Spec == Init /\ [][Next]_held

=============================================================================
