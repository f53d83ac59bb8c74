------------------------------ MODULE MCProfile ------------------------------
(***************************************************************************)
(* Small instances of Profile.                                             *)
(***************************************************************************)
EXTENDS Profile, TLC

CONSTANTS
  p1,       \* a public room
  v1,       \* a private room
  d1,       \* a direct room
  n1, n2,   \* names of contacts
  k1,       \* keys of contacts
  c1, c2    \* calls

\* The profile of another session: a room more.
MCFiles ==
  {[rooms |-> [r \in Room |-> IF r \in {defaultChatroom, d1} THEN 1 ELSE 0],
    keyed |-> {d1}, contacts |-> [n \in Name |-> NoContact]]}

Symmetry == Permutations({n1, n2}) \cup Permutations({c1, c2})

==============================================================================
