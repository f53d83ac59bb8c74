------------------------------ MODULE MCRoomList ------------------------------
(***************************************************************************)
(* Small instances of RoomList.                                            *)
(***************************************************************************)
EXTENDS RoomList, TLC

CONSTANTS
  p1,       \* a public room
  v1,       \* a private room
  d1,       \* a direct room
  n1, n2,   \* names of contacts
  k1        \* a key

Symmetry == Permutations({n1, n2})

==============================================================================
