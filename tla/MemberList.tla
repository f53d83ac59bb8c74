----------------------------- MODULE MemberList ------------------------------
(***************************************************************************)
(* What the membership tree promises to everything above it: an            *)
(* append-only list of identity commitments with a bounded length, in      *)
(* which an entry may be replaced by the zero value and by nothing else.   *)
(* A client that remembers its leaf index, and a ban that recorded one,    *)
(* rely on exactly this.                                                   *)
(***************************************************************************)
EXTENDS Integers, Sequences

CONSTANTS
  Value,    \* identity commitments and the zero value
  Zero,     \* the zero value
  Capacity  \* the largest number of entries

VARIABLE members

Init == members = << >>

Append1(v) ==
  /\ Len(members) < Capacity
  /\ members' = Append(members, v)

ZeroOut(i) == members' = [members EXCEPT ![i] = Zero]

Next ==
  \/ \E v \in Value : Append1(v)
  \/ \E i \in DOMAIN members : ZeroOut(i)

Spec == Init /\ [][Next]_members

==============================================================================
