---------------------------- MODULE MCMerkleTree -----------------------------
(***************************************************************************)
(* Small instances of MerkleTree.                                          *)
(***************************************************************************)
EXTENDS MerkleTree

CONSTANTS
  a, b, c,             \* identity commitments
  s1, s2, s3, s4, s5   \* slots: three of one group, two of another

\* Member a is in both groups, and the second group lists a removed member,
\* whose commitment reads as the zero value.  One user more than fits.
ManyUsers ==
  { [slot |-> s1, commitment |-> a],
    [slot |-> s2, commitment |-> b],
    [slot |-> s3, commitment |-> c],
    [slot |-> s4, commitment |-> a],
    [slot |-> s5, commitment |-> Zero] }

==============================================================================
