-------------------------- MODULE MCMessageHandler ---------------------------
(***************************************************************************)
(* Small instances of MessageHandler.                                      *)
(***************************************************************************)
EXTENDS MessageHandler, TLC

CONSTANTS
  a, b,                \* members, at the leaves 1 and 0
  h1, h2,              \* handlers
  x1, x2, x3, x4       \* contents

TwoLeaves  == (a :> 1) @@ (b :> 0)
OneLeaf    == a :> 0

\* The member a may spam; b posts a message at most.
FourAndOne == (a :> 4) @@ (b :> 1)
Two        == a :> 2

\* Handlers are alike.
Symmetry == Permutations(Handler)

==============================================================================
