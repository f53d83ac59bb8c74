---------------------------- MODULE MCServer ----------------------------
(***************************************************************************)
(* Small instances of KeyExchangeService, and of ServerStart in it.        *)
(***************************************************************************)
EXTENDS KeyExchangeService

CONSTANTS
  n1, n2,       \* nodes
  x, y,         \* shares
  alice,        \* the nullifier of a member
  b1, b2        \* bundles

\* A value that the radix 2 cuts short: the limit is 1.
MCThreshold == {<<1, 2>>}

\* The value of docker-compose.
MCDelay == {<<1, 0, 0>>}

\* One node at work on two requests; the other may start and end beside it.
MCWorker == {<<n1, 1>>, <<n1, 2>>}

\* Alice creates two bundles with one share, and deletes the first: requests of both
\* kinds are counted together.
MCRequest ==
  {[nullifier |-> alice, share |-> x, kind |-> "create", bundles |-> {b1}],
   [nullifier |-> alice, share |-> x, kind |-> "create", bundles |-> {b2}],
   [nullifier |-> alice, share |-> y, kind |-> "delete", bundles |-> {b1}]}

==============================================================================
