----------------------------- MODULE MCRootSync ------------------------------
(***************************************************************************)
(* Small instances of RootSync.                                            *)
(***************************************************************************)
EXTENDS RootSync

CONSTANTS m1, m2   \* messages

==============================================================================
