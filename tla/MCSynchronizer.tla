--------------------------- MODULE MCSynchronizer ----------------------------
(***************************************************************************)
(* Small instances of Synchronizer.                                        *)
(***************************************************************************)
EXTENDS Synchronizer

CONSTANTS r1, r2   \* two timers, or two runs of one timer

==============================================================================
