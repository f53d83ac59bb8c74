---------------------------- MODULE MCHistorySync ----------------------------
(***************************************************************************)
(* Small instances of HistorySync.                                         *)
(***************************************************************************)
EXTENDS HistorySync

\* All messages but the third are for a room of the client.
AllButThird == (1 .. MaxMessages) \ {3}

==============================================================================
