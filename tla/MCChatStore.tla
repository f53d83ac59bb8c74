----------------------------- MODULE MCChatStore -----------------------------
(***************************************************************************)
(* Small instances of ChatStore.                                           *)
(***************************************************************************)
EXTENDS ChatStore

CONSTANT r1   \* a room besides the lobby

\* The second and the third message have one timestamp.
Times == <<1, 2, 2>>

==============================================================================
