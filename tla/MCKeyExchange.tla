---------------------------- MODULE MCKeyExchange ----------------------------
(***************************************************************************)
(* Small instances of KeyExchange.                                         *)
(***************************************************************************)
EXTENDS KeyExchange

CONSTANTS alice, bob   \* users

==============================================================================
