------------------------------ MODULE MCBroadcast ------------------------------
(***************************************************************************)
(* A small instance of Broadcast for TLC.                                  *)
(***************************************************************************)
EXTENDS Broadcast

CONSTANTS alerts

OneChannel == [e \in Event |-> alerts]
===============================================================================
