---------------------------- MODULE MCAgentDelivery ----------------------------
(* Finite instances of AgentDelivery for TLC. *)
EXTENDS AgentDelivery

Ids == (1..Lines) \X (1..MaxDraws)
=============================================================================
