---------------------------- MODULE MCAgentLoops ----------------------------
(***************************************************************************)
(* Every agent for three iterations, two calls in a message, two attempts   *)
(* at a reply.                                                              *)
(***************************************************************************)
EXTENDS AgentLoops

AllAgents == AgentKinds
ImageAgents == CocoaAgents
=============================================================================
