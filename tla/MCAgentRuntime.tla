---------------------------- MODULE MCAgentRuntime ----------------------------
(* Instances of AgentRuntime for TLC. *)
EXTENDS AgentRuntime, TLC

\* Requests and processes differ in nothing but their identity.
Renamed == Permutations(Request) \cup Permutations(Process)
=============================================================================
