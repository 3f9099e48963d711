-------------------------- MODULE MCAgentActivity --------------------------
(* A sub-agent with two tools that may need a permission, a second one     *)
(* without, and a tool of the agent that may need one too.                 *)
EXTENDS AgentActivity, TLC

CONSTANTS task, task2, bash, edit, read

MCParentOf == edit :> task @@ read :> task2
===========================================================================
