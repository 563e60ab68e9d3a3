-------------------------- MODULE MCAgentLifecycle --------------------------
(* AgentLifecycle with the delays of the code.                             *)
EXTENDS AgentLifecycle

\* A round takes no measurable time, or blocks the loop for a second.
ExecTimesDef == {0, 1}

=============================================================================
