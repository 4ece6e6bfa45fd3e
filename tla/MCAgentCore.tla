----------------------------- MODULE MCAgentCore -----------------------------
(* AgentCore with the two callers of _tick the program has.                *)
EXTENDS AgentCore

CONSTANTS loop, heartbeat

TwoDrivers == {loop, heartbeat}
=============================================================================
