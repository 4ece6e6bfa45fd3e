--------------------------- MODULE MCEmergencyHalt ---------------------------
(* The emergency, and the auto trader's pipeline by itself: a behaviour is   *)
(* one of either, chosen at the start; the other rests.                      *)
EXTENDS EmergencyHalt, TradePipeline

CONSTANT autoTrader

VARIABLE focus

\* Spans in the order of the code's: 300 < 600 < 86400 seconds.
ShortSpans == {2, 4}
\* An emergency outlasts the cooldown by more than a short one lasts.
LongDay    == {2, 6}

vars == <<focus, emergencyVars, pipelineVars>>

Init ==
  /\ focus \in {"emergency", "pipeline"}
  /\ HaltInit /\ (focus = "pipeline" => agentState = {})
  /\ PipelineInit /\ (focus = "emergency" => debating /\ enabled)

Next ==
  \/ focus = "emergency" /\ HaltNext /\ UNCHANGED <<focus, pipelineVars>>
  \/ focus = "pipeline" /\ PipelineNext /\ UNCHANGED <<focus, emergencyVars>>

\* HaltFairness and the pipelines' own; what rests need not move.
Spec ==
  /\ Init /\ [][Next]_vars
  /\ WF_emergencyVars(focus = "emergency" /\ Tick)
  /\ WF_emergencyVars(focus = "emergency" /\ ProcessStarts)
  /\ WF_emergencyVars(focus = "emergency" /\ Restoring)
  /\ WF_emergencyVars(focus = "emergency" /\ OtherPipeline)
  /\ \A p \in Pipelines : WF_pipelineVars(Advance(p))
=============================================================================
