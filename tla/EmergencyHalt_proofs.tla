------------------------ MODULE EmergencyHalt_proofs ------------------------
(***************************************************************************)
(* Theorems about EmergencyHalt, for all spans of time, however often the  *)
(* process stops.                                                          *)
(***************************************************************************)
EXTENDS EmergencyHalt, TLAPS

EndInv == HaltTypeOK /\ EmergencyHasEnd

LEMMA EmergencyFields ==
  /\ Calm \in Emergencies /\ Calm.until = 0 /\ ~Calm.mode
  /\ \A u \in Nat : /\ Raised(u) \in Emergencies
                    /\ Raised(u).mode /\ Raised(u).until = u
BY DEF Emergencies, Calm, Raised

LEMMA RestoredHasEnd ==
  ASSUME NEW a \in Emergencies, NEW saved \in Nat, a.mode <=> a.until # 0
  PROVE  /\ Restored(a, saved) \in Emergencies
         /\ Restored(a, saved).mode <=> Restored(a, saved).until # 0
BY EmergencyFields DEF Restored, Emergencies

LEMMA HandledHasEnd ==
  ASSUME now \in Nat, NEW e \in Emergencies, e.mode <=> e.until # 0
  PROVE  /\ HandledEmergency(e) \in Emergencies
         /\ HandledEmergency(e).mode <=> HandledEmergency(e).until # 0
BY EmergencyFields DEF HandledEmergency

LEMMA InitEnds == HaltInit => EndInv
BY EmergencyFields DEF HaltInit, EndInv, HaltTypeOK, EmergencyHasEnd, Quiet, Never

LEMMA StepEnds == EndInv /\ [HaltNext]_emergencyVars => EndInv'
<1> SUFFICES ASSUME EndInv, [HaltNext]_emergencyVars PROVE EndInv'
  OBVIOUS
<1> USE SpanAssumption, EmergencyFields DEF EndInv, HaltTypeOK, EmergencyHasEnd
<1>1. CASE MonitorCheck
  BY <1>1 DEF MonitorCheck, haltVars, savedVars, agentVars
<1>2. CASE NoDeviation
  BY <1>2 DEF NoDeviation, Quiet, haltVars, savedVars, agentVars
<1>3. ASSUME NEW d \in Durations, Detect(d)
      PROVE  EndInv'
  <2>1. monitor.now + d \in Nat \ {0}
    OBVIOUS
  <2>2. ctx' = Raised(monitor.now + d)
    BY <1>3 DEF Detect, RaisedEmergency
  <2>3. HaltTypeOK'
    BY <1>3, <2>1, <2>2 DEF Detect, haltVars, savedVars, agentVars
  <2>4. EmergencyHasEnd'
    BY <1>3, <2>1, <2>2 DEF Detect, savedVars, agentVars
  <2> QED BY <2>3, <2>4
<1>4. CASE SaveEmergency
  BY <1>4 DEF SaveEmergency, haltVars, agentVars
<1>5. CASE SaveFails
  BY <1>5 DEF SaveFails, Quiet, haltVars, savedVars, agentVars
<1>6. CASE RegimeShift
  BY <1>6 DEF RegimeShift, Quiet, haltVars, savedVars, agentVars
<1>7. CASE AutoPipeline \/ OtherPipeline
  <2>1. ctx' \in Emergencies /\ (ctx'.mode <=> ctx'.until # 0)
    BY <1>7, HandledHasEnd DEF AutoPipeline, OtherPipeline
  <2> QED BY <1>7, <2>1
      DEF AutoPipeline, OtherPipeline, Steps, haltVars, savedVars, agentVars
<1>8. CASE ShouldBlock \/ OpenOrder \/ Finish
  BY <1>8 DEF ShouldBlock, OpenOrder, Finish, Steps, monitorVars, haltVars, savedVars,
              agentVars
<1>9. CASE NothingToRestore \/ RestoreFails
  BY <1>9 DEF NothingToRestore, RestoreFails, monitorVars, haltVars, savedVars
<1>10. CASE ReadState
  <2>1. PICK a \in agentState : loaded' = Restored(a, disk)
    BY <1>10 DEF ReadState
  <2>2. loaded' \in Emergencies /\ (loaded'.mode <=> loaded'.until # 0)
    BY <2>1, RestoredHasEnd
  <2> QED BY <1>10, <2>2 DEF ReadState, monitorVars, haltVars, savedVars
<1>11. CASE RestoreEmergency
  BY <1>11 DEF RestoreEmergency, haltVars, savedVars
<1>12. CASE StopAgent
  BY <1>12 DEF StopAgent, monitorVars, haltVars
<1>13. CASE Down
  BY <1>13 DEF Down, Quiet, Never, savedVars
<1>14. CASE ProcessStarts
  BY <1>14 DEF ProcessStarts, monitorVars, haltVars, savedVars
<1>15. CASE Tick
  BY <1>15 DEF Tick, monitorVars, haltVars, savedVars, agentVars
<1>16. CASE UNCHANGED emergencyVars
  BY <1>16 DEF emergencyVars, monitorVars, haltVars, savedVars, agentVars
<1> QED BY <1>1, <1>2, <1>3, <1>4, <1>5, <1>6, <1>7, <1>8, <1>9, <1>10, <1>11, <1>12,
           <1>13, <1>14, <1>15, <1>16 DEF HaltNext, Monitoring, AutoTrading, Restoring

\* No emergency is ever without an end, in memory or saved.
THEOREM AlwaysEnds == HaltSpec => []EmergencyHasEnd
<1>1. EndInv => EmergencyHasEnd
  BY DEF EndInv
<1> QED BY InitEnds, StepEnds, <1>1, PTL DEF HaltSpec
-----------------------------------------------------------------------------
\* What the last emergency raised can rely on while it lasts: once the agent
\* is up the context holds it, before that it is saved or has been read.
Running == mishaps = {} /\ now < promised
Holds(e) == e.mode /\ promised <= e.until

InContext == Running /\ phase \in {"up", "stopping"} => Holds(ctx)
Read      == Running /\ phase = "restoring" => Holds(loaded)
OnDisk    == Running /\ phase \in {"down", "starting"} => Saved(promised)
OneState  == \A a, b \in agentState : a = b
Early     == /\ phase = "down" => monitor = Quiet
             /\ phase \in {"starting", "restoring"} /\ mishaps = {}
                  => monitor.pc \in {"idle", "checking"}
             /\ auto # "idle" => phase \in {"up", "stopping"}

HonourInv == EndInv /\ InContext /\ Read /\ OnDisk /\ OneState /\ Early

LEMMA InitHonours == HaltInit => HonourInv
BY InitEnds DEF HaltInit, HonourInv, InContext, Read, OnDisk, OneState, Early, Running, Quiet

LEMMA HandledHolds ==
  ASSUME EndInv, now < promised, Holds(ctx)
  PROVE  HandledEmergency(ctx) = ctx
BY DEF EndInv, HaltTypeOK, Emergencies, Holds, HandledEmergency

LEMMA RestoredHolds ==
  ASSUME EndInv, OneState, now < promised, Saved(promised), NEW a \in agentState
  PROVE  Holds(Restored(a, disk))
<1> USE DEF EndInv, HaltTypeOK
<1>1. promised # 0 /\ a \in Emergencies /\ a.until \in Nat /\ disk \in Nat
  BY DEF Emergencies
<1>2. disk = promised \/ a.until = promised
  BY DEF Saved, OneState
<1>3. a.mode <=> a.until # 0
  BY DEF EmergencyHasEnd
<1>4. CASE disk > a.until
  BY <1>1, <1>2, <1>4, EmergencyFields DEF Restored, Holds
<1>5. CASE ~(disk > a.until)
  BY <1>1, <1>2, <1>3, <1>5 DEF Restored, Holds
<1> QED BY <1>4, <1>5

LEMMA StepHonours == HonourInv /\ [HaltNext]_emergencyVars => HonourInv'
<1> SUFFICES ASSUME HonourInv, [HaltNext]_emergencyVars PROVE HonourInv'
  OBVIOUS
<1> DEFINE Others == InContext /\ Read /\ OnDisk /\ OneState /\ Early
<1>0. EndInv /\ EndInv'
  BY StepEnds DEF HonourInv
<1>a. now \in Nat /\ promised \in Nat /\ disk \in Nat
  BY <1>0 DEF EndInv, HaltTypeOK
<1> SUFFICES Others'
  BY <1>0 DEF HonourInv
<1> USE DEF HonourInv, InContext, Read, OnDisk, OneState, Early, Running, Holds, Saved
<1>1. CASE MonitorCheck
  BY <1>1 DEF MonitorCheck, Alive, haltVars, savedVars, agentVars
<1>2. CASE NoDeviation
  BY <1>2 DEF NoDeviation, Quiet, haltVars, savedVars, agentVars
<1>3. ASSUME NEW d \in Durations, Detect(d)
      PROVE  Others'
  <2>1. monitor.now + d \in Nat
    BY <1>0, SpanAssumption DEF EndInv, HaltTypeOK
  <2>2. ctx'.mode /\ ctx'.until = promised'
    BY <1>3, <2>1, EmergencyFields DEF Detect, RaisedEmergency
  <2>3. monitor # Quiet
    BY <1>3 DEF Detect, Quiet
  <2> QED BY <1>3, <2>1, <2>2, <2>3 DEF Detect, haltVars, savedVars, agentVars
<1>4. CASE SaveEmergency
  BY <1>4 DEF SaveEmergency, Quiet, haltVars, agentVars
<1>5. CASE SaveFails
  BY <1>5 DEF SaveFails, Quiet, haltVars, savedVars, agentVars
<1>6. CASE RegimeShift
  BY <1>6 DEF RegimeShift, Quiet, haltVars, savedVars, agentVars
<1>7. CASE AutoPipeline \/ OtherPipeline
  <2>1. Running /\ Holds(ctx) => ctx' = ctx
    BY <1>0, <1>7, HandledHolds DEF AutoPipeline, OtherPipeline
  <2> QED BY <1>7, <2>1
      DEF AutoPipeline, OtherPipeline, Steps, haltVars, savedVars, agentVars
<1>8. CASE ShouldBlock \/ OpenOrder \/ Finish
  BY <1>8 DEF ShouldBlock, OpenOrder, Finish, Steps, monitorVars, haltVars, savedVars,
              agentVars
<1>9. CASE NothingToRestore \/ RestoreFails
  BY <1>9 DEF NothingToRestore, RestoreFails, monitorVars, haltVars, savedVars
<1>10. CASE ReadState
  <2>1. PICK a \in agentState : loaded' = Restored(a, disk)
    BY <1>10 DEF ReadState
  <2>2. Running => Holds(Restored(a, disk))
    BY <1>0, <1>10, RestoredHolds DEF ReadState
  <2> QED BY <1>10, <2>1, <2>2 DEF ReadState, monitorVars, haltVars, savedVars
<1>11. CASE RestoreEmergency
  BY <1>11 DEF RestoreEmergency, haltVars, savedVars
<1>12. CASE StopAgent
  BY <1>12 DEF StopAgent, monitorVars, haltVars
<1>13. CASE Down
  BY <1>13, <1>a DEF Down, Quiet, savedVars
<1>14. CASE ProcessStarts
  BY <1>14 DEF ProcessStarts, Quiet, monitorVars, haltVars, savedVars
<1>15. CASE Tick
  BY <1>15, <1>a DEF Tick, monitorVars, haltVars, savedVars, agentVars
<1>16. CASE UNCHANGED emergencyVars
  BY <1>16 DEF emergencyVars, monitorVars, haltVars, savedVars, agentVars
<1> QED BY <1>1, <1>2, <1>3, <1>4, <1>5, <1>6, <1>7, <1>8, <1>9, <1>10, <1>11, <1>12,
           <1>13, <1>14, <1>15, <1>16 DEF HaltNext, Monitoring, AutoTrading, Restoring

\* The auto trader opens nothing before the end of the last emergency raised.
THEOREM EmergencyHonoured == HaltSpec => AutoHonoursEmergency
<1>1. HonourInv /\ [HaltNext]_emergencyVars => (Opens /\ mishaps = {} => now >= promised)
  <2> SUFFICES ASSUME HonourInv, [HaltNext]_emergencyVars, Opens, mishaps = {}
               PROVE  now >= promised
    OBVIOUS
  <2>1. now \in Nat /\ promised \in Nat
    BY DEF HonourInv, EndInv, HaltTypeOK
  <2>2. OpenOrder
    BY DEF Opens, HaltNext, Monitoring, MonitorCheck, NoDeviation, Detect, SaveEmergency,
           SaveFails, RegimeShift, AutoTrading, AutoPipeline, ShouldBlock, Finish, Steps,
           OtherPipeline, Restoring, NothingToRestore, RestoreFails, ReadState,
           RestoreEmergency, StopAgent, Down, ProcessStarts, Tick, emergencyVars
  <2>3. ~ctx.mode /\ phase \in {"up", "stopping"}
    BY <2>2 DEF OpenOrder, GuardTrade, Steps, HonourInv, Early
  <2> QED BY <2>1, <2>3 DEF HonourInv, InContext, Running, Holds
<1>2. HonourInv /\ [HaltNext]_emergencyVars => [Opens /\ mishaps = {} => now >= promised]_emergencyVars
  BY <1>1
<1> QED BY InitHonours, StepHonours, <1>2, PTL DEF HaltSpec, AutoHonoursEmergency
=============================================================================
