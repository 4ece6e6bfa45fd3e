---------------------------- MODULE EmergencyHalt ----------------------------
(***************************************************************************)
(* How an emergency stops trading: skills/deviation_monitor raises it in   *)
(* the global context, saves it and announces market.regime_shift, which   *)
(* makes signal_executor halt; the pipeline (brain/orchestrator.py) ends   *)
(* it; brain/agent_core.py carries it over a restart; the auto trader of   *)
(* automation/cron.py meets it on its way to open_trade.  An action ends   *)
(* at an `await`.                                                          *)
(***************************************************************************)
EXTENDS Integers

CONSTANTS Durations,  \* emergency_seconds: 300, 480 or 86400
          Cooldown,   \* 600 s, of the monitor and of the subscriber
          HaltSpan,   \* halt_seconds: 300
          MaxNow, MaxStop  \* bounds of the model

ASSUME SpanAssumption ==
  /\ Durations \subseteq Nat \ {0}
  /\ {Cooldown, HaltSpan} \subseteq Nat \ {0}
  /\ {MaxNow, MaxStop} \subseteq Nat

Never == 0  \* as a time

VARIABLES
  now,
  ctx,             \* emergency_mode and emergency_until of the global context
  lastActivation,  \* deviation_monitor_last_activation
  monitor,         \* the check of DeviationMonitor that is running
  disk,            \* until of emergency_mode_state, Never if not saved
  agentState,      \* emergency of agent_core_state, {} or {emergency}
  haltUntil,       \* _emergency_halt_until of SignalExecutorSkill
  lastTriggered,   \* _last_triggered of SignalExecutorSubscriber
  phase, loaded,   \* how far AgentCore is, what _restore_state has read
  auto,              \* where auto_trade_task is
  promised,        \* history: the end of the last emergency raised
  mishaps,         \* history: what went wrong while this process started
  stops

monitorVars == <<ctx, lastActivation, monitor>>
haltVars    == <<haltUntil, lastTriggered>>
savedVars   == <<disk, agentState>>
agentVars   == <<phase, loaded, stops>>
emergencyVars == <<now, monitorVars, haltVars, savedVars, agentVars, auto, promised, mishaps>>

Emergencies == [mode : BOOLEAN, until : Nat]
Calm == [mode |-> FALSE, until |-> 0]
Raised(until) == [mode |-> TRUE, until |-> until]

Alive == phase # "down"
Quiet == [pc |-> "idle", now |-> 0, until |-> 0]
-----------------------------------------------------------------------------
(***************************************************************************)
(* DeviationMonitorSkill._check_once, run by tick.30s one at a time        *)
(***************************************************************************)

\* Up to the first await: the cooldown
MonitorCheck ==
  /\ Alive /\ monitor.pc = "idle"
  /\ lastActivation = Never \/ now - lastActivation >= Cooldown
  /\ monitor' = [pc |-> "checking", now |-> now, until |-> 0]
  /\ UNCHANGED <<now, ctx, lastActivation, haltVars, savedVars, agentVars, auto,
                 promised, mishaps>>

NoDeviation ==
  /\ monitor.pc = "checking" /\ monitor' = Quiet
  /\ UNCHANGED <<now, ctx, lastActivation, haltVars, savedVars, agentVars, auto,
                 promised, mishaps>>

EndlessEmergency(until) == [mode |-> TRUE, until |-> 0]  \* mutant: the end is not set
RaisedEmergency(until) == Raised(until)

\* A deviation, or drift, is found: its end counts from the start of the check.
Detect(d) ==
  /\ monitor.pc = "checking"
  /\ monitor.now + d <= MaxNow
  /\ ctx' = RaisedEmergency(monitor.now + d)
  /\ lastActivation' = monitor.now
  /\ monitor' = [monitor EXCEPT !.pc = "saving", !.until = monitor.now + d]
  /\ promised' = monitor.now + d
  /\ mishaps' = mishaps \cup IF phase \in {"starting", "restoring"}
                             THEN {"early_shift"} ELSE {}
  /\ UNCHANGED <<now, haltVars, savedVars, agentVars, auto>>

SaveEmergency ==
  /\ monitor.pc = "saving" /\ monitor' = [monitor EXCEPT !.pc = "emitting"]
  /\ disk' = monitor.until
  /\ UNCHANGED <<now, ctx, lastActivation, haltVars, agentState, agentVars, auto,
                 promised, mishaps>>

\* save_json raises: nothing is emitted.
SaveFails ==
  /\ monitor.pc = "saving" /\ monitor' = Quiet
  /\ UNCHANGED <<now, ctx, lastActivation, haltVars, savedVars, agentVars, auto,
                 promised, mishaps>>

\* market.regime_shift reaches SignalExecutorSubscriber.handle.
RegimeShift ==
  /\ monitor.pc = "emitting" /\ monitor' = Quiet
  /\ IF lastTriggered # Never /\ now - lastTriggered < Cooldown
     THEN UNCHANGED haltVars
     ELSE lastTriggered' = now /\ haltUntil' = now + HaltSpan
  /\ UNCHANGED <<now, ctx, lastActivation, savedVars, agentVars, auto, promised,
                 mishaps>>
-----------------------------------------------------------------------------
(***************************************************************************)
(* The pipeline and the auto trader                                        *)
(***************************************************************************)

KeptMode(e) == IF e.until # 0 /\ now >= e.until THEN [e EXCEPT !.until = 0] ELSE e  \* mutant
\* _handle_emergency_mode: an emergency that is over is ended.
HandledEmergency(e) == IF e.until # 0 /\ now >= e.until THEN Calm ELSE e

\* Any other run of the pipeline, by the agent or a command
OtherPipeline ==
  /\ Alive /\ ctx' = HandledEmergency(ctx)
  /\ UNCHANGED <<now, lastActivation, monitor, haltVars, savedVars, agentVars, auto,
                 promised, mishaps>>

Steps(from, to) == auto = from /\ auto' = to

\* auto_trade_task: its pipeline returns at once in an emergency, and the
\* signals the context still holds are looked at all the same.
AutoPipeline ==
  /\ phase = "up" /\ Steps("idle", "signal")
  /\ ctx' = HandledEmergency(ctx)
  /\ UNCHANGED <<now, lastActivation, monitor, haltVars, savedVars, agentVars, promised,
                 mishaps>>

\* should_block_signal, called by auto_trade_task and again by _open_trade
ShouldBlock ==
  /\ ~ctx.mode
  /\ Steps("signal", "ordered") \/ Steps("ordered", "checked")
  /\ UNCHANGED <<now, monitorVars, haltVars, savedVars, agentVars, promised, mishaps>>

\* _guard_trade
GuardTrade == now >= haltUntil /\ ~ctx.mode

\* The rest of _open_trade up to open_signal, without an await
OpenOrder ==
  /\ GuardTrade /\ Steps("checked", "opening")
  /\ UNCHANGED <<now, monitorVars, haltVars, savedVars, agentVars, promised, mishaps>>

\* The emergency or anything else on the way ends the attempt (a signal that
\* is none, the risk, a duplicate), or open_signal is back.
Finish ==
  /\ \E from \in {"signal", "ordered", "checked", "opening"} : Steps(from, "idle")
  /\ UNCHANGED <<now, monitorVars, haltVars, savedVars, agentVars, promised, mishaps>>
-----------------------------------------------------------------------------
(***************************************************************************)
(* AgentCore.start, stop and the process                                   *)
(***************************************************************************)

AgentOnly(a, saved) == a  \* mutant: emergency_mode_state is not looked at
\* What _restore_state makes of both states
Restored(a, saved) == IF saved > a.until THEN Raised(saved) ELSE a

\* No state of an earlier stop: returns before it reads the emergency.
NothingToRestore ==
  /\ phase = "starting" /\ agentState = {} /\ phase' = "up"
  /\ mishaps' = mishaps \cup {"no_state"}
  /\ UNCHANGED <<now, monitorVars, haltVars, savedVars, loaded, stops, auto, promised>>

\* A read fails: the agent starts without.
RestoreFails ==
  /\ phase = "starting" /\ phase' = "up"
  /\ mishaps' = mishaps \cup {"unreadable"}
  /\ UNCHANGED <<now, monitorVars, haltVars, savedVars, loaded, stops, auto, promised>>

ReadState ==
  /\ phase = "starting" /\ phase' = "restoring"
  /\ \E a \in agentState : loaded' = Restored(a, disk)
  /\ UNCHANGED <<now, monitorVars, haltVars, savedVars, stops, auto, promised, mishaps>>

RestoreEmergency ==
  /\ phase = "restoring" /\ phase' = "up"
  /\ ctx' = loaded /\ loaded' = Calm
  /\ UNCHANGED <<now, lastActivation, monitor, haltVars, savedVars, stops, auto,
                 promised, mishaps>>

\* AgentCore.stop; if _persist_state fails the state saved before remains.
StopAgent ==
  /\ phase = "up" /\ phase' = "stopping"
  /\ agentState' \in {agentState, {ctx}}
  /\ UNCHANGED <<now, monitorVars, haltVars, disk, loaded, stops, auto, promised,
                 mishaps>>

Saved(until) == disk = until \/ \E a \in agentState : a.until = until

\* The process ends, after StopAgent or by a crash.  An emergency that was
\* never saved is forgotten.
Down ==
  /\ Alive /\ stops < MaxStop /\ stops' = stops + 1
  /\ phase' = "down"
  /\ ctx' = Calm /\ lastActivation' = Never
  /\ monitor' = Quiet
  /\ haltUntil' = 0 /\ lastTriggered' = Never
  /\ auto' = "idle"
  /\ promised' = IF Saved(promised) THEN promised ELSE 0
  /\ mishaps' = {}
  /\ loaded' = Calm
  /\ UNCHANGED <<now, savedVars>>

ProcessStarts ==
  /\ phase = "down" /\ phase' = "starting"
  /\ UNCHANGED <<now, monitorVars, haltVars, savedVars, loaded, stops, auto,
                 promised, mishaps>>

Tick == /\ now < MaxNow /\ now' = now + 1
        /\ UNCHANGED <<monitorVars, haltVars, savedVars, agentVars, auto, promised,
                       mishaps>>
-----------------------------------------------------------------------------
HaltInit ==
  /\ now = 1
  /\ ctx = Calm /\ lastActivation = Never
  /\ monitor = Quiet
  /\ disk = Never /\ agentState \in {{}, {Calm}}
  /\ haltUntil = 0 /\ lastTriggered = Never
  /\ phase = "starting" /\ loaded = Calm
  /\ auto = "idle" /\ promised = 0
  /\ mishaps = {} /\ stops = 0

Monitoring == MonitorCheck \/ NoDeviation \/ (\E d \in Durations : Detect(d))
              \/ SaveEmergency \/ SaveFails \/ RegimeShift
AutoTrading == AutoPipeline \/ ShouldBlock \/ OpenOrder \/ Finish
Restoring == NothingToRestore \/ RestoreFails \/ ReadState \/ RestoreEmergency

HaltNext == Monitoring \/ AutoTrading \/ OtherPipeline \/ Restoring \/ StopAgent \/ Down
            \/ ProcessStarts \/ Tick

HaltSpec == HaltInit /\ [][HaltNext]_emergencyVars

\* The clock runs, the process is started again and comes up, and somebody
\* runs the pipeline (the agent does, every cycle).
HaltFairness ==
  /\ WF_emergencyVars(Tick) /\ WF_emergencyVars(ProcessStarts)
  /\ WF_emergencyVars(Restoring) /\ WF_emergencyVars(OtherPipeline)
HaltFairSpec == HaltSpec /\ HaltFairness
-----------------------------------------------------------------------------
HaltTypeOK ==
  /\ now \in Nat /\ ctx \in Emergencies /\ lastActivation \in Nat
  /\ monitor \in [pc : {"idle", "checking", "saving", "emitting"}, now : Nat, until : Nat]
  /\ disk \in Nat /\ agentState \subseteq Emergencies
  /\ haltUntil \in Nat /\ lastTriggered \in Nat
  /\ phase \in {"starting", "restoring", "up", "stopping", "down"} /\ loaded \in Emergencies
  /\ auto \in {"idle", "signal", "ordered", "checked", "opening"}
  /\ promised \in Nat /\ stops \in Nat
  /\ mishaps \subseteq {"early_shift", "no_state", "unreadable"}

\* There is no emergency without an end: not in memory, not in a saved state,
\* not on its way through a restart.  Only the end can end it, so one without
\* would stop the auto trader for good.
EmergencyHasEnd ==
  \A e \in {ctx, loaded} \cup agentState : e.mode <=> e.until # 0

\* The auto trader opens nothing before the end of the last emergency raised,
\* however the emergency falls between its steps, and across every stop and
\* crash after which the agent could read a state.
Opens == auto # "opening" /\ auto' = "opening"
AutoHonoursEmergency == [][Opens /\ mishaps = {} => now >= promised]_emergencyVars

\* Every emergency ends.
EmergencyEnds == ctx.mode ~> ~ctx.mode
=============================================================================
