---------------------------- MODULE CronScheduler ----------------------------
(* CronScheduler: the tasks the bot schedules, the tick that starts every    *)
(* due one as an asyncio task of its own, the time limit of each run, and    *)
(* the lock the two trading tasks share.  A step of a task is the code       *)
(* between two awaits; delays and intervals are abstracted to "due".         *)
EXTENDS Naturals, Sequences, FiniteSets

CONSTANTS Focus,     \* the sets of tasks that are not cancelled from the start
          OneShots,  \* names for schedule_once
          FailCap    \* bound: failures are not counted past it

ASSUME CronAssumption == FailCap \in Nat /\ FailCap >= 3 /\ "none" \notin OneShots

VARIABLES enabled,  \* per task: enabled
          due,      \* per task: time.time() >= next_run
          at,       \* per task: the step its callback is in, 0: is_running is false
          failures, \* per task: consecutive_failures
          lock,     \* who holds _trade_lock
          ticking,  \* the job queue or the loop calls _tick
          reported  \* the tasks named by the last health report

cronVars == <<enabled, due, at, failures, lock, ticking, reported>>

\* The awaited steps of each callback; "locked" is done under _trade_lock.
HeartbeatBody == <<"agent tick">>
BackupBody == <<"backup">>
HealthBody == <<"report">>
PulseBody == <<"observation", "messages">>
CleanupBody == <<"purge">>
ProactiveBody == <<"analysis", "alerts", "signal notices">>
LearningBody == <<"price", "patterns", "forecasts", "lessons">>
TuningBody == <<"tune", "report", "messages">>
TraderBody == <<"pipeline", "guardrail", "locked", "messages">>
MonitorBody == <<"price", "locked">>
WeeklyBody == <<"report", "documents">>
ReflectionBody == <<"statistics", "insight", "workspace">>
BriefingBody == <<"briefing", "messages">>
JournalBody == <<"summary">>

Body ==
  [agent_heartbeat |-> HeartbeatBody, database_backup |-> BackupBody,
   cron_health_monitor |-> HealthBody, market_pulse |-> PulseBody,
   vector_memory_cleanup |-> CleanupBody, proactive_market_analysis |-> ProactiveBody,
   learning_tick |-> LearningBody, daily_tuning_report |-> TuningBody,
   autonomous_trader |-> TraderBody, trade_monitor |-> MonitorBody,
   weekly_pdf_report |-> WeeklyBody, weekly_reflection |-> ReflectionBody,
   daily_briefing |-> BriefingBody, daily_trading_journal |-> JournalBody]

Names == DOMAIN Body \cup OneShots
BodyOf(n) == IF n \in OneShots THEN <<"callback">> ELSE Body[n]

\* The callbacks that catch every exception of theirs and log it: to the
\* scheduler such a run succeeded.
Swallowing == DOMAIN Body \ {"cron_health_monitor", "weekly_reflection",
                             "daily_briefing", "daily_trading_journal"}

\* Constructed and post_init: everything is scheduled; some tasks have been
\* cancelled.
CronInit ==
  \E live \in Focus :
    /\ enabled = [n \in Names |-> n \in live]
    /\ due = [n \in Names |-> FALSE]
    /\ at = [n \in Names |-> 0]
    /\ failures = [n \in Names |-> 0]
    /\ lock = "none" /\ ticking = FALSE /\ reported = {}

Holds(n) == lock = n
Released(n) == IF Holds(n) THEN "none" ELSE lock

\* start, or the job queue's first tick.
CronStart ==
  /\ ~ticking /\ ticking' = TRUE
  /\ UNCHANGED <<enabled, due, at, failures, lock, reported>>

\* stop cancels the loop; the runs it started go on.
CronStop ==
  /\ ticking /\ ticking' = FALSE
  /\ UNCHANGED <<enabled, due, at, failures, lock, reported>>

Starting == {n \in Names : enabled[n] /\ due[n] /\ at[n] = 0}

\* _tick: every due task that is not running is started.
CronTick ==
  /\ ticking /\ Starting # {}
  /\ at' = [n \in Names |-> IF n \in Starting THEN 1 ELSE at[n]]
  /\ UNCHANGED <<enabled, due, failures, lock, ticking, reported>>

Step(n) == BodyOf(n)[at[n]]

\* The callback goes on to its next step; a trading task waits for the lock
\* before the step that needs it and gives it back after.
StepOn(n) ==
  /\ at[n] \in 1 .. Len(BodyOf(n)) - 1
  /\ BodyOf(n)[at[n] + 1] = "locked" => lock = "none"
  /\ at' = [at EXCEPT ![n] = @ + 1]
  /\ lock' = IF BodyOf(n)[at[n] + 1] = "locked" THEN n ELSE Released(n)
  /\ UNCHANGED <<enabled, due, failures, ticking, reported>>

\* schedule_next.
Rescheduled(n) ==
  IF n \in OneShots THEN /\ enabled' = [enabled EXCEPT ![n] = FALSE]
                         /\ UNCHANGED due
  ELSE /\ due' = [due EXCEPT ![n] = FALSE]
       /\ UNCHANGED enabled

\* The callback returns: after its last step, or early (quiet time, nothing
\* to do, no agent, no chat, its own handler caught an exception).
ReturnOk(n) ==
  /\ at[n] > 0
  /\ Rescheduled(n)
  /\ at' = [at EXCEPT ![n] = 0] /\ lock' = Released(n)
  /\ failures' = [failures EXCEPT ![n] = 0]
  /\ reported' = IF Step(n) = "report" /\ n = "cron_health_monitor"
                   THEN {m \in Names : failures[m] >= 3} ELSE reported
  /\ UNCHANGED ticking

Counted3(f) == IF f = FailCap THEN f ELSE f + 1

\* Mutant: a run that is cut off leaves its task marked as running.
CutOffLost(n) ==
  /\ at[n] > 0
  /\ Rescheduled(n)
  /\ lock' = Released(n)
  /\ failures' = [failures EXCEPT ![n] = Counted3(@)]
  /\ UNCHANGED <<at, ticking, reported>>

\* The 120 s of wait_for are over: the callback is cancelled where it is, which
\* no handler of its own catches, and leaves the lock on the way out.
CutOff(n) ==
  /\ at[n] > 0
  /\ Rescheduled(n)
  /\ at' = [at EXCEPT ![n] = 0] /\ lock' = Released(n)
  /\ failures' = [failures EXCEPT ![n] = Counted3(@)]
  /\ UNCHANGED <<ticking, reported>>

\* An exception that reaches the scheduler.
RaiseOut(n) ==
  /\ at[n] > 0 /\ n \notin Swallowing
  /\ Rescheduled(n)
  /\ at' = [at EXCEPT ![n] = 0] /\ lock' = Released(n)
  /\ failures' = [failures EXCEPT ![n] = Counted3(@)]
  /\ UNCHANGED <<ticking, reported>>

\* Time passes to a task's next_run.
CronElapse(n) ==
  /\ enabled[n] /\ ~due[n] /\ due' = [due EXCEPT ![n] = TRUE]
  /\ UNCHANGED <<enabled, at, failures, lock, ticking, reported>>

\* cancel: the task starts no more; a run under way is not interrupted.
CancelTask(n) ==
  /\ enabled[n] /\ enabled' = [enabled EXCEPT ![n] = FALSE]
  /\ UNCHANGED <<due, at, failures, lock, ticking, reported>>

\* schedule_once under a name that is not in use.
ScheduleOnce(n) ==
  /\ n \in OneShots /\ ~enabled[n] /\ ~due[n] /\ at[n] = 0
  /\ enabled' = [enabled EXCEPT ![n] = TRUE]
  /\ failures' = [failures EXCEPT ![n] = 0]
  /\ UNCHANGED <<due, at, lock, ticking, reported>>

CronNext ==
  \/ CronStart \/ CronStop \/ CronTick
  \/ \E n \in Names : \/ StepOn(n) \/ ReturnOk(n) \/ CutOff(n) \/ RaiseOut(n)
                      \/ CronElapse(n) \/ CancelTask(n) \/ ScheduleOnce(n)

CronSpec == CronInit /\ [][CronNext]_cronVars

\* A run ends, by itself or by its time limit.
Ending(n) == ReturnOk(n) \/ CutOff(n) \/ RaiseOut(n)
----------------------------------------------------------------------------
CronTypeOK ==
  /\ enabled \in [Names -> BOOLEAN] /\ due \in [Names -> BOOLEAN]
  /\ \A n \in Names : at[n] \in 0 .. Len(BodyOf(n))
  /\ failures \in [Names -> 0 .. FailCap]
  /\ lock \in Names \cup {"none"} /\ ticking \in BOOLEAN /\ reported \subseteq Names

\* The lock of the auto trader and the trade monitor is held by exactly the
\* one that is opening, or closing, trades; a run that is cut off by its time
\* limit, even in the middle of that, does not keep it.
TradeLockSound ==
  \A n \in Names : (at[n] > 0 /\ Step(n) = "locked") <=> Holds(n)

\* Whatever happens to its runs (errors, time limits, a lock it waits for), a
\* task that is not cancelled is begun again and again while the scheduler ticks.
TasksKeepRunning ==
  \A n \in Names : []<>(at[n] = 1 \/ ~enabled[n] \/ ~ticking)
=============================================================================
