----------------------------- MODULE MCServices -----------------------------
(* The services that share no state with each other: the language model      *)
(* gateway, the scheduler, the REST API, the conviction tracker, the paper   *)
(* trading and the learning from patterns.  A behaviour is one of a single   *)
(* service, chosen at the start; the others rest in their initial state, so  *)
(* that one run checks each by itself.                                       *)
EXTENDS LLMGateway, CronScheduler, ApiServer, Convictions, PaperTrading, Learning

CONSTANTS owner, scout, c1, c2

VARIABLE focus

others == <<convictionVars, paperVars, learningVars>>
vars == <<focus, llmVars, cronVars, apiVars, others>>

\* What a bankrupt account has left.
Bankrupt == -5

\* The tasks that share a lock or a report run together, the others alone.
TaskGroups ==
  {{"autonomous_trader", "trade_monitor"}, {"daily_briefing", "cron_health_monitor"}}
    \cup {{n} : n \in DOMAIN Body
                  \ {"autonomous_trader", "trade_monitor", "daily_briefing", "cron_health_monitor"}}

Init ==
  /\ focus \in {"llm", "cron", "settings", "forecast", "pages",
                "beliefs", "paper", "learning"}
  /\ LLMInit /\ CronInit /\ ApiInit
  /\ ConvictionInit /\ PaperInit /\ LearningInit
  /\ focus # "cron" => enabled["learning_tick"]

LLM == focus = "llm" /\ LLMNext /\ UNCHANGED <<focus, cronVars, apiVars, others>>
\* One-shot tasks are scheduled while no other task is, to keep the run small.
Cron ==
  /\ focus = "cron" /\ CronNext
  /\ \A n \in OneShots : enabled'[n] => \A m \in DOMAIN Body : ~enabled[m] /\ at[m] = 0
  /\ UNCHANGED <<focus, llmVars, apiVars, others>>
\* Nor do the three parts of the API.
Api ==
  /\ \/ focus = "settings" /\ SettingsNext
     \/ focus = "forecast" /\ ForecastNext
     \/ focus = "pages" /\ PageNext
  /\ UNCHANGED <<focus, llmVars, cronVars, others>>

Beliefs ==
  /\ focus = "beliefs" /\ ConvictionNext
  /\ UNCHANGED <<focus, llmVars, cronVars, apiVars, paperVars, learningVars>>
Paper ==
  /\ focus = "paper" /\ PaperNext
  /\ UNCHANGED <<focus, llmVars, cronVars, apiVars, convictionVars, learningVars>>
Learned ==
  /\ focus = "learning" /\ LearningNext
  /\ UNCHANGED <<focus, llmVars, cronVars, apiVars, convictionVars, paperVars>>

Next == LLM \/ Cron \/ Api \/ Beliefs \/ Paper \/ Learned

\* What rests need not move.  The learning tick comes round again, its storage
\* calls return and the price keeps coming back to every level.
Fairness ==
  /\ LLMFairness
  /\ WF_cronVars(focus = "cron" /\ CronTick)
  /\ \A n \in Names : /\ WF_cronVars(focus = "cron" /\ Ending(n))
                      /\ WF_cronVars(focus = "cron" /\ CronElapse(n))
  /\ \A c \in Clients : WF_apiVars(ForecastWorks(c))
  /\ WF_convictionVars(focus = "beliefs" /\ QuietTick)
  /\ \A i \in 1 .. MaxFormed : WF_convictionVars(GrowOld(i))
  /\ \A t \in Tasks : WF_paperVars(PaperWorks(t))
  /\ WF_learningVars(TickReads \/ TickJudges)
  /\ \A p \in Prices : SF_learningVars(focus = "learning" /\ TickStarts(p))

Spec == Init /\ [][Next]_vars /\ Fairness
-----------------------------------------------------------------------------
\* Every question put to the language model and every forecast asked of the
\* API gets its answer, be it an apology.
CallersAnswered == EveryQuestionAnswered /\ ForecastsAnswered
=============================================================================
