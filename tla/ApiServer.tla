------------------------------ MODULE ApiServer ------------------------------
(* APIServer of the Mini App: the settings page and the kill switch with the *)
(* one file they share, the scan for signals, the forecast with its cache    *)
(* and lock, and the pages with cached responses.  Requests are handled in   *)
(* one event loop; a step is the code between two awaits.  Requests over a   *)
(* rate limit are answered at once and change nothing.                       *)
EXTENDS Naturals, Sequences, FiniteSets

CONSTANTS Clients,   \* requests under way at one time
          Frames,    \* timeframes a forecast is asked for
          SkillPages \* pages of a skill's result: order flow, volatility, ...

ASSUME ApiAssumption == Frames # {} /\ "portfolio" \notin SkillPages /\ "agent_state" \notin SkillPages

VARIABLES file,     \* bot_settings.json
          mem,      \* bot_settings
          pressed,  \* the kill switch: "no", "yes", or "edited" after it
          scan,     \* per client: the step its scan waits in
          forecast, \* per client: its request for a forecast
          waiting,  \* who waits for _forecast_lock, first the one that holds it
          kept,     \* _forecast_cache
          page,     \* _resp_cache, and per client the page it computes
          asking

apiVars == <<file, mem, pressed, scan, forecast, waiting, kept, page, asking>>

\* Settings told apart: auto_trading_enabled and emergency_mode.
Setting == [auto : BOOLEAN, emergency : {"unset", "on", "off"}]
Nothing == "nothing"
NoSetting == [auto |-> FALSE, emergency |-> "absent"]
Missing == [top |-> NoSetting, sealed |-> NoSetting, torn |-> FALSE]

\* d.update(s): keys that s lacks stay.
Merged(d, s) ==
  IF s = NoSetting THEN d
  ELSE [auto |-> s.auto,
        emergency |-> IF s.emergency = "unset" THEN d.emergency ELSE s.emergency]

\* json.load sees the keys in clear; decrypt, the ciphertext if there is one
\* (also when the kill switch has put newer keys beside it), else the same.
ReadPlain == file.top
ReadSealed == IF file.sealed # NoSetting THEN file.sealed ELSE file.top

\* The bot starts without auto trading; the two handlers assume it is on.
BotDefault == [auto |-> FALSE, emergency |-> "unset"]
PageDefault == [auto |-> TRUE, emergency |-> "unset"]
KillDefault == [auto |-> TRUE, emergency |-> "off"]

NoForecast == [pc |-> "idle", frame |-> Nothing, got |-> Nothing]
Pages == SkillPages \cup {"portfolio", "agent_state"}

NoScan == [c \in Clients |-> "idle"]
NoneAsked == [c \in Clients |-> NoForecast]
NoneKept == [frame |-> Nothing, fresh |-> FALSE]
NoPage == [p \in Pages |-> "none"]
NoneAsking == [c \in Clients |-> Nothing]

ApiInit ==
  /\ file = Missing /\ mem = BotDefault /\ pressed = "no"
  /\ scan = NoScan /\ forecast = NoneAsked /\ waiting = <<>> /\ kept = NoneKept
  /\ page = NoPage /\ asking = NoneAsking

\* What a new process begins with.
Forgotten ==
  /\ scan' = NoScan /\ forecast' = NoneAsked /\ waiting' = <<>> /\ kept' = NoneKept
  /\ page' = NoPage /\ asking' = NoneAsking

\* The bot loads what it can read of the file.
Restarted == mem' = IF file.torn THEN BotDefault ELSE Merged(BotDefault, ReadPlain)

\* Without a configured key the next process has a secret of its own, and what
\* this one sealed is ciphertext to it: decrypt hands back what is in clear.
Readable(secret) == IF secret = "configured" THEN file ELSE [file EXCEPT !.sealed = NoSetting]

ApiRestart ==
  /\ Restarted
  /\ \E secret \in {"configured", "generated"} : file' = Readable(secret)
  /\ Forgotten /\ UNCHANGED pressed

\* A process killed while it writes leaves an unreadable file behind; from
\* then on both handlers answer "Internal server error".
TornWrite ==
  /\ ~file.torn /\ file' = [Missing EXCEPT !.torn = TRUE]
  /\ mem' = BotDefault
  /\ Forgotten /\ UNCHANGED pressed

quietVars == <<scan, forecast, waiting, kept, page, asking>>

\* POST settings, with or without auto_trading_enabled among the keys.
SettingsUpdate(ask) ==
  LET read == Merged(PageDefault, ReadSealed)
      data == IF ask = "other" THEN read ELSE [read EXCEPT !.auto = (ask = "on")] IN
  /\ ~file.torn
  /\ mem' = Merged(mem, data)
  /\ file' = [Missing EXCEPT !.sealed = data]
  /\ pressed' = IF pressed = "no" \/ ask = "on" THEN "no" ELSE "edited"
  /\ UNCHANGED quietVars

\* POST emergency: what cannot be read in clear is taken to be the default,
\* the ciphertext is kept beside the new keys.
KillSwitch(active) ==
  LET read == Merged(KillDefault, ReadPlain)
      s == [auto |-> read.auto /\ ~active, emergency |-> IF active THEN "on" ELSE "off"] IN
  /\ ~file.torn
  /\ mem' = Merged(mem, s)
  /\ file' = [file EXCEPT !.top = s]
  /\ pressed' = IF active THEN "yes" ELSE "no"
  /\ UNCHANGED quietVars

\* Mutant: whether a scan may trade is decided when it begins.
MayExecuteEarly == TRUE

MayExecute == mem.auto

Following == [price |-> "analysis", analysis |-> "signal", signal |-> "risk", risk |-> "trade"]

ScanStart(c) ==
  /\ scan[c] = "idle" /\ mem.emergency # "on"
  /\ scan' = [scan EXCEPT ![c] = "price"]
  /\ UNCHANGED <<file, mem, pressed, forecast, waiting, kept, page, asking>>

\* The next skill; the signal executor only with auto trading.
ScanOn(c) ==
  /\ scan[c] \in DOMAIN Following
  /\ Following[scan[c]] = "trade" => MayExecute
  /\ scan' = [scan EXCEPT ![c] = Following[@]]
  /\ UNCHANGED <<file, mem, pressed, forecast, waiting, kept, page, asking>>

\* A skill failed, there is no signal, the trade is rejected or not executed,
\* or open_trade has returned.
ScanEnd(c) ==
  /\ scan[c] # "idle" /\ scan' = [scan EXCEPT ![c] = "idle"]
  /\ UNCHANGED <<file, mem, pressed, forecast, waiting, kept, page, asking>>

\* The answer that is kept is served whatever timeframe was asked for.
Served(f) == [NoForecast EXCEPT !.frame = f, !.got = kept.frame]

ForecastAsk(c, f) ==
  /\ forecast[c].pc = "idle"
  /\ IF kept.fresh
       THEN /\ forecast' = [forecast EXCEPT ![c] = Served(f)]
            /\ UNCHANGED waiting
       ELSE /\ forecast' = [forecast EXCEPT ![c] = [pc |-> "lock", frame |-> f, got |-> Nothing]]
            /\ waiting' = Append(waiting, c)
  /\ UNCHANGED <<file, mem, pressed, scan, kept, page, asking>>

\* Under the lock the cache is looked at again.
ForecastEnter(c) ==
  /\ forecast[c].pc = "lock" /\ Head(waiting) = c
  /\ IF kept.fresh
       THEN /\ forecast' = [forecast EXCEPT ![c] = Served(@.frame)]
            /\ waiting' = Tail(waiting)
       ELSE /\ forecast' = [forecast EXCEPT ![c].pc = "run"]
            /\ UNCHANGED waiting
  /\ UNCHANGED <<file, mem, pressed, scan, kept, page, asking>>

\* Mutant: only a forecast that succeeds gives the lock back.
ForecastEndLocked(c, made) ==
  /\ forecast[c].pc = "run"
  /\ forecast' = [forecast EXCEPT ![c].pc = "idle",
                                  ![c].got = IF made THEN forecast[c].frame ELSE Nothing]
  /\ kept' = IF made THEN [frame |-> forecast[c].frame, fresh |-> TRUE] ELSE kept
  /\ waiting' = IF made THEN Tail(waiting) ELSE waiting
  /\ UNCHANGED <<file, mem, pressed, scan, page, asking>>

\* A text of the engine, be it "AI unavailable", is kept; after 90 s or an
\* exception nothing is.
ForecastEnd(c, made) ==
  /\ forecast[c].pc = "run"
  /\ forecast' = [forecast EXCEPT ![c].pc = "idle",
                                  ![c].got = IF made THEN forecast[c].frame ELSE Nothing]
  /\ kept' = IF made THEN [frame |-> forecast[c].frame, fresh |-> TRUE] ELSE kept
  /\ waiting' = Tail(waiting)
  /\ UNCHANGED <<file, mem, pressed, scan, page, asking>>

ForecastExpire ==
  /\ kept.fresh /\ kept' = [kept EXCEPT !.fresh = FALSE]
  /\ UNCHANGED <<file, mem, pressed, scan, forecast, waiting, page, asking>>

\* A page that needs no skill (agent_state stands for narratives, regime history,
\* counterfactuals and costs as well) is computed and kept at once.
StatePage ==
  /\ page["agent_state"] # "fresh"
  /\ page' = [page EXCEPT !["agent_state"] = "fresh"]
  /\ UNCHANGED <<file, mem, pressed, scan, forecast, waiting, kept, asking>>

\* Any other page that is not kept is computed, by each client for itself.
PageAsk(c, p) ==
  /\ asking[c] = Nothing /\ p # "agent_state" /\ page[p] # "fresh"
  /\ asking' = [asking EXCEPT ![c] = p]
  /\ UNCHANGED <<file, mem, pressed, scan, forecast, waiting, kept, page>>

\* A skill's result is kept if it succeeded.
SkillPage(c, success) ==
  /\ asking[c] \in SkillPages
  /\ page' = IF success THEN [page EXCEPT ![asking[c]] = "fresh"] ELSE page
  /\ asking' = [asking EXCEPT ![c] = Nothing]
  /\ UNCHANGED <<file, mem, pressed, scan, forecast, waiting, kept>>

\* The portfolio page is kept whatever its two skills answered.
PortfolioPage(c) ==
  /\ asking[c] = "portfolio"
  /\ page' = [page EXCEPT !["portfolio"] = "fresh"]
  /\ asking' = [asking EXCEPT ![c] = Nothing]
  /\ UNCHANGED <<file, mem, pressed, scan, forecast, waiting, kept>>

PageExpire(p) ==
  /\ page[p] = "fresh" /\ page' = [page EXCEPT ![p] = "old"]
  /\ UNCHANGED <<file, mem, pressed, scan, forecast, waiting, kept, asking>>

\* _cleaner_task drops what has expired.
Clean ==
  /\ \E p \in Pages : page[p] = "old"
  /\ page' = [p \in Pages |-> IF page[p] = "old" THEN "none" ELSE page[p]]
  /\ UNCHANGED <<file, mem, pressed, scan, forecast, waiting, kept, asking>>

SettingsNext ==
  \/ ApiRestart \/ TornWrite
  \/ \E ask \in {"on", "off", "other"} : SettingsUpdate(ask)
  \/ \E active \in BOOLEAN : KillSwitch(active)
  \/ \E c \in Clients : ScanStart(c) \/ ScanOn(c) \/ ScanEnd(c)

ForecastNext ==
  \/ \E c \in Clients : \/ \E f \in Frames : ForecastAsk(c, f)
                        \/ ForecastEnter(c)
                        \/ \E made \in BOOLEAN : ForecastEnd(c, made)
  \/ ForecastExpire

PageNext ==
  \/ StatePage \/ Clean
  \/ \E c \in Clients : \/ \E p \in Pages : PageAsk(c, p)
                        \/ PortfolioPage(c)
                        \/ \E success \in BOOLEAN : SkillPage(c, success)
  \/ \E p \in Pages : PageExpire(p)

ApiNext == SettingsNext \/ ForecastNext \/ PageNext

ApiSpec == ApiInit /\ [][ApiNext]_apiVars

\* The event loop resumes whoever may go on; a forecast has 90 s.
ForecastWorks(c) == ForecastEnter(c) \/ \E made \in BOOLEAN : ForecastEnd(c, made)
----------------------------------------------------------------------------
ApiTypeOK ==
  /\ {file.top, file.sealed} \subseteq Setting \cup {NoSetting} /\ mem \in Setting
  /\ pressed \in {"no", "yes", "edited"}
  /\ scan \in [Clients -> {"idle", "trade"} \cup DOMAIN Following]
  /\ kept.frame \in Frames \cup {Nothing} /\ page \in [Pages -> {"none", "fresh", "old"}]

\* Once the kill switch is pressed no scan goes on to open a trade, not even
\* one that had begun, until the settings are changed; a restart with whatever
\* mixture of clear and sealed settings is on disk is no such change.
KillStopsScans ==
  [][\A c \in Clients : scan[c] # "trade" /\ scan'[c] = "trade" => pressed # "yes"]_apiVars

\* One forecast is made at a time, and each client gets an answer: a forecast
\* that times out or raises lets the next one in.
ForecastsAnswered == \A c \in Clients : []<>(forecast[c].pc = "idle")
=============================================================================
