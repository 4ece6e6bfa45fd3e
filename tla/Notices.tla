------------------------------- MODULE Notices -------------------------------
(* Proactive alerts: the analysis task of the scheduler, the suppression of    *)
(* ProactiveEngine, the cache of what each chat was told, and the Telegram     *)
(* calls, which are awaits that may deliver a message without saying so.       *)
EXTENDS Integers, FiniteSets, Sequences, SequencesExt

CONSTANTS Recipients,     \* proactive_alert_chat_ids, in their order
          Messages,  \* alerts, told apart by their first fifty characters
          Muted,     \* chats whose preferences want no such signal
          Unregistered,   \* chats without preferences
          Hour,      \* the spans of the cache and of the suppression
          PerHour,   \* per_user_limit, 3
          Asian,     \* instants in the hours of low liquidity
          Quiet,     \* instants in the configured quiet hours
          MaxNow, MaxRestart \* bounds on the clock and the restarts

ASSUME NoticesAssumption ==
  /\ Hour \in Nat \ {0} /\ PerHour \in Nat \ {0} /\ {MaxNow, MaxRestart} \subseteq Nat
  /\ Recipients \in Seq(Range(Recipients))

VARIABLES now, boots,
          round,      \* the analysis task: [at, message, signal, left]
          lastAlert, \* ProactiveEngine.last_alerts
          recorded,  \* ProactiveAlertCache: [chat, message, at]
          heard      \* chat by chat: [told: last arrival Telegram confirmed, turn: flips at each]

noticesVars == <<now, boots, round, lastAlert, recorded, heard>>

NoMessage == ""
Idle == [at |-> "idle", message |-> NoMessage, signal |-> FALSE, left |-> <<>>]
Never == -Hour

NoticesTypeOK ==
  /\ now \in 0 .. MaxNow /\ boots \in 0 .. MaxRestart
  /\ round.at \in {"idle", "deciding", "alerting", "sending", "signalling", "telling"}
  /\ lastAlert \in {Never} \cup (0 .. now)
  /\ \A r \in recorded : r.at \in 0 .. now

NoticesInit ==
  /\ now = 0 /\ boots = 0 /\ round = Idle /\ lastAlert = Never
  /\ recorded = {}
  /\ heard = [c \in Range(Recipients) |-> [told |-> Never, turn |-> FALSE]]

\* _prune
Fresh == {r \in recorded : now - r.at < Hour}

IsDuplicate(chat, message) == \E r \in Fresh : r.chat = chat /\ r.message = message
WithinUserLimit(chat) == Cardinality({r \in Fresh : r.chat = chat}) < PerHour

\* should_suppress: the event is made without any of the strengths, so that
\* calculate_priority always finds it LOW, whatever the analysis called it.
ShouldSuppress == now - lastAlert < Hour \/ now \in Asian

\* analysis_task up to the agent's answer.
ScanStarts ==
  /\ round = Idle /\ now \notin Quiet
  /\ round' = [Idle EXCEPT !.at = "deciding"]
  /\ UNCHANGED <<now, boots, lastAlert, recorded, heard>>

\* The answer: nothing to tell, suppressed, or an alert for the chats.
ScanDecides ==
  /\ round.at = "deciding"
  /\ \/ round' = Idle
     \/ \E message \in Messages, signal \in BOOLEAN :
          round' = IF ShouldSuppress \/ Recipients = <<>> THEN Idle
                  ELSE [at |-> "alerting", message |-> message, signal |-> signal, left |-> Recipients]
  /\ UNCHANGED <<now, boots, lastAlert, recorded, heard>>

\* The next chat of the loop: passed over, or written to.
AlertNext ==
  /\ round.at = "alerting" /\ round.left # <<>>
  /\ LET chat == Head(round.left)
     IN  round' = IF IsDuplicate(chat, round.message) \/ ~WithinUserLimit(chat)
                 THEN [round EXCEPT !.left = Tail(@)]
                 ELSE [round EXCEPT !.at = "sending"]
  /\ UNCHANGED <<now, boots, lastAlert, recorded, heard>>

Arrives(chat, known) ==
  heard' = [heard EXCEPT ![chat] = [told |-> IF known THEN now ELSE @.told, turn |-> ~@.turn]]

\* Mutant: the engine is not told of the alert.
MarkForgotten == UNCHANGED lastAlert

\* mark_alerted
MarkAlerted == lastAlert' = now

\* send_message returns: delivered, or it raised, before or after delivery.
SendEnds ==
  /\ round.at = "sending"
  /\ round' = [round EXCEPT !.at = "alerting", !.left = Tail(@)]
  /\ LET chat == Head(round.left)
     IN  \/ /\ MarkAlerted
            /\ recorded' = Fresh \cup {[chat |-> chat, message |-> round.message, at |-> now]}
            /\ Arrives(chat, TRUE)
         \/ UNCHANGED <<lastAlert, recorded, heard>>
         \/ Arrives(chat, FALSE) /\ UNCHANGED <<lastAlert, recorded>>
  /\ UNCHANGED <<now, boots>>

\* The alerts are out: the signal, if there is one, goes to the same chats.
AlertsOut ==
  /\ round.at = "alerting" /\ round.left = <<>>
  /\ round' = IF round.signal THEN [round EXCEPT !.at = "signalling", !.left = Recipients] ELSE Idle
  /\ UNCHANGED <<now, boots, lastAlert, recorded, heard>>

\* notify_new_signal: a chat without preferences raises and ends the loop.
SignalNext ==
  /\ round.at = "signalling"
  /\ round' = IF round.left = <<>> \/ Head(round.left) \in Unregistered THEN Idle
             ELSE IF Head(round.left) \in Muted THEN [round EXCEPT !.left = Tail(@)]
             ELSE [round EXCEPT !.at = "telling"]
  /\ UNCHANGED <<now, boots, lastAlert, recorded, heard>>

SignalTold ==
  /\ round.at = "telling"
  /\ round' = [round EXCEPT !.at = "signalling", !.left = Tail(@)]
  /\ UNCHANGED <<now, boots, lastAlert, recorded, heard>>

\* The scheduler cuts the task off; a message under way may still arrive.
ScanCut ==
  /\ round.at \in {"deciding", "sending", "telling"}
  /\ round' = Idle
  /\ \/ UNCHANGED heard
     \/ round.at = "sending" /\ Arrives(Head(round.left), FALSE)
  /\ UNCHANGED <<now, boots, lastAlert, recorded>>

\* A restart: nothing of this is kept.
NoticesRestart ==
  /\ boots < MaxRestart
  /\ boots' = boots + 1 /\ round' = Idle /\ lastAlert' = Never /\ recorded' = {}
  /\ heard' = [c \in DOMAIN heard |-> [heard[c] EXCEPT !.told = Never]]
  /\ UNCHANGED now

NoticesClock ==
  /\ now < MaxNow
  /\ now' = now + 1
  /\ UNCHANGED <<boots, round, lastAlert, recorded, heard>>

NoticesNext ==
  \/ ScanStarts \/ ScanDecides \/ AlertNext \/ SendEnds \/ AlertsOut
  \/ SignalNext \/ SignalTold \/ ScanCut \/ NoticesRestart \/ NoticesClock

NoticesSpec == NoticesInit /\ [][NoticesNext]_noticesVars
-----------------------------------------------------------------------------

\* No chat hears two alerts within the hour, unless Telegram never said that
\* the first had arrived, or the program was restarted in between.
AlertsSpaced ==
  [][\A c \in DOMAIN heard : heard'[c].turn # heard[c].turn => now - heard[c].told >= Hour]_noticesVars
=============================================================================
