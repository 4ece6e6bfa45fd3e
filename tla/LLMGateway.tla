----------------------------- MODULE LLMGateway -----------------------------
(* The language-model gateway: LLMRouter's provider chain with its retries,  *)
(* one AsyncCircuitBreaker per provider, the daily budget of CostTracker,    *)
(* and the tool-calling (ReAct) loop of LLMInterface on top of it.  A step   *)
(* is the code between two awaits.                                           *)
EXTENDS Naturals, Sequences, FiniteSets

CONSTANTS Chats,      \* callers that ask the router one question
          Loops,      \* callers that run the ReAct loop
          Keys,       \* the providers with an API key
          MaxRetries, \* max_retries
          Threshold,  \* failure_threshold
          Iterations, \* max_iterations
          Budget,     \* daily_budget_usd, in the cost of the cheapest call
          Costs       \* what an answered call may cost

ASSUME LLMAssumption ==
  /\ Chats \cap Loops = {} /\ IsFiniteSet(Chats \cup Loops)
  /\ Keys \subseteq {"primary", "fallback", "tertiary"}
  /\ MaxRetries \in Nat /\ Iterations \in Nat \ {0} /\ Budget \in Nat \ {0}
  /\ Threshold \in Nat \ {0}
  /\ Costs \subseteq Nat /\ \E m \in Costs : \A x \in Costs : x <= m

VARIABLES breaker, \* per provider: state, failures, whether the last one is recent
          spent,   \* today's cost
          call     \* per caller: where its request stands

llmVars == <<breaker, spent, call>>

Callers == Chats \cup Loops
Chain == SelectSeq(<<"primary", "fallback", "tertiary">>, LAMBDA p : p \in Keys)

\* How a request ends: an httpx error (counted by the breaker), or any other
\* exception, such as an answer without choices (not counted).
HttpErrors == {"auth", "rate", "server", "bad", "client", "network"}
Outcomes == HttpErrors \cup {"ok", "garbled"}

Unasked == [pc |-> "idle", left |-> <<>>, try |-> 0, iter |-> 0]

Closed == [state |-> "CLOSED", failures |-> 0, recent |-> FALSE]

LLMInit ==
  /\ breaker = [p \in Keys |-> Closed]
  /\ spent = 0
  /\ call = [c \in Callers |-> Unasked]

\* failure_count, which is only ever compared with the threshold.
Counted(n) == IF n = Threshold THEN n ELSE n + 1

\* _update_state: the recovery timeout is over.
Probed(b) == IF b.state = "OPEN" /\ ~b.recent THEN [b EXCEPT !.state = "HALF_OPEN"] ELSE b

Succeeded(b) == IF b.state = "HALF_OPEN" THEN Closed ELSE b

Failed(b) ==
  [state |-> IF b.state = "HALF_OPEN" \/ Counted(b.failures) >= Threshold
               THEN "OPEN" ELSE b.state,
   failures |-> Counted(b.failures), recent |-> TRUE]

\* Mutant: the budget is compared after the call that would exceed it.
ThrottledLate == spent > Budget

Throttled == spent >= Budget

\* What the caller does with the router's answer.  A loop asks again after
\* running tools, once more for a final answer when its iterations, its tools
\* or its patience are exhausted, and returns what it has otherwise.
Answered(k, c, reply) ==
  IF c \in Loops /\ k.iter > 0
    THEN [Unasked EXCEPT !.pc = reply, !.iter = k.iter]
    ELSE Unasked

\* chat, chat_json, chat_with_functions up to the first provider.
Admitted(c, iter) ==
  LET k == [Unasked EXCEPT !.iter = iter] IN
  IF Chain = <<>> THEN Answered(k, c, "notice")
  ELSE IF Throttled THEN Answered(k, c, "notice")
  ELSE [k EXCEPT !.pc = "try", !.left = Chain]

\* chat, or a method that asks one question without a history.
AskOnce(c) ==
  /\ c \in Chats /\ call[c].pc = "idle"
  /\ call' = [call EXCEPT ![c] = Admitted(c, 0)]
  /\ UNCHANGED <<breaker, spent>>

\* The first iteration of a loop, with or without a history.
AskInLoop(c) ==
  /\ c \in Loops /\ call[c].pc = "idle"
  /\ call' = [call EXCEPT ![c] = Admitted(c, 1)]
  /\ UNCHANGED <<breaker, spent>>

\* Mutant: the last provider is tried again and again.
SkippedForever(k, c) == IF Len(k.left) = 1 THEN [k EXCEPT !.pc = "try", !.try = 0]
                        ELSE [k EXCEPT !.pc = "try", !.left = Tail(@), !.try = 0]

\* The next provider; after the last one the router gives up.
Skipped(k, c) == IF Len(k.left) = 1 THEN Answered(k, c, "notice")
                 ELSE [k EXCEPT !.pc = "try", !.left = Tail(@), !.try = 0]

\* Another attempt after a back-off, if one is left.
Retried(k, c) == IF k.try < MaxRetries THEN [k EXCEPT !.pc = "sleep", !.try = @ + 1]
                 ELSE Skipped(k, c)

Blocked(b) == b.state = "OPEN"

\* The breaker is asked: open, it sends the caller on to the next provider.
Attempt(c) ==
  LET p == Head(call[c].left)
      b == Probed(breaker[p]) IN
  /\ call[c].pc = "try"
  /\ breaker' = [breaker EXCEPT ![p] = b]
  /\ call' = [call EXCEPT ![c] = IF Blocked(b) THEN Skipped(@, c) ELSE [@ EXCEPT !.pc = "sent"]]
  /\ UNCHANGED spent

\* A 400 to a request for JSON or for functions is answered by a second
\* request without them, inside the same attempt; o is how the attempt ends.
Respond(c, o, cost) ==
  LET p == Head(call[c].left) IN
  /\ call[c].pc = "sent"
  /\ breaker' = [breaker EXCEPT ![p] = CASE o = "ok" -> Succeeded(@)
                                         [] o \in HttpErrors -> Failed(@)
                                         [] OTHER -> @]
  /\ spent' = IF o = "ok" THEN spent + cost ELSE spent
  /\ call' = [call EXCEPT ![c] =
       CASE o = "ok" -> Answered(@, c, "reply")
         [] o \in {"auth", "client"} \/ (o = "bad" /\ p # "primary") -> Skipped(@, c)
         [] OTHER -> Retried(@, c)]

\* A rate limit or a server error on the last attempt waits as well before
\* the next provider; only the order of steps differs, which Retried leaves out.
Wake(c) ==
  /\ call[c].pc = "sleep"
  /\ call' = [call EXCEPT ![c].pc = "try"]
  /\ UNCHANGED <<breaker, spent>>

\* The loop's wait_for gives up on an iteration: the request is cancelled, the
\* breaker does not hear of it, and if the provider answered nobody counts it.
IterationTimeout(c) ==
  /\ c \in Loops /\ call[c].iter > 0 /\ call[c].pc \in {"try", "sent", "sleep"}
  /\ call' = [call EXCEPT ![c] = Answered(@, c, "timeout")]
  /\ UNCHANGED <<breaker, spent>>

\* The answer is final (the router's notices always are), or is a decision.
Conclude(c) ==
  /\ call[c].pc \in {"reply", "notice"}
  /\ call' = [call EXCEPT ![c] = Unasked]
  /\ UNCHANGED <<breaker, spent>>

\* The answer names tools (each run under its own time limit), or is reasoning
\* without a call: the next iteration asks again.
CallTools(c) ==
  /\ call[c].pc = "reply" /\ call[c].iter < Iterations
  /\ call' = [call EXCEPT ![c] = Admitted(c, call[c].iter + 1)]
  /\ UNCHANGED <<breaker, spent>>

\* No tools, no more iterations or no more time: a last plain question, whose
\* answer is returned whatever it is.
ForceFinal(c) ==
  /\ call[c].pc \in {"timeout", "reply"}
  /\ call' = [call EXCEPT ![c] = Admitted(c, 0)]
  /\ UNCHANGED <<breaker, spent>>

\* More than recovery_timeout has passed since the provider's last failure.
Elapse(p) ==
  /\ breaker[p].recent
  /\ breaker' = [breaker EXCEPT ![p].recent = FALSE]
  /\ UNCHANGED <<spent, call>>

\* Midnight UTC: a new entry of _daily_totals.
NewDay ==
  /\ spent > 0 /\ spent' = 0
  /\ UNCHANGED <<breaker, call>>

LLMNext ==
  \/ \E c \in Callers :
       \/ AskOnce(c) \/ AskInLoop(c) \/ Attempt(c) \/ Wake(c)
       \/ IterationTimeout(c) \/ Conclude(c) \/ CallTools(c) \/ ForceFinal(c)
       \/ \E o \in Outcomes, cost \in Costs : Respond(c, o, cost)
  \/ \E p \in Keys : Elapse(p)
  \/ NewDay

\* The event loop resumes a task that can run, httpx has a time limit of its
\* own, a sleep ends, and time passes.
Working(c) ==
  \/ Attempt(c) \/ Wake(c) \/ Conclude(c) \/ CallTools(c) \/ ForceFinal(c)
  \/ \E o \in Outcomes, cost \in Costs : Respond(c, o, cost)

LLMSpec == LLMInit /\ [][LLMNext]_llmVars

LLMFairness == \A c \in Callers : WF_llmVars(Working(c))
----------------------------------------------------------------------------
LLMTypeOK ==
  /\ breaker \in [Keys -> [state : {"CLOSED", "OPEN", "HALF_OPEN"},
                           failures : 0 .. Threshold, recent : BOOLEAN]]
  /\ spent \in Nat
  /\ call \in [Callers -> [pc : {"idle", "try", "sent", "sleep",
                                 "reply", "notice", "timeout"},
                           left : {SubSeq(Chain, i, Len(Chain)) : i \in 1 .. Len(Chain) + 1},
                           try : 0 .. MaxRetries, iter : 0 .. Iterations]]

Dearest == CHOOSE m \in Costs : \A x \in Costs : x <= m
InFlight == {c \in Callers : call[c].pc \in {"try", "sent", "sleep"}}

\* The budget is read before the request and charged after it, by every
\* caller for itself: requests already admitted may overspend it, each by the
\* cost of one call and no more.
OverspendBounded ==
  spent + Dearest * Cardinality(InFlight) < Budget + Dearest * Cardinality(Callers)

\* Every question ends with an answer: the reply of a provider, or the notice
\* that there is none; retries, open breakers and the tool loop all end.
EveryQuestionAnswered ==
  \A c \in Callers : []<>(call[c].pc = "idle")
=============================================================================
