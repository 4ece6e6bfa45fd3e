-------------------------- MODULE Services_proofs --------------------------
(* Proofs about the services that share no state with each other: what the   *)
(* daily budget of the language model bounds, what the agent believes at one *)
(* time, what the kill switch of the API stops, and that the books of the    *)
(* paper trading balance.                                                    *)
EXTENDS LLMGateway, Convictions, CronScheduler, ApiServer, PaperTrading,
        FiniteSetTheorems, WellFoundedInduction, TLAPS

\* Where a request stands is all that counts here.
Request(k) ==
  /\ "pc" \in DOMAIN k
  /\ k.pc \in {"idle", "try", "sent", "sleep", "reply", "notice", "timeout"}

Flying(k) == k.pc \in {"try", "sent", "sleep"}

LLMInv ==
  /\ spent \in Nat
  /\ call = [c \in Callers |-> call[c]]
  /\ \A c \in Callers : Request(call[c])
  /\ OverspendBounded

LEMMA DearestBounds == Dearest \in Nat /\ \A x \in Costs : x <= Dearest
  <1>1. \E m \in Costs : \A x \in Costs : x <= m
    BY LLMAssumption DEF LLMAssumption
  <1>2. Dearest \in Costs /\ \A x \in Costs : x <= Dearest
    BY <1>1 DEF Dearest
  <1> QED BY <1>2, LLMAssumption DEF LLMAssumption

\* What the requests in flight may still cost grows with their number.
LEMMA CostGrows ==
  ASSUME NEW d \in Nat, NEW m \in Nat, NEW n \in Nat
  PROVE  /\ d * n \in Nat /\ d * (n + 1) = d * n + d
         /\ m <= n => d * m <= d * n
  <1>1. d * n \in Nat /\ d * m \in Nat /\ d * (n + 1) = d * n + d
    OBVIOUS
  <1>2. ASSUME m <= n PROVE d * m <= d * n
    <2>1. PICK e \in Nat : n = m + e
      <3>1. n - m \in Nat /\ n = m + (n - m)
        BY <1>2
      <3> QED BY <3>1
    <2>2. d * n = d * m + d * e /\ d * e \in Nat
      BY <2>1
    <2> QED BY <2>2, <1>1
  <1> QED BY <1>1, <1>2

LEMMA CallersFinite ==
  /\ IsFiniteSet(InFlight) /\ Cardinality(InFlight) \in Nat
  /\ Cardinality(Callers) \in Nat
  /\ InFlight # Callers => Cardinality(InFlight) + 1 <= Cardinality(Callers)
  <1>1. IsFiniteSet(Callers) /\ InFlight \in SUBSET Callers
    BY LLMAssumption DEF LLMAssumption, Callers, InFlight
  <1>2. /\ IsFiniteSet(InFlight) /\ Cardinality(InFlight) <= Cardinality(Callers)
        /\ Cardinality(Callers) = Cardinality(InFlight) => Callers = InFlight
    BY <1>1, FS_Subset
  <1>3. Cardinality(InFlight) \in Nat /\ Cardinality(Callers) \in Nat
    BY <1>1, <1>2, FS_CardinalityType
  <1> QED BY <1>2, <1>3

\* One caller's request changes, and it is not put in flight by a step that
\* finds the budget used up: the bound holds on.
LEMMA BoundKept ==
  ASSUME LLMInv, NEW c \in Callers, NEW k, Request(k), call' = [call EXCEPT ![c] = k],
         \/ spent' = spent /\ (Flying(k) => Flying(call[c]))
         \/ spent' = spent /\ spent < Budget
         \/ /\ Flying(call[c]) /\ ~Flying(k)
            /\ \E x \in Costs : spent' = spent + x
  PROVE  LLMInv'
  <1> DEFINE d == Dearest
             n == Cardinality(InFlight)
             m == Cardinality(Callers)
  <1>1. d \in Nat /\ (\A x \in Costs : x \in Nat /\ x <= d) /\ Budget \in Nat
    BY DearestBounds, LLMAssumption DEF LLMAssumption
  <1>2. n \in Nat /\ m \in Nat /\ IsFiniteSet(InFlight) /\ spent \in Nat
        /\ (InFlight # Callers => n + 1 <= m)
    BY CallersFinite DEF LLMInv
  <1>3. /\ call' = [x \in Callers |-> call'[x]]
        /\ call'[c] = k /\ \A x \in Callers \ {c} : call'[x] = call[x]
    BY DEF LLMInv
  <1>4. \A x \in Callers : Request(call[x])' 
    BY <1>3 DEF LLMInv, Request
  <1>5. spent + d * n < Budget + d * m
    BY DEF LLMInv, OverspendBounded
  <1>6. /\ c \in InFlight <=> Flying(call[c])
        /\ InFlight' = IF Flying(k) THEN InFlight \cup {c} ELSE InFlight \ {c}
    BY <1>3 DEF InFlight, Flying
  <1>7. Cardinality(InFlight') = IF Flying(k) THEN IF Flying(call[c]) THEN n ELSE n + 1
                                  ELSE IF Flying(call[c]) THEN n - 1 ELSE n
    BY <1>2, <1>6, FS_AddElement, FS_RemoveElement
  <1>8. Flying(call[c]) => n - 1 \in Nat
    <2>1. Cardinality(InFlight \ {c}) \in Nat
      BY <1>2, FS_RemoveElement, FS_CardinalityType
    <2> QED BY <2>1, <1>2, <1>6, FS_RemoveElement
  <1> HIDE DEF d, n, m
  <1>9. spent' + d * Cardinality(InFlight') < Budget + d * m /\ spent' \in Nat
    <2>1. CASE spent' = spent /\ Cardinality(InFlight') = n
      BY <2>1, <1>2, <1>5
    <2>2. CASE spent' = spent /\ Flying(call[c]) /\ Cardinality(InFlight') = n - 1
      <3>1. d * (n - 1) <= d * n /\ d * (n - 1) \in Nat /\ d * n \in Nat /\ d * m \in Nat
        BY <1>1, <1>2, <1>8, <2>2, CostGrows
      <3> QED BY <3>1, <2>2, <1>1, <1>2, <1>5
    <2>3. CASE spent' = spent /\ spent < Budget /\ ~Flying(call[c]) /\ Cardinality(InFlight') = n + 1
      <3>1. n + 1 <= m /\ n + 1 \in Nat
        BY <2>3, <1>2, <1>6
      <3>2. d * (n + 1) <= d * m /\ d * (n + 1) \in Nat /\ d * m \in Nat
        BY <3>1, <1>1, <1>2, CostGrows
      <3> QED BY <3>2, <2>3, <1>1, <1>2
    <2>4. CASE Flying(call[c]) /\ ~Flying(k) /\ \E x \in Costs : spent' = spent + x
      <3>1. PICK x \in Costs : spent' = spent + x
        BY <2>4
      <3>2. d * ((n - 1) + 1) = d * (n - 1) + d /\ (n - 1) + 1 = n
            /\ d * (n - 1) \in Nat /\ d * m \in Nat
        BY <1>1, <1>2, <1>8, <2>4, CostGrows
      <3>3. d * n = d * (n - 1) + d
        BY <3>2
      <3> QED BY <3>1, <3>2, <3>3, <2>4, <1>1, <1>2, <1>5, <1>7
    <2> QED BY <1>7, <2>1, <2>2, <2>3, <2>4
  <1>10. OverspendBounded'
    BY <1>9 DEF OverspendBounded, d, m, Callers, Dearest
  <1> QED BY <1>3, <1>4, <1>9, <1>10 DEF LLMInv

LEMMA UnaskedShape == Request(Unasked) /\ ~Flying(Unasked)
  BY DEF Request, Flying, Unasked

LEMMA AnsweredShape ==
  ASSUME NEW k, Request(k), NEW c, NEW reply \in {"reply", "notice", "timeout"}
  PROVE  Request(Answered(k, c, reply)) /\ ~Flying(Answered(k, c, reply))
  <1>1. CASE Answered(k, c, reply) = Unasked
    BY <1>1, UnaskedShape
  <1>2. CASE Answered(k, c, reply) = [Unasked EXCEPT !.pc = reply, !.iter = k.iter]
    BY <1>2 DEF Request, Flying, Unasked
  <1> QED BY <1>1, <1>2 DEF Answered

LEMMA MovedShape ==
  ASSUME NEW k, Request(k),
         NEW place \in {"idle", "try", "sent", "sleep", "reply", "notice", "timeout"}
  PROVE  /\ Request([k EXCEPT !.pc = place]) /\ [k EXCEPT !.pc = place].pc = place
         /\ Request([k EXCEPT !.pc = "sleep", !.try = @ + 1])
         /\ Request([k EXCEPT !.pc = "try", !.left = Tail(@), !.try = 0])
         /\ Request([k EXCEPT !.pc = "try", !.left = Chain])
         /\ [k EXCEPT !.pc = "try", !.left = Chain].pc = "try"
  BY DEF Request

LEMMA SkippedShape ==
  ASSUME NEW k, Request(k), NEW c
  PROVE  Request(Skipped(k, c)) /\ Request(Retried(k, c))
  <1>1. Request(Skipped(k, c))
    BY AnsweredShape, MovedShape DEF Skipped
  <1> QED BY <1>1, MovedShape DEF Retried

\* Nobody is admitted on a day whose budget is used up.
LEMMA AdmittedInBudget ==
  ASSUME LLMInv, NEW c, NEW iter
  PROVE  Request(Admitted(c, iter)) /\ (Flying(Admitted(c, iter)) => spent < Budget)
  <1> DEFINE k == [Unasked EXCEPT !.iter = iter]
  <1>1. Request(k)
    BY DEF Request, Unasked
  <1>2. CASE Admitted(c, iter) = Answered(k, c, "notice")
    BY <1>1, <1>2, AnsweredShape
  <1>3. CASE Admitted(c, iter) = [k EXCEPT !.pc = "try", !.left = Chain] /\ ~Throttled
    <2>1. spent < Budget
      BY <1>3, LLMAssumption DEF Throttled, LLMInv, LLMAssumption
    <2>2. Request([k EXCEPT !.pc = "try", !.left = Chain])
      BY <1>1, MovedShape
    <2> QED BY <1>3, <2>1, <2>2
  <1> QED BY <1>2, <1>3 DEF Admitted

LEMMA LLMStep == LLMInv /\ [LLMNext]_llmVars => LLMInv'
  <1> SUFFICES ASSUME LLMInv, [LLMNext]_llmVars PROVE LLMInv'
    OBVIOUS
  <1>1. \A c \in Callers : Request(call[c])
    BY DEF LLMInv
  <1>2. ASSUME NEW c \in Callers, NEW iter, ~Flying(call[c]), spent' = spent,
               call' = [call EXCEPT ![c] = Admitted(c, iter)]
        PROVE  LLMInv'
    <2>1. Request(Admitted(c, iter)) /\ (Flying(Admitted(c, iter)) => spent < Budget)
      BY AdmittedInBudget
    <2>2. CASE Flying(Admitted(c, iter))
      BY <2>1, <2>2, <1>2, BoundKept
    <2>3. CASE ~Flying(Admitted(c, iter))
      BY <2>1, <2>3, <1>2, BoundKept
    <2> QED BY <2>2, <2>3
  <1>3. ASSUME NEW c \in Callers, AskOnce(c) PROVE LLMInv'
    BY <1>2, <1>3 DEF AskOnce, Flying
  <1>4. ASSUME NEW c \in Callers, AskInLoop(c) PROVE LLMInv'
    BY <1>2, <1>4 DEF AskInLoop, Flying
  <1>5. ASSUME NEW c \in Callers, Attempt(c) PROVE LLMInv'
    <2> DEFINE p == Head(call[c].left)
    <2>1. Flying(call[c]) /\ Request(call[c]) /\ spent' = spent
      BY <1>1, <1>5 DEF Attempt, Flying
    <2>2. call' = [call EXCEPT ![c] = Skipped(call[c], c)] \/ call' = [call EXCEPT ![c].pc = "sent"]
      BY <1>5 DEF Attempt
    <2>3. CASE call' = [call EXCEPT ![c] = Skipped(call[c], c)]
      <3>1. Request(Skipped(call[c], c))
        BY <2>1, SkippedShape
      <3> HIDE DEF LLMInv
      <3> QED BY <2>1, <2>3, <3>1, BoundKept
    <2>4. CASE call' = [call EXCEPT ![c].pc = "sent"]
      <3>1. Request([call[c] EXCEPT !.pc = "sent"])
        BY <2>1, MovedShape
      <3>2. call' = [call EXCEPT ![c] = [call[c] EXCEPT !.pc = "sent"]]
        BY <2>4 DEF LLMInv
      <3> QED BY <2>1, <3>1, <3>2, BoundKept
    <2> QED BY <2>2, <2>3, <2>4
  <1>6. ASSUME NEW c \in Callers, NEW o \in Outcomes, NEW cost \in Costs, Respond(c, o, cost)
        PROVE  LLMInv'
    <2>1. Flying(call[c]) /\ Request(call[c])
      BY <1>1, <1>6 DEF Respond, Flying
    <2>2. CASE o = "ok"
      <3>1. spent' = spent + cost /\ call' = [call EXCEPT ![c] = Answered(call[c], c, "reply")]
        BY <2>2, <1>6 DEF Respond
      <3>2. Request(Answered(call[c], c, "reply")) /\ ~Flying(Answered(call[c], c, "reply"))
        BY <2>1, AnsweredShape
      <3> QED BY <2>1, <3>1, <3>2, BoundKept
    <2>3. CASE o # "ok"
      <3>1. spent' = spent /\ \/ call' = [call EXCEPT ![c] = Skipped(call[c], c)]
                              \/ call' = [call EXCEPT ![c] = Retried(call[c], c)]
        BY <2>3, <1>6 DEF Respond
      <3>2. Request(Skipped(call[c], c)) /\ Request(Retried(call[c], c))
        BY <2>1, SkippedShape
      <3> QED BY <2>1, <3>1, <3>2, BoundKept
    <2> QED BY <2>2, <2>3
  <1>7. ASSUME NEW c \in Callers, Wake(c) PROVE LLMInv'
    <2>1. Flying(call[c]) /\ Request(call[c]) /\ spent' = spent
          /\ call' = [call EXCEPT ![c] = [call[c] EXCEPT !.pc = "try"]]
      BY <1>1, <1>7 DEF Wake, Flying, LLMInv
    <2>2. Request([call[c] EXCEPT !.pc = "try"])
      BY <2>1, MovedShape
    <2> QED BY <2>1, <2>2, BoundKept
  <1>8. ASSUME NEW c \in Callers, IterationTimeout(c) PROVE LLMInv'
    <2>1. Request(call[c]) /\ spent' = spent
          /\ call' = [call EXCEPT ![c] = Answered(call[c], c, "timeout")]
      BY <1>1, <1>8 DEF IterationTimeout
    <2>2. Request(Answered(call[c], c, "timeout")) /\ ~Flying(Answered(call[c], c, "timeout"))
      BY <2>1, AnsweredShape
    <2> QED BY <2>1, <2>2, BoundKept
  <1>9. ASSUME NEW c \in Callers, Conclude(c) PROVE LLMInv'
    BY <1>9, UnaskedShape, BoundKept DEF Conclude
  <1>10. ASSUME NEW c \in Callers, CallTools(c) PROVE LLMInv'
    BY <1>2, <1>10 DEF CallTools, Flying
  <1>11. ASSUME NEW c \in Callers, ForceFinal(c) PROVE LLMInv'
    BY <1>2, <1>11 DEF ForceFinal, Flying
  <1>12. ASSUME UNCHANGED call, spent' \in Nat, spent' <= spent PROVE LLMInv'
    <2>1. InFlight' = InFlight
      BY <1>12 DEF InFlight
    <2>2. spent + Dearest * Cardinality(InFlight) < Budget + Dearest * Cardinality(Callers)
          /\ spent \in Nat
      BY DEF LLMInv, OverspendBounded
    <2>3. Dearest * Cardinality(InFlight) \in Nat /\ Dearest * Cardinality(Callers) \in Nat
          /\ Budget \in Nat
      BY CallersFinite, DearestBounds, LLMAssumption DEF LLMAssumption
    <2>4. spent' + Dearest * Cardinality(InFlight') < Budget + Dearest * Cardinality(Callers)
      BY <1>12, <2>1, <2>2, <2>3
    <2>5. OverspendBounded'
      BY <2>4 DEF OverspendBounded, Dearest, Callers
    <2> QED BY <1>12, <2>5 DEF LLMInv, Request
  <1>13. CASE \E p \in Keys : Elapse(p)
    BY <1>12, <1>13 DEF Elapse, LLMInv
  <1>14. CASE NewDay
    BY <1>12, <1>14 DEF NewDay, LLMInv
  <1>15. CASE UNCHANGED llmVars
    BY <1>12, <1>15 DEF llmVars, LLMInv
  <1> QED BY <1>3, <1>4, <1>5, <1>6, <1>7, <1>8, <1>9, <1>10, <1>11, <1>13, <1>14, <1>15
          DEF LLMNext

LEMMA LLMStart == LLMInit => LLMInv
  <1> SUFFICES ASSUME LLMInit PROVE LLMInv
    OBVIOUS
  <1>1. InFlight = {} /\ spent = 0 /\ \A c \in Callers : call[c] = Unasked
    BY UnaskedShape DEF LLMInit, InFlight, Flying
  <1>2. Cardinality(InFlight) = 0 /\ Dearest \in Nat /\ Dearest * Cardinality(Callers) \in Nat
        /\ Budget \in Nat \ {0}
    BY <1>1, FS_EmptySet, DearestBounds, CallersFinite, LLMAssumption DEF LLMAssumption
  <1>3. OverspendBounded
    BY <1>1, <1>2 DEF OverspendBounded
  <1> QED BY <1>1, <1>3, UnaskedShape DEF LLMInit, LLMInv

\* The daily budget is overspent by less than one call of the dearest kind per
\* caller, however many callers there are and however requests, retries, time
\* limits and midnight interleave (CostTracker.is_over_budget before a request,
\* record_cost after it).
THEOREM OverspendIsBounded == LLMSpec => []OverspendBounded
  <1>1. LLMInv => OverspendBounded
    BY DEF LLMInv
  <1> QED BY <1>1, LLMStart, LLMStep, PTL DEF LLMSpec

\* The convictions are numbered as they were formed.
Numbered == \E n \in Nat : Formed = 1 .. n

ConvictionInv == Numbered /\ ConvictionTypeOK /\ BeliefsCoherent

LEMMA OpenFinite ==
  ASSUME ConvictionInv
  PROVE  /\ IsFiniteSet(Formed) /\ Cardinality(Formed) + 1 \notin Formed
         /\ Formed \cup {Cardinality(Formed) + 1} = 1 .. Cardinality(Formed) + 1
         /\ Cardinality(Formed) \in Nat
         /\ IsFiniteSet(Open) /\ Cardinality(Open) \in Nat
  <1>1. PICK n \in Nat : Formed = 1 .. n
    BY DEF ConvictionInv, Numbered
  <1>2. IsFiniteSet(Formed) /\ Cardinality(Formed) = n
    BY <1>1, FS_Interval
  <1>3. IsFiniteSet(Open)
    BY <1>2, FS_Subset DEF Open
  <1> QED BY <1>1, <1>2, <1>3, FS_CardinalityType

\* A step that ends or changes convictions, each keeping its direction and its
\* thesis, opens nothing.
LEMMA NothingOpened ==
  ASSUME ConvictionInv, DOMAIN conv' = Formed,
         \A i \in Formed :
           \/ conv'[i] = conv[i]
           \/ \E s \in Ended : conv'[i] = Gone(s)
           \/ /\ i \in Open /\ conv'[i] \in Conviction
              /\ conv'[i].direction = conv[i].direction /\ conv'[i].thesis = conv[i].thesis
  PROVE  ConvictionInv'
  <1>1. Formed' = Formed
    BY DEF Formed
  <1>2. \A s \in Ended : Gone(s).status \notin {"forming", "active"}
    BY DEF Ended, Gone
  <1>3. \A i \in Open' : /\ i \in Open
                         /\ conv'[i].direction = conv[i].direction
                         /\ conv'[i].thesis = conv[i].thesis
    BY <1>1, <1>2 DEF Open
  <1>4. Cardinality(Open') <= MaxActive
    <2>1. Open' \in SUBSET Open
      BY <1>3
    <2>2. Cardinality(Open') <= Cardinality(Open) /\ Cardinality(Open') \in Nat
      BY <2>1, OpenFinite, FS_Subset, FS_CardinalityType
    <2> QED BY <2>2, OpenFinite, ConvictionAssumption
          DEF ConvictionInv, BeliefsCoherent, ConvictionAssumption
  <1>5. BeliefsCoherent'
    BY <1>3, <1>4 DEF ConvictionInv, BeliefsCoherent
  <1>6. ConvictionTypeOK'
    BY <1>1 DEF ConvictionInv, ConvictionTypeOK
  <1> QED BY <1>1, <1>5, <1>6 DEF ConvictionInv, Numbered

LEMMA OpenKnown ==
  ASSUME ConvictionTypeOK, NEW i \in Open
  PROVE  conv[i] \in Conviction
  BY DEF ConvictionTypeOK, Open, Gone, Ended

LEMMA FormStep ==
  ASSUME ConvictionInv, NEW d \in Directions, NEW t \in Theses,
         NEW support \in 0 .. MinEvidence, NEW band \in Bands, Form(d, t, support, band)
  PROVE  ConvictionInv'
  <1> DEFINE n == Cardinality(Formed)
  <1>1. PICK text \in BOOLEAN :
          conv' = [i \in Formed \cup {n + 1} |->
            IF i \in Formed THEN conv[i]
            ELSE [status |-> IF band = 2 THEN "active" ELSE "forming", direction |-> d,
                  thesis |-> t, band |-> band, support |-> support, old |-> FALSE,
                  text |-> text]]
    BY DEF Form
  <1> DEFINE new == [status |-> IF band = 2 THEN "active" ELSE "forming", direction |-> d,
                     thesis |-> t, band |-> band, support |-> support, old |-> FALSE,
                     text |-> text]
  <1>2. /\ IsFiniteSet(Formed) /\ n + 1 \notin Formed /\ n \in Nat
        /\ Formed \cup {n + 1} = 1 .. n + 1
        /\ IsFiniteSet(Open) /\ Cardinality(Open) \in Nat
    BY OpenFinite
  <1> HIDE DEF n
  <1>3. new \in Conviction /\ new.status \in {"forming", "active"}
        /\ new.direction = d /\ new.thesis = t
    BY DEF Conviction
  <1>4. Formed' = Formed \cup {n + 1} /\ conv'[n + 1] = new
        /\ \A i \in Formed : conv'[i] = conv[i]
    BY <1>1, <1>2 DEF Formed
  <1> HIDE DEF new
  <1>5. Open' = Open \cup {n + 1} /\ n + 1 \notin Open /\ Open \subseteq Formed
    BY <1>2, <1>3, <1>4 DEF Open
  <1>6. Cardinality(Open') <= MaxActive
    <2>1. Cardinality(Open') = Cardinality(Open) + 1
      BY <1>2, <1>5, FS_AddElement
    <2>2. Cardinality(Open) < MaxActive
      BY <1>2, ConvictionAssumption DEF Form, Full, ConvictionAssumption
    <2> QED BY <2>1, <2>2, <1>2, ConvictionAssumption DEF ConvictionAssumption
  <1>7. \A i \in Open : conv[i].direction = d => conv[i].thesis = t
    BY DEF Form, Strengthened
  <1>8. BeliefsCoherent'
    BY <1>3, <1>4, <1>5, <1>6, <1>7 DEF ConvictionInv, BeliefsCoherent
  <1>9. ConvictionTypeOK'
    BY <1>3, <1>4 DEF ConvictionInv, ConvictionTypeOK
  <1>10. Numbered'
    BY <1>2, <1>4 DEF Numbered
  <1> QED BY <1>8, <1>9, <1>10 DEF ConvictionInv

LEMMA EvidenceStep ==
  ASSUME ConvictionInv, NEW i, NEW for \in BOOLEAN, NEW band \in Bands, AddEvidence(i, for, band)
  PROVE  ConvictionInv'
  <1> DEFINE c == conv[i]
             support == IF for /\ c.support < MinEvidence THEN c.support + 1 ELSE c.support
             new == [c EXCEPT !.band = band, !.support = support, !.old = Refreshed(c),
                       !.status = IF support >= MinEvidence /\ band = 2 THEN "active" ELSE @]
  <1>1. i \in Open /\ i \in Formed /\ c \in Conviction
    BY OpenKnown DEF AddEvidence, Open, ConvictionInv
  <1>2. conv' = [conv EXCEPT ![i] = new]
    BY DEF AddEvidence
  <1>3. support \in 0 .. MinEvidence /\ Refreshed(c) \in BOOLEAN
    BY <1>1, ConvictionAssumption DEF Conviction, Refreshed
  <1> HIDE DEF support
  <1>4. new \in Conviction /\ new.direction = c.direction /\ new.thesis = c.thesis
    BY <1>1, <1>3 DEF Conviction
  <1> HIDE DEF new
  <1>5. DOMAIN conv' = Formed /\ conv'[i] = new /\ \A j \in Formed \ {i} : conv'[j] = conv[j]
    BY <1>1, <1>2 DEF Formed
  <1> QED BY <1>1, <1>4, <1>5, NothingOpened

LEMMA DecayedKeeps ==
  ASSUME NEW c \in Conviction, NEW lot
  PROVE  /\ Decayed(c, lot) \in Conviction
         /\ Decayed(c, lot).direction = c.direction /\ Decayed(c, lot).thesis = c.thesis
  <1>1. Decayed(c, lot) \in {c, [c EXCEPT !.band = @ - 1], [c EXCEPT !.band = @ + 1],
                             [c EXCEPT !.support = 0]}
    BY DEF Decayed
  <1>2. CASE lot = "lower" /\ c.band > 0
    BY <1>2 DEF Decayed, Conviction, Bands
  <1>3. CASE lot = "higher" /\ c.band < 2
    BY <1>3 DEF Decayed, Conviction, Bands
  <1>4. CASE lot = "pruned"
    BY <1>4, ConvictionAssumption DEF Decayed, Conviction
  <1>5. CASE ~(lot = "lower" /\ c.band > 0) /\ ~(lot = "higher" /\ c.band < 2) /\ lot # "pruned"
    BY <1>5 DEF Decayed
  <1> QED BY <1>2, <1>3, <1>4, <1>5

LEMMA TickStep ==
  ASSUME ConvictionInv, NEW price \in BOOLEAN, NEW lot \in [Open -> Lots], Tick(price, lot)
  PROVE  ConvictionInv'
  <1>1. ASSUME NEW i \in Formed
        PROVE  \/ conv'[i] = conv[i]
               \/ \E s \in Ended : conv'[i] = Gone(s)
               \/ /\ i \in Open /\ conv'[i] \in Conviction
                  /\ conv'[i].direction = conv[i].direction /\ conv'[i].thesis = conv[i].thesis
    <2>1. CASE i \notin Open
      BY <2>1 DEF Tick
    <2>2. CASE i \in Open
      <3>1. conv'[i] \in {Ticked(conv[i], lot[i]), Decayed(conv[i], lot[i])}
        BY <2>2, <1>1 DEF Tick
      <3>2. conv[i] \in Conviction
        BY <2>2, OpenKnown DEF ConvictionInv
      <3>3. Ticked(conv[i], lot[i]) = Decayed(conv[i], lot[i])
            \/ \E s \in Ended : Ticked(conv[i], lot[i]) = Gone(s)
        BY DEF Ticked, Ended
      <3> QED BY <2>2, <3>1, <3>2, <3>3, DecayedKeeps
    <2> QED BY <2>1, <2>2
  <1>2. DOMAIN conv' = Formed
    BY DEF Tick
  <1> QED BY <1>1, <1>2, NothingOpened

LEMMA ConvictionStep == ConvictionInv /\ [ConvictionNext]_convictionVars => ConvictionInv'
  <1> SUFFICES ASSUME ConvictionInv, [ConvictionNext]_convictionVars PROVE ConvictionInv'
    OBVIOUS
  <1>1. ASSUME NEW d \in Directions, NEW t \in Theses, NEW s \in 0 .. MinEvidence,
               NEW b \in Bands, Form(d, t, s, b)
        PROVE  ConvictionInv'
    BY <1>1, FormStep
  <1>2. ASSUME NEW i \in 1 .. MaxFormed, NEW for \in BOOLEAN, NEW b \in Bands,
               AddEvidence(i, for, b)
        PROVE  ConvictionInv'
    BY <1>2, EvidenceStep
  <1>3. ASSUME NEW i, NEW s \in {"invalidated", "realized"}, Close(i, s) PROVE ConvictionInv'
    <2>1. i \in Formed /\ conv' = [conv EXCEPT ![i] = Gone(s)] /\ s \in Ended
      BY <1>3 DEF Close, Open, Ended
    <2>2. DOMAIN conv' = Formed /\ conv'[i] = Gone(s) /\ \A j \in Formed \ {i} : conv'[j] = conv[j]
      BY <2>1 DEF Formed
    <2> QED BY <2>1, <2>2, NothingOpened
  <1>4. ASSUME NEW i, GrowOld(i) PROVE ConvictionInv'
    <2>1. i \in Open /\ i \in Formed /\ conv[i] \in Conviction
          /\ conv' = [conv EXCEPT ![i] = [conv[i] EXCEPT !.old = TRUE]]
      BY <1>4, OpenKnown DEF GrowOld, Open, ConvictionInv
    <2>2. /\ [conv[i] EXCEPT !.old = TRUE] \in Conviction
          /\ [conv[i] EXCEPT !.old = TRUE].direction = conv[i].direction
          /\ [conv[i] EXCEPT !.old = TRUE].thesis = conv[i].thesis
      BY <2>1 DEF Conviction
    <2>3. DOMAIN conv' = Formed /\ conv'[i] = [conv[i] EXCEPT !.old = TRUE]
          /\ \A j \in Formed \ {i} : conv'[j] = conv[j]
      BY <2>1 DEF Formed
    <2> QED BY <2>1, <2>2, <2>3, NothingOpened
  <1>5. ASSUME NEW price \in BOOLEAN, NEW lot \in [Open -> Lots], Tick(price, lot)
        PROVE  ConvictionInv'
    BY <1>5, TickStep
  <1>6. CASE UNCHANGED convictionVars
    BY <1>6, NothingOpened DEF convictionVars, Formed
  <1> QED BY <1>1, <1>2, <1>3, <1>4, <1>5, <1>6 DEF ConvictionNext, TickAny

\* The agent never believes two theses of one direction at a time, and never
\* holds more convictions than it may, whatever evidence, prices, closed trades
\* and time do to them (ConvictionTracker.form_conviction and its tick).
THEOREM BeliefsAreCoherent == ConvictionSpec => []BeliefsCoherent
  <1>1. ConvictionInit => ConvictionInv
    <2> SUFFICES ASSUME ConvictionInit PROVE ConvictionInv
      OBVIOUS
    <2>1. Formed = {} /\ Formed = 1 .. 0
      BY DEF ConvictionInit, Formed
    <2>2. Open = {} /\ Cardinality(Open) = 0
      BY <2>1, FS_EmptySet DEF Open
    <2>3. BeliefsCoherent
      BY <2>2, ConvictionAssumption DEF BeliefsCoherent, ConvictionAssumption
    <2> QED BY <2>1, <2>3 DEF ConvictionInv, Numbered, ConvictionTypeOK
  <1>2. ConvictionInv => BeliefsCoherent
    BY DEF ConvictionInv
  <1> QED BY <1>1, <1>2, ConvictionStep, PTL DEF ConvictionSpec

\* While the kill switch is on, neither the process nor what a new one would
\* load from the clear part of the file allows a trade.
KillInv ==
  /\ scan \in [Clients -> {"idle", "trade"} \cup DOMAIN Following]
  /\ file = [top |-> file.top, sealed |-> file.sealed, torn |-> file.torn]
  /\ file.torn \in BOOLEAN
  /\ pressed = "yes" => mem.auto = FALSE /\ (file.torn \/ file.top.auto = FALSE)

LEMMA Quiet ==
  /\ "idle" \in {"idle", "trade"} \cup DOMAIN Following
  /\ "price" \in {"idle", "trade"} \cup DOMAIN Following
  /\ \A p \in DOMAIN Following :
       Following[p] \in {"idle", "trade"} \cup DOMAIN Following
  BY DEF Following

LEMMA MergedAuto ==
  ASSUME NEW d, NEW s
  PROVE  Merged(d, s).auto = IF s = NoSetting THEN d.auto ELSE s.auto
  BY DEF Merged

LEMMA KillStep == KillInv /\ [ApiNext]_apiVars => KillInv'
  <1> SUFFICES ASSUME KillInv, [ApiNext]_apiVars PROVE KillInv'
    OBVIOUS
  <1> DEFINE Scans == [Clients -> {"idle", "trade"} \cup DOMAIN Following]
  <1>1. NoScan \in Scans /\ BotDefault.auto = FALSE /\ Missing.top.auto = FALSE
        /\ Missing.torn = FALSE /\ NoSetting.auto = FALSE
    BY Quiet DEF NoScan, BotDefault, Missing, NoSetting
  <1>2. scan \in Scans
    BY DEF KillInv
  <1> HIDE DEF Scans
  <1>3. CASE ApiRestart
    <2>1. scan' \in Scans /\ pressed' = pressed
      BY <1>1, <1>3 DEF ApiRestart, Forgotten
    <2>3. file' \in {file, [file EXCEPT !.sealed = NoSetting]}
      BY <1>3 DEF ApiRestart, Readable
    <2>4. PICK a, b, t : file = [top |-> a, sealed |-> b, torn |-> t]
      BY DEF KillInv
    <2>5. file'.top = file.top /\ file'.torn = file.torn
          /\ file' = [top |-> file'.top, sealed |-> file'.sealed, torn |-> file'.torn]
      BY <2>3, <2>4
    <2>2. ASSUME pressed = "yes" PROVE mem'.auto = FALSE
      <3>1. CASE file.torn
        BY <3>1, <1>1, <1>3 DEF ApiRestart, Restarted
      <3>2. CASE ~file.torn
        <4>1. mem' = Merged(BotDefault, file.top) /\ file.top.auto = FALSE
          BY <3>2, <2>2, <1>3 DEF ApiRestart, Restarted, ReadPlain, KillInv
        <4> QED BY <4>1, <1>1, MergedAuto
      <3> QED BY <3>1, <3>2
    <2> QED BY <2>1, <2>2, <2>5 DEF KillInv, Scans
  <1>4. CASE TornWrite
    <2>1. scan' \in Scans /\ pressed' = pressed /\ mem' = BotDefault
          /\ file'.torn = TRUE
          /\ file' = [top |-> file'.top, sealed |-> file'.sealed, torn |-> file'.torn]
      BY <1>1, <1>4 DEF TornWrite, Forgotten, Missing
    <2> QED BY <2>1, <1>1 DEF KillInv, Scans
  <1>5. ASSUME NEW ask \in {"on", "off", "other"}, SettingsUpdate(ask) PROVE KillInv'
    <2>1. scan' = scan /\ pressed' # "yes" /\ file'.torn = FALSE
          /\ file' = [top |-> file'.top, sealed |-> file'.sealed, torn |-> file'.torn]
      BY <1>5 DEF SettingsUpdate, quietVars, Missing
    <2> QED BY <2>1, <1>2 DEF KillInv, Scans
  <1>6. ASSUME NEW active \in BOOLEAN, KillSwitch(active) PROVE KillInv'
    <2> DEFINE s == [auto |-> Merged(KillDefault, ReadPlain).auto /\ ~active,
                     emergency |-> IF active THEN "on" ELSE "off"]
    <2>1. /\ scan' = scan /\ mem' = Merged(mem, s) /\ file' = [file EXCEPT !.top = s]
          /\ pressed' = (IF active THEN "yes" ELSE "no") /\ ~file.torn
      BY <1>6 DEF KillSwitch, quietVars
    <2>2. active => s.auto = FALSE
      OBVIOUS
    <2>3. s # NoSetting
      BY DEF NoSetting
    <2>4. mem'.auto = s.auto
      BY <2>1, <2>3, MergedAuto
    <2> HIDE DEF s
    <2>5. PICK a, b, t : file = [top |-> a, sealed |-> b, torn |-> t]
      BY DEF KillInv
    <2>6. file' = [top |-> s, sealed |-> b, torn |-> t] /\ t = file.torn
      BY <2>1, <2>5
    <2>7. file'.torn \in BOOLEAN /\ file'.top.auto = s.auto
          /\ file' = [top |-> file'.top, sealed |-> file'.sealed, torn |-> file'.torn]
      BY <2>6 DEF KillInv
    <2> QED BY <2>1, <2>2, <2>4, <2>7, <1>2 DEF KillInv, Scans
  <1>7. ASSUME NEW c \in Clients, ScanStart(c) \/ ScanOn(c) \/ ScanEnd(c) PROVE KillInv'
    <2>1. UNCHANGED <<file, mem, pressed>>
      BY <1>7 DEF ScanStart, ScanOn, ScanEnd
    <2>2. scan' \in Scans
      BY <1>2, <1>7, Quiet DEF ScanStart, ScanOn, ScanEnd, Scans
    <2> QED BY <2>1, <2>2 DEF KillInv, Scans
  <1>8. CASE ForecastNext \/ PageNext \/ UNCHANGED apiVars
    <2>1. UNCHANGED <<file, mem, pressed, scan>>
      BY <1>8 DEF ForecastNext, PageNext, apiVars, ForecastAsk, ForecastEnter, ForecastEnd,
                  ForecastExpire, StatePage, PageAsk, SkillPage, PortfolioPage, PageExpire, Clean
    <2> QED BY <2>1 DEF KillInv
  <1> QED BY <1>3, <1>4, <1>5, <1>6, <1>7, <1>8 DEF ApiNext, SettingsNext

\* Once pressed, the kill switch keeps every scan from going on to a trade, the
\* ones under way too, through any number of restarts and torn writes, until
\* the settings are changed (_api_emergency, _api_signals_scan, the settings
\* file with its clear and its sealed part).
THEOREM KillSwitchStopsScans == ApiSpec => KillStopsScans
  <1>1. ApiInit => KillInv
    BY Quiet DEF ApiInit, KillInv, NoScan, Missing
  <1>2. KillInv /\ [ApiNext]_apiVars
          => [\A c \in Clients : scan[c] # "trade" /\ scan'[c] = "trade" => pressed # "yes"]_apiVars
    <2> SUFFICES ASSUME KillInv, ApiNext, NEW c \in Clients, pressed = "yes",
                        scan[c] # "trade", scan'[c] = "trade"
                 PROVE  FALSE
      OBVIOUS
    <2>1. mem.auto = FALSE /\ scan' # scan
      BY DEF KillInv
    <2>2. PICK d \in Clients : ScanStart(d) \/ ScanOn(d) \/ ScanEnd(d) \/ scan' = NoScan
      BY <2>1 DEF ApiNext, SettingsNext, ForecastNext, PageNext, ApiRestart, TornWrite, Forgotten,
                  SettingsUpdate, KillSwitch, quietVars, ForecastAsk, ForecastEnter, ForecastEnd,
                  ForecastExpire, StatePage, PageAsk, SkillPage, PortfolioPage, PageExpire, Clean
    <2>3. CASE scan' = NoScan
      BY <2>3 DEF NoScan
    <2>4. CASE ScanStart(d)
      BY <2>4 DEF ScanStart, KillInv
    <2>5. CASE ScanOn(d)
      BY <2>5, <2>1 DEF ScanOn, KillInv, MayExecute
    <2>6. CASE ScanEnd(d)
      BY <2>6 DEF ScanEnd, KillInv
    <2> QED BY <2>2, <2>3, <2>4, <2>5, <2>6
  <1> QED BY <1>1, <1>2, KillStep, PTL DEF ApiSpec, KillStopsScans

LockInv ==
  /\ at \in [Names -> Nat] /\ lock \in Names \cup {"none"}
  /\ TradeLockSound

LEMMA NoLockAtFirst == \A n \in Names : BodyOf(n)[1] # "locked"
  <1>1. \A n \in OneShots : BodyOf(n)[1] = "callback"
    BY DEF BodyOf
  <1>2. \A n \in DOMAIN Body : Body[n][1] # "locked"
    <2>1. \A n \in DOMAIN Body : Body[n] \in
            {HeartbeatBody, BackupBody, HealthBody, PulseBody, CleanupBody, ProactiveBody,
             LearningBody, TuningBody, TraderBody, MonitorBody, WeeklyBody, ReflectionBody,
             BriefingBody, JournalBody}
      BY DEF Body
    <2>2. /\ HeartbeatBody[1] # "locked"
          /\ BackupBody[1] # "locked"
          /\ HealthBody[1] # "locked"
          /\ PulseBody[1] # "locked"
          /\ CleanupBody[1] # "locked"
          /\ ProactiveBody[1] # "locked"
          /\ LearningBody[1] # "locked"
          /\ TuningBody[1] # "locked"
          /\ TraderBody[1] # "locked"
          /\ MonitorBody[1] # "locked"
          /\ WeeklyBody[1] # "locked"
          /\ ReflectionBody[1] # "locked"
          /\ BriefingBody[1] # "locked"
          /\ JournalBody[1] # "locked"
      BY DEF HeartbeatBody, BackupBody, HealthBody, PulseBody, CleanupBody, ProactiveBody,
             LearningBody, TuningBody, TraderBody, MonitorBody, WeeklyBody, ReflectionBody,
             BriefingBody, JournalBody
    <2> QED BY <2>1, <2>2
  <1> QED BY <1>1, <1>2 DEF Names, BodyOf

LEMMA NobodyIsNone == "none" \notin Names
  BY CronAssumption DEF CronAssumption, Names, Body

\* A run that ends, whichever way, leaves the lock behind.
LEMMA EndFrees ==
  ASSUME LockInv, NEW n \in Names, at' = [at EXCEPT ![n] = 0], lock' = Released(n)
  PROVE  LockInv'
  <1>1. /\ at' \in [Names -> Nat] /\ at'[n] = 0 /\ \A m \in Names \ {n} : at'[m] = at[m]
    BY DEF LockInv
  <1>2. lock' = IF lock = n THEN "none" ELSE lock
    BY DEF Released, Holds
  <1>3. \A m \in Names : (at[m] > 0 /\ BodyOf(m)[at[m]] = "locked") <=> lock = m
    BY DEF LockInv, TradeLockSound, Step, Holds
  <1>4. \A m \in Names : (at'[m] > 0 /\ BodyOf(m)[at'[m]] = "locked") <=> lock' = m
    BY <1>1, <1>2, <1>3, NobodyIsNone
  <1> QED BY <1>1, <1>2, <1>4 DEF LockInv, TradeLockSound, Step, Holds

LEMMA LockStep == LockInv /\ [CronNext]_cronVars => LockInv'
  <1> SUFFICES ASSUME LockInv, [CronNext]_cronVars PROVE LockInv'
    OBVIOUS
  <1>1. \A m \in Names : (at[m] > 0 /\ BodyOf(m)[at[m]] = "locked") <=> lock = m
    BY DEF LockInv, TradeLockSound, Step, Holds
  <1>2. at \in [Names -> Nat] /\ lock \in Names \cup {"none"}
    BY DEF LockInv
  <1>3. ASSUME UNCHANGED <<at, lock>> PROVE LockInv'
    BY <1>3 DEF LockInv, TradeLockSound, Step, Holds
  <1>4. CASE CronTick
    <2>1. lock' = lock /\ at' = [n \in Names |-> IF n \in Starting THEN 1 ELSE at[n]]
          /\ \A n \in Starting : n \in Names /\ at[n] = 0
      BY <1>4 DEF CronTick, Starting
    <2>2. at' \in [Names -> Nat]
      BY <2>1, <1>2
    <2>3. \A m \in Names : (at'[m] > 0 /\ BodyOf(m)[at'[m]] = "locked") <=> lock' = m
      <3> SUFFICES ASSUME NEW m \in Names
                   PROVE  (at'[m] > 0 /\ BodyOf(m)[at'[m]] = "locked") <=> lock = m
        BY <2>1
      <3>1. CASE m \in Starting
        <4>1. at'[m] = 1 /\ at[m] = 0 /\ lock # m
          BY <3>1, <2>1, <1>1
        <4> QED BY <4>1, NoLockAtFirst
      <3>2. CASE m \notin Starting
        BY <3>2, <2>1, <1>1
      <3> QED BY <3>1, <3>2
    <2> QED BY <2>1, <2>2, <2>3, <1>2 DEF LockInv, TradeLockSound, Step, Holds
  <1>5. ASSUME NEW n \in Names, StepOn(n) PROVE LockInv'
    <2> DEFINE next == BodyOf(n)[at[n] + 1]
    <2>1. /\ at[n] \in Nat /\ at[n] > 0 /\ at' = [at EXCEPT ![n] = at[n] + 1]
          /\ next = "locked" => lock = "none"
          /\ lock' = IF next = "locked" THEN n ELSE IF lock = n THEN "none" ELSE lock
      BY <1>2, <1>5 DEF StepOn, Released, Holds
    <2>2. /\ at' \in [Names -> Nat] /\ at'[n] = at[n] + 1
          /\ \A m \in Names \ {n} : at'[m] = at[m]
      BY <2>1, <1>2
    <2>3. \A m \in Names : (at'[m] > 0 /\ BodyOf(m)[at'[m]] = "locked") <=> lock' = m
      <3>1. at'[n] > 0 /\ BodyOf(n)[at'[n]] = next
        BY <2>1, <2>2
      <3> HIDE DEF next
      <3>2. CASE next = "locked"
        BY <3>1, <3>2, <2>1, <2>2, <1>1, NobodyIsNone
      <3>3. CASE next # "locked"
        BY <3>1, <3>3, <2>1, <2>2, <1>1, NobodyIsNone
      <3> QED BY <3>2, <3>3
    <2> QED BY <2>1, <2>2, <2>3, <1>2 DEF LockInv, TradeLockSound, Step, Holds
  <1>6. ASSUME NEW n \in Names, ReturnOk(n) \/ CutOff(n) \/ RaiseOut(n) PROVE LockInv'
    BY <1>6, EndFrees DEF ReturnOk, CutOff, RaiseOut
  <1>7. ASSUME NEW n \in Names, CronElapse(n) \/ CancelTask(n) \/ ScheduleOnce(n) PROVE LockInv'
    BY <1>7, <1>3 DEF CronElapse, CancelTask, ScheduleOnce
  <1>8. CASE CronStart \/ CronStop \/ UNCHANGED cronVars
    BY <1>8, <1>3 DEF CronStart, CronStop, cronVars
  <1> QED BY <1>4, <1>5, <1>6, <1>7, <1>8 DEF CronNext

\* The trade lock is with exactly the run that opens or closes trades, however
\* runs are cut off by their time limit, raise, are cancelled or scheduled
\* again (CronScheduler's _run_task, _trade_lock of the bot's two tasks).
THEOREM TradeLockIsSound == CronSpec => []TradeLockSound
  <1>1. CronInit => LockInv
    BY NobodyIsNone DEF CronInit, LockInv, TradeLockSound, Holds
  <1>2. LockInv => TradeLockSound
    BY DEF LockInv
  <1> QED BY <1>1, <1>2, LockStep, PTL DEF CronSpec

-----------------------------------------------------------------------------
\* Induction, as a fact about sets.
LEMMA EveryNumber ==
  ASSUME NEW S, 0 \in S, \A n \in Nat : n \in S => n + 1 \in S
  PROVE  Nat \subseteq S
  <1> DEFINE T == {n \in Nat : n \notin S}
             R == {ss \in Nat \X Nat : ss[1] < ss[2]}
  <1>1. IsWellFoundedOn(R, Nat)
    BY NatLessThanWellFounded DEF OpToRel
  <1>2. \A m, n \in Nat : <<m, n>> \in R <=> m < n
    OBVIOUS
  <1> HIDE DEF R
  <1>3. ASSUME T # {} PROVE FALSE
    <2>1. T \subseteq Nat
      OBVIOUS
    <2> HIDE DEF T
    <2>2. PICK n \in T : \A m \in T : ~ (<<m, n>> \in R)
      BY <1>1, <1>3, <2>1, WFMin
    <2>3. n \in Nat /\ n \notin S
      BY DEF T
    <2>4. n - 1 \in Nat /\ (n - 1) + 1 = n /\ n - 1 < n
      BY <2>3
    <2>5. n - 1 \notin T
      BY <1>2, <2>2, <2>3, <2>4
    <2>6. n - 1 \in S
      BY <2>4, <2>5 DEF T
    <2> QED BY <2>3, <2>4, <2>6
  <1> QED BY <1>3

\* What is defined from one number to the next exists.
Unfolds(f, n, S, first, step) ==
  f \in [0 .. n -> S] /\ f[0] = first /\ \A i \in 1 .. n : f[i] = step[i][f[i - 1]]

LEMMA Recursion ==
  ASSUME NEW n \in Nat, NEW S, NEW first \in S, NEW step \in [1 .. n -> [S -> S]]
  PROVE  \E f : Unfolds(f, n, S, first, step)
  <1> DEFINE Follows(f, k) == /\ f \in [0 .. k -> S] /\ f[0] = first
                              /\ \A i \in 1 .. k : f[i] = step[i][f[i - 1]]
             Defined == {k \in Nat : k <= n => \E f : Follows(f, k)}
  <1>1. 0 \in Defined
    <2> DEFINE f == [i \in 0 .. 0 |-> first]
    <2>1. Follows(f, 0)
      OBVIOUS
    <2> HIDE DEF Follows
    <2> QED BY <2>1
  <1>2. ASSUME NEW k \in Nat, k \in Defined PROVE k + 1 \in Defined
    <2> HIDE DEF Follows
    <2> SUFFICES ASSUME k + 1 <= n PROVE \E f : Follows(f, k + 1)
      OBVIOUS
    <2>1. PICK f : Follows(f, k)
      BY <1>2
    <2> USE DEF Follows
    <2> DEFINE g == [i \in 0 .. k + 1 |-> IF i = k + 1 THEN step[k + 1][f[k]] ELSE f[i]]
    <2>2. step[k + 1][f[k]] \in S
      <3>1. k + 1 \in 1 .. n /\ f[k] \in S
        BY <2>1
      <3> QED BY <3>1
    <2>3. g \in [0 .. k + 1 -> S] /\ g[0] = first
      <3>1. f[0] = first /\ 0 # k + 1
        BY <2>1
      <3> QED BY <2>1, <2>2, <3>1
    <2>4. \A i \in 1 .. k + 1 : g[i] = step[i][g[i - 1]]
      <3> TAKE i \in 1 .. k + 1
      <3>2. CASE i = k + 1
        <4>1. g[i] = step[k + 1][f[k]] /\ i - 1 = k /\ g[k] = f[k]
          BY <3>2
        <4> HIDE DEF g
        <4> QED BY <3>2, <4>1
      <3>3. CASE i # k + 1
        <4>1. i \in 1 .. k /\ i - 1 \in 0 .. k /\ i - 1 # k + 1 /\ i \in 0 .. k
          BY <3>3
        <4>2. f[i] = step[i][f[i - 1]]
          BY <2>1, <4>1
        <4>3. g[i] = f[i] /\ g[i - 1] = f[i - 1]
          BY <3>3, <4>1
        <4> HIDE DEF g
        <4> QED BY <4>2, <4>3
      <3> QED BY <3>2, <3>3
    <2> HIDE DEF g
    <2> QED BY <2>3, <2>4
  <1> HIDE DEF Follows
  <1>3. \E f : Follows(f, n)
    <2>1. n \in Defined
      <3> HIDE DEF Defined
      <3>1. Nat \subseteq Defined
        BY <1>1, <1>2, EveryNumber
      <3> QED BY <3>1
    <2> QED BY <2>1
  <1> QED BY <1>3 DEF Follows, Unfolds

Trades == [id : Int, direction : {"BUY", "SELL"}, entry : Int, cost : Int, pnl : Int,
           status : {"OPEN", "CLOSED_LOSS", "CLOSED_WIN"}]

\* A price moves a trade's result, and closing it its state; its id stays.
LEMMA TradeMoves ==
  ASSUME NEW t \in Trades, NEW p \in Int, NEW c \in Int
  PROVE  /\ [t EXCEPT !.pnl = Pnl(t, p, t.cost)] \in Trades /\ ClosedAs(t, p, c) \in Trades
         /\ [t EXCEPT !.pnl = Pnl(t, p, t.cost)].id = t.id /\ ClosedAs(t, p, c).id = t.id
  <1> DEFINE way == Way(t.direction)
  <1>1. way \in Int
    BY DEF Way
  <1>2. t.entry \in Int /\ t.cost \in Int
    BY DEF Trades
  <1>3. ASSUME NEW q \in Int, NEW d \in Int PROVE Pnl(t, q, d) \in Int
    <2> HIDE DEF way
    <2>1. q - t.entry \in Int
      BY <1>2
    <2>2. way * (q - t.entry) \in Int
      BY <1>1, <2>1
    <2>3. Pnl(t, q, d) = way * (q - t.entry) - d
      BY DEF Pnl, way
    <2> QED BY <2>2, <2>3
  <1>4. Pnl(t, p, t.cost) \in Int
    BY <1>2, <1>3
  <1>5. Pnl(t, p - way * c, t.cost + c) \in Int
    <2> HIDE DEF way
    <2>1. way * c \in Int
      BY <1>1
    <2>2. p - way * c \in Int /\ t.cost + c \in Int
      BY <1>2, <2>1
    <2> QED BY <1>3, <2>2
  <1> DEFINE status == IF ExitReason(t, p) = "stop_loss" THEN "CLOSED_LOSS" ELSE "CLOSED_WIN"
             closed == Pnl(t, p - way * c, t.cost + c)
             moved == Pnl(t, p, t.cost)
  <1>6. ClosedAs(t, p, c) = [t EXCEPT !.status = status, !.pnl = closed]
    BY DEF ClosedAs
  <1>7. status \in {"CLOSED_LOSS", "CLOSED_WIN"}
    OBVIOUS
  <1> HIDE DEF status, closed, moved, way
  <1>8. [t EXCEPT !.status = status, !.pnl = closed] \in Trades
        /\ [t EXCEPT !.status = status, !.pnl = closed].id = t.id
    BY <1>5, <1>7 DEF Trades, closed
  <1>9. [t EXCEPT !.pnl = moved] \in Trades /\ [t EXCEPT !.pnl = moved].id = t.id
    BY <1>4 DEF Trades, moved
  <1> QED BY <1>6, <1>8, <1>9 DEF moved

\* Adding up results: the partial sums exist, and are those Earned is the last of.
LEMMA EarnedIs ==
  ASSUME NEW trades \in Seq(Trades)
  PROVE  \E f : /\ f[0] = 0 /\ \A i \in 1 .. Len(trades) : f[i] = f[i - 1] + trades[i].pnl
                /\ \A i \in 0 .. Len(trades) : f[i] \in Int
                /\ Earned(trades) = f[Len(trades)]
  <1> DEFINE n == Len(trades)
             step == [i \in 1 .. n |-> [x \in Int |-> x + trades[i].pnl]]
             Is(f) == f = [i \in 0 .. Len(trades) |-> IF i = 0 THEN 0 ELSE f[i - 1] + trades[i].pnl]
             g == CHOOSE f : Is(f)
  <1>1. n \in Nat /\ \A i \in 1 .. n : trades[i].pnl \in Int
    <2>1. n \in Nat /\ \A i \in 1 .. n : trades[i] \in Trades
      OBVIOUS
    <2> QED BY <2>1 DEF Trades
  <1>2. step \in [1 .. n -> [Int -> Int]]
    BY <1>1
  <1>3. \A i \in 1 .. n, x \in Int : step[i][x] = x + trades[i].pnl
    OBVIOUS
  <1> HIDE DEF step
  <1>4. PICK f \in [0 .. n -> Int] : f[0] = 0 /\ \A i \in 1 .. n : f[i] = step[i][f[i - 1]]
    <2> DEFINE S == Int
               first == 0
    <2>1. n \in Nat /\ first \in S /\ step \in [1 .. n -> [S -> S]]
      BY <1>1, <1>2
    <2> HIDE DEF n, S, first
    <2>2. \E f : Unfolds(f, n, S, first, step)
      BY <2>1, Recursion
    <2> QED BY <2>2 DEF S, first, Unfolds
  <1>5. Is(f)
    <2>1. \A i \in 0 .. n : f[i] = IF i = 0 THEN 0 ELSE f[i - 1] + trades[i].pnl
      <3> TAKE i \in 0 .. n
      <3>1. CASE i = 0
        BY <1>4, <3>1
      <3>2. CASE i # 0
        <4>1. i \in 1 .. n /\ i - 1 \in 0 .. n
          BY <1>1, <3>2
        <4>2. f[i - 1] \in Int /\ f[i] = step[i][f[i - 1]]
          BY <1>4, <4>1
        <4>3. step[i][f[i - 1]] = f[i - 1] + trades[i].pnl
          BY <1>3, <4>1, <4>2
        <4> QED BY <3>2, <4>2, <4>3
      <3> QED BY <3>1, <3>2
    <2> QED BY <2>1
  <1>6. Is(g)
    <2> HIDE DEF Is
    <2> QED BY <1>5
  <1>7. Earned(trades) = g[n]
    BY DEF Earned
  <1> HIDE DEF g
  <1>8. g[0] = 0 /\ \A i \in 1 .. n : g[i] = g[i - 1] + trades[i].pnl
    BY <1>1, <1>6
  <1> DEFINE S == {k \in Nat : k <= n => g[k] \in Int}
  <1>9. 0 \in S
    BY <1>8
  <1>10. ASSUME NEW k \in Nat, k \in S PROVE k + 1 \in S
    <2> SUFFICES ASSUME k + 1 <= n PROVE g[k + 1] \in Int
      OBVIOUS
    <2>1. k + 1 \in 1 .. n /\ (k + 1) - 1 = k /\ g[k] \in Int
      BY <1>1, <1>10
    <2> QED BY <1>1, <1>8, <2>1
  <1>11. \A k \in 0 .. n : g[k] \in Int
    <2> HIDE DEF S
    <2>1. Nat \subseteq S
      BY <1>9, <1>10, EveryNumber
    <2> QED BY <1>1, <2>1 DEF S
  <1> QED BY <1>7, <1>8, <1>11

\* What two lists brought is the sum of what each did.
LEMMA EarnedJoins ==
  ASSUME NEW a \in Seq(Trades), NEW b \in Seq(Trades)
  PROVE  Earned(a \o b) = Earned(a) + Earned(b) /\ Earned(a) \in Int /\ Earned(b) \in Int
  <1> DEFINE m == Len(a)
             n == Len(b)
             c == a \o b
  <1>1. /\ m \in Nat /\ n \in Nat /\ c \in Seq(Trades) /\ Len(c) = m + n
        /\ \A i \in 1 .. m : c[i] = a[i]
        /\ \A i \in 1 .. n : c[m + i] = b[i]
    OBVIOUS
  <1>2. PICK f : /\ f[0] = 0 /\ \A i \in 1 .. m : f[i] = f[i - 1] + a[i].pnl
                 /\ \A i \in 0 .. m : f[i] \in Int
                 /\ Earned(a) = f[m]
    BY EarnedIs
  <1>3. PICK g : /\ g[0] = 0 /\ \A i \in 1 .. n : g[i] = g[i - 1] + b[i].pnl
                 /\ \A i \in 0 .. n : g[i] \in Int
                 /\ Earned(b) = g[n]
    BY EarnedIs
  <1> HIDE DEF c
  <1>4. PICK h : /\ h[0] = 0 /\ \A i \in 1 .. Len(c) : h[i] = h[i - 1] + c[i].pnl
                 /\ \A i \in 0 .. Len(c) : h[i] \in Int
                 /\ Earned(c) = h[Len(c)]
    BY <1>1, EarnedIs
  <1> HIDE DEF m, n
  <1> DEFINE S == {k \in Nat : k <= m => h[k] = f[k]}
  <1>5. 0 \in S
    BY <1>2, <1>4
  <1>6. ASSUME NEW k \in Nat, k \in S PROVE k + 1 \in S
    <2> SUFFICES ASSUME k + 1 <= m PROVE h[k + 1] = f[k + 1]
      OBVIOUS
    <2>1. k + 1 \in 1 .. m /\ k + 1 \in 1 .. Len(c) /\ (k + 1) - 1 = k /\ h[k] = f[k]
      <3>1. k + 1 \in 1 .. m /\ (k + 1) - 1 = k
        BY <1>1
      <3>2. Len(c) = m + n /\ k + 1 \in 1 .. Len(c)
        BY <1>1, <3>1
      <3>3. h[k] = f[k]
        BY <1>1, <1>6, <3>1
      <3> QED BY <3>1, <3>2, <3>3
    <2>2. h[k + 1] = h[k] + c[k + 1].pnl
      BY <1>4, <2>1
    <2>3. f[k + 1] = f[k] + a[k + 1].pnl
      BY <1>2, <2>1
    <2> QED BY <1>1, <2>1, <2>2, <2>3
  <1>7. h[m] = f[m]
    <2>1. m \in S
      <3> HIDE DEF S
      <3>1. Nat \subseteq S
        BY <1>5, <1>6, EveryNumber
      <3> QED BY <1>1, <3>1
    <2> QED BY <1>1, <2>1
  <1> DEFINE T == {k \in Nat : k <= n => h[m + k] = f[m] + g[k]}
  <1>8. 0 \in T
    BY <1>1, <1>2, <1>3, <1>7
  <1>9. ASSUME NEW k \in Nat, k \in T PROVE k + 1 \in T
    <2> SUFFICES ASSUME k + 1 <= n PROVE h[m + (k + 1)] = f[m] + g[k + 1]
      OBVIOUS
    <2>1. /\ k + 1 \in 1 .. n /\ m + (k + 1) \in 1 .. Len(c) /\ (m + (k + 1)) - 1 = m + k
          /\ (k + 1) - 1 = k /\ h[m + k] = f[m] + g[k]
      BY <1>1, <1>9
    <2>2. h[m + (k + 1)] = h[m + k] + c[m + (k + 1)].pnl
      BY <1>4, <2>1
    <2>3. g[k + 1] = g[k] + b[k + 1].pnl
      BY <1>3, <2>1
    <2>4. c[m + (k + 1)] = b[k + 1] /\ b[k + 1].pnl \in Int
      <3>1. c[m + (k + 1)] = b[k + 1]
        BY <1>1, <2>1
      <3>2. b[k + 1] \in Trades
        BY <2>1 DEF n
      <3> QED BY <3>1, <3>2 DEF Trades
    <2>5. f[m] \in Int /\ g[k] \in Int
      BY <1>1, <1>2, <1>3, <2>1
    <2> QED BY <2>1, <2>2, <2>3, <2>4, <2>5
  <1>10. h[m + n] = f[m] + g[n]
    <2>1. n \in T
      <3> HIDE DEF T
      <3>1. Nat \subseteq T
        BY <1>8, <1>9, EveryNumber
      <3> QED BY <1>1, <3>1
    <2> QED BY <1>1, <2>1
  <1>11. f[m] \in Int /\ g[n] \in Int
    BY <1>1, <1>2, <1>3
  <1> QED BY <1>1, <1>2, <1>3, <1>4, <1>10, <1>11 DEF c

LEMMA IdsOfLists ==
  ASSUME NEW a \in Seq(Trades), NEW b \in Seq(Trades), NEW t \in Trades
  PROVE  /\ Ids(Append(a, t)) = Ids(a) \cup {t.id} /\ Append(a, t) \in Seq(Trades)
         /\ Len(Append(a, t)) = Len(a) + 1
         /\ Ids(a \o b) = Ids(a) \cup Ids(b) /\ a \o b \in Seq(Trades) /\ Len(a \o b) = Len(a) + Len(b)
  <1>1. /\ Append(a, t) \in Seq(Trades) /\ Len(Append(a, t)) = Len(a) + 1
        /\ a \o b \in Seq(Trades) /\ Len(a \o b) = Len(a) + Len(b)
        /\ Len(a) \in Nat /\ Len(b) \in Nat /\ DOMAIN a = 1 .. Len(a) /\ DOMAIN b = 1 .. Len(b)
        /\ DOMAIN Append(a, t) = 1 .. Len(a) + 1 /\ DOMAIN (a \o b) = 1 .. Len(a) + Len(b)
    OBVIOUS
  <1>2. /\ \A k \in 1 .. Len(a) : Append(a, t)[k] = a[k] /\ (a \o b)[k] = a[k]
        /\ \A k \in 1 .. Len(b) : (a \o b)[Len(a) + k] = b[k]
        /\ Append(a, t)[Len(a) + 1] = t
    OBVIOUS
  <1> DEFINE m == Len(a)
             n == Len(b)
             longer == Append(a, t)
             joined == a \o b
  <1>3. /\ m \in Nat /\ n \in Nat /\ DOMAIN a = 1 .. m /\ DOMAIN b = 1 .. n /\ DOMAIN longer = 1 .. m + 1
        /\ DOMAIN joined = 1 .. m + n /\ longer[m + 1] = t
        /\ \A k \in 1 .. m : longer[k] = a[k] /\ joined[k] = a[k]
        /\ \A k \in 1 .. n : joined[m + k] = b[k]
    BY <1>1, <1>2
  <1> HIDE DEF m, n, longer, joined
  <1>4. Ids(longer) = Ids(a) \cup {t.id}
    <2>1. ASSUME NEW x \in Ids(longer) PROVE x \in Ids(a) \cup {t.id}
      <3>1. PICK k \in 1 .. m + 1 : x = longer[k].id
        BY <1>3 DEF Ids
      <3>2. k = m + 1 \/ k \in 1 .. m
        BY <1>3
      <3> QED BY <1>3, <3>1, <3>2 DEF Ids
    <2>2. ASSUME NEW x \in Ids(a) PROVE x \in Ids(longer)
      <3>1. PICK k \in 1 .. m : x = a[k].id
        BY <1>3 DEF Ids
      <3>2. k \in DOMAIN longer /\ longer[k].id = x
        BY <1>3, <3>1
      <3> QED BY <3>2 DEF Ids
    <2>3. t.id \in Ids(longer)
      <3>1. m + 1 \in DOMAIN longer
        BY <1>3
      <3> QED BY <1>3, <3>1 DEF Ids
    <2> QED BY <2>1, <2>2, <2>3
  <1>5. Ids(joined) = Ids(a) \cup Ids(b)
    <2>1. ASSUME NEW x \in Ids(joined) PROVE x \in Ids(a) \cup Ids(b)
      <3>1. PICK k \in 1 .. m + n : x = joined[k].id
        BY <1>3 DEF Ids
      <3>2. CASE k \in 1 .. m
        BY <1>3, <3>1, <3>2 DEF Ids
      <3>3. CASE k \notin 1 .. m
        <4>1. k - m \in 1 .. n /\ m + (k - m) = k
          BY <1>3, <3>3
        <4>2. x = b[k - m].id
          BY <1>3, <3>1, <4>1
        <4> QED BY <1>3, <4>1, <4>2 DEF Ids
      <3> QED BY <3>2, <3>3
    <2>2. ASSUME NEW x \in Ids(a) PROVE x \in Ids(joined)
      <3>1. PICK k \in 1 .. m : x = a[k].id
        BY <1>3 DEF Ids
      <3>2. k \in DOMAIN joined /\ joined[k].id = x
        BY <1>3, <3>1
      <3> QED BY <3>2 DEF Ids
    <2>3. ASSUME NEW x \in Ids(b) PROVE x \in Ids(joined)
      <3>1. PICK k \in 1 .. n : x = b[k].id
        BY <1>3 DEF Ids
      <3>2. m + k \in DOMAIN joined /\ joined[m + k].id = x
        BY <1>3, <3>1
      <3> QED BY <3>2 DEF Ids
    <2> QED BY <2>1, <2>2, <2>3
  <1> QED BY <1>1, <1>4, <1>5 DEF longer, joined

\* The lists a price divides the open trades into, trade by trade.
LEMMA WatchedIs ==
  ASSUME NEW trades \in Seq(Trades), NEW price \in Int, NEW cost \in Int
  PROVE  \E f : /\ f[0] = <<>>
                /\ \A i \in 1 .. Len(trades) : f[i] = IF StaysOpen(trades[i], price) THEN Append(f[i - 1], [trades[i] EXCEPT !.pnl = Pnl(trades[i], price, trades[i].cost)]) ELSE f[i - 1]
                /\ Watched(trades, price) = f[Len(trades)]
  <1> DEFINE n == Len(trades)
             item(i) == [trades[i] EXCEPT !.pnl = Pnl(trades[i], price, trades[i].cost)]
             step == [i \in 1 .. n |-> [x \in Seq(Trades) |-> IF StaysOpen(trades[i], price) THEN Append(x, [trades[i] EXCEPT !.pnl = Pnl(trades[i], price, trades[i].cost)]) ELSE x]]
             Is(f) == f = [i \in 0 .. Len(trades) |-> IF i = 0 THEN <<>> ELSE IF StaysOpen(trades[i], price) THEN Append(f[i - 1], [trades[i] EXCEPT !.pnl = Pnl(trades[i], price, trades[i].cost)]) ELSE f[i - 1]]
             g == CHOOSE f : Is(f)
  <1>1. n \in Nat /\ \A i \in 1 .. n : item(i) \in Trades
    <2>1. n \in Nat /\ \A i \in 1 .. n : trades[i] \in Trades
      OBVIOUS
    <2> QED BY <2>1, TradeMoves
  <1>2. step \in [1 .. n -> [Seq(Trades) -> Seq(Trades)]]
    <2> HIDE DEF item
    <2>1. \A i \in 1 .. n, x \in Seq(Trades) : Append(x, item(i)) \in Seq(Trades)
      BY <1>1
    <2> QED BY <2>1 DEF item
  <1>3. \A i \in 1 .. n, x \in Seq(Trades) : step[i][x] = IF StaysOpen(trades[i], price) THEN Append(x, [trades[i] EXCEPT !.pnl = Pnl(trades[i], price, trades[i].cost)]) ELSE x
    OBVIOUS
  <1> HIDE DEF step
  <1>4. PICK f : Unfolds(f, n, Seq(Trades), <<>>, step)
    <2> DEFINE first == <<>>
    <2>1. n \in Nat /\ first \in Seq(Trades)
      BY <1>1
    <2> HIDE DEF n, first
    <2>2. \E f : Unfolds(f, n, Seq(Trades), first, step)
      BY <1>2, <2>1, Recursion
    <2> QED BY <2>2 DEF first
  <1>5. f \in [0 .. n -> Seq(Trades)] /\ f[0] = <<>> /\ \A i \in 1 .. n : f[i] = step[i][f[i - 1]]
    BY <1>4 DEF Unfolds
  <1>6. \E h : Is(h)
    <2>1. ASSUME NEW i \in 0 .. n PROVE f[i] = IF i = 0 THEN <<>> ELSE IF StaysOpen(trades[i], price) THEN Append(f[i - 1], [trades[i] EXCEPT !.pnl = Pnl(trades[i], price, trades[i].cost)]) ELSE f[i - 1]
      <3>1. CASE i = 0
        BY <1>5, <3>1
      <3>2. CASE i # 0
        <4>1. i \in 1 .. n /\ i - 1 \in 0 .. n
          BY <1>1, <3>2
        <4>2. f[i - 1] \in Seq(Trades) /\ f[i] = step[i][f[i - 1]]
          BY <1>5, <4>1
        <4>3. step[i][f[i - 1]] = IF StaysOpen(trades[i], price) THEN Append(f[i - 1], [trades[i] EXCEPT !.pnl = Pnl(trades[i], price, trades[i].cost)]) ELSE f[i - 1]
          BY <1>3, <4>1, <4>2
        <4> QED BY <3>2, <4>2, <4>3
      <3> QED BY <3>1, <3>2
    <2> DEFINE h == [i \in 0 .. n |-> f[i]]
    <2>2. h = f
      BY <1>5
    <2>3. Is(f)
      BY <2>1, <2>2
    <2> HIDE DEF Is
    <2> QED BY <2>3
  <1>7. Is(g)
    <2> HIDE DEF Is
    <2> QED BY <1>6
  <1>8. Watched(trades, price) = g[n]
    BY DEF Watched
  <1> HIDE DEF g
  <1>9. g[0] = <<>> /\ \A i \in 1 .. n : g[i] = IF StaysOpen(trades[i], price) THEN Append(g[i - 1], [trades[i] EXCEPT !.pnl = Pnl(trades[i], price, trades[i].cost)]) ELSE g[i - 1]
    <2>1. 0 \in 0 .. n /\ \A i \in 1 .. n : i \in 0 .. n /\ i # 0
      BY <1>1
    <2> QED BY <1>7, <2>1
  <1> QED BY <1>8, <1>9

LEMMA FinishedIs ==
  ASSUME NEW trades \in Seq(Trades), NEW price \in Int, NEW cost \in Int
  PROVE  \E f : /\ f[0] = <<>>
                /\ \A i \in 1 .. Len(trades) : f[i] = IF ExitReason(trades[i], price) = "none" THEN f[i - 1] ELSE Append(f[i - 1], ClosedAs(trades[i], price, cost))
                /\ Finished(trades, price, cost) = f[Len(trades)]
  <1> DEFINE n == Len(trades)
             item(i) == ClosedAs(trades[i], price, cost)
             step == [i \in 1 .. n |-> [x \in Seq(Trades) |-> IF ExitReason(trades[i], price) = "none" THEN x ELSE Append(x, ClosedAs(trades[i], price, cost))]]
             Is(f) == f = [i \in 0 .. Len(trades) |-> IF i = 0 THEN <<>> ELSE IF ExitReason(trades[i], price) = "none" THEN f[i - 1] ELSE Append(f[i - 1], ClosedAs(trades[i], price, cost))]
             g == CHOOSE f : Is(f)
  <1>1. n \in Nat /\ \A i \in 1 .. n : item(i) \in Trades
    <2>1. n \in Nat /\ \A i \in 1 .. n : trades[i] \in Trades
      OBVIOUS
    <2> QED BY <2>1, TradeMoves
  <1>2. step \in [1 .. n -> [Seq(Trades) -> Seq(Trades)]]
    <2> HIDE DEF item
    <2>1. \A i \in 1 .. n, x \in Seq(Trades) : Append(x, item(i)) \in Seq(Trades)
      BY <1>1
    <2> QED BY <2>1 DEF item
  <1>3. \A i \in 1 .. n, x \in Seq(Trades) : step[i][x] = IF ExitReason(trades[i], price) = "none" THEN x ELSE Append(x, ClosedAs(trades[i], price, cost))
    OBVIOUS
  <1> HIDE DEF step
  <1>4. PICK f : Unfolds(f, n, Seq(Trades), <<>>, step)
    <2> DEFINE first == <<>>
    <2>1. n \in Nat /\ first \in Seq(Trades)
      BY <1>1
    <2> HIDE DEF n, first
    <2>2. \E f : Unfolds(f, n, Seq(Trades), first, step)
      BY <1>2, <2>1, Recursion
    <2> QED BY <2>2 DEF first
  <1>5. f \in [0 .. n -> Seq(Trades)] /\ f[0] = <<>> /\ \A i \in 1 .. n : f[i] = step[i][f[i - 1]]
    BY <1>4 DEF Unfolds
  <1>6. \E h : Is(h)
    <2>1. ASSUME NEW i \in 0 .. n PROVE f[i] = IF i = 0 THEN <<>> ELSE IF ExitReason(trades[i], price) = "none" THEN f[i - 1] ELSE Append(f[i - 1], ClosedAs(trades[i], price, cost))
      <3>1. CASE i = 0
        BY <1>5, <3>1
      <3>2. CASE i # 0
        <4>1. i \in 1 .. n /\ i - 1 \in 0 .. n
          BY <1>1, <3>2
        <4>2. f[i - 1] \in Seq(Trades) /\ f[i] = step[i][f[i - 1]]
          BY <1>5, <4>1
        <4>3. step[i][f[i - 1]] = IF ExitReason(trades[i], price) = "none" THEN f[i - 1] ELSE Append(f[i - 1], ClosedAs(trades[i], price, cost))
          BY <1>3, <4>1, <4>2
        <4> QED BY <3>2, <4>2, <4>3
      <3> QED BY <3>1, <3>2
    <2> DEFINE h == [i \in 0 .. n |-> f[i]]
    <2>2. h = f
      BY <1>5
    <2>3. Is(f)
      BY <2>1, <2>2
    <2> HIDE DEF Is
    <2> QED BY <2>3
  <1>7. Is(g)
    <2> HIDE DEF Is
    <2> QED BY <1>6
  <1>8. Finished(trades, price, cost) = g[n]
    BY DEF Finished
  <1> HIDE DEF g
  <1>9. g[0] = <<>> /\ \A i \in 1 .. n : g[i] = IF ExitReason(trades[i], price) = "none" THEN g[i - 1] ELSE Append(g[i - 1], ClosedAs(trades[i], price, cost))
    <2>1. 0 \in 0 .. n /\ \A i \in 1 .. n : i \in 0 .. n /\ i # 0
      BY <1>1
    <2> QED BY <1>7, <2>1
  <1> QED BY <1>8, <1>9


IdsUpTo(trades, k) == {trades[i].id : i \in 1 .. k}

\* f and g hold the first k of some trades between them.
SharedOut(f, g, trades, k) ==
  /\ f[k] \in Seq(Trades) /\ g[k] \in Seq(Trades)
  /\ Len(f[k]) + Len(g[k]) = k
  /\ Ids(f[k]) \cup Ids(g[k]) = IdsUpTo(trades, k)

LEMMA IdsSteps ==
  ASSUME NEW trades \in Seq(Trades)
  PROVE  /\ IdsUpTo(trades, 0) = {}
         /\ \A k \in Nat : IdsUpTo(trades, k + 1) = IdsUpTo(trades, k) \cup {trades[k + 1].id}
         /\ IdsUpTo(trades, Len(trades)) = Ids(trades)
  <1>1. 1 .. 0 = {} /\ DOMAIN trades = 1 .. Len(trades)
    OBVIOUS
  <1>2. ASSUME NEW k \in Nat PROVE IdsUpTo(trades, k + 1) = IdsUpTo(trades, k) \cup {trades[k + 1].id}
    <2>1. 1 .. k + 1 = (1 .. k) \cup {k + 1}
      OBVIOUS
    <2> QED BY <2>1 DEF IdsUpTo
  <1>3. IdsUpTo(trades, 0) = {}
    BY <1>1 DEF IdsUpTo
  <1>4. IdsUpTo(trades, Len(trades)) = Ids(trades)
    BY <1>1 DEF IdsUpTo, Ids
  <1> QED BY <1>2, <1>3, <1>4

\* A price leaves every trade open or closes it, and loses or doubles none.
LEMMA Divided ==
  ASSUME NEW trades \in Seq(Trades), NEW price \in Int, NEW cost \in Int
  PROVE  /\ Watched(trades, price) \in Seq(Trades) /\ Finished(trades, price, cost) \in Seq(Trades)
         /\ Len(Watched(trades, price)) + Len(Finished(trades, price, cost)) = Len(trades)
         /\ Ids(Watched(trades, price)) \cup Ids(Finished(trades, price, cost)) = Ids(trades)
  <1> DEFINE n == Len(trades)
             moved(i) == [trades[i] EXCEPT !.pnl = Pnl(trades[i], price, trades[i].cost)]
             done(i) == ClosedAs(trades[i], price, cost)
  <1>1. n \in Nat /\ DOMAIN trades = 1 .. n /\ \A i \in 1 .. n : trades[i] \in Trades
    OBVIOUS
  <1>2. \A i \in 1 .. n : /\ moved(i) \in Trades /\ moved(i).id = trades[i].id
                          /\ done(i) \in Trades /\ done(i).id = trades[i].id
    BY <1>1, TradeMoves
  <1>3. PICK f : /\ f[0] = <<>>
                 /\ \A i \in 1 .. n : f[i] = IF StaysOpen(trades[i], price) THEN Append(f[i - 1], moved(i)) ELSE f[i - 1]
                 /\ Watched(trades, price) = f[n]
    BY WatchedIs
  <1>4. PICK g : /\ g[0] = <<>>
                 /\ \A i \in 1 .. n : g[i] = IF ExitReason(trades[i], price) = "none" THEN g[i - 1] ELSE Append(g[i - 1], done(i))
                 /\ Finished(trades, price, cost) = g[n]
    BY FinishedIs
  <1> HIDE DEF moved, done
  <1> DEFINE S == {k \in Nat : k <= n => SharedOut(f, g, trades, k)}
  <1>5. 0 \in S
    <2>1. f[0] = <<>> /\ g[0] = <<>> /\ IdsUpTo(trades, 0) = {}
      BY <1>3, <1>4, IdsSteps
    <2>2. Ids(<<>>) = {} /\ Len(<<>>) = 0 /\ <<>> \in Seq(Trades)
      BY DEF Ids
    <2>3. SharedOut(f, g, trades, 0)
      BY <2>1, <2>2 DEF SharedOut
    <2> QED BY <2>3
  <1>6. ASSUME NEW k \in Nat, k \in S PROVE k + 1 \in S
    <2> SUFFICES ASSUME k + 1 <= n PROVE SharedOut(f, g, trades, k + 1)
      OBVIOUS
    <2>1. k + 1 \in 1 .. n /\ (k + 1) - 1 = k /\ SharedOut(f, g, trades, k)
      BY <1>1, <1>6
    <2>9. /\ f[k] \in Seq(Trades) /\ g[k] \in Seq(Trades)
          /\ Len(f[k]) + Len(g[k]) = k
          /\ Ids(f[k]) \cup Ids(g[k]) = IdsUpTo(trades, k)
      BY <2>1 DEF SharedOut
    <2>2. IdsUpTo(trades, k + 1) = IdsUpTo(trades, k) \cup {trades[k + 1].id}
      BY IdsSteps
    <2>3. /\ moved(k + 1) \in Trades /\ moved(k + 1).id = trades[k + 1].id
          /\ done(k + 1) \in Trades /\ done(k + 1).id = trades[k + 1].id
      BY <1>2, <2>1
    <2>4. /\ Ids(Append(f[k], moved(k + 1))) = Ids(f[k]) \cup {trades[k + 1].id}
          /\ Append(f[k], moved(k + 1)) \in Seq(Trades) /\ Len(Append(f[k], moved(k + 1))) = Len(f[k]) + 1
      BY <2>9, <2>3, IdsOfLists
    <2>10. /\ Ids(Append(g[k], done(k + 1))) = Ids(g[k]) \cup {trades[k + 1].id}
           /\ Append(g[k], done(k + 1)) \in Seq(Trades) /\ Len(Append(g[k], done(k + 1))) = Len(g[k]) + 1
      BY <2>9, <2>3, IdsOfLists
    <2>5. Len(f[k]) \in Nat /\ Len(g[k]) \in Nat
      BY <2>9
    <2>6. CASE StaysOpen(trades[k + 1], price)
      <3>1. f[k + 1] = Append(f[k], moved(k + 1)) /\ g[k + 1] = g[k]
        BY <1>3, <1>4, <2>1, <2>6 DEF StaysOpen
      <3>2. Len(f[k + 1]) + Len(g[k + 1]) = k + 1
        <4>1. Len(f[k + 1]) = Len(f[k]) + 1 /\ Len(g[k + 1]) = Len(g[k])
          BY <2>4, <3>1
        <4>2. Len(f[k]) + Len(g[k]) = k
          BY <2>9
        <4> DEFINE a == Len(f[k])
                   b == Len(g[k])
                   c == Len(f[k + 1])
                   d == Len(g[k + 1])
        <4> HIDE DEF a, b, c, d
        <4>3. a \in Nat /\ b \in Nat /\ a + b = k
          BY <2>5, <4>2 DEF a, b
        <4>4. c + d = k + 1
          <5>1. c = a + 1 /\ d = b
            BY <4>1 DEF a, b, c, d
          <5> QED BY <4>3, <5>1
        <4> QED BY <4>4 DEF c, d
      <3>3. Ids(f[k + 1]) \cup Ids(g[k + 1]) = IdsUpTo(trades, k + 1)
        BY <2>9, <2>2, <2>4, <3>1
      <3> QED BY <2>9, <2>4, <3>1, <3>2, <3>3 DEF SharedOut
    <2>7. CASE ~StaysOpen(trades[k + 1], price)
      <3>1. f[k + 1] = f[k] /\ g[k + 1] = Append(g[k], done(k + 1))
        BY <1>3, <1>4, <2>1, <2>7 DEF StaysOpen
      <3>2. Len(f[k + 1]) + Len(g[k + 1]) = k + 1
        <4>1. Len(g[k + 1]) = Len(g[k]) + 1 /\ Len(f[k + 1]) = Len(f[k])
          BY <2>10, <3>1
        <4>2. Len(f[k]) + Len(g[k]) = k
          BY <2>9
        <4> DEFINE a == Len(f[k])
                   b == Len(g[k])
                   c == Len(f[k + 1])
                   d == Len(g[k + 1])
        <4> HIDE DEF a, b, c, d
        <4>3. a \in Nat /\ b \in Nat /\ a + b = k
          BY <2>5, <4>2 DEF a, b
        <4>4. c + d = k + 1
          <5>1. d = b + 1 /\ c = a
            BY <4>1 DEF a, b, c, d
          <5> QED BY <4>3, <5>1
        <4> QED BY <4>4 DEF c, d
      <3>3. Ids(f[k + 1]) \cup Ids(g[k + 1]) = IdsUpTo(trades, k + 1)
        BY <2>9, <2>2, <2>10, <3>1
      <3> QED BY <2>9, <2>10, <3>1, <3>2, <3>3 DEF SharedOut
    <2> QED BY <2>6, <2>7
  <1>7. SharedOut(f, g, trades, n)
    <2>1. n \in S
      <3> HIDE DEF S
      <3>1. Nat \subseteq S
        BY <1>5, <1>6, EveryNumber
      <3> QED BY <1>1, <3>1
    <2> QED BY <1>1, <2>1
  <1>8. IdsUpTo(trades, n) = Ids(trades)
    BY IdsSteps
  <1>9. /\ f[n] \in Seq(Trades) /\ g[n] \in Seq(Trades)
        /\ Len(f[n]) + Len(g[n]) = n
        /\ Ids(f[n]) \cup Ids(g[n]) = Ids(trades)
    BY <1>7, <1>8 DEF SharedOut
  <1>10. Watched(trades, price) = f[n] /\ Finished(trades, price, cost) = g[n]
    BY <1>3, <1>4
  <1> QED BY <1>9, <1>10

\* The counter, the lists and the account are what they are meant to be.
Account(s) ==
  /\ s = [made |-> s.made, provider |-> s.provider, running |-> s.running,
          bankrupt |-> s.bankrupt, balance |-> s.balance, count |-> s.count]
  /\ s.count \in Nat /\ s.balance \in Int

\* What BooksBalance says of one account and its two lists.
BookInv ==
  /\ Account(simulator)
  /\ openTrades \in Seq(Trades) /\ closedTrades \in Seq(Trades)
  /\ BooksBalance

\* No trade was opened, and none has brought anything yet.
LEMMA NothingEarned == Earned(<<>>) = 0 /\ Ids(<<>>) = {} /\ <<>> \in Seq(Trades) /\ Len(<<>>) = 0
  <1>1. <<>> \in Seq(Trades) /\ Len(<<>>) = 0
    OBVIOUS
  <1>2. Earned(<<>>) = 0
    <2> DEFINE none == <<>>
    <2>1. none \in Seq(Trades) /\ Len(none) = 0
      OBVIOUS
    <2> HIDE DEF none
    <2>2. PICK f : f[0] = 0 /\ Earned(none) = f[Len(none)]
      BY <2>1, EarnedIs
    <2> QED BY <2>1, <2>2 DEF none
  <1> QED BY <1>1, <1>2 DEF Ids

LEMMA BooksBegin == PaperInit => BookInv
  <1> SUFFICES ASSUME PaperInit PROVE BookInv
    OBVIOUS
  <1>1. openTrades = <<>> /\ closedTrades = <<>> /\ simulator.count = 0 /\ simulator.balance = 0 /\ Account(simulator)
    BY DEF PaperInit, Account
  <1>2. 1 .. 0 = {} /\ 0 + 0 = 0
    OBVIOUS
  <1> QED BY <1>1, <1>2, NothingEarned DEF BookInv, BooksBalance

\* What neither opens a trade nor moves money leaves the books as they are.
LEMMA BooksRest ==
  ASSUME BookInv, UNCHANGED <<openTrades, closedTrades>>, Account(simulator'),
         simulator'.count = simulator.count, simulator'.balance = simulator.balance
  PROVE  BookInv'
  BY DEF BookInv, BooksBalance

\* A trade is opened under the next number.
LEMMA BooksOpen ==
  ASSUME BookInv, NEW r, TradeOpened(r)
  PROVE  BookInv'
  <1>1. CASE UNCHANGED <<simulator, openTrades>>
    BY <1>1, BooksRest DEF TradeOpened, BookInv
  <1>2. CASE ~UNCHANGED <<simulator, openTrades>>
    <2>1. PICK price \in Quotes, cost \in Spreads, direction \in {"BUY", "SELL"} :
             /\ simulator' = [simulator EXCEPT !.count = @ + 1]
             /\ openTrades' = Append(openTrades,
                  [id |-> simulator.count + 1, direction |-> direction, entry |-> price,
                   cost |-> cost, pnl |-> 0, status |-> "OPEN"])
      BY <1>2 DEF TradeOpened
    <2>2. UNCHANGED closedTrades
      BY DEF TradeOpened
    <2> DEFINE trade == [id |-> simulator.count + 1, direction |-> direction, entry |-> price,
                         cost |-> cost, pnl |-> 0, status |-> "OPEN"]
    <2>3. trade \in Trades /\ trade.id = simulator.count + 1
      BY PaperAssumption DEF PaperAssumption, Trades, BookInv, Account
    <2>4. openTrades' = Append(openTrades, trade)
      BY <2>1
    <2> HIDE DEF trade
    <2>5. /\ Ids(openTrades') = Ids(openTrades) \cup {simulator.count + 1}
          /\ openTrades' \in Seq(Trades) /\ Len(openTrades') = Len(openTrades) + 1
      BY <2>3, <2>4, IdsOfLists DEF BookInv
    <2>6. /\ simulator'.count = simulator.count + 1 /\ simulator'.balance = simulator.balance
          /\ Account(simulator')
      <3>1. Account(simulator)
        BY DEF BookInv
      <3>2. simulator' = [made |-> simulator.made, provider |-> simulator.provider,
                          running |-> simulator.running, bankrupt |-> simulator.bankrupt,
                          balance |-> simulator.balance, count |-> simulator.count + 1]
        BY <2>1, <3>1 DEF Account
      <3> QED BY <3>1, <3>2 DEF Account
    <2>7. 1 .. simulator.count + 1 = (1 .. simulator.count) \cup {simulator.count + 1}
      BY DEF BookInv, Account
    <2>8. Len(openTrades) \in Nat /\ Len(closedTrades) \in Nat /\ simulator.count \in Nat
      BY DEF BookInv, Account
    <2>9. Ids(openTrades') \cup Ids(closedTrades') = 1 .. simulator'.count
      <3>1. Ids(openTrades) \cup Ids(closedTrades) = 1 .. simulator.count
        BY DEF BookInv, BooksBalance
      <3>2. Ids(closedTrades') = Ids(closedTrades)
        BY <2>2
      <3>3. simulator'.count = simulator.count + 1
        BY <2>6
      <3> HIDE DEF trade
      <3>4. Ids(openTrades') \cup Ids(closedTrades') = (1 .. simulator.count) \cup {simulator.count + 1}
        BY <2>5, <3>1, <3>2
      <3> QED BY <2>7, <3>3, <3>4
    <2>10. Len(openTrades') + Len(closedTrades') = simulator'.count
      <3>1. Len(closedTrades') = Len(closedTrades) /\ Len(openTrades) + Len(closedTrades) = simulator.count
        BY <2>2 DEF BookInv, BooksBalance
      <3> QED BY <2>5, <2>6, <2>8, <3>1
    <2>11. simulator'.balance = Earned(closedTrades')
      BY <2>2, <2>6 DEF BookInv, BooksBalance
    <2>12. closedTrades' \in Seq(Trades)
      BY <2>2 DEF BookInv
    <2> QED BY <2>5, <2>6, <2>9, <2>10, <2>11, <2>12 DEF BookInv, BooksBalance
  <1> QED BY <1>1, <1>2

\* A price moves trades from one list to the other, and money with them.
LEMMA BooksMove ==
  ASSUME BookInv, NEW price \in Int, NEW cost \in Int, UpdateTrades(price, cost)
  PROVE  BookInv'
  <1> DEFINE done == Finished(openTrades, price, cost)
             left == Watched(openTrades, price)
  <1>1. /\ openTrades' = left /\ closedTrades' = closedTrades \o done
        /\ simulator'.count = simulator.count /\ simulator'.balance = simulator.balance + Earned(done)
        /\ Earned(done) \in Int => Account(simulator')
    <2> DEFINE earned == Earned(done)
               balance == simulator.balance + earned
               broke == balance <= Least
               bankrupt == simulator.bankrupt \/ broke
               running == simulator.running /\ ~broke
    <2>1. Account(simulator)
      BY DEF BookInv
    <2>2. /\ openTrades' = left /\ closedTrades' = closedTrades \o done
          /\ simulator' = [simulator EXCEPT !.balance = balance, !.bankrupt = bankrupt, !.running = running]
      BY DEF UpdateTrades
    <2> HIDE DEF bankrupt, running, broke, earned, done, left
    <2>3. simulator' = [made |-> simulator.made, provider |-> simulator.provider, running |-> running,
                        bankrupt |-> bankrupt, balance |-> balance, count |-> simulator.count]
      <3> HIDE DEF balance
      <3> QED BY <2>1, <2>2 DEF Account
    <2>4. simulator'.count = simulator.count /\ simulator'.balance = balance
      <3> HIDE DEF balance
      <3> QED BY <2>3
    <2>5. earned \in Int => Account(simulator')
      <3>1. earned \in Int => balance \in Int
        BY <2>1 DEF Account
      <3> HIDE DEF balance
      <3> QED BY <2>1, <2>3, <3>1 DEF Account
    <2> QED BY <2>2, <2>4, <2>5 DEF earned
  <1>2. openTrades \in Seq(Trades) /\ closedTrades \in Seq(Trades) /\ Account(simulator)
    BY DEF BookInv
  <1>3. /\ left \in Seq(Trades) /\ done \in Seq(Trades) /\ Len(left) + Len(done) = Len(openTrades)
        /\ Ids(left) \cup Ids(done) = Ids(openTrades)
    BY <1>2, Divided
  <1> HIDE DEF done, left
  <1>4. /\ Earned(closedTrades \o done) = Earned(closedTrades) + Earned(done)
        /\ Earned(closedTrades) \in Int /\ Earned(done) \in Int
    BY <1>2, <1>3, EarnedJoins
  <1>5. /\ Ids(closedTrades \o done) = Ids(closedTrades) \cup Ids(done)
        /\ closedTrades \o done \in Seq(Trades)
        /\ Len(closedTrades \o done) = Len(closedTrades) + Len(done)
    <2>1. \A t \in Trades : /\ Ids(closedTrades \o done) = Ids(closedTrades) \cup Ids(done)
                            /\ closedTrades \o done \in Seq(Trades)
                            /\ Len(closedTrades \o done) = Len(closedTrades) + Len(done)
      BY <1>2, <1>3, IdsOfLists
    <2>2. [id |-> 0, direction |-> "BUY", entry |-> 0, cost |-> 0, pnl |-> 0, status |-> "OPEN"] \in Trades
      BY DEF Trades
    <2> QED BY <2>1, <2>2
  <1>6. Len(left) \in Nat /\ Len(done) \in Nat /\ Len(closedTrades) \in Nat /\ Len(openTrades) \in Nat
    BY <1>2, <1>3
  <1>7. Ids(openTrades') \cup Ids(closedTrades') = 1 .. simulator'.count
    <2>1. Ids(openTrades) \cup Ids(closedTrades) = 1 .. simulator.count
      BY DEF BookInv, BooksBalance
    <2> QED BY <1>1, <1>3, <1>5, <2>1
  <1>8. Len(openTrades') + Len(closedTrades') = simulator'.count
    <2>1. Len(openTrades) + Len(closedTrades) = simulator.count
      BY DEF BookInv, BooksBalance
    <2>2. /\ Len(openTrades') = Len(left) /\ Len(closedTrades') = Len(closedTrades) + Len(done)
          /\ Len(left) + Len(done) = Len(openTrades) /\ simulator'.count = simulator.count
      BY <1>1, <1>3, <1>5
    <2> DEFINE a == Len(left)
               b == Len(done)
               c == Len(closedTrades)
               d == Len(openTrades)
    <2> HIDE DEF a, b, c, d
    <2>3. a \in Nat /\ b \in Nat /\ c \in Nat /\ d \in Nat /\ a + b = d /\ d + c = simulator.count
      BY <1>6, <2>1, <2>2 DEF a, b, c, d
    <2>4. a + (c + b) = simulator.count
      BY <2>3
    <2> QED BY <2>2, <2>4 DEF a, b, c, d
  <1>9. simulator'.balance = Earned(closedTrades')
    BY <1>1, <1>4 DEF BookInv, BooksBalance
  <1> QED BY <1>1, <1>3, <1>4, <1>5, <1>7, <1>8, <1>9 DEF BookInv, BooksBalance

LEMMA BooksStep == BookInv /\ [PaperNext]_paperVars => BookInv'
  <1> SUFFICES ASSUME BookInv, [PaperNext]_paperVars PROVE BookInv'
    OBVIOUS
  <1>1. Account(simulator)
    BY DEF BookInv
  <1>2. CASE StatusAsked
    <2>1. Account(simulator') /\ simulator'.count = simulator.count /\ simulator'.balance = simulator.balance
      BY <1>1, <1>2 DEF StatusAsked, Made, Account
    <2> QED BY <1>2, <2>1, BooksRest DEF StatusAsked
  <1>3. CASE StartAsked
    BY <1>1, <1>3, BooksRest DEF StartAsked, Made, Account
  <1>4. CASE StopAsked
    BY <1>1, <1>4, BooksRest DEF StopAsked, Account
  <1>5. ASSUME NEW r \in Requests, TradeAsked(r) PROVE BookInv'
    BY <1>1, <1>5, BooksRest DEF TradeAsked, Made, Account
  <1>6. ASSUME NEW r \in Requests, TradeOpened(r) PROVE BookInv'
    BY <1>6, BooksOpen
  <1>7. ASSUME NEW t \in Tasks, TaskBegins(t) PROVE BookInv'
    BY <1>1, <1>7, BooksRest DEF TaskBegins, Account
  <1>8. ASSUME NEW t \in Tasks, PriceCame(t) PROVE BookInv'
    <2>1. CASE UNCHANGED <<simulator, openTrades, closedTrades>>
      BY <1>1, <2>1, BooksRest
    <2>2. CASE \E price \in Quotes, cost \in Spreads : UpdateTrades(price, cost)
      BY <2>2, BooksMove, PaperAssumption DEF PaperAssumption
    <2> QED BY <1>8, <2>1, <2>2 DEF PriceCame
  <1>9. ASSUME NEW t \in Tasks, Wakes(t) PROVE BookInv'
    BY <1>1, <1>9, BooksRest DEF Wakes
  <1>10. CASE UNCHANGED paperVars
    BY <1>1, <1>10, BooksRest DEF paperVars
  <1> QED BY <1>2, <1>3, <1>4, <1>5, <1>6, <1>7, <1>8, <1>9, <1>10 DEF PaperNext

\* Whatever loops work on the account of the paper trading, and however often
\* it is started, stopped and traded on: every trade open_trade ever numbered is
\* in exactly one of the two lists of TradingSimulator, and its balance is the
\* sum of what the closed ones brought.
THEOREM BooksAreBalanced == PaperSpec => []BooksBalance
  <1>1. BookInv => BooksBalance
    BY DEF BookInv
  <1> QED BY <1>1, BooksBegin, BooksStep, PTL DEF PaperSpec
=============================================================================
