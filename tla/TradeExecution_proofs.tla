----------------------- MODULE TradeExecution_proofs -----------------------
(***************************************************************************)
(* Theorems about TradeExecution, for every number of callers and every    *)
(* bound.                                                                  *)
(***************************************************************************)
EXTENDS TradeExecution, FiniteSetTheorems, TLAPS

\* The variables have their types in every reachable state.
LEMMA TypeInit == Init => TypeOK
BY BoundAssumption DEF Init, TypeOK, Task, Sig, TxId, TxRow, NoRow, NoTx, Pcs

\* What a call's last step does to the locks, the program counters and the
\* locals keeps their types.
LEMMA ReturnType ==
  ASSUME TypeOK, NEW t \in Task, Return(t)
  PROVE  /\ pc' \in [Task -> Pcs]
         /\ tickLock' \in Task \cup {NoTask} /\ tradeLock' \in Task \cup {NoTask}
         /\ txOf' \in [Task -> 0 .. MaxTx] /\ sigOf' \in [Task -> 0 .. MaxSig]
         /\ todo' \in [Task -> SUBSET Sig] /\ snap' \in [Task -> Nat]
BY BoundAssumption
   DEF TypeOK, Return, Release, Clear, Goto, Pcs, NoTx

LEMMA CloseReturnsType ==
  ASSUME TypeOK, NEW t \in Task, CloseReturns(t)
  PROVE  /\ pc' \in [Task -> Pcs]
         /\ tickLock' \in Task \cup {NoTask} /\ tradeLock' \in Task \cup {NoTask}
         /\ txOf' \in [Task -> 0 .. MaxTx] /\ sigOf' \in [Task -> 0 .. MaxSig]
         /\ todo' \in [Task -> SUBSET Sig] /\ snap' \in [Task -> Nat]
<1>1. CASE t \in Scanners
  BY <1>1, BoundAssumption
     DEF TypeOK, CloseReturns, Clear, Goto, Pcs, NoTx, lockVars
<1>2. CASE t \notin Scanners
  BY <1>2, ReturnType DEF CloseReturns
<1> QED BY <1>1, <1>2

LEMMA SetTxType ==
  ASSUME TypeOK, NEW x,
         NEW st \in {"none", "pending", "completed", "failed", "pending_retry"},
         SetTx(x, st)
  PROVE  tx' \in [TxId -> TxRow]
BY DEF TypeOK, SetTx, TxRow

LEMMA LogTxType ==
  ASSUME TypeOK, NEW t \in Task, NEW kind \in {"open_trade", "close_trade"},
         NEW s \in 0 .. MaxSig, NEW l \in Pcs, LogTx(t, kind, s, l)
  PROVE  /\ tx' \in [TxId -> TxRow] /\ txOf' \in [Task -> 0 .. MaxTx]
         /\ sigOf' \in [Task -> 0 .. MaxSig] /\ pc' \in [Task -> Pcs]
<1>1. PICK x \in TxId : LogTx(t, kind, s, l)!(x)
  BY DEF LogTx
<1>2. x \in 0 .. MaxTx
  BY BoundAssumption DEF TxId
<1> QED BY <1>1, <1>2 DEF TypeOK, TxRow, Goto

LEMMA GoneType ==
  ASSUME TypeOK, ProcessGone, crashes' \in Nat
  PROVE  TypeOK'
BY BoundAssumption DEF TypeOK, ProcessGone, dbVars, Pcs, NoTx

\* Every action keeps the types; Register and RecordResult need to know that
\* their call has a signal, and Abort that it has a transaction: CallsOwn.
LEMMA TypeStep == TypeOK /\ CallsOwn /\ [Next]_vars => TypeOK'
<1> SUFFICES ASSUME TypeOK, CallsOwn, [Next]_vars PROVE TypeOK'
  OBVIOUS
<1> USE DEF dbVars, memVars, lockVars, readVars, bootVars, callVars, histVars
<1>1. CASE UNCHANGED vars
  BY <1>1 DEF TypeOK, vars
<1>2. ASSUME NEW t \in Task, Begin(t) PROVE TypeOK'
  BY <1>2 DEF TypeOK, Begin, Goto, Pcs
<1>3. ASSUME NEW t \in Task, OpenStep(t) PROVE TypeOK'
  <2>1. CASE LogOpen(t)
    <3>1. "logged" \in Pcs /\ 0 \in 0 .. MaxSig
      BY BoundAssumption DEF Pcs, OpenPcs
    <3> QED BY <2>1, <3>1, LogTxType DEF TypeOK, LogOpen
  <2>2. CASE RejectOpen(t)
    BY <2>2, ReturnType, SetTxType DEF TypeOK, RejectOpen
  <2>3. CASE BrokerFill(t)
    BY <2>3 DEF TypeOK, CallsOwn, OwnTx, InCall, BrokerFill, Goto, Pcs, OpenPcs
  <2>4. CASE SaveSignal(t)
    <3>1. PICK s \in Sig : /\ status' = [status EXCEPT ![s] = "open"]
                           /\ sigOf' = [sigOf EXCEPT ![t] = s]
                           /\ tx' = [tx EXCEPT ![txOf[t]].sig = s]
      BY <2>4 DEF SaveSignal
    <3>2. s \in 0 .. MaxSig
      BY BoundAssumption DEF Sig
    <3>3. tx' \in [TxId -> TxRow]
      BY <3>1, <3>2 DEF TypeOK, TxRow
    <3> QED BY <2>4, <3>1, <3>2, <3>3 DEF TypeOK, SaveSignal, Goto, Pcs, OpenPcs
  <2>5. CASE Register(t)
    BY <2>5 DEF TypeOK, CallsOwn, OwnSig, HasSig, Register, Goto, Pcs, OpenPcs
  <2>6. CASE CompleteOpen(t)
    BY <2>6, ReturnType, SetTxType DEF TypeOK, CompleteOpen
  <2> QED BY <1>3, <2>1, <2>2, <2>3, <2>4, <2>5, <2>6 DEF OpenStep
<1>4. ASSUME NEW t \in Task, CloseStep(t) PROVE TypeOK'
  <2>1. ASSUME NEW s \in Sig, LogClose(t, s) PROVE TypeOK'
    <3>1. "closing" \in Pcs /\ s \in 0 .. MaxSig
      BY BoundAssumption DEF Pcs, ClosePcs, Sig
    <3> QED BY <2>1, <3>1, LogTxType DEF TypeOK, LogClose
  <2>2. CASE FindSignal(t)
    BY <2>2 DEF TypeOK, FindSignal, Goto, Pcs, ClosePcs
  <2>3. CASE RejectClose(t)
    BY <2>3, CloseReturnsType, SetTxType DEF TypeOK, RejectClose
  <2>4. CASE MarkClosed(t)
    BY <2>4 DEF TypeOK, MarkClosed, Goto, Pcs, ClosePcs
  <2>5. CASE CompleteClose(t)
    BY <2>5, SetTxType DEF TypeOK, CompleteClose, Goto, Pcs, ClosePcs
  <2>6. CASE RecordResult(t)
    <3>1. sigOf[t] \in Sig
      BY <2>6 DEF CallsOwn, OwnSig, HasSig, RecordResult, ClosePcs
    <3>2. results[sigOf[t]] + 1 \in Nat
      BY <3>1 DEF TypeOK
    <3>3. results' \in [Sig -> Nat]
      BY <2>6, <3>1, <3>2 DEF TypeOK, RecordResult
    <3>4. pc' \in [Task -> Pcs] /\ snap' \in [Task -> Nat]
      BY <2>6 DEF TypeOK, RecordResult, Goto, Pcs, ClosePcs
    <3> QED BY <2>6, <3>3, <3>4 DEF TypeOK, RecordResult
  <2>7. CASE SaveRiskState(t)
    BY <2>7 DEF TypeOK, SaveRiskState, Goto, Pcs, ClosePcs
  <2>8. CASE Forget(t)
    BY <2>8, CloseReturnsType DEF TypeOK, Forget, Untracked, Dec
  <2> QED BY <1>4, <2>1, <2>2, <2>3, <2>4, <2>5, <2>6, <2>7, <2>8 DEF CloseStep
<1>5. ASSUME NEW t \in Task, BeginScan(t) PROVE TypeOK'
  BY <1>5 DEF TypeOK, BeginScan, Goto, Pcs, VisibleOpen, OpenSignals
<1>6. ASSUME NEW t \in Task, ScanStep(t) PROVE TypeOK'
  <2>1. CASE ScanHold(t)
    BY <2>1 DEF TypeOK, ScanHold
  <2>2. CASE ScanExit(t)
    <3>1. PICK s \in todo[t] : /\ LogTx(t, "close_trade", s, "closing")
                               /\ todo' = [todo EXCEPT ![t] = @ \ {s}]
      BY <2>2 DEF ScanExit
    <3>2. "closing" \in Pcs /\ s \in 0 .. MaxSig
      BY <3>1, BoundAssumption DEF TypeOK, Pcs, ClosePcs, Sig
    <3> QED BY <2>2, <3>1, <3>2, LogTxType DEF TypeOK, ScanExit
  <2>3. CASE EndScan(t)
    BY <2>3, ReturnType DEF TypeOK, EndScan
  <2> QED BY <1>6, <2>1, <2>2, <2>3 DEF ScanStep
<1>7. ASSUME NEW t \in Task, Abort(t) PROVE TypeOK'
  <2>1. dropped' \subseteq TxId
    BY <1>7 DEF TypeOK, CallsOwn, OwnTx, InCall, Abort, Pcs
  <2>2. unwatched' \subseteq Sig
    BY <1>7 DEF TypeOK, CallsOwn, OwnSig, HasSig, Abort
  <2> QED BY <1>7, <2>1, <2>2, ReturnType DEF TypeOK, Abort
<1>8. CASE Crash
  BY <1>8, GoneType DEF Crash, TypeOK
<1>9. CASE Startup
  <2>1. CASE Boot
    BY <2>1 DEF TypeOK, Boot
  <2>2. CASE LoadState
    BY <2>2 DEF TypeOK, LoadState
  <2>3. CASE ApplyState
    BY <2>3 DEF TypeOK, ApplyState, VisibleOpen, OpenSignals
  <2>4. CASE RestoreTrailing
    <3>1. PICK R \in {toRestore} \cup {{r \in toRestore : r > s} : s \in toRestore} :
                 tracked' = Registered(R) /\ unwatched' = (unwatched \cup toRestore) \ R
      BY <2>4 DEF RestoreTrailing
    <3>2. R \subseteq toRestore
      BY <3>1
    <3> QED BY <2>4, <3>1, <3>2 DEF TypeOK, RestoreTrailing, Registered, PendingTx
  <2>5. CASE RecoverTx
    <3>1. PICK x \in TxId : SetTx(x, Verdict(tx[x].kind)) /\ toRecover' = toRecover \ {x}
      BY <2>5 DEF RecoverTx
    <3>2. Verdict(tx[x].kind) \in {"none", "pending", "completed", "failed", "pending_retry"}
      BY DEF Verdict
    <3>3. tx' \in [TxId -> TxRow]
      BY <3>1, <3>2, SetTxType
    <3> QED BY <2>5, <3>1, <3>3 DEF TypeOK, RecoverTx
  <2>6. CASE RecoveryRaises
    BY <2>6, GoneType DEF RecoveryRaises, TypeOK
  <2>7. CASE RecoveryDone
    BY <2>7 DEF TypeOK, RecoveryDone
  <2> QED BY <1>9, <2>1, <2>2, <2>3, <2>4, <2>5, <2>6, <2>7 DEF Startup
<1> QED BY <1>1, <1>2, <1>3, <1>4, <1>5, <1>6, <1>7, <1>8, <1>9 DEF Next

\* No call is running at the start.
LEMMA OwnInit == Init => CallsOwn
BY DEF Init, CallsOwn, OwnTx, OwnSig, SigStored, TxApart, InCall, HasSig,
       OpenPcs, ClosePcs

\* A call that is over no longer owns anything; the others own what they did.
LEMMA LeaveOwn ==
  ASSUME TypeOK, CallsOwn, NEW t \in Task, NEW l \in {"idle", "ready", "scan"},
         Goto(t, l), Clear(t), status' = status,
         \/ tx' = tx
         \/ InCall(t) /\ \E st \in {"completed", "failed"} : SetTx(txOf[t], st)
  PROVE  CallsOwn'
<1> USE DEF TypeOK, CallsOwn, InCall, HasSig, OpenPcs, ClosePcs, Goto, Clear, SetTx,
            TxRow
<1>1. \A u \in Task : InCall(u)' => u # t /\ InCall(u) /\ pc'[u] = pc[u]
                                    /\ txOf'[u] = txOf[u] /\ sigOf'[u] = sigOf[u]
  OBVIOUS
<1>2. \A x \in TxId : /\ tx'[x].kind = tx[x].kind /\ tx'[x].sig = tx[x].sig
                      /\ tx[x].st # "none" => tx'[x].st # "none"
  OBVIOUS
<1>3. OwnTx'
  BY <1>1, <1>2 DEF OwnTx
<1>4. OwnSig'
  BY <1>1, <1>2 DEF OwnSig, OwnTx
<1>5. SigStored'
  BY <1>1 DEF SigStored
<1>6. TxApart'
  BY <1>1 DEF TxApart
<1> QED BY <1>3, <1>4, <1>5, <1>6

\* log_transaction gives a call a row nobody has.
LEMMA LogOwn ==
  ASSUME TypeOK, CallsOwn, NEW t \in Task, status' = status,
         NEW kind, NEW s, NEW l, LogTx(t, kind, s, l),
         \/ l = "logged" /\ kind = "open_trade"
         \/ l = "closing" /\ kind = "close_trade" /\ s \in Sig
  PROVE  CallsOwn'
<1> USE DEF TypeOK, CallsOwn, InCall, HasSig, OpenPcs, ClosePcs, Goto, TxRow
<1>1. PICK x \in TxId : LogTx(t, kind, s, l)!(x)
  BY DEF LogTx
<1>2. \A u \in Task : InCall(u) => txOf[u] \in TxId /\ txOf[u] # x
  BY <1>1 DEF OwnTx, FreshTx
<1>3. \A u \in Task : u # t => pc'[u] = pc[u] /\ txOf'[u] = txOf[u] /\ sigOf'[u] = sigOf[u]
  BY <1>1
<1>4. /\ pc'[t] = l /\ txOf'[t] = x /\ tx'[x].kind = kind /\ tx'[x].sig = s
      /\ tx'[x].st = "pending" /\ sigOf'[t] = s
  BY <1>1
<1>5. \A y \in TxId : y # x => tx'[y] = tx[y]
  BY <1>1
<1>6. OwnTx'
  BY <1>2, <1>3, <1>4, <1>5 DEF OwnTx
<1>7. OwnSig'
  BY <1>2, <1>3, <1>4, <1>5 DEF OwnSig
<1>8. SigStored'
  BY <1>3, <1>4 DEF SigStored
<1>9. TxApart'
  BY <1>2, <1>3, <1>4 DEF TxApart
<1> QED BY <1>6, <1>7, <1>8, <1>9

\* A call moves on inside its transaction and changes no row of the log.
LEMMA MoveOwn ==
  ASSUME TypeOK, CallsOwn, NEW t \in Task, NEW l \in OpenPcs \cup ClosePcs,
         InCall(t), Goto(t, l), pc[t] \in OpenPcs <=> l \in OpenPcs,
         HasSig(t) <=> HasSig(t)', UNCHANGED <<tx, txOf, sigOf>>,
         \A s \in Sig : status'[s] \in {status[s], "closed"},
         l \in {"saved", "registered"} => pc[t] = "saved",
         l \in {"marked", "committed"} => status'[sigOf[t]] = "closed"
  PROVE  CallsOwn'
<1>1. \A u \in Task : u # t => pc'[u] = pc[u]
  BY DEF TypeOK, Goto
<1>2. pc'[t] = l
  BY DEF TypeOK, Goto
<1> USE DEF TypeOK, CallsOwn, InCall, HasSig, OpenPcs, ClosePcs
<1>3. OwnTx'
  BY <1>1, <1>2 DEF OwnTx
<1>4. OwnSig'
  BY <1>1, <1>2 DEF OwnSig
<1>5. SigStored'
  BY <1>1, <1>2 DEF SigStored, OwnSig
<1>6. TxApart'
  BY <1>1, <1>2 DEF TxApart
<1> QED BY <1>3, <1>4, <1>5, <1>6

\* Saving a signal uses an id no stored row has.
LEMMA SaveOwn ==
  ASSUME TypeOK, CallsOwn, NEW t \in Task, SaveSignal(t)
  PROVE  CallsOwn'
<1>1. PICK s \in Sig : /\ FreshSig(s)
                       /\ status' = [status EXCEPT ![s] = "open"]
                       /\ sigOf' = [sigOf EXCEPT ![t] = s]
                       /\ tx' = [tx EXCEPT ![txOf[t]].sig = s]
  BY DEF SaveSignal
<1>2. /\ pc[t] \in {"logged", "filled"} /\ pc'[t] = "saved" /\ txOf' = txOf
      /\ \A u \in Task : u # t => pc'[u] = pc[u]
  BY DEF TypeOK, SaveSignal, Filled, Goto
<1> USE DEF TypeOK, CallsOwn, InCall, HasSig, OpenPcs, ClosePcs, TxRow
<1>3. OwnTx'
  BY <1>1, <1>2 DEF OwnTx
<1>4. OwnSig'
  BY <1>1, <1>2 DEF OwnSig, OwnTx, TxApart
<1>5. SigStored'
  BY <1>1, <1>2 DEF SigStored, OwnSig, FreshSig
<1>6. TxApart'
  BY <1>1, <1>2 DEF TxApart
<1> QED BY <1>3, <1>4, <1>5, <1>6

\* The steps that touch no call and at most the verdicts of the log.
LEMMA StandOwn ==
  ASSUME TypeOK, CallsOwn, UNCHANGED <<status, pc, txOf, sigOf>>,
         \/ tx' = tx
         \/ \E x \in TxId : \E st \in {"failed", "pending_retry"} : SetTx(x, st)
  PROVE  CallsOwn'
<1>1. \A x \in TxId : /\ tx'[x].kind = tx[x].kind /\ tx'[x].sig = tx[x].sig
                      /\ tx[x].st # "none" => tx'[x].st # "none"
  BY DEF TypeOK, SetTx, TxRow
<1> USE DEF CallsOwn, InCall, HasSig, OpenPcs, ClosePcs
<1>2. OwnTx'
  BY <1>1 DEF OwnTx
<1>3. OwnSig'
  BY <1>1 DEF OwnSig, OwnTx
<1>4. SigStored' /\ TxApart'
  BY DEF SigStored, TxApart
<1> QED BY <1>2, <1>3, <1>4

LEMMA GoneOwn == ProcessGone => CallsOwn'
BY DEF ProcessGone, CallsOwn, OwnTx, OwnSig, SigStored, TxApart, InCall, HasSig,
       OpenPcs, ClosePcs

\* What a running call owns stays its own.
LEMMA OwnStep == TypeOK /\ CallsOwn /\ [Next]_vars => CallsOwn'
<1> SUFFICES ASSUME TypeOK, CallsOwn, [Next]_vars PROVE CallsOwn'
  OBVIOUS
<1> USE DEF dbVars, memVars, lockVars, readVars, bootVars, callVars, histVars
<1>1. CASE UNCHANGED vars
  BY <1>1, StandOwn DEF vars
<1>2. ASSUME NEW t \in Task, Begin(t) PROVE CallsOwn'
  BY <1>2 DEF TypeOK, CallsOwn, OwnTx, OwnSig, SigStored, TxApart, InCall, HasSig,
              OpenPcs, ClosePcs, Begin, Goto
<1>3. ASSUME NEW t \in Task, OpenStep(t) PROVE CallsOwn'
  <2>1. CASE LogOpen(t)
    BY <2>1, LogOwn DEF LogOpen
  <2>2. CASE RejectOpen(t)
    BY <2>2, LeaveOwn DEF RejectOpen, Return, InCall, OpenPcs
  <2>3. CASE BrokerFill(t)
    BY <2>3, MoveOwn DEF BrokerFill, TypeOK, Goto, InCall, HasSig, OpenPcs, ClosePcs
  <2>4. CASE SaveSignal(t)
    BY <2>4, SaveOwn
  <2>5. CASE Register(t)
    BY <2>5, MoveOwn DEF Register, TypeOK, Goto, InCall, HasSig, OpenPcs, ClosePcs
  <2>6. CASE CompleteOpen(t)
    BY <2>6, LeaveOwn DEF CompleteOpen, Return, InCall, OpenPcs
  <2> QED BY <1>3, <2>1, <2>2, <2>3, <2>4, <2>5, <2>6 DEF OpenStep
<1>4. ASSUME NEW t \in Task, CloseStep(t) PROVE CallsOwn'
  <2> USE DEF TypeOK, Goto, InCall, HasSig, OpenPcs, ClosePcs
  <2>1. ASSUME NEW s \in Sig, LogClose(t, s) PROVE CallsOwn'
    BY <2>1, LogOwn DEF LogClose
  <2>2. CASE FindSignal(t)
    BY <2>2, MoveOwn DEF FindSignal
  <2>3. CASE RejectClose(t)
    BY <2>3, LeaveOwn DEF RejectClose, CloseReturns, Return
  <2>4. CASE MarkClosed(t)
    <3>1. sigOf[t] \in Sig
      BY <2>4 DEF CallsOwn, OwnSig, MarkClosed
    <3> QED BY <2>4, <3>1, MoveOwn DEF MarkClosed
  <2>5. CASE CompleteClose(t)
    <3>1. /\ pc[t] = "marked" /\ SetTx(txOf[t], "completed")
          /\ pc' = [pc EXCEPT ![t] = "committed"]
          /\ UNCHANGED <<status, txOf, sigOf>>
      BY <2>5 DEF CompleteClose
    <3>2. \A x \in TxId : /\ tx'[x].kind = tx[x].kind /\ tx'[x].sig = tx[x].sig
                          /\ tx[x].st # "none" => tx'[x].st # "none"
      BY <3>1 DEF SetTx, TxRow
    <3>3. OwnTx'
      BY <3>1, <3>2 DEF CallsOwn, OwnTx
    <3>4. OwnSig'
      BY <3>1, <3>2 DEF CallsOwn, OwnTx, OwnSig
    <3>5. SigStored' /\ TxApart'
      BY <3>1 DEF CallsOwn, SigStored, TxApart
    <3> QED BY <3>3, <3>4, <3>5 DEF CallsOwn
  <2>6. CASE RecordResult(t)
    BY <2>6, MoveOwn DEF RecordResult
  <2>7. CASE SaveRiskState(t)
    BY <2>7, MoveOwn DEF SaveRiskState
  <2>8. CASE Forget(t)
    BY <2>8, LeaveOwn DEF Forget, CloseReturns, Return
  <2> QED BY <1>4, <2>1, <2>2, <2>3, <2>4, <2>5, <2>6, <2>7, <2>8 DEF CloseStep
<1>5. ASSUME NEW t \in Task, BeginScan(t) PROVE CallsOwn'
  BY <1>5 DEF TypeOK, CallsOwn, OwnTx, OwnSig, SigStored, TxApart, InCall, HasSig,
              OpenPcs, ClosePcs, BeginScan, Goto
<1>6. ASSUME NEW t \in Task, ScanStep(t) PROVE CallsOwn'
  <2>1. CASE ScanHold(t)
    BY <2>1, StandOwn DEF ScanHold
  <2>2. CASE ScanExit(t)
    <3>1. PICK s \in todo[t] : LogTx(t, "close_trade", s, "closing")
      BY <2>2 DEF ScanExit
    <3>2. s \in Sig
      BY <3>1 DEF TypeOK
    <3> QED BY <2>2, <3>1, <3>2, LogOwn DEF ScanExit
  <2>3. CASE EndScan(t)
    BY <2>3, LeaveOwn DEF EndScan, Return
  <2> QED BY <1>6, <2>1, <2>2, <2>3 DEF ScanStep
<1>7. ASSUME NEW t \in Task, Abort(t) PROVE CallsOwn'
  BY <1>7, LeaveOwn DEF Abort, Return
<1>8. CASE Crash
  BY <1>8, GoneOwn DEF Crash
<1>9. CASE Startup
  <2>1. CASE Boot \/ LoadState \/ ApplyState \/ RestoreTrailing \/ RecoveryDone
    BY <2>1, StandOwn DEF Boot, LoadState, ApplyState, RestoreTrailing, RecoveryDone
  <2>2. CASE RecoverTx
    BY <2>2, StandOwn DEF RecoverTx, Verdict
  <2>3. CASE RecoveryRaises
    BY <2>3, GoneOwn DEF RecoveryRaises
  <2> QED BY <1>9, <2>1, <2>2, <2>3 DEF Startup
<1> QED BY <1>1, <1>2, <1>3, <1>4, <1>5, <1>6, <1>7, <1>8, <1>9 DEF Next
-----------------------------------------------------------------------------
\* Marking a transaction that is not done, or logging a new one, completes
\* none; a signal keeps being stored, and a closed one stays closed.
LEMMA KeepWAL ==
  ASSUME TypeOK, WALSound,
         \A s \in Sig : status'[s] = status[s] \/ status'[s] = "closed" \/ status[s] = "none",
         \A s \in Sig : status'[s] # "none" \/ status[s] = "none",
         \A x \in TxId : tx'[x].st = "completed" => tx'[x] = tx[x]
  PROVE  WALSound'
<1>1. \A x \in TxId : tx[x].sig \in 0 .. MaxSig /\ (tx[x].sig # 0 => tx[x].sig \in Sig)
  BY BoundAssumption DEF TypeOK, TxRow, Sig
<1>2. \A s \in Sig : status[s] \in {"none", "open", "closed"}
  BY DEF TypeOK
<1> QED BY <1>1, <1>2 DEF WALSound

\* Only the two completing steps write "completed", each after the work is done.
LEMMA WALStep == TypeOK /\ CallsOwn /\ WALSound /\ [Next]_vars => WALSound'
<1> SUFFICES ASSUME TypeOK, CallsOwn, WALSound, [Next]_vars PROVE WALSound'
  OBVIOUS
<1> USE DEF dbVars, memVars, lockVars, readVars, bootVars, callVars, histVars
<1>0. ASSUME UNCHANGED <<status, tx>> PROVE WALSound'
  BY <1>0 DEF WALSound
<1>1. ASSUME UNCHANGED status, NEW x, NEW st \in {"failed", "pending_retry"}, SetTx(x, st)
      PROVE  WALSound'
  BY <1>1, KeepWAL DEF TypeOK, SetTx, TxRow
<1>2. ASSUME UNCHANGED status, NEW t \in Task, NEW kind, NEW s, NEW l,
             LogTx(t, kind, s, l)
      PROVE  WALSound'
  BY <1>2, KeepWAL DEF TypeOK, LogTx, TxRow
<1>3. ASSUME NEW t \in Task, OpenStep(t) PROVE WALSound'
  <2>1. CASE LogOpen(t)
    BY <2>1, <1>2 DEF LogOpen
  <2>2. CASE RejectOpen(t)
    BY <2>2, <1>1 DEF RejectOpen
  <2>3. CASE BrokerFill(t) \/ Register(t)
    BY <2>3, <1>0 DEF BrokerFill, Register
  <2>4. CASE SaveSignal(t)
    <3>1. PICK s \in Sig : /\ FreshSig(s)
                           /\ status' = [status EXCEPT ![s] = "open"]
                           /\ tx' = [tx EXCEPT ![txOf[t]].sig = s]
      BY <2>4 DEF SaveSignal
    <3>2. txOf[t] \in TxId /\ tx[txOf[t]].kind = "open_trade"
      BY <2>4 DEF SaveSignal, Filled, CallsOwn, OwnTx, InCall, OpenPcs
    <3>3. \A x \in TxId : tx[x].sig # 0 => tx[x].sig \in Sig
      BY BoundAssumption DEF TypeOK, TxRow, Sig
    <3>4. s # 0
      BY DEF Sig
    <3> QED BY <3>1, <3>2, <3>3, <3>4 DEF TypeOK, TxRow, WALSound, FreshSig
  <2>6. CASE CompleteOpen(t)
    <3>1. /\ txOf[t] \in TxId /\ tx[txOf[t]].kind = "open_trade"
          /\ tx[txOf[t]].sig = sigOf[t] /\ sigOf[t] \in Sig
          /\ status[sigOf[t]] \in {"open", "closed"}
      BY <2>6 DEF CompleteOpen, CallsOwn, OwnTx, OwnSig, SigStored, InCall, HasSig,
                  OpenPcs
    <3>2. sigOf[t] # 0
      BY <3>1 DEF Sig
    <3> QED BY <2>6, <3>1, <3>2 DEF CompleteOpen, SetTx, TypeOK, TxRow, WALSound
  <2> QED BY <1>3, <2>1, <2>2, <2>3, <2>4, <2>6 DEF OpenStep
<1>4. ASSUME NEW t \in Task, CloseStep(t) PROVE WALSound'
  <2>1. ASSUME NEW s \in Sig, LogClose(t, s) PROVE WALSound'
    BY <2>1, <1>2 DEF LogClose
  <2>2. CASE FindSignal(t) \/ RecordResult(t) \/ SaveRiskState(t) \/ Forget(t)
    BY <2>2, <1>0 DEF FindSignal, RecordResult, SaveRiskState, Forget
  <2>3. CASE RejectClose(t)
    BY <2>3, <1>1 DEF RejectClose
  <2>4. CASE MarkClosed(t)
    BY <2>4, KeepWAL DEF MarkClosed, TypeOK
  <2>5. CASE CompleteClose(t)
    <3>1. /\ txOf[t] \in TxId /\ tx[txOf[t]].kind = "close_trade"
          /\ tx[txOf[t]].sig = sigOf[t] /\ sigOf[t] \in Sig
          /\ status[sigOf[t]] = "closed"
      BY <2>5 DEF CompleteClose, CallsOwn, OwnTx, OwnSig, SigStored, InCall, HasSig,
                  OpenPcs, ClosePcs
    <3>2. sigOf[t] # 0
      BY <3>1 DEF Sig
    <3> QED BY <2>5, <3>1, <3>2 DEF CompleteClose, SetTx, TypeOK, TxRow, WALSound
  <2> QED BY <1>4, <2>1, <2>2, <2>3, <2>4, <2>5 DEF CloseStep
<1>5. ASSUME NEW t \in Task, ScanStep(t) PROVE WALSound'
  BY <1>5, <1>0, <1>2 DEF ScanStep, ScanHold, ScanExit, EndScan
<1>6. CASE Startup
  <2>1. CASE RecoverTx
    BY <2>1, <1>1 DEF RecoverTx, Verdict
  <2>2. CASE ~RecoverTx
    BY <1>6, <2>2, <1>0 DEF Startup, Boot, LoadState, ApplyState, RestoreTrailing,
                            RecoveryRaises, ProcessGone, RecoveryDone
  <2> QED BY <2>1, <2>2
<1>7. ASSUME NEW t \in Task, Begin(t) \/ BeginScan(t) \/ Abort(t) PROVE WALSound'
  BY <1>7, <1>0 DEF Begin, BeginScan, Abort
<1>8. CASE Crash \/ UNCHANGED vars
  BY <1>8, <1>0 DEF Crash, ProcessGone, vars
<1> QED BY <1>3, <1>4, <1>5, <1>6, <1>7, <1>8 DEF Next

LEMMA WALInit == Init => WALSound
BY DEF Init, WALSound, NoRow

\* In every reachable state the database, the process and the running calls
\* are well formed, whoever calls and whenever it times out or crashes.
THEOREM TypeCorrect == Spec => []TypeOK
<1>1. Init => TypeOK /\ CallsOwn
  BY TypeInit, OwnInit
<1>2. TypeOK /\ CallsOwn /\ [Next]_vars => (TypeOK /\ CallsOwn)'
  BY TypeStep, OwnStep
<1> QED BY <1>1, <1>2, PTL DEF Spec

\* The log of transactions never says completed of a trade that was not
\* stored, or of a closing that did not happen.
THEOREM WALSoundness == Spec => []WALSound
<1>1. Init => WALInv
  BY TypeInit, OwnInit, WALInit DEF WALInv
<1>2. WALInv /\ [Next]_vars => WALInv'
  BY TypeStep, OwnStep, WALStep DEF WALInv
<1>3. WALInv => WALSound
  BY DEF WALInv
<1> QED BY <1>1, <1>2, <1>3, PTL DEF Spec
-----------------------------------------------------------------------------
(***************************************************************************)
(* As long as no two calls have found the same signal open (Apart), the    *)
(* detailed closing implements the one-step closing of PositionBook,       *)
(* whoever closes: ticks, scans or direct calls.                           *)
(***************************************************************************)
LEMMA SettleInit == Init => OneSettles /\ ResultOnce
BY DEF Init, OneSettles, ResultOnce, Task

\* A step of call t that neither stores a signal, nor closes one, nor records a
\* result, and at most finds an open one or goes on from a closed one.
LEMMA KeepSettles ==
  ASSUME TypeOK, OneSettles, UNCHANGED <<status, results>>, NEW t \in Task,
         \A u \in Task : u # t => pc'[u] = pc[u] /\ sigOf'[u] = sigOf[u],
         pc'[t] = "found" => status[sigOf'[t]] = "open",
         pc'[t] \in {"marked", "committed"} => pc[t] = "marked" /\ sigOf'[t] = sigOf[t]
  PROVE  OneSettles'
<1>1. \A u \in Task : pc'[u] = "found" => status[sigOf'[u]] = "open"
  BY DEF OneSettles
<1>2. \A u \in Task : pc'[u] \in {"marked", "committed"} =>
                        pc[u] \in {"marked", "committed"} /\ sigOf'[u] = sigOf[u]
  OBVIOUS
<1> QED BY <1>1, <1>2 DEF OneSettles

LEMMA LeaveSettles ==
  ASSUME TypeOK, OneSettles, NEW t \in Task, Return(t) \/ CloseReturns(t),
         UNCHANGED <<status, results>>
  PROVE  OneSettles'
<1>1. /\ pc'[t] \in {"idle", "scan"}
      /\ \A u \in Task : u # t => pc'[u] = pc[u] /\ sigOf'[u] = sigOf[u]
  BY DEF TypeOK, Return, CloseReturns, Goto, Clear
<1> QED BY <1>1, KeepSettles

\* Every action, while no two calls are at the same open signal.
LEMMA SettleStep ==
  TypeOK /\ CallsOwn /\ OneSettles /\ Apart /\ [Next]_vars => OneSettles'
<1> SUFFICES ASSUME TypeOK, CallsOwn, OneSettles, Apart, [Next]_vars PROVE OneSettles'
  OBVIOUS
<1> USE DEF dbVars, memVars, lockVars, readVars, bootVars, callVars, histVars
<1>1. CASE UNCHANGED vars
  BY <1>1 DEF OneSettles, vars
<1>2. ASSUME NEW t \in Task, Begin(t) PROVE OneSettles'
  BY <1>2, KeepSettles DEF TypeOK, Begin, Goto
<1>3. ASSUME NEW t \in Task, OpenStep(t) PROVE OneSettles'
  <2>1. CASE LogOpen(t)
    BY <2>1, KeepSettles DEF TypeOK, LogOpen, LogTx, Goto
  <2>2. CASE RejectOpen(t) \/ CompleteOpen(t)
    BY <2>2, LeaveSettles DEF RejectOpen, CompleteOpen
  <2>3. CASE BrokerFill(t) \/ Register(t)
    BY <2>3, KeepSettles DEF TypeOK, BrokerFill, Register, Goto
  <2>4. CASE SaveSignal(t)
    <3>1. PICK s \in Sig : /\ FreshSig(s)
                           /\ status' = [status EXCEPT ![s] = "open"]
                           /\ sigOf' = [sigOf EXCEPT ![t] = s]
      BY <2>4 DEF SaveSignal
    <3>2. /\ pc'[t] = "saved" /\ UNCHANGED results
          /\ \A u \in Task : u # t => pc'[u] = pc[u]
      BY <2>4 DEF TypeOK, SaveSignal, Goto
    <3>3. \A u \in Task : u # t => sigOf'[u] = sigOf[u]
      BY <3>1 DEF TypeOK
    <3>4. \A u \in Task : pc'[u] \in {"found", "marked", "committed"} =>
            u # t /\ pc[u] = pc'[u] /\ sigOf'[u] = sigOf[u] /\ sigOf[u] # s
      BY <3>1, <3>2, <3>3 DEF OneSettles, FreshSig, CallsOwn, SigStored
    <3>5. \A r \in Sig : r # s => status'[r] = status[r]
      BY <3>1 DEF TypeOK
    <3>6. \A u \in Task : pc'[u] = "found" => status'[sigOf'[u]] = "open"
      BY <3>4, <3>1 DEF OneSettles, TypeOK, CallsOwn, OwnSig, HasSig, ClosePcs
    <3>7. \A r \in Sig : status'[r] # "closed" => results'[r] = 0
      BY <3>1, <3>2, <3>5 DEF OneSettles, FreshSig
    <3> QED BY <3>2, <3>4, <3>6, <3>7 DEF OneSettles
  <2> QED BY <1>3, <2>1, <2>2, <2>3, <2>4 DEF OpenStep
<1>4. ASSUME NEW t \in Task, CloseStep(t) PROVE OneSettles'
  <2>1. ASSUME NEW s \in Sig, LogClose(t, s) PROVE OneSettles'
    BY <2>1, KeepSettles DEF TypeOK, LogClose, LogTx, Goto
  <2>2. CASE FindSignal(t)
    BY <2>2, KeepSettles DEF TypeOK, FindSignal, Goto, VisibleOpen, OpenSignals
  <2>3. CASE RejectClose(t)
    BY <2>3, LeaveSettles DEF RejectClose
  <2>4. CASE MarkClosed(t)
    <3>1. /\ pc[t] = "found" /\ sigOf[t] \in Sig /\ status[sigOf[t]] = "open"
          /\ results[sigOf[t]] = 0
      BY <2>4 DEF OneSettles, MarkClosed, CallsOwn, OwnSig, HasSig, ClosePcs
    <3>2. /\ status' = [status EXCEPT ![sigOf[t]] = "closed"] /\ pc'[t] = "marked"
          /\ \A u \in Task : u # t => pc'[u] = pc[u]
          /\ UNCHANGED <<results, sigOf>>
      BY <2>4 DEF TypeOK, MarkClosed, Goto
    <3>3. \A u \in Task : u # t /\ pc[u] \in {"found", "marked", "committed"}
                            => sigOf[u] # sigOf[t]
      BY <3>1 DEF Apart, CallsOwn, SigStored
    <3>4. \A u \in Task : pc'[u] = "found" => status'[sigOf'[u]] = "open"
      BY <3>2, <3>3 DEF TypeOK, OneSettles, CallsOwn, OwnSig, HasSig, ClosePcs
    <3>5. \A r \in Sig : status'[r] # "closed" => results'[r] = 0
      BY <3>1, <3>2 DEF TypeOK, OneSettles
    <3> QED BY <3>1, <3>2, <3>3, <3>4, <3>5 DEF OneSettles
  <2>5. CASE CompleteClose(t)
    BY <2>5, KeepSettles DEF TypeOK, CompleteClose, Goto
  <2>6. CASE RecordResult(t)
    <3>1. pc[t] = "committed" /\ sigOf[t] \in Sig /\ status[sigOf[t]] = "closed"
      BY <2>6 DEF RecordResult, ClosePcs, CallsOwn, OwnSig, SigStored, HasSig
    <3>2. /\ results' = [results EXCEPT ![sigOf[t]] = @ + 1] /\ pc'[t] = "recorded"
          /\ \A u \in Task : u # t => pc'[u] = pc[u]
          /\ UNCHANGED <<status, sigOf>>
      BY <2>6 DEF TypeOK, RecordResult, Goto
    <3>3. \A u \in Task : pc'[u] \in {"marked", "committed"} =>
            u # t /\ pc[u] \in {"marked", "committed"} /\ sigOf[u] # sigOf[t]
      BY <3>1, <3>2 DEF OneSettles
    <3>4. \A u \in Task : pc'[u] \in {"marked", "committed"} => results'[sigOf'[u]] = 0
      BY <3>2, <3>3 DEF TypeOK, OneSettles, CallsOwn, OwnSig, HasSig, ClosePcs
    <3>5. \A r \in Sig : status'[r] # "closed" => results'[r] = 0
      BY <3>1, <3>2 DEF TypeOK, OneSettles
    <3>6. \A u \in Task : pc'[u] = "found" => status'[sigOf'[u]] = "open"
      BY <3>2 DEF OneSettles
    <3>7. \A u \in Task : pc'[u] \in {"marked", "committed"} =>
                            pc[u] \in {"marked", "committed"} /\ sigOf'[u] = sigOf[u]
      BY <3>2, <3>3
    <3> QED BY <3>4, <3>5, <3>6, <3>7 DEF OneSettles
  <2>7. CASE SaveRiskState(t)
    BY <2>7, KeepSettles DEF TypeOK, SaveRiskState, Goto
  <2>8. CASE Forget(t)
    BY <2>8, LeaveSettles DEF Forget
  <2> QED BY <1>4, <2>1, <2>2, <2>3, <2>4, <2>5, <2>6, <2>7, <2>8 DEF CloseStep
<1>5. ASSUME NEW t \in Task, BeginScan(t) PROVE OneSettles'
  BY <1>5, KeepSettles DEF TypeOK, BeginScan, Goto
<1>6. ASSUME NEW t \in Task, ScanStep(t) PROVE OneSettles'
  <2>1. CASE ScanHold(t)
    BY <2>1 DEF OneSettles, ScanHold
  <2>2. CASE ScanExit(t)
    BY <2>2, KeepSettles DEF TypeOK, ScanExit, LogTx, Goto
  <2>3. CASE EndScan(t)
    BY <2>3, LeaveSettles DEF EndScan
  <2> QED BY <1>6, <2>1, <2>2, <2>3 DEF ScanStep
<1>7. ASSUME NEW t \in Task, Abort(t) PROVE OneSettles'
  BY <1>7, LeaveSettles DEF Abort
<1>8. CASE Startup \/ Crash
  BY <1>8 DEF OneSettles, Crash, ProcessGone, Startup, Boot, LoadState, ApplyState,
              RestoreTrailing, RecoverTx, RecoveryRaises, RecoveryDone
<1> QED BY <1>1, <1>2, <1>3, <1>4, <1>5, <1>6, <1>7, <1>8 DEF Next

\* A step of the program is an opening, a closing or a settlement in the book,
\* or nothing the book shows.
LEMMA BookStep ==
  TypeOK /\ CallsOwn /\ OneSettles /\ [Next]_vars => [Book!Next]_(Book!bookVars)
<1> SUFFICES ASSUME TypeOK, CallsOwn, OneSettles, [Next]_vars
             PROVE  [Book!Next]_(Book!bookVars)
  OBVIOUS
<1> USE DEF dbVars, memVars, lockVars, readVars, bootVars, callVars, histVars
<1>1. ASSUME UNCHANGED <<status, results>> PROVE [Book!Next]_(Book!bookVars)
  BY <1>1 DEF Book!bookVars
<1>2. ASSUME NEW t \in Task, SaveSignal(t) PROVE Book!Next
  BY <1>2 DEF SaveSignal, FreshSig, Book!Next, Book!Open
<1>3. ASSUME NEW t \in Task, MarkClosed(t) PROVE Book!Next
  <2>1. sigOf[t] \in Sig
    BY <1>3 DEF MarkClosed, ClosePcs, CallsOwn, OwnSig, HasSig
  <2> QED BY <1>3, <2>1 DEF OneSettles, MarkClosed, Book!Next, Book!Close
<1>4. ASSUME NEW t \in Task, RecordResult(t) PROVE Book!Next
  <2>1. sigOf[t] \in Sig
    BY <1>4 DEF RecordResult, ClosePcs, CallsOwn, OwnSig, HasSig
  <2>2. results[sigOf[t]] = 0 /\ status[sigOf[t]] = "closed"
    BY <1>4, <2>1 DEF OneSettles, RecordResult, CallsOwn, SigStored
  <2>3. results' = [results EXCEPT ![sigOf[t]] = 1]
    BY <1>4, <2>2 DEF RecordResult
  <2> QED BY <1>4, <2>1, <2>2, <2>3 DEF RecordResult, Book!Next, Book!Settle
<1>5. CASE UNCHANGED vars
  BY <1>1, <1>5 DEF vars
<1>6. ASSUME NEW t \in Task, OpenStep(t) PROVE [Book!Next]_(Book!bookVars)
  BY <1>1, <1>2, <1>6 DEF OpenStep, LogOpen, RejectOpen, BrokerFill, Register, CompleteOpen
<1>7. ASSUME NEW t \in Task, CloseStep(t) PROVE [Book!Next]_(Book!bookVars)
  BY <1>1, <1>3, <1>4, <1>7 DEF CloseStep, LogClose, FindSignal, RejectClose, CompleteClose,
                                SaveRiskState, Forget
<1>8. ASSUME NEW t \in Task, Begin(t) \/ BeginScan(t) \/ ScanStep(t) \/ Abort(t)
      PROVE  [Book!Next]_(Book!bookVars)
  BY <1>1, <1>8 DEF Begin, BeginScan, ScanStep, ScanHold, ScanExit, EndScan, Abort
<1>9. CASE Crash \/ Startup
  BY <1>1, <1>9 DEF Crash, ProcessGone, Startup, Boot, LoadState, ApplyState,
                    RestoreTrailing, RecoverTx, RecoveryRaises, RecoveryDone
<1> QED BY <1>5, <1>6, <1>7, <1>8, <1>9 DEF Next

\* The book settles a trade at most once, hence so does the program.
LEMMA OnceStep ==
  TypeOK /\ ResultOnce /\ [Book!Next]_(Book!bookVars) => ResultOnce'
BY DEF TypeOK, ResultOnce, Book!Next, Book!bookVars, Book!Open, Book!Close, Book!Settle

\* As long as no two calls have found the same signal open, opening and closing
\* one implements PositionBook for any number of openers, ticks, scans and
\* direct close_signal calls, cut-off calls and crashes included.
THEOREM ApartImplementsBook == Spec /\ []Apart => BookSpec
<1>1. Init => Book!Init /\ BookInv
  BY TypeInit, OwnInit, SettleInit DEF BookInv, Init, Book!Init
<1>2. BookInv /\ Apart /\ [Next]_vars => BookInv' /\ [Book!Next]_(Book!bookVars)
  BY TypeStep, OwnStep, SettleStep, BookStep, OnceStep DEF BookInv
<1> QED BY <1>1, <1>2, PTL DEF Spec, BookSpec, Book!Spec

\* ... and no result reaches the risk manager twice.
THEOREM ApartSettlesOnce == Spec /\ []Apart => []ResultOnce
<1>1. Init => BookInv
  BY TypeInit, OwnInit, SettleInit DEF BookInv
<1>2. BookInv /\ Apart /\ [Next]_vars => BookInv'
  BY TypeStep, OwnStep, SettleStep, BookStep, OnceStep DEF BookInv
<1>3. BookInv => ResultOnce
  BY DEF BookInv
<1> QED BY <1>1, <1>2, <1>3, PTL DEF Spec

\* Who can be in a closing, and that a tick in one holds the tick lock.
LEMMA TickInit == Init => TickInv
BY DEF Init, TickInv, ClosePcs, Task, Scanners

LEMMA KeepTick ==
  ASSUME TypeOK, TickInv, NEW t \in Task,
         \A u \in Task : u # t => pc'[u] = pc[u],
         \A u \in Task : u # t /\ tickLock = u => tickLock' = u,
         pc'[t] \in {"scan"} \cup ClosePcs =>
           /\ t \in Tickers => tickLock' = t
           /\ t \in Closers \cup Scanners
  PROVE  TickInv'
BY DEF TickInv, Task, Scanners

LEMMA TickLeave ==
  ASSUME TypeOK, TickInv, NEW t \in Task, Return(t)
  PROVE  TickInv'
<1>1. pc'[t] = "idle" /\ \A u \in Task : u # t => pc'[u] = pc[u]
  BY DEF TypeOK, Return, Goto
<1>2. \A u \in Task : u # t /\ tickLock = u => tickLock' = u
  BY DEF Return, Release
<1> QED BY <1>1, <1>2, KeepTick DEF ClosePcs

\* A call that is in a closing or a scan and stays in it.
LEMMA TickOn ==
  ASSUME TypeOK, TickInv, NEW t \in Task, pc[t] \in {"scan"} \cup ClosePcs,
         NEW l, Goto(t, l), UNCHANGED tickLock
  PROVE  TickInv'
<1>1. \A u \in Task : u # t => pc'[u] = pc[u]
  BY DEF TypeOK, Goto
<1> QED BY <1>1, KeepTick DEF TickInv

LEMMA TickStep == TypeOK /\ TickInv /\ [Next]_vars => TickInv'
<1> SUFFICES ASSUME TypeOK, TickInv, [Next]_vars PROVE TickInv'
  OBVIOUS
<1> USE DEF dbVars, memVars, lockVars, readVars, bootVars, callVars, histVars
<1>1. CASE UNCHANGED vars
  BY <1>1 DEF TickInv, vars
<1>2. ASSUME NEW t \in Task, Begin(t) PROVE TickInv'
  BY <1>2, KeepTick DEF TypeOK, Begin, Goto, ClosePcs
<1>3. ASSUME NEW t \in Task, OpenStep(t) PROVE TickInv'
  <2>1. CASE LogOpen(t) \/ BrokerFill(t) \/ Register(t) \/ SaveSignal(t)
    BY <2>1, KeepTick
       DEF TypeOK, LogOpen, LogTx, BrokerFill, Register, SaveSignal, Goto, ClosePcs
  <2>2. CASE RejectOpen(t) \/ CompleteOpen(t)
    BY <2>2, TickLeave DEF RejectOpen, CompleteOpen
  <2> QED BY <1>3, <2>1, <2>2 DEF OpenStep
<1>4. ASSUME NEW t \in Task, CloseStep(t) PROVE TickInv'
  <2>1. ASSUME NEW s \in Sig, LogClose(t, s) PROVE TickInv'
    BY <2>1, KeepTick, TaskAssumption DEF TypeOK, LogClose, LogTx, Goto, Scanners
  <2>2. CASE \/ FindSignal(t) \/ MarkClosed(t) \/ CompleteClose(t) \/ RecordResult(t)
             \/ SaveRiskState(t)
    BY <2>2, TickOn
       DEF FindSignal, MarkClosed, CompleteClose, RecordResult, SaveRiskState, ClosePcs
  <2>3. CASE RejectClose(t) \/ Forget(t)
    BY <2>3, TickOn, TickLeave DEF RejectClose, Forget, CloseReturns, ClosePcs
  <2> QED BY <1>4, <2>1, <2>2, <2>3 DEF CloseStep
<1>5. ASSUME NEW t \in Task, BeginScan(t) PROVE TickInv'
  BY <1>5, KeepTick, TaskAssumption DEF TypeOK, BeginScan, TickFree, Goto, Scanners
<1>6. ASSUME NEW t \in Task, ScanStep(t) PROVE TickInv'
  <2>1. CASE ScanHold(t)
    BY <2>1 DEF TickInv, ScanHold
  <2>2. CASE ScanExit(t)
    BY <2>2, TickOn DEF ScanExit, LogTx
  <2>3. CASE EndScan(t)
    BY <2>3, TickLeave DEF EndScan
  <2> QED BY <1>6, <2>1, <2>2, <2>3 DEF ScanStep
<1>7. ASSUME NEW t \in Task, Abort(t) PROVE TickInv'
  BY <1>7, TickLeave DEF Abort
<1>8. CASE Startup \/ Crash
  BY <1>8 DEF TickInv, Crash, ProcessGone, Startup, Boot, LoadState, ApplyState,
              RestoreTrailing, RecoverTx, RecoveryRaises, RecoveryDone, ClosePcs, Task,
              Scanners
<1> QED BY <1>1, <1>2, <1>3, <1>4, <1>5, <1>6, <1>7, <1>8 DEF Next

\* The tick lock keeps the ticks apart, and a single caller has nobody to meet:
\* then the two theorems above hold without their hypothesis.  (Two direct
\* callers do meet: exec_double_close.)
THEOREM LockKeepsApart == ASSUME TicksOnly \/ OneCloses PROVE Spec => []Apart
<1>1. Init => TypeOK /\ CallsOwn /\ TickInv
  BY TypeInit, OwnInit, TickInit
<1>2. TypeOK /\ CallsOwn /\ TickInv /\ [Next]_vars => (TypeOK /\ CallsOwn /\ TickInv)'
  BY TypeStep, OwnStep, TickStep
<1>3. TickInv => Apart
  <2> SUFFICES ASSUME TickInv, NEW t \in Task, NEW u \in Task, t # u, pc[t] = "found",
                      pc[u] = "found"
               PROVE  FALSE
    BY DEF Apart
  <2>1. t \in Closers \cup Scanners /\ u \in Closers \cup Scanners
    BY DEF TickInv, ClosePcs
  <2>2. CASE OneCloses
    BY <2>1, <2>2 DEF OneCloses
  <2>3. CASE TicksOnly
    BY <2>1, <2>3 DEF TicksOnly, Scanners, TickInv, ClosePcs
  <2> QED BY <2>2, <2>3
<1> QED BY <1>1, <1>2, <1>3, PTL DEF Spec
-----------------------------------------------------------------------------
(***************************************************************************)
(* Who a pending transaction belongs to.                                   *)
(***************************************************************************)
\* A step of call t in which every transaction that is pending afterwards is
\* t's own, or was pending before and t has not walked away from it.
LEMMA KeepPending ==
  ASSUME TypeOK, CallsOwn', PendingKept, NEW t \in Task, UNCHANGED <<phase, toRecover>>,
         dropped \subseteq dropped',
         \A u \in Task : u # t => pc'[u] = pc[u] /\ txOf'[u] = txOf[u],
         \A x \in TxId : tx'[x].st = "pending" =>
           \/ InCall(t)' /\ txOf'[t] = x
           \/ tx[x].st = "pending" /\ (InCall(t) /\ txOf[t] = x => x \in dropped'),
         pc'[t] \in {"committed", "recorded", "persisted"} => tx'[txOf'[t]].st # "pending"
  PROVE  PendingKept'
<1>1. ASSUME NEW x \in TxId, tx'[x].st = "pending", phase \in {"recovering", "up"}
      PROVE  x \in toRecover' \cup dropped' \/ Owned(x)'
  <2>1. CASE InCall(t)' /\ txOf'[t] = x
    BY <2>1 DEF Owned
  <2>2. CASE tx[x].st = "pending" /\ (InCall(t) /\ txOf[t] = x => x \in dropped')
    <3>1. x \in toRecover \cup dropped \/ \E u \in Task : InCall(u) /\ txOf[u] = x
      BY <1>1, <2>2 DEF PendingKept, Owned
    <3> QED BY <2>2, <3>1 DEF Owned, InCall
  <2> QED BY <1>1, <2>1, <2>2
<1>2. ASSUME NEW u \in Task, pc'[u] \in {"committed", "recorded", "persisted"}
      PROVE  tx'[txOf'[u]].st # "pending"
  <2>1. CASE u = t
    BY <1>2, <2>1
  <2>2. CASE u # t
    <3>1. pc[u] = pc'[u] /\ txOf[u] = txOf'[u] /\ InCall(u)'
      BY <1>2, <2>2 DEF InCall, ClosePcs
    <3>2. txOf'[u] \in TxId /\ (InCall(t)' => txOf'[t] # txOf'[u])
      BY <2>2, <3>1 DEF CallsOwn, OwnTx, TxApart
    <3>3. tx[txOf[u]].st # "pending"
      BY <1>2, <3>1 DEF PendingKept
    <3> QED BY <3>1, <3>2, <3>3
  <2> QED BY <2>1, <2>2
<1> QED BY <1>1, <1>2 DEF PendingKept

LEMMA PendingInit == Init => PendingKept
BY DEF Init, PendingKept

\* No step leaves a pending transaction to nobody.
LEMMA PendingStep == TypeOK /\ CallsOwn /\ PendingKept /\ [Next]_vars => PendingKept'
<1> SUFFICES ASSUME TypeOK, CallsOwn, PendingKept, [Next]_vars PROVE PendingKept'
  OBVIOUS
<1> USE DEF dbVars, memVars, lockVars, readVars, bootVars, callVars, histVars
<1>0. CallsOwn'
  BY OwnStep
<1>1. CASE UNCHANGED vars
  BY <1>1 DEF vars, PendingKept, Owned, InCall
<1>2. ASSUME NEW t \in Task, Begin(t) \/ BeginScan(t) \/ ScanHold(t) PROVE PendingKept'
  BY <1>0, <1>2, KeepPending
     DEF TypeOK, Begin, BeginScan, ScanHold, Goto, InCall, OpenPcs, ClosePcs
\* log_transaction: the new row is the call's own.
<1>3. ASSUME NEW t \in Task, NEW kind, NEW s, NEW l \in {"logged", "closing"},
             LogTx(t, kind, s, l), ~InCall(t), UNCHANGED <<phase, toRecover, dropped>>
      PROVE  PendingKept'
  <2>1. PICK x \in TxId : LogTx(t, kind, s, l)!(x)
    BY <1>3 DEF LogTx
  <2>2. /\ pc'[t] = l /\ txOf'[t] = x
        /\ \A y \in TxId : y # x => tx'[y] = tx[y]
        /\ \A u \in Task : u # t => pc'[u] = pc[u] /\ txOf'[u] = txOf[u]
    BY <2>1 DEF TypeOK, Goto
  <2> QED BY <1>0, <1>3, <2>2, KeepPending DEF InCall, OpenPcs, ClosePcs
\* A verdict: nothing else of the log changes.
<1>4. ASSUME NEW t \in Task, NEW st \in {"failed", "completed"}, InCall(t),
             SetTx(txOf[t], st), UNCHANGED <<phase, toRecover, dropped>>,
             \A u \in Task : u # t => pc'[u] = pc[u] /\ txOf'[u] = txOf[u],
             pc'[t] \notin {"recorded", "persisted"},
             pc'[t] = "committed" => txOf'[t] = txOf[t]
      PROVE  PendingKept'
  <2>1. txOf[t] \in TxId
    BY <1>4 DEF CallsOwn, OwnTx
  <2>2. /\ tx'[txOf[t]].st = st
        /\ \A x \in TxId : x # txOf[t] => tx'[x].st = tx[x].st
    BY <1>4, <2>1 DEF TypeOK, TxRow, SetTx
  <2> QED BY <1>0, <1>4, <2>2, KeepPending
\* A step inside a call that gives no verdict.
<1>5. ASSUME NEW t \in Task, UNCHANGED <<phase, toRecover, dropped, txOf>>,
             \A x \in TxId : tx'[x].st = tx[x].st, NEW l \in OpenPcs \cup ClosePcs,
             InCall(t), Goto(t, l),
             l \in {"committed", "recorded", "persisted"} => pc[t] \in {"committed", "recorded"}
      PROVE  PendingKept'
  <2>1. pc'[t] = l /\ \A u \in Task : u # t => pc'[u] = pc[u]
    BY <1>5 DEF TypeOK, Goto
  <2>2. txOf[t] \in TxId /\ InCall(t)'
    BY <1>5, <2>1 DEF CallsOwn, OwnTx, InCall
  <2>3. l \in {"committed", "recorded", "persisted"} => tx'[txOf'[t]].st # "pending"
    BY <1>5, <2>2 DEF PendingKept
  <2> QED BY <1>0, <1>5, <2>1, <2>2, <2>3, KeepPending
\* A call that returns or is ended leaves its transaction dropped or done.
<1>6. ASSUME NEW t \in Task, Return(t) \/ CloseReturns(t), dropped \subseteq dropped',
             UNCHANGED <<phase, toRecover, tx>>,
             InCall(t) => txOf[t] \in dropped' \/ tx[txOf[t]].st # "pending"
      PROVE  PendingKept'
  <2>1. /\ pc'[t] \in {"idle", "scan"}
        /\ \A u \in Task : u # t => pc'[u] = pc[u] /\ txOf'[u] = txOf[u]
    BY <1>6 DEF TypeOK, CloseReturns, Return, Goto, Clear
  <2> QED BY <1>0, <1>6, <2>1, KeepPending
<1>7. ASSUME NEW t \in Task, OpenStep(t) PROVE PendingKept'
  <2>1. CASE LogOpen(t)
    BY <1>3, <2>1 DEF LogOpen, InCall, OpenPcs, ClosePcs
  <2>2. CASE RejectOpen(t) \/ CompleteOpen(t)
    <3>1. InCall(t) /\ \E st \in {"failed", "completed"} : SetTx(txOf[t], st)
      BY <2>2 DEF RejectOpen, CompleteOpen, InCall, OpenPcs
    <3>2. /\ UNCHANGED <<phase, toRecover, dropped>> /\ pc'[t] = "idle"
          /\ \A u \in Task : u # t => pc'[u] = pc[u] /\ txOf'[u] = txOf[u]
      BY <2>2 DEF TypeOK, RejectOpen, CompleteOpen, Return, Goto, Clear
    <3> QED BY <1>4, <3>1, <3>2
  <2>3. CASE BrokerFill(t) \/ Register(t)
    BY <1>5, <2>3 DEF BrokerFill, Register, InCall, OpenPcs
  <2>4. CASE SaveSignal(t)
    <3>1. \A x \in TxId : tx'[x].st = tx[x].st
      BY <2>4 DEF SaveSignal, TypeOK, TxRow
    <3>2. InCall(t) /\ Goto(t, "saved") /\ UNCHANGED <<phase, toRecover, dropped, txOf>>
      BY <2>4 DEF SaveSignal, Filled, InCall, OpenPcs
    <3> QED BY <1>5, <3>1, <3>2 DEF OpenPcs
  <2> QED BY <1>7, <2>1, <2>2, <2>3, <2>4 DEF OpenStep
<1>8. ASSUME NEW t \in Task, CloseStep(t) PROVE PendingKept'
  <2>1. ASSUME NEW s \in Sig, LogClose(t, s) PROVE PendingKept'
    BY <1>3, <2>1 DEF LogClose, InCall, OpenPcs, ClosePcs
  <2>2. CASE FindSignal(t) \/ MarkClosed(t) \/ RecordResult(t) \/ SaveRiskState(t)
    BY <1>5, <2>2 DEF FindSignal, MarkClosed, RecordResult, SaveRiskState, InCall, ClosePcs
  <2>3. CASE RejectClose(t)
    <3>1. InCall(t) /\ SetTx(txOf[t], "failed")
      BY <2>3 DEF RejectClose, InCall, ClosePcs
    <3>2. /\ UNCHANGED <<phase, toRecover, dropped>> /\ pc'[t] \in {"idle", "scan"}
          /\ \A u \in Task : u # t => pc'[u] = pc[u] /\ txOf'[u] = txOf[u]
      BY <2>3 DEF TypeOK, RejectClose, CloseReturns, Return, Goto, Clear
    <3> QED BY <1>4, <3>1, <3>2
  <2>4. CASE CompleteClose(t)
    <3>1. InCall(t) /\ SetTx(txOf[t], "completed")
      BY <2>4 DEF CompleteClose, InCall, ClosePcs
    <3>2. /\ UNCHANGED <<phase, toRecover, dropped, txOf>> /\ pc'[t] = "committed"
          /\ \A u \in Task : u # t => pc'[u] = pc[u]
      BY <2>4 DEF TypeOK, CompleteClose, Goto
    <3> QED BY <1>4, <3>1, <3>2
  <2>5. CASE Forget(t)
    <3>1. tx[txOf[t]].st # "pending"
      BY <2>5 DEF Forget, PendingKept
    <3> QED BY <1>6, <2>5, <3>1 DEF Forget
  <2> QED BY <1>8, <2>1, <2>2, <2>3, <2>4, <2>5 DEF CloseStep
<1>9. ASSUME NEW t \in Task, ScanExit(t) \/ EndScan(t) PROVE PendingKept'
  <2>1. CASE ScanExit(t)
    BY <1>3, <2>1 DEF ScanExit, InCall, OpenPcs, ClosePcs
  <2>2. CASE EndScan(t)
    BY <1>6, <2>2 DEF EndScan, InCall, OpenPcs, ClosePcs
  <2> QED BY <1>9, <2>1, <2>2
<1>10. ASSUME NEW t \in Task, Abort(t) PROVE PendingKept'
  BY <1>6, <1>10 DEF Abort, InCall, OpenPcs, ClosePcs
<1>11. CASE Crash \/ RecoveryRaises
  BY <1>11 DEF Crash, RecoveryRaises, ProcessGone, PendingKept
<1>12. CASE Startup
  <2>1. CASE Boot \/ LoadState \/ ApplyState
    BY <2>1 DEF Boot, LoadState, ApplyState, PendingKept
  <2>2. CASE RestoreTrailing
    BY <2>2 DEF RestoreTrailing, PendingTx, PendingKept
  <2>3. CASE RecoverTx
    <3>1. PICK x \in TxId : /\ SetTx(x, Verdict(tx[x].kind)) /\ toRecover' = toRecover \ {x}
      BY <2>3 DEF RecoverTx
    <3>2. /\ tx'[x].st # "pending"
          /\ \A y \in TxId : y # x => tx'[y].st = tx[y].st
      BY <3>1 DEF TypeOK, TxRow, SetTx, Verdict
    <3>3. phase = "recovering" /\ UNCHANGED <<phase, dropped, pc, txOf>>
      BY <2>3 DEF RecoverTx
    <3>4. \A t \in Task : pc[t] \in {"committed", "recorded", "persisted"} => txOf[t] \in TxId
      BY DEF CallsOwn, OwnTx, InCall, ClosePcs
    <3> QED BY <3>1, <3>2, <3>3, <3>4 DEF PendingKept, Owned, InCall
  <2>4. CASE RecoveryDone
    BY <2>4 DEF RecoveryDone, PendingKept, Owned, InCall
  <2> QED BY <1>11, <1>12, <2>1, <2>2, <2>3, <2>4 DEF Startup
<1> QED BY <1>1, <1>2, <1>7, <1>8, <1>9, <1>10, <1>11, <1>12 DEF Next, ScanStep

\* Once the process is up, every pending transaction is the business of a call
\* that runs or that a timeout or an error has ended: no crash leaves one that
\* nobody will ever look at, whoever calls during start-up.
THEOREM PendingIsOwned == Spec => []PendingOwned
<1>1. Init => TypeOK /\ CallsOwn /\ PendingKept
  BY TypeInit, OwnInit, PendingInit
<1>2. TypeOK /\ CallsOwn /\ PendingKept /\ [Next]_vars => (TypeOK /\ CallsOwn /\ PendingKept)'
  BY TypeStep, OwnStep, PendingStep
<1>3. PendingKept => PendingOwned
  BY DEF PendingKept, PendingOwned, Owned
<1> QED BY <1>1, <1>2, <1>3, PTL DEF Spec
-----------------------------------------------------------------------------
(***************************************************************************)
(* With a broker: what is stored has been filled.                          *)
(***************************************************************************)
LEMMA FoundInit == Init => FoundStored
BY DEF Init, FoundStored

\* A signal that is stored stays stored.
LEMMA StoredStep ==
  ASSUME TypeOK, [Next]_vars
  PROVE  \A s \in Sig : status[s] # "none" => status'[s] # "none"
<1> USE DEF dbVars, memVars, lockVars, readVars, bootVars, callVars, histVars, TypeOK
<1>1. CASE Startup \/ Crash \/ UNCHANGED vars
  BY <1>1 DEF Startup, Boot, LoadState, ApplyState, RestoreTrailing, RecoverTx,
              RecoveryRaises, RecoveryDone, Crash, ProcessGone, vars
<1>2. ASSUME NEW t \in Task, OpenStep(t)
      PROVE  \A s \in Sig : status[s] # "none" => status'[s] # "none"
  BY <1>2 DEF OpenStep, LogOpen, RejectOpen, BrokerFill, SaveSignal, Register, CompleteOpen
<1>3. ASSUME NEW t \in Task, CloseStep(t)
      PROVE  \A s \in Sig : status[s] # "none" => status'[s] # "none"
  BY <1>3 DEF CloseStep, LogClose, FindSignal, RejectClose, MarkClosed, CompleteClose,
              RecordResult, SaveRiskState, Forget
<1>4. ASSUME NEW t \in Task, Begin(t) \/ BeginScan(t) \/ ScanStep(t) \/ Abort(t)
      PROVE  \A s \in Sig : status[s] # "none" => status'[s] # "none"
  BY <1>4 DEF Begin, BeginScan, ScanStep, ScanHold, ScanExit, EndScan, Abort
<1> QED BY <1>1, <1>2, <1>3, <1>4 DEF Next

\* Only FindSignal finds, and only what is stored.
LEMMA FoundStep == TypeOK /\ CallsOwn /\ FoundStored /\ [Next]_vars => FoundStored'
<1> SUFFICES ASSUME TypeOK, CallsOwn, FoundStored, [Next]_vars,
                    NEW u \in Task, pc'[u] = "found"
             PROVE  status'[sigOf'[u]] # "none"
  BY DEF FoundStored
<1> USE DEF dbVars, memVars, lockVars, readVars, bootVars, callVars, histVars, TypeOK, Goto
<1>1. CASE pc[u] = "found" /\ sigOf'[u] = sigOf[u]
  <2>1. sigOf[u] \in Sig
    BY <1>1 DEF CallsOwn, OwnSig, HasSig, ClosePcs
  <2> QED BY <1>1, <2>1, StoredStep DEF FoundStored
<1>2. CASE Startup \/ Crash \/ UNCHANGED vars
  BY <1>1, <1>2 DEF Startup, Boot, LoadState, ApplyState, RestoreTrailing, RecoverTx,
                    RecoveryRaises, RecoveryDone, Crash, ProcessGone, vars
<1>3. ASSUME NEW t \in Task, OpenStep(t) PROVE pc[u] = "found" /\ sigOf'[u] = sigOf[u]
  BY <1>3 DEF OpenStep, LogOpen, RejectOpen, BrokerFill, SaveSignal, Register, CompleteOpen,
              LogTx, Return, Clear, Filled
<1>4. ASSUME NEW t \in Task, FindSignal(t) PROVE status'[sigOf'[u]] # "none"
  <2>1. CASE u = t
    BY <1>4, <2>1 DEF FindSignal, VisibleOpen, OpenSignals
  <2>2. CASE u # t
    BY <1>1, <1>4, <2>2 DEF FindSignal
  <2> QED BY <2>1, <2>2
<1>5. ASSUME NEW t \in Task, CloseStep(t), ~FindSignal(t)
      PROVE  pc[u] = "found" /\ sigOf'[u] = sigOf[u]
  BY <1>5 DEF CloseStep, LogClose, RejectClose, MarkClosed, CompleteClose,
              RecordResult, SaveRiskState, Forget, LogTx, CloseReturns, Return, Clear
<1>6. ASSUME NEW t \in Task, Begin(t) \/ BeginScan(t) \/ ScanStep(t) \/ Abort(t)
      PROVE  pc[u] = "found" /\ sigOf'[u] = sigOf[u]
  BY <1>6 DEF Begin, BeginScan, ScanStep, ScanHold, ScanExit, EndScan, Abort, LogTx, Return,
              Clear
<1> QED BY <1>1, <1>2, <1>3, <1>4, <1>5, <1>6 DEF Next

LEMMA FillInit == Init => FillKept /\ SignalBacked
BY DEF Init, FillKept, SignalBacked

\* The rows of filled orders keep naming the trade they filled; a row names a
\* trade before that trade is there for others to see.
LEMMA FillStep ==
  TypeOK /\ CallsOwn /\ FoundStored /\ FillKept /\ SignalBacked /\ [Next]_vars
  => (FillKept /\ SignalBacked)'
<1> SUFFICES ASSUME TypeOK, CallsOwn, FoundStored, FillKept, SignalBacked, [Next]_vars
             PROVE  FillKept' /\ SignalBacked'
  OBVIOUS
<1> USE DEF dbVars, memVars, lockVars, readVars, bootVars, callVars, histVars
<1>0. TypeOK'
  BY TypeStep
\* A verdict, or nothing, is written to the log; no call comes to these places.
<1>1. ASSUME UNCHANGED positions, \A s \in Sig : status'[s] = "none" <=> status[s] = "none",
             \A x \in TxId : /\ tx'[x].sig = tx[x].sig
                             /\ tx[x].st # "none" => tx'[x].st # "none",
             \A t \in Task : pc'[t] \in {"logged", "filled"} =>
                               pc'[t] = pc[t] /\ txOf'[t] = txOf[t]
      PROVE  FillKept' /\ SignalBacked'
  <2>1. \A t \in Task : pc[t] \in {"logged", "filled"} => txOf[t] \in TxId
    BY DEF CallsOwn, OwnTx, InCall, OpenPcs
  <2>2. positions \subseteq TxId
    BY DEF TypeOK
  <2> QED BY <1>1, <2>1, <2>2 DEF FillKept, SignalBacked
<1>2. ASSUME NEW x, NEW st \in {"failed", "completed", "pending_retry"}, SetTx(x, st)
      PROVE  \A y \in TxId : /\ tx'[y].sig = tx[y].sig
                             /\ tx[y].st # "none" => tx'[y].st # "none"
  BY <1>2 DEF TypeOK, TxRow, SetTx
\* log_transaction uses a row that no order and no call has.
<1>3. ASSUME NEW t \in Task, NEW kind, NEW s, NEW l, LogTx(t, kind, s, l),
             UNCHANGED <<status, positions>>, l # "filled", l = "logged" => s = 0
      PROVE  FillKept' /\ SignalBacked'
  <2>1. PICK x \in TxId : LogTx(t, kind, s, l)!(x)
    BY <1>3 DEF LogTx
  <2>2. /\ pc'[t] = l /\ txOf'[t] = x /\ tx'[x].sig = s /\ tx'[x].st = "pending"
        /\ \A y \in TxId : y # x => tx'[y] = tx[y]
        /\ \A u \in Task : u # t => pc'[u] = pc[u] /\ txOf'[u] = txOf[u]
    BY <2>1 DEF TypeOK, Goto
  <2>3. x \notin positions /\ positions \subseteq TxId
    BY <2>1 DEF FillKept, FreshTx, TypeOK
  <2>4. \A u \in Task : pc[u] \in {"logged", "filled"} => txOf[u] \in TxId /\ txOf[u] # x
    BY <2>1 DEF CallsOwn, OwnTx, InCall, OpenPcs, FreshTx
  <2>5. \A u \in Task : pc'[u] \in {"logged", "filled"} =>
          IF u = t THEN l = "logged" ELSE pc'[u] = pc[u] /\ txOf'[u] = txOf[u]
    BY <1>3, <2>2
  <2>6. FillKept'
    BY <1>3, <2>2, <2>3, <2>4, <2>5 DEF FillKept
  <2>7. SignalBacked'
    BY <1>3, <2>2, <2>3 DEF SignalBacked
  <2> QED BY <2>6, <2>7
<1>4. ASSUME NEW t \in Task, OpenStep(t) PROVE FillKept' /\ SignalBacked'
  <2>1. CASE LogOpen(t)
    BY <1>3, <2>1 DEF LogOpen
  <2>2. CASE RejectOpen(t) \/ CompleteOpen(t)
    <3>1. \A y \in TxId : /\ tx'[y].sig = tx[y].sig
                          /\ tx[y].st # "none" => tx'[y].st # "none"
      BY <1>2, <2>2 DEF RejectOpen, CompleteOpen
    <3> QED BY <1>1, <2>2, <3>1 DEF TypeOK, RejectOpen, CompleteOpen, Return, Goto, Clear
  <2>3. CASE BrokerFill(t)
    <3>1. txOf[t] \in TxId /\ tx[txOf[t]].st # "none" /\ tx[txOf[t]].sig = 0
      BY <2>3 DEF BrokerFill, CallsOwn, OwnTx, InCall, OpenPcs, FillKept
    <3> QED BY <2>3, <3>1 DEF BrokerFill, FillKept, SignalBacked, TypeOK, Goto
  <2>4. CASE SaveSignal(t)
    <3>1. PICK s \in Sig : /\ FreshSig(s)
                           /\ status' = [status EXCEPT ![s] = "open"]
                           /\ tx' = [tx EXCEPT ![txOf[t]].sig = s]
      BY <2>4 DEF SaveSignal
    <3>2. /\ pc[t] \in {"logged", "filled"} /\ (Live => pc[t] = "filled")
          /\ pc'[t] = "saved" /\ UNCHANGED <<txOf, positions>>
          /\ \A u \in Task : u # t => pc'[u] = pc[u]
      BY <2>4 DEF TypeOK, SaveSignal, Filled, Goto
    <3>3. txOf[t] \in TxId /\ tx[txOf[t]].sig = 0
      BY <3>2 DEF CallsOwn, OwnTx, InCall, OpenPcs, FillKept
    <3>4. /\ tx'[txOf[t]].sig = s /\ tx'[txOf[t]].st = tx[txOf[t]].st
          /\ \A x \in TxId : x # txOf[t] => tx'[x] = tx[x]
      BY <3>1, <3>3 DEF TypeOK, TxRow
    <3>5. \A u \in Task : u # t /\ pc[u] \in {"logged", "filled"} =>
            txOf[u] \in TxId /\ txOf[u] # txOf[t]
      BY <3>2 DEF CallsOwn, OwnTx, TxApart, InCall, OpenPcs
    <3>6. FillKept'
      BY <3>2, <3>4, <3>5 DEF FillKept, TypeOK
    <3>7. SignalBacked'
      <4>1. SUFFICES ASSUME Live, NEW r \in Sig, status'[r] # "none"
                     PROVE  \E x \in positions' : tx'[x].sig = r
        BY DEF SignalBacked
      <4>2. CASE r = s
        BY <3>2, <3>4, <4>1, <4>2 DEF FillKept
      <4>3. CASE r # s
        <5>1. PICK x \in positions : tx[x].sig = r
          BY <3>1, <4>1, <4>3 DEF SignalBacked, TypeOK
        <5>2. r # 0
          BY DEF Sig
        <5> QED BY <3>2, <3>3, <3>4, <5>1, <5>2 DEF TypeOK
      <4> QED BY <4>2, <4>3
    <3> QED BY <3>6, <3>7
  <2>5. CASE Register(t)
    BY <1>1, <2>5 DEF TypeOK, Register, Goto
  <2> QED BY <1>4, <2>1, <2>2, <2>3, <2>4, <2>5 DEF OpenStep
<1>5. ASSUME NEW t \in Task, CloseStep(t) PROVE FillKept' /\ SignalBacked'
  <2>1. ASSUME NEW s \in Sig, LogClose(t, s) PROVE FillKept' /\ SignalBacked'
    BY <1>3, <2>1 DEF LogClose
  <2>2. CASE FindSignal(t) \/ RecordResult(t) \/ SaveRiskState(t)
    BY <1>1, <2>2 DEF TypeOK, FindSignal, RecordResult, SaveRiskState, Goto
  <2>3. CASE RejectClose(t) \/ CompleteClose(t)
    <3>1. \A y \in TxId : /\ tx'[y].sig = tx[y].sig
                          /\ tx[y].st # "none" => tx'[y].st # "none"
      BY <1>2, <2>3 DEF RejectClose, CompleteClose
    <3> QED BY <1>1, <2>3, <3>1
            DEF TypeOK, RejectClose, CompleteClose, CloseReturns, Return, Goto, Clear
  <2>4. CASE MarkClosed(t)
    <3>1. sigOf[t] \in Sig /\ status[sigOf[t]] # "none"
      BY <2>4 DEF MarkClosed, CallsOwn, OwnSig, HasSig, ClosePcs, FoundStored
    <3> QED BY <1>1, <2>4, <3>1 DEF TypeOK, MarkClosed, Goto
  <2>5. CASE Forget(t)
    BY <1>1, <2>5 DEF TypeOK, Forget, CloseReturns, Return, Goto, Clear
  <2> QED BY <1>5, <2>1, <2>2, <2>3, <2>4, <2>5 DEF CloseStep
<1>6. ASSUME NEW t \in Task, Begin(t) \/ BeginScan(t) \/ ScanHold(t) \/ EndScan(t) \/ Abort(t)
      PROVE  FillKept' /\ SignalBacked'
  BY <1>1, <1>6 DEF TypeOK, Begin, BeginScan, ScanHold, EndScan, Abort, Return, Goto, Clear
<1>7. ASSUME NEW t \in Task, ScanExit(t) PROVE FillKept' /\ SignalBacked'
  BY <1>3, <1>7 DEF ScanExit
<1>8. CASE Startup \/ Crash \/ UNCHANGED vars
  <2>1. CASE RecoverTx
    <3>1. \A y \in TxId : /\ tx'[y].sig = tx[y].sig
                          /\ tx[y].st # "none" => tx'[y].st # "none"
      BY <1>2, <2>1 DEF RecoverTx, Verdict
    <3> QED BY <1>1, <2>1, <3>1 DEF RecoverTx
  <2>2. CASE ~RecoverTx
    BY <1>1, <1>8, <2>2 DEF Startup, Boot, LoadState, ApplyState, RestoreTrailing,
       RecoveryRaises, RecoveryDone, Crash, ProcessGone, vars
  <2> QED BY <2>1, <2>2
<1> QED BY <1>4, <1>5, <1>6, <1>7, <1>8 DEF Next, ScanStep

\* With a broker no signal is stored without an order that the broker has filled
\* for it, over crashes, aborted calls and any number of openers.
THEOREM SignalsAreBacked == Spec => []SignalBacked
<1>1. Init => TypeOK /\ CallsOwn /\ FoundStored /\ FillKept /\ SignalBacked
  BY TypeInit, OwnInit, FoundInit, FillInit
<1>2. /\ TypeOK /\ CallsOwn /\ FoundStored /\ FillKept /\ SignalBacked /\ [Next]_vars
      => (TypeOK /\ CallsOwn /\ FoundStored /\ FillKept /\ SignalBacked)'
  BY TypeStep, OwnStep, FoundStep, FillStep
<1> QED BY <1>1, <1>2, PTL DEF Spec
-----------------------------------------------------------------------------
(***************************************************************************)
(* Who follows the open trades.                                            *)
(***************************************************************************)
LEMMA WatchInit == Init => WatchInv
BY DEF Init, WatchInv, ClosedStays

\* A step of call t that opens and forgets no trade.
LEMMA KeepWatch ==
  ASSUME TypeOK, WatchInv, NEW t \in Task, UNCHANGED <<status, tracked, phase, toRestore>>,
         \A u \in Task : u # t => pc'[u] = pc[u] /\ sigOf'[u] = sigOf[u],
         unwatched \subseteq unwatched',
         pc[t] = "saved" => \/ sigOf[t] \in unwatched'
                            \/ pc'[t] = "saved" /\ sigOf'[t] = sigOf[t],
         pc'[t] \in {"marked", "committed", "recorded", "persisted"} =>
           /\ pc[t] \in {"marked", "committed", "recorded", "persisted"}
           /\ sigOf'[t] = sigOf[t]
  PROVE  WatchInv'
<1>1. Opening \subseteq Opening' \cup unwatched'
  BY DEF Opening
<1>2. OpenSignals' = OpenSignals
  BY DEF OpenSignals
<1>3. ClosedStays'
  BY DEF WatchInv, ClosedStays
<1> QED BY <1>1, <1>2, <1>3 DEF WatchInv

LEMMA LeaveWatch ==
  ASSUME TypeOK, WatchInv, NEW t \in Task, Return(t) \/ CloseReturns(t),
         UNCHANGED <<status, tracked, phase, toRestore>>, unwatched \subseteq unwatched',
         pc[t] = "saved" => sigOf[t] \in unwatched'
  PROVE  WatchInv'
<1>1. /\ pc'[t] \in {"idle", "scan"}
      /\ \A u \in Task : u # t => pc'[u] = pc[u] /\ sigOf'[u] = sigOf[u]
  BY DEF TypeOK, Return, CloseReturns, Goto, Clear
<1>2. Opening \subseteq Opening' \cup unwatched'
  BY <1>1 DEF Opening
<1>3. OpenSignals' = OpenSignals
  BY DEF OpenSignals
<1>4. ClosedStays'
  BY <1>1 DEF WatchInv, ClosedStays
<1> QED BY <1>2, <1>3, <1>4 DEF WatchInv

LEMMA WatchStep == TypeOK /\ CallsOwn /\ WatchInv /\ [Next]_vars => WatchInv'
<1> SUFFICES ASSUME TypeOK, CallsOwn, WatchInv, [Next]_vars PROVE WatchInv'
  OBVIOUS
<1> USE DEF dbVars, memVars, lockVars, readVars, bootVars, callVars, histVars
<1>1. CASE UNCHANGED vars
  BY <1>1 DEF vars, WatchInv, ClosedStays, OpenSignals, Opening
<1>2. ASSUME NEW t \in Task, Begin(t) PROVE WatchInv'
  BY <1>2, KeepWatch DEF TypeOK, Begin, Goto
<1>3. ASSUME NEW t \in Task, OpenStep(t) PROVE WatchInv'
  <2>1. CASE LogOpen(t)
    BY <2>1, KeepWatch DEF TypeOK, LogOpen, LogTx, Goto
  <2>2. CASE RejectOpen(t) \/ CompleteOpen(t)
    BY <2>2, LeaveWatch DEF RejectOpen, CompleteOpen
  <2>3. CASE BrokerFill(t)
    BY <2>3, KeepWatch DEF TypeOK, BrokerFill, Goto
  <2>4. CASE SaveSignal(t)
    <3>1. PICK s \in Sig : /\ FreshSig(s)
                           /\ status' = [status EXCEPT ![s] = "open"]
                           /\ sigOf' = [sigOf EXCEPT ![t] = s]
      BY <2>4 DEF SaveSignal
    <3>2. /\ pc[t] \in {"logged", "filled"} /\ pc'[t] = "saved"
          /\ \A u \in Task : u # t => pc'[u] = pc[u] /\ sigOf'[u] = sigOf[u]
          /\ UNCHANGED <<tracked, phase, toRestore, unwatched>>
      BY <2>4, <3>1 DEF TypeOK, SaveSignal, Filled, Goto
    <3>3. OpenSignals' = OpenSignals \cup {s}
      BY <3>1 DEF OpenSignals, TypeOK
    <3>4. Opening \cup {s} \subseteq Opening'
      <4>1. sigOf'[t] = s
        BY <3>1 DEF TypeOK
      <4> QED BY <3>2, <4>1 DEF Opening
    <3>5. ClosedStays'
      BY <3>1, <3>2 DEF WatchInv, ClosedStays, FreshSig, TypeOK, CallsOwn, OwnSig, HasSig,
                        ClosePcs
    <3> QED BY <3>2, <3>3, <3>4, <3>5 DEF WatchInv
  <2>5. CASE Register(t)
    <3>1. /\ pc[t] = "saved" /\ tracked' = tracked \cup {sigOf[t]} /\ pc'[t] = "registered"
          /\ UNCHANGED <<status, phase, toRestore, unwatched, sigOf>>
          /\ \A u \in Task : u # t => pc'[u] = pc[u]
      BY <2>5 DEF TypeOK, Register, Goto
    <3>2. Opening \subseteq Opening' \cup {sigOf[t]}
      BY <3>1 DEF Opening
    <3>3. OpenSignals' = OpenSignals
      BY <3>1 DEF OpenSignals
    <3>4. ClosedStays'
      BY <3>1 DEF WatchInv, ClosedStays
    <3> QED BY <3>1, <3>2, <3>3, <3>4 DEF WatchInv
  <2> QED BY <1>3, <2>1, <2>2, <2>3, <2>4, <2>5 DEF OpenStep
<1>4. ASSUME NEW t \in Task, CloseStep(t) PROVE WatchInv'
  <2>1. ASSUME NEW s \in Sig, LogClose(t, s) PROVE WatchInv'
    BY <2>1, KeepWatch DEF TypeOK, LogClose, LogTx, Goto
  <2>2. CASE FindSignal(t)
    BY <2>2, KeepWatch DEF TypeOK, FindSignal, Goto
  <2>3. CASE RejectClose(t)
    BY <2>3, LeaveWatch DEF RejectClose
  <2>4. CASE CompleteClose(t) \/ RecordResult(t) \/ SaveRiskState(t)
    BY <2>4, KeepWatch DEF TypeOK, CompleteClose, RecordResult, SaveRiskState, Goto
  <2>5. CASE MarkClosed(t)
    <3>1. /\ pc[t] = "found" /\ status' = [status EXCEPT ![sigOf[t]] = "closed"]
          /\ pc'[t] = "marked" /\ \A u \in Task : u # t => pc'[u] = pc[u]
          /\ UNCHANGED <<tracked, phase, toRestore, unwatched, sigOf>> /\ sigOf[t] \in Sig
      BY <2>5 DEF TypeOK, MarkClosed, Goto, CallsOwn, OwnSig, HasSig, ClosePcs
    <3>2. Opening' = Opening
      BY <3>1 DEF Opening
    <3>3. OpenSignals' \subseteq OpenSignals
      BY <3>1 DEF OpenSignals, TypeOK
    <3>4. ClosedStays'
      BY <3>1 DEF WatchInv, ClosedStays, TypeOK
    <3> QED BY <3>1, <3>2, <3>3, <3>4 DEF WatchInv
  <2>6. CASE Forget(t)
    <3>1. /\ pc[t] = "persisted" /\ tracked' = tracked \ {sigOf[t]} /\ pc'[t] \in {"idle", "scan"}
          /\ UNCHANGED <<status, phase, toRestore, unwatched>>
          /\ \A u \in Task : u # t => pc'[u] = pc[u] /\ sigOf'[u] = sigOf[u]
      BY <2>6 DEF TypeOK, Forget, Untracked, CloseReturns, Return, Goto, Clear
    <3>2. sigOf[t] \notin OpenSignals /\ OpenSignals' = OpenSignals
      BY <3>1 DEF WatchInv, ClosedStays, OpenSignals
    <3>3. Opening \subseteq Opening'
      BY <3>1 DEF Opening
    <3>4. ClosedStays'
      BY <3>1 DEF WatchInv, ClosedStays
    <3> QED BY <3>1, <3>2, <3>3, <3>4 DEF WatchInv
  <2> QED BY <1>4, <2>1, <2>2, <2>3, <2>4, <2>5, <2>6 DEF CloseStep
<1>5. ASSUME NEW t \in Task, BeginScan(t) PROVE WatchInv'
  BY <1>5, KeepWatch DEF TypeOK, BeginScan, Goto
<1>6. ASSUME NEW t \in Task, ScanStep(t) PROVE WatchInv'
  <2>1. CASE ScanHold(t)
    BY <2>1 DEF ScanHold, WatchInv, ClosedStays, OpenSignals, Opening
  <2>2. CASE ScanExit(t)
    BY <2>2, KeepWatch DEF TypeOK, ScanExit, LogTx, Goto
  <2>3. CASE EndScan(t)
    BY <2>3, LeaveWatch DEF EndScan
  <2> QED BY <1>6, <2>1, <2>2, <2>3 DEF ScanStep
<1>7. ASSUME NEW t \in Task, Abort(t) PROVE WatchInv'
  BY <1>7, LeaveWatch DEF Abort
<1>8. CASE Crash \/ RecoveryRaises
  BY <1>8 DEF Crash, RecoveryRaises, ProcessGone, WatchInv, ClosedStays
<1>9. CASE Startup
  <2>1. CASE Boot \/ LoadState
    BY <2>1 DEF Boot, LoadState, WatchInv, ClosedStays
  <2>2. CASE ApplyState
    BY <2>2 DEF ApplyState, WatchInv, ClosedStays, OpenSignals, Opening
  <2>3. CASE RestoreTrailing
    <3>1. PICK R : tracked' = tracked \cup R /\ unwatched' = (unwatched \cup toRestore) \ R
      BY <2>3 DEF RestoreTrailing, Registered
    <3>2. /\ phase = "restoring" /\ phase' = "recovering"
          /\ UNCHANGED <<status, pc, sigOf>>
      BY <2>3 DEF RestoreTrailing
    <3>3. Opening' = Opening /\ OpenSignals' = OpenSignals
      BY <3>2 DEF Opening, OpenSignals
    <3>4. ClosedStays'
      BY <3>2 DEF WatchInv, ClosedStays
    <3> QED BY <3>1, <3>2, <3>3, <3>4 DEF WatchInv
  <2>4. CASE RecoverTx \/ RecoveryDone
    BY <2>4 DEF RecoverTx, RecoveryDone, WatchInv, ClosedStays, OpenSignals, Opening
  <2> QED BY <1>8, <1>9, <2>1, <2>2, <2>3, <2>4 DEF Startup
<1> QED BY <1>1, <1>2, <1>3, <1>4, <1>5, <1>6, <1>7, <1>8, <1>9 DEF Next

\* For all callers, bounds and limits: an open trade is followed, unless its
\* opening is in between or was cut off there, or start-up failed on it or was
\* not shown it.
THEOREM OpenTradesWatched == Spec => []OpenWatched
<1>1. Init => TypeOK /\ CallsOwn /\ WatchInv
  BY TypeInit, OwnInit, WatchInit
<1>2. TypeOK /\ CallsOwn /\ WatchInv /\ [Next]_vars => (TypeOK /\ CallsOwn /\ WatchInv)'
  BY TypeStep, OwnStep, WatchStep
<1>3. WatchInv => OpenWatched
  BY DEF WatchInv, OpenWatched
<1> QED BY <1>1, <1>2, <1>3, PTL DEF Spec
=============================================================================
