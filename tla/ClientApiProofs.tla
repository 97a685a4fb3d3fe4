---------------------------- MODULE ClientApiProofs ----------------------------
(***************************************************************************)
(* Proofs about SdkInit and about ClientApi, which composes it with the    *)
(* client API, for any threads and requests. First the start of the SDK    *)
(* alone: the proof that a step preserves IInv says what the step does to  *)
(* the caller t, to the thread it created, and to the others; the          *)
(* conjuncts of IInv follow. Then the composed system: it keeps what is    *)
(* shown of the start, an answer finds a callback object, and it goes once *)
(* and to where it belongs.                                                *)
(***************************************************************************)
EXTENDS ClientApi, TLAPS

(* The start of the SDK. *)

Results == {"ok", "failed", NULL}

\* The failure code is no application id.
LEMMA AppIDValid == AppID # -1
  BY SMTT(30), AppIDAssumption

LEMMA InitIInv ==
  ASSUME Init
  PROVE  IInv
<1>1. pc \in [Threads -> PCs] /\ worker \in [Threads -> WorkerPCs]
  BY DEF Init, PCs, WorkerPCs
<1>2. /\ m_lock \in BOOLEAN /\ m_bInited \in BOOLEAN /\ inited \in BOOLEAN /\ exited \in BOOLEAN
      /\ ret \in [Threads -> {"ok", "failed", NULL}] /\ param \in [Threads -> {AppID, -1}]
      /\ event \in SUBSET Threads
  BY DEF Init
<1>3. \A t \in Threads : pc[t] = "done" <=> ret[t] # NULL
  BY DEF Init
<1>4. TypeOK
  BY <1>1, <1>2, <1>3 DEF TypeOK
<1>5. MutualExclusion /\ FlagTold /\ Creators /\ InitedByWorker
  BY DEF Init, MutualExclusion, FlagTold, Creators, InitedByWorker, InLock, Started
<1>6. ASSUME NEW t \in Threads
      PROVE  Fits(t)
  <2>1. pc[t] = "spin" /\ worker[t] = "none" /\ param[t] = AppID /\ t \notin event
    BY DEF Init
  <2>2. param[t] # -1
    BY <2>1, AppIDValid
  <2>3. QED
    BY <2>1, <2>2 DEF Fits
<1>7. QED
  BY <1>4, <1>5, <1>6 DEF IInv, Handshake

\* What the moves of a caller and of a new thread change.
LEMMA GotoPc ==
  ASSUME pc \in [Threads -> PCs], NEW t \in Threads, NEW from, NEW to \in PCs,
         Goto(t, from, to)
  PROVE  /\ pc' \in [Threads -> PCs] /\ pc[t] = from /\ pc'[t] = to
         /\ \A u \in Threads \ {t} : pc'[u] = pc[u]
BY DEF Goto

LEMMA ReturnRet ==
  ASSUME ret \in [Threads -> Results], NEW t \in Threads, NEW from, NEW value \in Results,
         Return(t, from, value)
  PROVE  /\ ret' \in [Threads -> Results] /\ ret'[t] = value
         /\ \A u \in Threads \ {t} : ret'[u] = ret[u]
         /\ Goto(t, from, "done")
BY DEF Return

LEMMA WorkWorker ==
  ASSUME worker \in [Threads -> WorkerPCs], NEW t \in Threads, NEW from, NEW to \in WorkerPCs,
         Work(t, from, to)
  PROVE  /\ worker' \in [Threads -> WorkerPCs] /\ worker[t] = from /\ worker'[t] = to
         /\ \A u \in Threads \ {t} : worker'[u] = worker[u]
BY DEF Work

\* A caller and its thread still fit when a step leaves them alone.
LEMMA OtherFits ==
  ASSUME NEW u \in Threads, Fits(u), inited' = inited,
         pc'[u] = pc[u], ret'[u] = ret[u], param'[u] = param[u], worker'[u] = worker[u],
         u \in event' <=> u \in event
  PROVE  Fits(u)'
BY DEF Fits

\* A caller takes the lock.
LEMMA TestAndSetStep ==
  ASSUME IInv, NEW t \in Threads, TestAndSet(t)
  PROVE  IInv'
<1>1. TypeOK /\ MutualExclusion /\ FlagTold /\ Creators /\ InitedByWorker /\ Handshake
  BY DEF IInv
<1>2. /\ pc \in [Threads -> PCs] /\ ret \in [Threads -> Results]
      /\ worker \in [Threads -> WorkerPCs] /\ param \in [Threads -> {AppID, -1}]
  BY <1>1 DEF TypeOK, Results
<1>3. Fits(t)
  BY <1>1 DEF Handshake
<1>4. ~m_lock /\ m_lock' = TRUE /\ UNCHANGED <<m_bInited, ret, param, event, worker, inited, exited>>
  BY DEF TestAndSet, workerVars
<1>5. ret' \in [Threads -> Results] /\ ret' = ret
  BY <1>2, <1>4
<1>6. /\ pc' \in [Threads -> PCs] /\ pc[t] = "spin" /\ pc'[t] = "check"
      /\ \A u \in Threads \ {t} : pc'[u] = pc[u]
  BY <1>2, GotoPc DEF TestAndSet, PCs
<1>7. worker' \in [Threads -> WorkerPCs] /\ worker' = worker
  BY <1>2, <1>4
<1>8. /\ pc[t] = "spin" /\ pc'[t] = "check" /\ ret'[t] = ret[t] /\ worker'[t] = worker[t]
      /\ param'[t] = param[t] /\ event' = event /\ inited' = inited
  BY <1>4, <1>5, <1>6, <1>7
<1>9. ASSUME NEW u \in Threads \ {t}
      PROVE  pc'[u] = pc[u] /\ ret'[u] = ret[u] /\ worker'[u] = worker[u] /\ param'[u] = param[u]
  BY <1>4, <1>5, <1>6, <1>7
<1>10. \A u \in Threads : pc'[u] = "done" <=> ret'[u] # NULL
  BY <1>1, <1>8, <1>9, NullAssumption DEF TypeOK
<1>11. TypeOK'
  BY <1>1, <1>4, <1>5, <1>6, <1>7, <1>10 DEF TypeOK, Results
<1>12. MutualExclusion' /\ FlagTold'
  BY <1>1, <1>4, <1>8, <1>9 DEF MutualExclusion, FlagTold, Creators, InLock, Started
<1>13. Creators'
  BY <1>1, <1>8, <1>9 DEF MutualExclusion, FlagTold, Creators, InLock, Started
<1>14. InitedByWorker'
  BY <1>1, <1>8, <1>9 DEF InitedByWorker
<1>15. Fits(t)'
  BY <1>3, <1>8 DEF Fits
<1>16. ASSUME NEW u \in Threads \ {t}
       PROVE  Fits(u)'
  BY <1>1, <1>8, <1>9, OtherFits DEF Handshake
<1>17. QED
  BY <1>11, <1>12, <1>13, <1>14, <1>15, <1>16 DEF IInv, Handshake

\* A caller reads the flag, holding the lock.
LEMMA CheckInitedStep ==
  ASSUME IInv, NEW t \in Threads, CheckInited(t)
  PROVE  IInv'
<1>1. TypeOK /\ MutualExclusion /\ FlagTold /\ Creators /\ InitedByWorker /\ Handshake
  BY DEF IInv
<1>2. /\ pc \in [Threads -> PCs] /\ ret \in [Threads -> Results]
      /\ worker \in [Threads -> WorkerPCs] /\ param \in [Threads -> {AppID, -1}]
  BY <1>1 DEF TypeOK, Results
<1>3. Fits(t)
  BY <1>1 DEF Handshake
<1>4. UNCHANGED <<m_lock, m_bInited, ret, param, event, worker, inited, exited>>
  BY DEF CheckInited, workerVars
<1>5. ret' \in [Threads -> Results] /\ ret' = ret
  BY <1>2, <1>4
<1>6. /\ pc' \in [Threads -> PCs] /\ pc[t] = "check" /\ pc'[t] = (IF m_bInited THEN "repeated" ELSE "first")
      /\ \A u \in Threads \ {t} : pc'[u] = pc[u]
  BY <1>2, GotoPc DEF CheckInited, PCs
<1>7. worker' \in [Threads -> WorkerPCs] /\ worker' = worker
  BY <1>2, <1>4
<1>8. /\ pc[t] = "check" /\ pc'[t] = (IF m_bInited THEN "repeated" ELSE "first") /\ ret'[t] = ret[t] /\ worker'[t] = worker[t]
      /\ param'[t] = param[t] /\ event' = event /\ inited' = inited
  BY <1>4, <1>5, <1>6, <1>7
<1>9. ASSUME NEW u \in Threads \ {t}
      PROVE  pc'[u] = pc[u] /\ ret'[u] = ret[u] /\ worker'[u] = worker[u] /\ param'[u] = param[u]
  BY <1>4, <1>5, <1>6, <1>7
<1>10. \A u \in Threads : pc'[u] = "done" <=> ret'[u] # NULL
  BY <1>1, <1>8, <1>9, NullAssumption DEF TypeOK
<1>11. TypeOK'
  BY <1>1, <1>4, <1>5, <1>6, <1>7, <1>10 DEF TypeOK, Results
<1>12. MutualExclusion' /\ FlagTold'
  BY <1>1, <1>4, <1>8, <1>9 DEF MutualExclusion, FlagTold, Creators, InLock, Started
<1>13. Creators'
  BY <1>1, <1>8, <1>9 DEF MutualExclusion, FlagTold, Creators, InLock, Started
<1>14. InitedByWorker'
  BY <1>1, <1>8, <1>9 DEF InitedByWorker
<1>15. Fits(t)'
  BY <1>3, <1>8 DEF Fits
<1>16. ASSUME NEW u \in Threads \ {t}
       PROVE  Fits(u)'
  BY <1>1, <1>8, <1>9, OtherFits DEF Handshake
<1>17. QED
  BY <1>11, <1>12, <1>13, <1>14, <1>15, <1>16 DEF IInv, Handshake

\* A repeated call releases the lock and returns.
LEMMA RepeatedCallStep ==
  ASSUME IInv, NEW t \in Threads, RepeatedCall(t)
  PROVE  IInv'
<1>1. TypeOK /\ MutualExclusion /\ FlagTold /\ Creators /\ InitedByWorker /\ Handshake
  BY DEF IInv
<1>2. /\ pc \in [Threads -> PCs] /\ ret \in [Threads -> Results]
      /\ worker \in [Threads -> WorkerPCs] /\ param \in [Threads -> {AppID, -1}]
  BY <1>1 DEF TypeOK, Results
<1>3. Fits(t)
  BY <1>1 DEF Handshake
<1>4. m_lock' = FALSE /\ UNCHANGED <<m_bInited, param, event, worker, inited, exited>>
  BY DEF RepeatedCall, workerVars
<1>5. /\ ret' \in [Threads -> Results] /\ ret'[t] = "ok"
      /\ \A u \in Threads \ {t} : ret'[u] = ret[u]
      /\ Goto(t, "repeated", "done")
  BY <1>2, ReturnRet DEF RepeatedCall, Results
<1>6. /\ pc' \in [Threads -> PCs] /\ pc[t] = "repeated" /\ pc'[t] = "done"
      /\ \A u \in Threads \ {t} : pc'[u] = pc[u]
  BY <1>2, <1>5, GotoPc DEF PCs
<1>7. worker' \in [Threads -> WorkerPCs] /\ worker' = worker
  BY <1>2, <1>4
<1>8. /\ pc[t] = "repeated" /\ pc'[t] = "done" /\ ret'[t] = "ok" /\ worker'[t] = worker[t]
      /\ param'[t] = param[t] /\ event' = event /\ inited' = inited
  BY <1>4, <1>5, <1>6, <1>7
<1>9. ASSUME NEW u \in Threads \ {t}
      PROVE  pc'[u] = pc[u] /\ ret'[u] = ret[u] /\ worker'[u] = worker[u] /\ param'[u] = param[u]
  BY <1>4, <1>5, <1>6, <1>7
<1>10. \A u \in Threads : pc'[u] = "done" <=> ret'[u] # NULL
  BY <1>1, <1>8, <1>9, NullAssumption DEF TypeOK
<1>11. TypeOK'
  BY <1>1, <1>4, <1>5, <1>6, <1>7, <1>10 DEF TypeOK, Results
<1>12. MutualExclusion' /\ FlagTold'
  BY <1>1, <1>4, <1>8, <1>9 DEF MutualExclusion, FlagTold, Creators, InLock, Started
<1>13. Creators'
  BY <1>1, <1>8, <1>9 DEF MutualExclusion, FlagTold, Creators, InLock, Started
<1>14. InitedByWorker'
  BY <1>1, <1>8, <1>9 DEF InitedByWorker
<1>15. Fits(t)'
  BY <1>3, <1>8 DEF Fits
<1>16. ASSUME NEW u \in Threads \ {t}
       PROVE  Fits(u)'
  BY <1>1, <1>8, <1>9, OtherFits DEF Handshake
<1>17. QED
  BY <1>11, <1>12, <1>13, <1>14, <1>15, <1>16 DEF IInv, Handshake

\* The first caller sets the flag.
LEMMA SetInitedStep ==
  ASSUME IInv, NEW t \in Threads, SetInited(t)
  PROVE  IInv'
<1>1. TypeOK /\ MutualExclusion /\ FlagTold /\ Creators /\ InitedByWorker /\ Handshake
  BY DEF IInv
<1>2. /\ pc \in [Threads -> PCs] /\ ret \in [Threads -> Results]
      /\ worker \in [Threads -> WorkerPCs] /\ param \in [Threads -> {AppID, -1}]
  BY <1>1 DEF TypeOK, Results
<1>3. Fits(t)
  BY <1>1 DEF Handshake
<1>4. m_bInited' = TRUE /\ UNCHANGED <<m_lock, ret, param, event, worker, inited, exited>>
  BY DEF SetInited, workerVars
<1>5. ret' \in [Threads -> Results] /\ ret' = ret
  BY <1>2, <1>4
<1>6. /\ pc' \in [Threads -> PCs] /\ pc[t] = "first" /\ pc'[t] = "clear"
      /\ \A u \in Threads \ {t} : pc'[u] = pc[u]
  BY <1>2, GotoPc DEF SetInited, PCs
<1>7. worker' \in [Threads -> WorkerPCs] /\ worker' = worker
  BY <1>2, <1>4
<1>8. /\ pc[t] = "first" /\ pc'[t] = "clear" /\ ret'[t] = ret[t] /\ worker'[t] = worker[t]
      /\ param'[t] = param[t] /\ event' = event /\ inited' = inited
  BY <1>4, <1>5, <1>6, <1>7
<1>9. ASSUME NEW u \in Threads \ {t}
      PROVE  pc'[u] = pc[u] /\ ret'[u] = ret[u] /\ worker'[u] = worker[u] /\ param'[u] = param[u]
  BY <1>4, <1>5, <1>6, <1>7
<1>10. \A u \in Threads : pc'[u] = "done" <=> ret'[u] # NULL
  BY <1>1, <1>8, <1>9, NullAssumption DEF TypeOK
<1>11. TypeOK'
  BY <1>1, <1>4, <1>5, <1>6, <1>7, <1>10 DEF TypeOK, Results
<1>12. MutualExclusion' /\ FlagTold'
  BY <1>1, <1>4, <1>8, <1>9 DEF MutualExclusion, FlagTold, Creators, InLock, Started
<1>13. Creators'
  <2>1. \A u \in Threads : ~Started(u)
    BY <1>1, <1>8 DEF FlagTold
  <2>2. \A u \in Threads \ {t} : ~Started(u)'
    BY <2>1, <1>9 DEF Started
  <2>3. QED
    BY <2>2 DEF Creators
<1>14. InitedByWorker'
  BY <1>1, <1>8, <1>9 DEF InitedByWorker
<1>15. Fits(t)'
  BY <1>3, <1>8 DEF Fits
<1>16. ASSUME NEW u \in Threads \ {t}
       PROVE  Fits(u)'
  BY <1>1, <1>8, <1>9, OtherFits DEF Handshake
<1>17. QED
  BY <1>11, <1>12, <1>13, <1>14, <1>15, <1>16 DEF IInv, Handshake

\* The first caller releases the lock.
LEMMA ClearLockStep ==
  ASSUME IInv, NEW t \in Threads, ClearLock(t)
  PROVE  IInv'
<1>1. TypeOK /\ MutualExclusion /\ FlagTold /\ Creators /\ InitedByWorker /\ Handshake
  BY DEF IInv
<1>2. /\ pc \in [Threads -> PCs] /\ ret \in [Threads -> Results]
      /\ worker \in [Threads -> WorkerPCs] /\ param \in [Threads -> {AppID, -1}]
  BY <1>1 DEF TypeOK, Results
<1>3. Fits(t)
  BY <1>1 DEF Handshake
<1>4. m_lock' = FALSE /\ UNCHANGED <<m_bInited, ret, param, event, worker, inited, exited>>
  BY DEF ClearLock, workerVars
<1>5. ret' \in [Threads -> Results] /\ ret' = ret
  BY <1>2, <1>4
<1>6. /\ pc' \in [Threads -> PCs] /\ pc[t] = "clear" /\ pc'[t] = "spawn"
      /\ \A u \in Threads \ {t} : pc'[u] = pc[u]
  BY <1>2, GotoPc DEF ClearLock, PCs
<1>7. worker' \in [Threads -> WorkerPCs] /\ worker' = worker
  BY <1>2, <1>4
<1>8. /\ pc[t] = "clear" /\ pc'[t] = "spawn" /\ ret'[t] = ret[t] /\ worker'[t] = worker[t]
      /\ param'[t] = param[t] /\ event' = event /\ inited' = inited
  BY <1>4, <1>5, <1>6, <1>7
<1>9. ASSUME NEW u \in Threads \ {t}
      PROVE  pc'[u] = pc[u] /\ ret'[u] = ret[u] /\ worker'[u] = worker[u] /\ param'[u] = param[u]
  BY <1>4, <1>5, <1>6, <1>7
<1>10. \A u \in Threads : pc'[u] = "done" <=> ret'[u] # NULL
  BY <1>1, <1>8, <1>9, NullAssumption DEF TypeOK
<1>11. TypeOK'
  BY <1>1, <1>4, <1>5, <1>6, <1>7, <1>10 DEF TypeOK, Results
<1>12. MutualExclusion' /\ FlagTold'
  BY <1>1, <1>4, <1>8, <1>9 DEF MutualExclusion, FlagTold, Creators, InLock, Started
<1>13. Creators'
  BY <1>1, <1>8, <1>9 DEF MutualExclusion, FlagTold, Creators, InLock, Started
<1>14. InitedByWorker'
  BY <1>1, <1>8, <1>9 DEF InitedByWorker
<1>15. Fits(t)'
  BY <1>3, <1>8 DEF Fits
<1>16. ASSUME NEW u \in Threads \ {t}
       PROVE  Fits(u)'
  BY <1>1, <1>8, <1>9, OtherFits DEF Handshake
<1>17. QED
  BY <1>11, <1>12, <1>13, <1>14, <1>15, <1>16 DEF IInv, Handshake

\* The first caller spawns the thread.
LEMMA SpawnStep ==
  ASSUME IInv, NEW t \in Threads, Spawn(t)
  PROVE  IInv'
<1>1. TypeOK /\ MutualExclusion /\ FlagTold /\ Creators /\ InitedByWorker /\ Handshake
  BY DEF IInv
<1>2. /\ pc \in [Threads -> PCs] /\ ret \in [Threads -> Results]
      /\ worker \in [Threads -> WorkerPCs] /\ param \in [Threads -> {AppID, -1}]
  BY <1>1 DEF TypeOK, Results
<1>3. Fits(t)
  BY <1>1 DEF Handshake
<1>4. UNCHANGED <<m_lock, m_bInited, ret, param, event, inited, exited>>
  BY DEF Spawn, workerVars
<1>5. ret' \in [Threads -> Results] /\ ret' = ret
  BY <1>2, <1>4
<1>6. /\ pc' \in [Threads -> PCs] /\ pc[t] = "spawn" /\ pc'[t] = "wait"
      /\ \A u \in Threads \ {t} : pc'[u] = pc[u]
  BY <1>2, GotoPc DEF Spawn, PCs
<1>7. /\ worker' \in [Threads -> WorkerPCs] /\ worker'[t] = "init"
      /\ \A u \in Threads \ {t} : worker'[u] = worker[u]
  BY <1>2 DEF Spawn, WorkerPCs
<1>8. /\ pc[t] = "spawn" /\ pc'[t] = "wait" /\ ret'[t] = ret[t] /\ worker'[t] = "init"
      /\ param'[t] = param[t] /\ event' = event /\ inited' = inited
  BY <1>4, <1>5, <1>6, <1>7
<1>9. ASSUME NEW u \in Threads \ {t}
      PROVE  pc'[u] = pc[u] /\ ret'[u] = ret[u] /\ worker'[u] = worker[u] /\ param'[u] = param[u]
  BY <1>4, <1>5, <1>6, <1>7
<1>10. \A u \in Threads : pc'[u] = "done" <=> ret'[u] # NULL
  BY <1>1, <1>8, <1>9, NullAssumption DEF TypeOK
<1>11. TypeOK'
  BY <1>1, <1>4, <1>5, <1>6, <1>7, <1>10 DEF TypeOK, Results
<1>12. MutualExclusion' /\ FlagTold'
  BY <1>1, <1>4, <1>8, <1>9 DEF MutualExclusion, FlagTold, Creators, InLock, Started
<1>13. Creators'
  BY <1>1, <1>8, <1>9 DEF MutualExclusion, FlagTold, Creators, InLock, Started
<1>14. InitedByWorker'
  BY <1>1, <1>8, <1>9 DEF InitedByWorker
<1>15. Fits(t)'
  <2>1. worker[t] = "none" /\ ~inited
    BY <1>1, <1>3, <1>8 DEF Fits, InitedByWorker, Creators, Started
  <2>2. QED
    BY <2>1, <1>3, <1>8 DEF Fits
<1>16. ASSUME NEW u \in Threads \ {t}
       PROVE  Fits(u)'
  BY <1>1, <1>8, <1>9, OtherFits DEF Handshake
<1>17. QED
  BY <1>11, <1>12, <1>13, <1>14, <1>15, <1>16 DEF IInv, Handshake

\* The thread cannot be spawned.
LEMMA SpawnFailsStep ==
  ASSUME IInv, NEW t \in Threads, SpawnFails(t)
  PROVE  IInv'
<1>1. TypeOK /\ MutualExclusion /\ FlagTold /\ Creators /\ InitedByWorker /\ Handshake
  BY DEF IInv
<1>2. /\ pc \in [Threads -> PCs] /\ ret \in [Threads -> Results]
      /\ worker \in [Threads -> WorkerPCs] /\ param \in [Threads -> {AppID, -1}]
  BY <1>1 DEF TypeOK, Results
<1>3. Fits(t)
  BY <1>1 DEF Handshake
<1>4. UNCHANGED <<m_lock, m_bInited, param, event, worker, inited, exited>>
  BY DEF SpawnFails, workerVars
<1>5. /\ ret' \in [Threads -> Results] /\ ret'[t] = "failed"
      /\ \A u \in Threads \ {t} : ret'[u] = ret[u]
      /\ Goto(t, "spawn", "done")
  BY <1>2, ReturnRet DEF SpawnFails, Results
<1>6. /\ pc' \in [Threads -> PCs] /\ pc[t] = "spawn" /\ pc'[t] = "done"
      /\ \A u \in Threads \ {t} : pc'[u] = pc[u]
  BY <1>2, <1>5, GotoPc DEF PCs
<1>7. worker' \in [Threads -> WorkerPCs] /\ worker' = worker
  BY <1>2, <1>4
<1>8. /\ pc[t] = "spawn" /\ pc'[t] = "done" /\ ret'[t] = "failed" /\ worker'[t] = worker[t]
      /\ param'[t] = param[t] /\ event' = event /\ inited' = inited
  BY <1>4, <1>5, <1>6, <1>7
<1>9. ASSUME NEW u \in Threads \ {t}
      PROVE  pc'[u] = pc[u] /\ ret'[u] = ret[u] /\ worker'[u] = worker[u] /\ param'[u] = param[u]
  BY <1>4, <1>5, <1>6, <1>7
<1>10. \A u \in Threads : pc'[u] = "done" <=> ret'[u] # NULL
  BY <1>1, <1>8, <1>9, NullAssumption DEF TypeOK
<1>11. TypeOK'
  BY <1>1, <1>4, <1>5, <1>6, <1>7, <1>10 DEF TypeOK, Results
<1>12. MutualExclusion' /\ FlagTold'
  BY <1>1, <1>4, <1>8, <1>9 DEF MutualExclusion, FlagTold, Creators, InLock, Started
<1>13. Creators'
  BY <1>1, <1>8, <1>9 DEF MutualExclusion, FlagTold, Creators, InLock, Started
<1>14. InitedByWorker'
  BY <1>1, <1>8, <1>9 DEF InitedByWorker
<1>15. Fits(t)'
  BY <1>3, <1>8 DEF Fits
<1>16. ASSUME NEW u \in Threads \ {t}
       PROVE  Fits(u)'
  BY <1>1, <1>8, <1>9, OtherFits DEF Handshake
<1>17. QED
  BY <1>11, <1>12, <1>13, <1>14, <1>15, <1>16 DEF IInv, Handshake

\* The creator has the event and returns.
LEMMA AwaitStep ==
  ASSUME IInv, NEW t \in Threads, Await(t)
  PROVE  IInv'
<1>1. TypeOK /\ MutualExclusion /\ FlagTold /\ Creators /\ InitedByWorker /\ Handshake
  BY DEF IInv
<1>2. /\ pc \in [Threads -> PCs] /\ ret \in [Threads -> Results]
      /\ worker \in [Threads -> WorkerPCs] /\ param \in [Threads -> {AppID, -1}]
  BY <1>1 DEF TypeOK, Results
<1>3. Fits(t)
  BY <1>1 DEF Handshake
<1>4. t \in event /\ UNCHANGED <<m_lock, m_bInited, param, event, worker, inited, exited>>
  BY DEF Await, workerVars
<1>5. /\ ret' \in [Threads -> Results] /\ ret'[t] = Outcome(t)
      /\ \A u \in Threads \ {t} : ret'[u] = ret[u]
      /\ Goto(t, "wait", "done")
  BY <1>2, ReturnRet DEF Await, Outcome, Results
<1>6. /\ pc' \in [Threads -> PCs] /\ pc[t] = "wait" /\ pc'[t] = "done"
      /\ \A u \in Threads \ {t} : pc'[u] = pc[u]
  BY <1>2, <1>5, GotoPc DEF PCs
<1>7. worker' \in [Threads -> WorkerPCs] /\ worker' = worker
  BY <1>2, <1>4
<1>8. /\ pc[t] = "wait" /\ pc'[t] = "done" /\ ret'[t] = Outcome(t) /\ worker'[t] = worker[t]
      /\ param'[t] = param[t] /\ event' = event /\ inited' = inited
  BY <1>4, <1>5, <1>6, <1>7
<1>9. ASSUME NEW u \in Threads \ {t}
      PROVE  pc'[u] = pc[u] /\ ret'[u] = ret[u] /\ worker'[u] = worker[u] /\ param'[u] = param[u]
  BY <1>4, <1>5, <1>6, <1>7
<1>10. \A u \in Threads : pc'[u] = "done" <=> ret'[u] # NULL
  BY <1>1, <1>8, <1>9, NullAssumption DEF TypeOK, Outcome
<1>11. TypeOK'
  BY <1>1, <1>4, <1>5, <1>6, <1>7, <1>10 DEF TypeOK, Results
<1>12. MutualExclusion' /\ FlagTold'
  BY <1>1, <1>4, <1>8, <1>9 DEF MutualExclusion, FlagTold, Creators, InLock, Started
<1>13. Creators'
  BY <1>1, <1>8, <1>9 DEF MutualExclusion, FlagTold, Creators, InLock, Started
<1>14. InitedByWorker'
  BY <1>1, <1>8, <1>9 DEF InitedByWorker
<1>15. Fits(t)'
  <2>1. param[t] = AppID \/ param[t] = -1
    BY <1>2
  <2>2. t \in event
    BY <1>4
  <2>3. worker[t] \in {"loop", "done"} /\ (param[t] = -1 <=> worker[t] = "done" /\ ~inited)
    BY <2>2, <1>3 DEF Fits
  <2>4. worker[t] = "loop" => inited
    BY <1>3 DEF Fits
  <2>5. Outcome(t) = "ok" <=> inited
    <3>1. CASE param[t] = AppID
      <4>1. param[t] # -1
        BY <3>1, AppIDValid
      <4>2. Outcome(t) = "ok"
        BY <3>1 DEF Outcome
      <4>3. inited
        BY <4>1, <2>3, <2>4
      <4>4. QED
        BY <4>2, <4>3
    <3>2. CASE param[t] = -1
      <4>1. param[t] # AppID
        BY <3>2, AppIDValid
      <4>2. Outcome(t) = "failed"
        BY <4>1 DEF Outcome
      <4>3. ~inited
        BY <3>2, <2>3
      <4>4. QED
        BY <4>2, <4>3
    <3>3. QED
      BY <3>1, <3>2, <2>1
  <2>6. QED
    BY <2>2, <2>3, <2>4, <2>5, <1>8 DEF Fits
<1>16. ASSUME NEW u \in Threads \ {t}
       PROVE  Fits(u)'
  BY <1>1, <1>8, <1>9, OtherFits DEF Handshake
<1>17. QED
  BY <1>11, <1>12, <1>13, <1>14, <1>15, <1>16 DEF IInv, Handshake

\* The framework is initialised.
LEMMA InitAppStep ==
  ASSUME IInv, NEW t \in Threads, InitApp(t)
  PROVE  IInv'
<1>1. TypeOK /\ MutualExclusion /\ FlagTold /\ Creators /\ InitedByWorker /\ Handshake
  BY DEF IInv
<1>2. /\ pc \in [Threads -> PCs] /\ ret \in [Threads -> Results]
      /\ worker \in [Threads -> WorkerPCs] /\ param \in [Threads -> {AppID, -1}]
  BY <1>1 DEF TypeOK, Results
<1>3. Fits(t)
  BY <1>1 DEF Handshake
<1>4. inited' = TRUE /\ UNCHANGED <<m_lock, m_bInited, pc, ret, param, event, exited>>
  BY DEF InitApp, callerVars
<1>5. /\ worker' \in [Threads -> WorkerPCs]
      /\ worker[t] = "init" /\ worker'[t] = "ready"
      /\ \A u \in Threads \ {t} : worker'[u] = worker[u]
  BY <1>2, WorkWorker DEF InitApp, WorkerPCs
<1>6. param' \in [Threads -> {AppID, -1}] /\ param' = param
  BY <1>2, <1>4
<1>7. /\ worker[t] = "init" /\ worker'[t] = "ready"
      /\ pc'[t] = pc[t] /\ ret'[t] = ret[t] /\ param'[t] = param[t] /\ event' = event /\ inited' = TRUE
  BY <1>4, <1>5, <1>6
<1>8. ASSUME NEW u \in Threads \ {t}
      PROVE  /\ pc'[u] = pc[u] /\ ret'[u] = ret[u] /\ worker'[u] = worker[u]
             /\ param'[u] = param[u] /\ (u \in event' <=> u \in event)
  BY <1>4, <1>5, <1>6
<1>9. TypeOK'
  BY <1>1, <1>4, <1>5, <1>6 DEF TypeOK
<1>10. MutualExclusion' /\ FlagTold'
  BY <1>1, <1>4, <1>7, <1>8 DEF MutualExclusion, FlagTold, InLock, Started
<1>11. Creators' /\ InitedByWorker'
  BY <1>1, <1>7, <1>8 DEF Creators, InitedByWorker, Started
<1>12. Fits(t)'
  <2>1. t \notin event /\ param[t] # -1 /\ pc[t] = "wait"
    BY <1>3, <1>7 DEF Fits
  <2>2. t \notin event' /\ param'[t] # -1 /\ pc'[t] = "wait"
    BY <2>1, <1>7
  <2>3. QED
    BY <2>2, <1>7 DEF Fits
<1>13. ASSUME NEW u \in Threads \ {t}
       PROVE  Fits(u)'
  <2>1. worker[u] = "none" /\ Fits(u)
    BY <1>1, <1>7 DEF Creators, Started, Handshake
  <2>2. event' = event
    BY <1>4
  <2>3. u \notin event /\ param[u] = AppID /\ param[u] # -1 /\ pc[u] # "wait"
    BY <2>1 DEF Fits
  <2>4. QED
    BY <2>1, <2>2, <2>3, <1>8 DEF Fits
<1>14. QED
  BY <1>9, <1>10, <1>11, <1>12, <1>13 DEF IInv, Handshake

\* The framework cannot be initialised.
LEMMA InitAppFailsStep ==
  ASSUME IInv, NEW t \in Threads, InitAppFails(t)
  PROVE  IInv'
<1>1. TypeOK /\ MutualExclusion /\ FlagTold /\ Creators /\ InitedByWorker /\ Handshake
  BY DEF IInv
<1>2. /\ pc \in [Threads -> PCs] /\ ret \in [Threads -> Results]
      /\ worker \in [Threads -> WorkerPCs] /\ param \in [Threads -> {AppID, -1}]
  BY <1>1 DEF TypeOK, Results
<1>3. Fits(t)
  BY <1>1 DEF Handshake
<1>4. UNCHANGED <<m_lock, m_bInited, pc, ret, param, event, inited, exited>>
  BY DEF InitAppFails, callerVars
<1>5. /\ worker' \in [Threads -> WorkerPCs]
      /\ worker[t] = "init" /\ worker'[t] = "failing"
      /\ \A u \in Threads \ {t} : worker'[u] = worker[u]
  BY <1>2, WorkWorker DEF InitAppFails, WorkerPCs
<1>6. param' \in [Threads -> {AppID, -1}] /\ param' = param
  BY <1>2, <1>4
<1>7. /\ worker[t] = "init" /\ worker'[t] = "failing"
      /\ pc'[t] = pc[t] /\ ret'[t] = ret[t] /\ param'[t] = param[t] /\ event' = event /\ inited' = inited
  BY <1>4, <1>5, <1>6
<1>8. ASSUME NEW u \in Threads \ {t}
      PROVE  /\ pc'[u] = pc[u] /\ ret'[u] = ret[u] /\ worker'[u] = worker[u]
             /\ param'[u] = param[u] /\ (u \in event' <=> u \in event)
  BY <1>4, <1>5, <1>6
<1>9. TypeOK'
  BY <1>1, <1>4, <1>5, <1>6 DEF TypeOK
<1>10. MutualExclusion' /\ FlagTold'
  BY <1>1, <1>4, <1>7, <1>8 DEF MutualExclusion, FlagTold, InLock, Started
<1>11. Creators' /\ InitedByWorker'
  BY <1>1, <1>7, <1>8 DEF Creators, InitedByWorker, Started
<1>12. Fits(t)'
  BY <1>3, <1>7 DEF Fits
<1>13. ASSUME NEW u \in Threads \ {t}
       PROVE  Fits(u)'
  <2>1. Fits(u) /\ inited' = inited
    BY <1>1, <1>4 DEF Handshake
  <2>2. QED
    BY <2>1, <1>8, OtherFits
<1>14. QED
  BY <1>9, <1>10, <1>11, <1>12, <1>13 DEF IInv, Handshake

\* The new thread says so in the parameters.
LEMMA FailStep ==
  ASSUME IInv, NEW t \in Threads, Fail(t)
  PROVE  IInv'
<1>1. TypeOK /\ MutualExclusion /\ FlagTold /\ Creators /\ InitedByWorker /\ Handshake
  BY DEF IInv
<1>2. /\ pc \in [Threads -> PCs] /\ ret \in [Threads -> Results]
      /\ worker \in [Threads -> WorkerPCs] /\ param \in [Threads -> {AppID, -1}]
  BY <1>1 DEF TypeOK, Results
<1>3. Fits(t)
  BY <1>1 DEF Handshake
<1>4. UNCHANGED <<m_lock, m_bInited, pc, ret, event, inited, exited>>
  BY DEF Fail, callerVars
<1>5. /\ worker' \in [Threads -> WorkerPCs]
      /\ worker[t] = "failing" /\ worker'[t] = "failed"
      /\ \A u \in Threads \ {t} : worker'[u] = worker[u]
  BY <1>2, WorkWorker DEF Fail, WorkerPCs
<1>6. /\ param' \in [Threads -> {AppID, -1}] /\ param'[t] = -1
      /\ \A u \in Threads \ {t} : param'[u] = param[u]
  BY <1>2 DEF Fail
<1>7. /\ worker[t] = "failing" /\ worker'[t] = "failed"
      /\ pc'[t] = pc[t] /\ ret'[t] = ret[t] /\ param'[t] = -1 /\ event' = event /\ inited' = inited
  BY <1>4, <1>5, <1>6
<1>8. ASSUME NEW u \in Threads \ {t}
      PROVE  /\ pc'[u] = pc[u] /\ ret'[u] = ret[u] /\ worker'[u] = worker[u]
             /\ param'[u] = param[u] /\ (u \in event' <=> u \in event)
  BY <1>4, <1>5, <1>6
<1>9. TypeOK'
  BY <1>1, <1>4, <1>5, <1>6 DEF TypeOK
<1>10. MutualExclusion' /\ FlagTold'
  BY <1>1, <1>4, <1>7, <1>8 DEF MutualExclusion, FlagTold, InLock, Started
<1>11. Creators' /\ InitedByWorker'
  BY <1>1, <1>7, <1>8 DEF Creators, InitedByWorker, Started
<1>12. Fits(t)'
  BY <1>3, <1>7 DEF Fits
<1>13. ASSUME NEW u \in Threads \ {t}
       PROVE  Fits(u)'
  <2>1. Fits(u) /\ inited' = inited
    BY <1>1, <1>4 DEF Handshake
  <2>2. QED
    BY <2>1, <1>8, OtherFits
<1>14. QED
  BY <1>9, <1>10, <1>11, <1>12, <1>13 DEF IInv, Handshake

\* The new thread signals its creator.
LEMMA SignalStep ==
  ASSUME IInv, NEW t \in Threads, Signal(t)
  PROVE  IInv'
<1>1. TypeOK /\ MutualExclusion /\ FlagTold /\ Creators /\ InitedByWorker /\ Handshake
  BY DEF IInv
<1>2. /\ pc \in [Threads -> PCs] /\ ret \in [Threads -> Results]
      /\ worker \in [Threads -> WorkerPCs] /\ param \in [Threads -> {AppID, -1}]
  BY <1>1 DEF TypeOK, Results
<1>3. Fits(t)
  BY <1>1 DEF Handshake
<1>4. event' = event \cup {t} /\ UNCHANGED <<m_lock, m_bInited, pc, ret, param, inited, exited>>
  BY DEF Signal, callerVars
<1>5. /\ worker' \in [Threads -> WorkerPCs]
      /\ \/ worker[t] = "ready" /\ worker'[t] = "loop"
         \/ worker[t] = "failed" /\ worker'[t] = "done"
      /\ \A u \in Threads \ {t} : worker'[u] = worker[u]
  BY <1>2, WorkWorker DEF Signal, WorkerPCs
<1>6. param' \in [Threads -> {AppID, -1}] /\ param' = param
  BY <1>2, <1>4
<1>7. /\ \/ worker[t] = "ready" /\ worker'[t] = "loop"
         \/ worker[t] = "failed" /\ worker'[t] = "done"
      /\ pc'[t] = pc[t] /\ ret'[t] = ret[t] /\ param'[t] = param[t] /\ t \in event' /\ inited' = inited
  BY <1>4, <1>5, <1>6
<1>8. ASSUME NEW u \in Threads \ {t}
      PROVE  /\ pc'[u] = pc[u] /\ ret'[u] = ret[u] /\ worker'[u] = worker[u]
             /\ param'[u] = param[u] /\ (u \in event' <=> u \in event)
  BY <1>4, <1>5, <1>6
<1>9. TypeOK'
  BY <1>1, <1>4, <1>5, <1>6 DEF TypeOK
<1>10. MutualExclusion' /\ FlagTold'
  BY <1>1, <1>4, <1>7, <1>8 DEF MutualExclusion, FlagTold, InLock, Started
<1>11. Creators' /\ InitedByWorker'
  BY <1>1, <1>7, <1>8 DEF Creators, InitedByWorker, Started
<1>12. Fits(t)'
  <2>1. CASE worker[t] = "ready"
    <3>1. inited /\ param[t] # -1 /\ worker'[t] = "loop" /\ pc[t] \in {"wait", "done"}
      BY <2>1, <1>3, <1>7 DEF Fits
    <3>2. pc[t] = "wait"
      BY <2>1, <1>3 DEF Fits
    <3>3. QED
      BY <3>1, <3>2, <1>7 DEF Fits
  <2>2. CASE worker[t] = "failed"
    <3>1. ~inited /\ param[t] = -1 /\ worker'[t] = "done" /\ pc[t] = "wait"
      BY <2>2, <1>3, <1>7 DEF Fits
    <3>2. QED
      BY <3>1, <1>7 DEF Fits
  <2>3. QED
    BY <2>1, <2>2, <1>7
<1>13. ASSUME NEW u \in Threads \ {t}
       PROVE  Fits(u)'
  <2>1. Fits(u) /\ inited' = inited
    BY <1>1, <1>4 DEF Handshake
  <2>2. QED
    BY <2>1, <1>8, OtherFits
<1>14. QED
  BY <1>9, <1>10, <1>11, <1>12, <1>13 DEF IInv, Handshake

\* The loop of the new thread ends.
LEMMA Run_Loop_EndsStep ==
  ASSUME IInv, NEW t \in Threads, Run_Loop_Ends(t)
  PROVE  IInv'
<1>1. TypeOK /\ MutualExclusion /\ FlagTold /\ Creators /\ InitedByWorker /\ Handshake
  BY DEF IInv
<1>2. /\ pc \in [Threads -> PCs] /\ ret \in [Threads -> Results]
      /\ worker \in [Threads -> WorkerPCs] /\ param \in [Threads -> {AppID, -1}]
  BY <1>1 DEF TypeOK, Results
<1>3. Fits(t)
  BY <1>1 DEF Handshake
<1>4. UNCHANGED <<m_lock, m_bInited, pc, ret, param, event, inited, exited>>
  BY DEF Run_Loop_Ends, callerVars
<1>5. /\ worker' \in [Threads -> WorkerPCs]
      /\ worker[t] = "loop" /\ worker'[t] = "done"
      /\ \A u \in Threads \ {t} : worker'[u] = worker[u]
  BY <1>2, WorkWorker DEF Run_Loop_Ends, WorkerPCs
<1>6. param' \in [Threads -> {AppID, -1}] /\ param' = param
  BY <1>2, <1>4
<1>7. /\ worker[t] = "loop" /\ worker'[t] = "done"
      /\ pc'[t] = pc[t] /\ ret'[t] = ret[t] /\ param'[t] = param[t] /\ event' = event /\ inited' = inited
  BY <1>4, <1>5, <1>6
<1>8. ASSUME NEW u \in Threads \ {t}
      PROVE  /\ pc'[u] = pc[u] /\ ret'[u] = ret[u] /\ worker'[u] = worker[u]
             /\ param'[u] = param[u] /\ (u \in event' <=> u \in event)
  BY <1>4, <1>5, <1>6
<1>9. TypeOK'
  BY <1>1, <1>4, <1>5, <1>6 DEF TypeOK
<1>10. MutualExclusion' /\ FlagTold'
  BY <1>1, <1>4, <1>7, <1>8 DEF MutualExclusion, FlagTold, InLock, Started
<1>11. Creators' /\ InitedByWorker'
  BY <1>1, <1>7, <1>8 DEF Creators, InitedByWorker, Started
<1>12. Fits(t)'
  BY <1>3, <1>7 DEF Fits
<1>13. ASSUME NEW u \in Threads \ {t}
       PROVE  Fits(u)'
  <2>1. Fits(u) /\ inited' = inited
    BY <1>1, <1>4 DEF Handshake
  <2>2. QED
    BY <2>1, <1>8, OtherFits
<1>14. QED
  BY <1>9, <1>10, <1>11, <1>12, <1>13 DEF IInv, Handshake

LEMMA NextIInv ==
  ASSUME IInv, [Next]_vars
  PROVE  IInv'
<1>1. CASE UNCHANGED vars
  BY <1>1 DEF vars, IInv, TypeOK, MutualExclusion, FlagTold, InLock, Started, Creators,
              InitedByWorker, Handshake, Fits
<1>2. ASSUME NEW t \in Threads, FnitVbhSdk(t)
      PROVE  IInv'
  BY <1>2 DEF FnitVbhSdk, callerVars, IInv, TypeOK, MutualExclusion, FlagTold, InLock, Started,
              Creators, InitedByWorker, Handshake, Fits
<1>3. ASSUME NEW t \in Threads, InitVbhSdk(t)
      PROVE  IInv'
  BY <1>3, TestAndSetStep, CheckInitedStep, RepeatedCallStep, SetInitedStep, ClearLockStep,
     SpawnStep, SpawnFailsStep, AwaitStep DEF InitVbhSdk
<1>4. ASSUME NEW t \in Threads, ThreadFunction(t)
      PROVE  IInv'
  BY <1>4, InitAppStep, InitAppFailsStep, FailStep, SignalStep, Run_Loop_EndsStep
     DEF ThreadFunction
<1>5. QED
  BY <1>1, <1>2, <1>3, <1>4 DEF Next

THEOREM Invariance == Spec => []IInv
BY InitIInv, NextIInv, PTL DEF Spec

LEMMA IInvImplies ==
  ASSUME IInv
  PROVE  TypeOK /\ OneService /\ ParamAlive /\ CreatorToldTheOutcome
<1>1. TypeOK /\ Creators /\ Handshake
  BY DEF IInv
<1>2. OneService
  BY <1>1 DEF Creators, Started, OneService
<1>3. ParamAlive
  <2>1. ASSUME NEW t \in Threads
        PROVE  worker[t] \in {"init", "ready", "failing", "failed"} => pc[t] = "wait"
    BY <1>1 DEF Handshake, Fits
  <2>2. QED
    BY <2>1 DEF ParamAlive
<1>4. CreatorToldTheOutcome
  <2>1. ASSUME NEW t \in Threads
        PROVE  pc[t] = "done" /\ worker[t] # "none" => (ret[t] = "ok" <=> inited)
    BY <1>1 DEF Handshake, Fits
  <2>2. QED
    BY <2>1 DEF CreatorToldTheOutcome
<1>5. QED
  BY <1>1, <1>2, <1>3, <1>4

\* The variables keep their types.
THEOREM TypeCorrect == Spec => []TypeOK
BY Invariance, IInvImplies, PTL

\* However many threads call InitVbhSdk, at most one framework is started.
THEOREM StartedOnce == Spec => []OneService
BY Invariance, IInvImplies, PTL

\* The new thread never touches the stack of a caller that has returned.
THEOREM ParametersAlive == Spec => []ParamAlive
BY Invariance, IInvImplies, PTL

\* The caller that started the framework learns what became of it.
THEOREM CreatorTold == Spec => []CreatorToldTheOutcome
BY Invariance, IInvImplies, PTL

(* The client API on top of it. *)

\* A thread's object is in place from its own SetCallBack on, or another
\* thread's; the task is registered before anyone can ask.
CallbackPlaced ==
  /\ api \in [Threads -> {"InitVbhSdk", "RegistDscTask", "ready", "failed"}]
  /\ m_pCallBack # NULL => m_pCallBack \in Threads /\ Placed(m_pCallBack)
  /\ \A t \in Threads : Placed(t) => m_pCallBack \in {t} \cup since[t]
  /\ since \in [Threads -> SUBSET Threads]
  /\ \A t \in Threads : api[t] = "ready" => registered

\* What is known of a call that was made, and of the messages about it.
CallMade(r) ==
  asked[r] # NULL => /\ asked[r] \in [by : Threads, kind : Kinds]
                     /\ asked[r].kind \in CalledFrom(asked[r].by)
                     /\ api[asked[r].by] = "ready"

Truthful(r, m) ==
  /\ m.type = Call[asked[r].kind].type
  /\ m.ok => m.id = Call[asked[r].kind].id

OnTheWay ==
  /\ \A m \in answers : m.r \in Requests /\ asked[m.r] # NULL /\ Truthful(m.r, m)
                        /\ told[m.r] = <<>>
  /\ \A m, n \in answers : m.r = n.r => m = n

Dispatched(r, a) ==
  \E type \in {"regist", "propose", "query"} :
    LET m == [type |-> type, id |-> a.id, ok |-> a.ok]
    IN  /\ asked[r] # NULL /\ Truthful(r, m)
        /\ a.obj \in {asked[r].by} \cup since[asked[r].by]
        /\ a.fn = Function(a.obj, m) /\ a.info = Info(a.obj, m)

ApiInv ==
  /\ CallbackPlaced
  /\ asked \in [Requests -> {NULL} \cup [by : Threads, kind : Kinds]]
  /\ DOMAIN told = Requests
  /\ \A r \in Requests : CallMade(r)
  /\ OnTheWay
  /\ \A r \in Requests : told[r] = <<>> \/ \E a : told[r] = <<a>> /\ Dispatched(r, a)
  /\ crashed <=> \E r \in Requests : \E i \in DOMAIN told[r] : told[r][i].fn = NULL
-----------------------------------------------------------------------------
(* The table of the calls and the functions that answer them. *)

LEMMA CallTable ==
  /\ \A k \in DOMAIN Transactions : Call[k] = Transactions[k]
  /\ \A k \in DOMAIN Queries : Call[k] = Queries[k]
  /\ \A k \in DOMAIN ExplorerQueries : Call[k] = ExplorerQueries[k]
  BY DEF Call, Kinds, Transactions, Queries, ExplorerQueries

LEMMA CallTypes ==
  ASSUME NEW k \in Kinds
  PROVE  /\ Call[k].type \in {"regist", "propose", "query"}
         /\ Call[k].type = "query" => k \in DOMAIN Queries \cup DOMAIN ExplorerQueries
  <1>1. CASE k \in DOMAIN Transactions
    BY <1>1, CallTable DEF Transactions
  <1>2. CASE k \in DOMAIN Queries
    BY <1>2, CallTable DEF Queries
  <1>3. CASE k \in DOMAIN ExplorerQueries
    BY <1>3, CallTable DEF ExplorerQueries
  <1> QED BY <1>1, <1>2, <1>3 DEF Kinds

\* An answer with the id of its call goes where it belongs: first to the
\* method, then from the method to the pointer.
LEMMA MethodBelongs ==
  ASSUME NEW k \in Kinds, NEW m, m.type = Call[k].type, m.id = Call[k].id
  PROVE  Method(m) = BelongsInCpp(k)
  <1> USE DEF Method, BelongsInCpp, Transactions, Queries, ExplorerQueries
  <1>1. CASE k \in DOMAIN Transactions
    BY <1>1, CallTable
  <1>2. CASE k \in DOMAIN Queries
    <2>1. m.type = "query" /\ m.id \notin {1, 2, 3, 5}
      BY <1>2, CallTable DEF UserID
    <2> QED BY <1>2, <2>1 DEF Explorer
  <1>3. CASE k \in DOMAIN ExplorerQueries
    BY <1>3, CallTable DEF Explorer
  <1> QED BY <1>1, <1>2, <1>3 DEF Kinds

LEMMA PointerBelongs ==
  ASSUME NEW k \in Kinds
  PROVE  Wrapper(BelongsInCpp(k), Call[k].id) = BelongsInC(k)
  <1> USE DEF Wrapper, BelongsInCpp, BelongsInC, Transactions, Queries, ExplorerQueries
  <1>1. CASE k \in DOMAIN Transactions
    BY <1>1, CallTable DEF Proposal
  <1>2. CASE k \in DOMAIN Queries
    BY <1>2
  <1>3. CASE k \in DOMAIN ExplorerQueries
    BY <1>3
  <1> QED BY <1>1, <1>2, <1>3 DEF Kinds

LEMMA FunctionBelongs ==
  ASSUME NEW t, NEW k \in Kinds, NEW m, m.type = Call[k].type, m.id = Call[k].id
  PROVE  Function(t, m) = Belongs(t, k)
  BY MethodBelongs, PointerBelongs DEF Function, Belongs

\* The null pointer is reached in one way.
LEMMA FunctionNull ==
  ASSUME NEW t, NEW m, m.type \in {"regist", "propose", "query"}
  PROVE  Function(t, m) = NULL => m.id = 5 /\ t \in CThreads
  <1>1. Method(m) \in Methods /\ (Method(m) = "OnExplorerQueryTransRsp" => m.id = 5)
    BY DEF Method, Methods, Explorer
  <1>2. \A x \in Methods :
          x # "OnExplorerQueryTransRsp" => Wrapper(x, m.id) \in Pointers \cup {"none"}
    BY DEF Wrapper, Proposal, Methods, Pointers
  <1> QED BY <1>1, <1>2, NullOfApiAssumption DEF Function

\* The result of a query is lost only for the queries the wrapper cannot decode.
LEMMA InfoEmpty ==
  ASSUME NEW t, NEW k \in Kinds, NEW m, m.type = Call[k].type,
         m.ok => m.id = Call[k].id, Info(t, m) = "empty"
  PROVE  t \in CThreads /\ k \in {"Query", "ExplorerQueryUser"}
  <1>1. /\ m.type = "query" /\ m.id = Call[k].id /\ t \in CThreads
        /\ m.id \notin {65, 66} /\ m.id \notin DOMAIN Explorer
    BY DEF Info, SDKDecode, Method, Explorer
  <1>2. CASE k \in DOMAIN Queries
    BY <1>1, <1>2, CallTable DEF Queries
  <1>3. CASE k \in DOMAIN ExplorerQueries
    BY <1>1, <1>3, CallTable DEF ExplorerQueries, Explorer
  <1> QED BY <1>1, <1>2, <1>3, CallTypes
-----------------------------------------------------------------------------
(* The steps. *)

\* What has been dispatched stays true.
LEMMA DispatchedKept ==
  ASSUME NEW r, NEW a, Dispatched(r, a), asked'[r] = asked[r],
         \A t \in Threads : since[t] \subseteq since'[t], CallMade(r)
  PROVE  Dispatched(r, a)'
  <1>1. PICK type \in {"regist", "propose", "query"} :
          LET m == [type |-> type, id |-> a.id, ok |-> a.ok]
          IN  /\ asked[r] # NULL /\ Truthful(r, m)
              /\ a.obj \in {asked[r].by} \cup since[asked[r].by]
              /\ a.fn = Function(a.obj, m) /\ a.info = Info(a.obj, m)
    BY DEF Dispatched
  <1> DEFINE m == [type |-> type, id |-> a.id, ok |-> a.ok]
  <1>2. Truthful(r, m)' /\ asked'[r] # NULL
    BY <1>1 DEF Truthful
  <1>3. a.obj \in {asked'[r].by} \cup since'[asked'[r].by]
    BY <1>1 DEF CallMade
  <1> QED BY <1>1, <1>2, <1>3 DEF Dispatched

LEMMA InitApiInv == ApiInit => ApiInv
  BY DEF ApiInit, ApiInv, CallbackPlaced, Placed, CallMade, OnTheWay

\* InitClientSdk puts its object in place for every thread that did so before.
LEMMA InitClientSdkInv ==
  ASSUME ApiInv, NEW t \in Threads, InitClientSdk(t)
  PROVE  ApiInv'
  <1> USE DEF ApiInv, CallbackPlaced, Enter
  <1>1. /\ api' \in [Threads -> {"InitVbhSdk", "RegistDscTask", "ready", "failed"}]
        /\ \A u \in Threads : since[u] \subseteq since'[u]
        /\ \A u \in Threads : api[u] = "ready" => api'[u] = "ready"
        /\ asked' = asked /\ answers' = answers /\ told' = told /\ crashed' = crashed
    BY DEF InitClientSdk, InitClientSdkFails, SetCallBack, RegistDscTask, Placed
  <1>2. CallbackPlaced'
    BY <1>1, NullOfApiAssumption
       DEF InitClientSdk, InitClientSdkFails, SetCallBack, RegistDscTask, Placed
  <1>3. \A r \in Requests : CallMade(r)'
    BY <1>1 DEF CallMade
  <1>4. OnTheWay'
    BY <1>1 DEF OnTheWay, Truthful
  <1>5. \A r \in Requests : told'[r] = <<>> \/ \E a : told'[r] = <<a>> /\ Dispatched(r, a)'
    BY <1>1, DispatchedKept
  <1> QED BY <1>1, <1>2, <1>3, <1>4, <1>5

LEMMA SendInv ==
  ASSUME ApiInv, NEW t \in Threads, NEW r \in Requests, NEW k \in CalledFrom(t),
         SendVbhApiMessage(t, r, k)
  PROVE  ApiInv'
  <1>k. k \in Kinds
    BY DEF CalledFrom, CTransactions, CQueries, Kinds
  <1> USE DEF ApiInv, SendVbhApiMessage
  <1>1. /\ asked[r] = NULL
        /\ \A q \in Requests : asked'[q] = IF q = r THEN [by |-> t, kind |-> k] ELSE asked[q]
        /\ asked' \in [Requests -> {NULL} \cup [by : Threads, kind : Kinds]]
    BY <1>k
  <1>2. CallbackPlaced'
    BY DEF CallbackPlaced, Placed
  <1>3. \A q \in Requests : CallMade(q)'
    BY <1>1, <1>k DEF CallMade
  <1>4. OnTheWay'
    BY <1>1 DEF OnTheWay, Truthful
  <1>5. \A q \in Requests : told'[q] = <<>> \/ \E a : told'[q] = <<a>> /\ Dispatched(q, a)'
    <2> SUFFICES ASSUME NEW q \in Requests, told[q] # <<>>
                 PROVE  \E a : told'[q] = <<a>> /\ Dispatched(q, a)'
      OBVIOUS
    <2>1. PICK a : told[q] = <<a>> /\ Dispatched(q, a)
      OBVIOUS
    <2>2. asked'[q] = asked[q] /\ told' = told
      BY <1>1, <2>1 DEF Dispatched
    <2> QED BY <2>1, <2>2, DispatchedKept
  <1> QED BY <1>1, <1>2, <1>3, <1>4, <1>5

LEMMA OnResponseInv ==
  ASSUME ApiInv, NEW r \in Requests, OnResponse(r)
  PROVE  ApiInv'
  <1> USE DEF ApiInv, OnResponse
  <1>1. PICK i \in AnswerIDs(Call[asked[r].kind]), ok \in BOOLEAN :
          /\ ok => i = Call[asked[r].kind].id
          /\ answers' = answers \cup
               {[r |-> r, type |-> Call[asked[r].kind].type, id |-> i, ok |-> ok]}
    OBVIOUS
  <1>2. asked[r] # NULL /\ told[r] = <<>> /\ \A m \in answers : m.r # r
    BY DEF Answered
  <1>3. OnTheWay'
    BY <1>1, <1>2 DEF OnTheWay, Truthful
  <1>4. CallbackPlaced' /\ \A q \in Requests : CallMade(q)'
    BY DEF CallbackPlaced, Placed, CallMade
  <1>5. \A q \in Requests : told'[q] = <<>> \/ \E a : told'[q] = <<a>> /\ Dispatched(q, a)'
    BY DispatchedKept
  <1> QED BY <1>3, <1>4, <1>5

\* The answer leaves the way and is told of, with the object in place now.
LEMMA PostDscMessageInv ==
  ASSUME ApiInv, NEW m \in answers, PostDscMessage(m)
  PROVE  ApiInv'
  <1> USE DEF ApiInv, PostDscMessage
  <1> DEFINE a == [obj |-> m_pCallBack, fn |-> Function(m_pCallBack, m), id |-> m.id,
                   ok |-> m.ok, info |-> Info(m_pCallBack, m)]
             n == [type |-> m.type, id |-> m.id, ok |-> m.ok]
  <1>1. /\ m.r \in Requests /\ asked[m.r] # NULL /\ Truthful(m.r, m) /\ told[m.r] = <<>>
        /\ asked[m.r] \in [by : Threads, kind : Kinds] /\ api[asked[m.r].by] = "ready"
    BY DEF OnTheWay, CallMade
  <1>2. m_pCallBack \in {asked[m.r].by} \cup since[asked[m.r].by]
    BY <1>1 DEF CallbackPlaced, Placed
  <1>3. /\ \A q \in Requests : told'[q] = IF q = m.r THEN <<a>> ELSE told[q]
        /\ DOMAIN told' = Requests
    BY <1>1
  <1>4. Dispatched(m.r, a)
    <2>1. n.type \in {"regist", "propose", "query"} /\ Truthful(m.r, n)
      BY <1>1, CallTypes DEF Truthful
    <2>2. a.fn = Function(a.obj, n) /\ a.info = Info(a.obj, n)
      <3>1. Method(n) = Method(m) /\ n.type = m.type /\ n.id = m.id /\ n.ok = m.ok
        BY DEF Method
      <3> HIDE DEF n
      <3> QED BY <3>1 DEF Function, Info
    <2> HIDE DEF a
    <2>3. n = [type |-> m.type, id |-> a.id, ok |-> a.ok] /\ a.obj = m_pCallBack
      BY DEF a
    <2> QED BY <1>1, <1>2, <2>1, <2>2, <2>3 DEF Dispatched
  <1> HIDE DEF a
  <1>5. OnTheWay'
    BY <1>1, <1>3 DEF OnTheWay, Truthful
  <1>6. CallbackPlaced' /\ \A q \in Requests : CallMade(q)'
    BY DEF CallbackPlaced, Placed, CallMade
  <1>7. \A q \in Requests : told'[q] = <<>> \/ \E b : told'[q] = <<b>> /\ Dispatched(q, b)'
    <2>1. \A q \in Requests : \A b : Dispatched(q, b) => Dispatched(q, b)'
      BY DispatchedKept
    <2> QED BY <2>1, <1>3, <1>4
  <1>8. crashed' <=> \E q \in Requests : \E i \in DOMAIN told'[q] : told'[q][i].fn = NULL
    <2>1. crashed' <=> a.fn = NULL
      BY DEF a
    <2>2. \A q \in Requests \ {m.r} : \A i \in DOMAIN told'[q] : told'[q][i].fn # NULL
      BY <1>3
    <2>3. DOMAIN told'[m.r] = {1} /\ told'[m.r][1] = a
      BY <1>1, <1>3
    <2> QED BY <1>1, <2>1, <2>2, <2>3
  <1> QED BY <1>3, <1>5, <1>6, <1>7, <1>8

LEMMA ApiNextInv ==
  ASSUME ApiInv, [ApiNext]_allVars
  PROVE  ApiInv'
  <1>1. ASSUME UNCHANGED apiVars
        PROVE  ApiInv'
    <2> USE <1>1 DEF apiVars, ApiInv
    <2>1. CallbackPlaced' /\ OnTheWay' /\ \A r \in Requests : CallMade(r)'
      BY DEF CallbackPlaced, Placed, CallMade, OnTheWay, Truthful
    <2>2. \A r \in Requests : told'[r] = <<>> \/ \E a : told'[r] = <<a>> /\ Dispatched(r, a)'
      BY DispatchedKept
    <2> QED BY <2>1, <2>2
  <1>2. CASE UNCHANGED allVars
    BY <1>1, <1>2 DEF allVars
  <1>3. ASSUME NEW t \in Threads, InitStep(t) \/ WorkStep(t) \/ FnitStep(t)
        PROVE  ApiInv'
    BY <1>1, <1>3 DEF InitStep, WorkStep, FnitStep
  <1>4. ASSUME NEW t \in Threads, NEW r \in Requests, NEW k \in CalledFrom(t),
               SendVbhApiMessage(t, r, k)
        PROVE  ApiInv'
    BY <1>4, SendInv
  <1> QED BY <1>2, <1>3, <1>4, InitClientSdkInv, OnResponseInv, PostDscMessageInv DEF ApiNext

LEMMA InvImplies ==
  ASSUME ApiInv
  PROVE  AnswersFindCallback /\ AnswerGoesWhereItBelongs
  <1> USE DEF ApiInv
  <1>1. AnswersFindCallback
    BY DEF AnswersFindCallback, OnTheWay, CallMade, CallbackPlaced, Placed
  <1>2. ASSUME NEW r \in Requests, NEW i \in DOMAIN told[r]
        PROVE  LET b == told[r][i]
                   by == asked[r].by
                   k == asked[r].kind
               IN  /\ i = 1
                   /\ b.obj \in {by} \cup since[by]
                   /\ b.id = Call[k].id => b.fn = Belongs(b.obj, k)
                   /\ b.fn = NULL => b.id = 5 /\ b.obj \in CThreads
                   /\ b.info = "empty" => /\ b.obj \in CThreads
                                         /\ \/ k = "Query"
                                            \/ k = "ExplorerQueryUser" /\ b.obj # by
    <2>1. PICK b : told[r] = <<b>> /\ Dispatched(r, b)
      BY <1>2
    <2>2. i = 1 /\ told[r][i] = b
      BY <1>2, <2>1
    <2>3. PICK type \in {"regist", "propose", "query"} :
            LET m == [type |-> type, id |-> b.id, ok |-> b.ok]
            IN  /\ asked[r] # NULL /\ Truthful(r, m)
                /\ b.obj \in {asked[r].by} \cup since[asked[r].by]
                /\ b.fn = Function(b.obj, m) /\ b.info = Info(b.obj, m)
      BY <2>1 DEF Dispatched
    <2> DEFINE m == [type |-> type, id |-> b.id, ok |-> b.ok]
               k == asked[r].kind
               by == asked[r].by
    <2>4. k \in Kinds /\ by \in Threads /\ k \in CalledFrom(by)
      BY <2>3 DEF CallMade
    <2>5. /\ m.type = Call[k].type /\ m.id = b.id /\ (m.ok => m.id = Call[k].id)
          /\ m.type \in {"regist", "propose", "query"}
          /\ b.fn = Function(b.obj, m) /\ b.info = Info(b.obj, m)
      BY <2>3 DEF Truthful
    <2> HIDE DEF m, k, by
    <2>6. b.id = Call[k].id => b.fn = Belongs(b.obj, k)
      BY <2>4, <2>5, FunctionBelongs
    <2>7. b.fn = NULL => b.id = 5 /\ b.obj \in CThreads
      <3>1. Function(b.obj, m) = NULL => m.id = 5 /\ b.obj \in CThreads
        BY <2>5, FunctionNull
      <3> QED BY <2>5, <3>1
    <2>8. b.info = "empty" => /\ b.obj \in CThreads
                              /\ \/ k = "Query"
                                 \/ k = "ExplorerQueryUser" /\ b.obj # by
      <3>1. Info(b.obj, m) = "empty" => b.obj \in CThreads /\ k \in {"Query", "ExplorerQueryUser"}
        BY <2>4, <2>5, InfoEmpty
      <3>2. by \in CThreads => k # "ExplorerQueryUser"
        BY <2>4 DEF CalledFrom, CQueries, CTransactions, Transactions
      <3> QED BY <2>5, <3>1, <3>2
    <2>9. b.obj \in {by} \cup since[by]
      BY <2>3 DEF by
    <2> QED BY <2>2, <2>6, <2>7, <2>8, <2>9 DEF k, by
  <1>3. AnswerGoesWhereItBelongs
    BY <1>2 DEF AnswerGoesWhereItBelongs
  <1> QED BY <1>1, <1>3
-----------------------------------------------------------------------------
\* The inductive invariant of the API.
THEOREM ApiInvariance == ApiSpec => []ApiInv
  BY InitApiInv, ApiNextInv, PTL DEF ApiSpec

\* An answer finds a registered task with a callback object, whatever other
\* threads do to the SDK in the meantime: PostDscMessage's assertion.
THEOREM CallbackFound == ApiSpec => []AnswersFindCallback
  BY ApiInvariance, InvImplies, PTL

\* Every answer goes once and to the function its call names; what goes
\* astray does so in the ways the code makes it.
THEOREM AnswersBelong == ApiSpec => []AnswerGoesWhereItBelongs
  BY ApiInvariance, InvImplies, PTL

\* The API leaves the start of the SDK as it is: every step of the composed
\* system is one of SdkInit or changes none of its variables.
THEOREM ApiImplementsSdkInit == ApiSpec => Spec
  <1>1. ApiInit => Init
    BY DEF ApiInit
  <1>2. [ApiNext]_allVars => [Next]_vars
    BY DEF ApiNext, Next, InitStep, WorkStep, FnitStep, InitClientSdk, InitClientSdkFails,
           SetCallBack, RegistDscTask, SendVbhApiMessage, OnResponse, PostDscMessage, allVars
  <1> QED BY <1>1, <1>2, PTL DEF ApiSpec, Spec

\* So it keeps the promises of the start: one framework, no use of a stack
\* that is gone, and the truth for its creator.
THEOREM ApiStartedOnce == ApiSpec => [](OneService /\ ParamAlive /\ CreatorToldTheOutcome)
  BY ApiImplementsSdkInit, StartedOnce, ParametersAlive, CreatorTold, PTL
=============================================================================
