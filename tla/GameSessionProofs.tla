------------------------- MODULE GameSessionProofs -------------------------
(***************************************************************************)
(* Proofs about GameSession, for any number of handlers and protectors,    *)
(* with or without crashes and failures: the types, that the record can    *)
(* always be recovered from, and that it implements SessionRecord.  Then,  *)
(* for handlers that come one at a time, next to any number of protectors  *)
(* wherever their races allow it: what is promised about the games, the    *)
(* keyboard thread, the record and a stopped session.                      *)
(*                                                                         *)
(* IInv is inductive.  RecoverableRecord alone is not: the write of the    *)
(* status by a handler at "recStatus" keeps it only because that handler   *)
(* has recorded its parameters before (StatusComesSecond), because those   *)
(* were accepted (ArgOK), and because no other handler ever records        *)
(* anything but accepted parameters (RecordOK).                            *)
(***************************************************************************)
EXTENDS GameSession, FiniteSetTheorems, TLAPS

-----------------------------------------------------------------------------
(* The invariant: initially, and step by step. *)

LEMMA InitInvariant == Init => IInv
<1> SUFFICES ASSUME Init PROVE IInv
  OBVIOUS
<1>1. TypeOK
  <2>1. rec \in RecordType /\ disk \in RecordType
    BY DEF Init, EmptyRecord, RecordType
  <2>2. QED
    BY <2>1 DEF Init, TypeOK, AbortCauses, ProtectPoints, NORMAL_MODEL
<1>2. ArgOK
  BY DEF Init, ArgOK, AcceptedPoints, StartPoints, StopPoints
<1>3. RecordOK(rec) /\ RecordOK(disk) /\ StatusComesSecond
  BY DEF Init, EmptyRecord, RecordOK, StatusComesSecond
<1>4. QED
  BY <1>1, <1>2, <1>3 DEF IInv

\* What the writes of RecordInfo leave in the record.
Record(p, n, g, w) == [params |-> p, status |-> n, game |-> g, written |-> w]

Keeps(t) ==
    /\ pc' = [pc EXCEPT ![t] = pc'[t]]
    /\ UNCHANGED <<gameId, gamePid, pushParams, keyboard, keyboardPid, protectFlag,
                   protectThread, disk, running, launching, dying, streams, arg,
                   model, left, ppc, parg, aborted, orphans>>

LEMMA StartWrites ==
    ASSUME IInv, NEW t \in Workers, RecordStart(t)
    PROVE  /\ Keeps(t)
           /\ \/ /\ pc[t] = "recParams" /\ pc'[t] = "recStatus"
                 /\ rec' = IF RecordFile
                           THEN Record(arg[t], rec.status, rec.game, "torn") ELSE rec
              \/ /\ pc[t] = "recStatus" /\ pc'[t] = "recGame"
                 /\ rec' = IF RecordFile
                           THEN Record(rec.params, 1, rec.game, "torn") ELSE rec
              \/ /\ pc[t] = "recGame" /\ pc'[t] = "setPush"
                 /\ rec' = IF RecordFile
                           THEN Record(rec.params, rec.status, arg[t].game, "whole") ELSE rec
<1>1. rec \in RecordType /\ pc \in [Workers -> {"idle"} \cup StartPoints \cup StopPoints \cup RecoverPoints]
  BY DEF IInv, TypeOK
<1>2. QED
  BY <1>1 DEF RecordStart, Step, SetValue, RecordType, Record, Keeps,
     fields, board, protect, machine, guards, ending

LEMMA StopWrites ==
    ASSUME IInv, NEW t \in Workers, RecordStop(t)
    PROVE  /\ Keeps(t)
           /\ \/ /\ pc[t] = "recStopGame" /\ pc'[t] = "recStopStatus"
                 /\ rec' = IF RecordFile
                           THEN Record(rec.params, rec.status, gameId, "torn") ELSE rec
              \/ /\ pc[t] = "recStopStatus" /\ pc'[t] = "stopProtect"
                 /\ rec' = IF RecordFile
                           THEN Record(rec.params, 0, rec.game, "whole") ELSE rec
<1>1. rec \in RecordType /\ pc \in [Workers -> {"idle"} \cup StartPoints \cup StopPoints \cup RecoverPoints]
  BY DEF IInv, TypeOK
<1>2. QED
  BY <1>1 DEF RecordStop, Step, SetValue, RecordType, Record, Keeps,
     fields, board, protect, machine, guards, ending

LEMMA ChangeWrites ==
    ASSUME IInv, NEW t \in Workers, ChangeWriteInfo(t)
    PROVE  /\ Keeps(t) /\ pc[t] = "writeInfo" /\ pc'[t] = "readStatus"
           /\ rec' = IF RecordFile
                     THEN Record(arg[t], rec.status, rec.game, rec.written) ELSE rec
<1>1. rec \in RecordType /\ pc \in [Workers -> {"idle"} \cup StartPoints \cup StopPoints \cup RecoverPoints]
  BY DEF IInv, TypeOK
<1>2. Keeps(t) /\ pc[t] = "writeInfo" /\ pc'[t] = "readStatus"
  BY <1>1 DEF ChangeWriteInfo, Step, Keeps, fields, board, protect, machine,
     guards, ending
<1>3. rec' = IF RecordFile
             THEN [rec EXCEPT !.params = arg[t], !.written = rec.written] ELSE rec
  BY DEF ChangeWriteInfo, SetValue
<1>4. rec' = IF RecordFile
             THEN Record(arg[t], rec.status, rec.game, rec.written) ELSE rec
  <2> DEFINE r == [rec EXCEPT !.params = arg[t]]
  <2>1. [rec EXCEPT !.params = arg[t], !.written = rec.written]
            = [r EXCEPT !.written = r.written]
    BY <1>1 DEF RecordType
  <2>2. r = [params |-> arg[t], status |-> rec.status, game |-> rec.game,
             written |-> rec.written]
    BY <1>1 DEF RecordType
  <2>3. [r EXCEPT !.written = r.written] = r
    BY <2>2
  <2>4. QED
    BY <1>3, <2>1, <2>2, <2>3 DEF Record
<1>5. QED
  BY <1>2, <1>4

LEMMA RecordStartInvariant ==
    ASSUME IInv, NEW t \in Workers, RecordStart(t)
    PROVE  IInv'
<1>k. Keeps(t)
  BY StartWrites
<1>p. pc[t] \in {"recParams", "recStatus", "recGame"} /\ pc'[t] \in {"recStatus", "recGame", "setPush"}
  BY StartWrites
<1>a. arg[t] \in Valid /\ arg[t] \in StartParams /\ arg[t].game \in Games
  BY <1>p, GameSessionAssumption DEF IInv, ArgOK, AcceptedPoints, StartPoints, Valid
<1>1. rec' \in RecordType
  BY <1>a, StartWrites DEF Record, RecordType, IInv, TypeOK
<1>2. TypeOK'
  BY <1>k, <1>p, <1>1 DEF Keeps, IInv, TypeOK, StartPoints, StopPoints
<1>3. ArgOK'
  BY <1>k, <1>p DEF Keeps, IInv, TypeOK, ArgOK, AcceptedPoints, StartPoints,
     StopPoints
<1>4. RecordOK(rec)'
  BY <1>a, StartWrites DEF Record, IInv, TypeOK, RecordType, RecordOK, StatusComesSecond, Valid
<1>5. RecordOK(disk)'
  BY <1>k DEF Keeps, IInv, RecordOK
<1>6. StatusComesSecond'
  BY <1>a, <1>k, <1>p, StartWrites DEF Keeps, Record, IInv, TypeOK, StatusComesSecond
<1>7. QED
  BY <1>2, <1>3, <1>4, <1>5, <1>6 DEF IInv

LEMMA RecordStopInvariant ==
    ASSUME IInv, NEW t \in Workers, RecordStop(t)
    PROVE  IInv'
<1>k. Keeps(t)
  BY StopWrites
<1>p. pc[t] \in {"recStopGame", "recStopStatus"} /\ pc'[t] \in {"recStopStatus", "stopProtect"}
  BY StopWrites
<1>1. rec' \in RecordType
  BY StopWrites DEF Record, RecordType, IInv, TypeOK
<1>2. TypeOK'
  BY <1>k, <1>p, <1>1 DEF Keeps, IInv, TypeOK, StartPoints, StopPoints
<1>3. ArgOK'
  BY <1>k, <1>p DEF Keeps, IInv, TypeOK, ArgOK, AcceptedPoints, StartPoints,
     StopPoints
<1>4. RecordOK(rec)'
  BY StopWrites DEF Record, IInv, TypeOK, RecordType, RecordOK, StatusComesSecond, Valid
<1>5. RecordOK(disk)'
  BY <1>k DEF Keeps, IInv, RecordOK
<1>6. StatusComesSecond'
  BY <1>k, <1>p, StopWrites DEF Keeps, Record, IInv, TypeOK, StatusComesSecond
<1>7. QED
  BY <1>2, <1>3, <1>4, <1>5, <1>6 DEF IInv

\* The steps of StartGameCallback.
LEMMA StartGameInvariant ==
    ASSUME IInv, NEW t \in Workers, StartGameCallback(t)
    PROVE  IInv'
<1> USE GameSessionAssumption DEF IInv, TypeOK, AbortCauses, RecordType, ArgOK,
      RecordOK, Valid, StopParams, StartPoints, StopPoints, RecoverPoints,
      ProtectPoints, AcceptedPoints, NORMAL_MODEL, ONLY_PUSHSTREAMR
<1>1. CASE ClearFunctionParams(t)
  <2>1. TypeOK'
    BY <1>1 DEF ClearFunctionParams, Step, board, protect, store, machine,
      guards, ending
  <2>2. ArgOK'
    BY <1>1, <2>1 DEF ClearFunctionParams, Step, board, protect, store,
      machine, guards
  <2>3. RecordOK(rec)' /\ RecordOK(disk)' /\ StatusComesSecond'
    BY <1>1, <2>1 DEF ClearFunctionParams, Step, board, protect, store,
      machine, guards, StatusComesSecond
  <2>4. QED
    BY <2>1, <2>2, <2>3
<1>2. CASE StartKillStream(t)
  <2>1. TypeOK'
    BY <1>2 DEF StartKillStream, Step, Return, NORMAL_MODEL, fields, board,
      protect, store, guards, ending
  <2>2. ArgOK'
    BY <1>2, <2>1 DEF StartKillStream, Step, Return, NORMAL_MODEL, fields,
      board, protect, store, guards
  <2>3. RecordOK(rec)' /\ RecordOK(disk)' /\ StatusComesSecond'
    BY <1>2, <2>1 DEF StartKillStream, Step, Return, NORMAL_MODEL, fields,
      board, protect, store, guards, StatusComesSecond
  <2>4. QED
    BY <2>1, <2>2, <2>3
<1>3. CASE ForeachProbe(t)
  <2>1. TypeOK'
    BY <1>3 DEF ForeachProbe, Step, GameIsAreadlyRunning, Found, KillGameByName,
      Victim, board, protect, store, guards, ending
  <2>2. ArgOK'
    BY <1>3, <2>1 DEF ForeachProbe, Step, GameIsAreadlyRunning,
      KillGameByName, Victim, board, protect, store, guards
  <2>3. RecordOK(rec)' /\ RecordOK(disk)' /\ StatusComesSecond'
    BY <1>3, <2>1 DEF ForeachProbe, Step, GameIsAreadlyRunning,
      KillGameByName, Victim, board, protect, store, guards, StatusComesSecond
  <2>4. QED
    BY <2>1, <2>2, <2>3
<1>4. CASE ForeachKilled(t)
  <2>1. TypeOK'
    BY <1>4 DEF ForeachKilled, Step, Victim, fields, board, protect, store,
      machine, guards, ending
  <2>2. ArgOK'
    BY <1>4, <2>1 DEF ForeachKilled, Step, Victim, fields, board, protect,
      store, machine, guards
  <2>3. RecordOK(rec)' /\ RecordOK(disk)' /\ StatusComesSecond'
    BY <1>4, <2>1 DEF ForeachKilled, Step, Victim, fields, board, protect,
      store, machine, guards, StatusComesSecond
  <2>4. QED
    BY <2>1, <2>2, <2>3
<1>5. CASE SetGameId(t)
  <2>1. TypeOK'
    BY <1>5 DEF SetGameId, StepOrReturn, Step, Return, NORMAL_MODEL, board,
      protect, store, machine, guards, ending
  <2>2. ArgOK'
    BY <1>5, <2>1 DEF SetGameId, StepOrReturn, Step, Return, NORMAL_MODEL,
      board, protect, store, machine, guards
  <2>3. RecordOK(rec)' /\ RecordOK(disk)' /\ StatusComesSecond'
    BY <1>5, <2>1 DEF SetGameId, StepOrReturn, Step, Return, NORMAL_MODEL,
      board, protect, store, machine, guards, StatusComesSecond
  <2>4. QED
    BY <2>1, <2>2, <2>3
<1>6. CASE ProbeGame(t)
  <2>1. TypeOK'
    BY <1>6 DEF ProbeGame, Step, GameIsAreadlyRunning, KillGameByName, board,
      protect, store, guards, ending
  <2>2. ArgOK'
    BY <1>6, <2>1 DEF ProbeGame, Step, GameIsAreadlyRunning, KillGameByName,
      board, protect, store, guards
  <2>3. RecordOK(rec)' /\ RecordOK(disk)' /\ StatusComesSecond'
    BY <1>6, <2>1 DEF ProbeGame, Step, GameIsAreadlyRunning, KillGameByName,
      board, protect, store, guards, StatusComesSecond
  <2>4. QED
    BY <2>1, <2>2, <2>3
<1>7. CASE GameKilled(t)
  <2>1. TypeOK'
    BY <1>7 DEF GameKilled, Step, fields, board, protect, store, machine,
      guards, ending
  <2>2. ArgOK'
    BY <1>7, <2>1 DEF GameKilled, Step, fields, board, protect, store,
      machine, guards
  <2>3. RecordOK(rec)' /\ RecordOK(disk)' /\ StatusComesSecond'
    BY <1>7, <2>1 DEF GameKilled, Step, fields, board, protect, store,
      machine, guards, StatusComesSecond
  <2>4. QED
    BY <2>1, <2>2, <2>3
<1>8. CASE StartGameByGameId(t)
  <2>1. TypeOK'
    BY <1>8 DEF StartGameByGameId, Step, fields, board, protect, store, guards, ending
  <2>2. ArgOK'
    BY <1>8, <2>1 DEF StartGameByGameId, Step, fields, board, protect, store,
      guards
  <2>3. RecordOK(rec)' /\ RecordOK(disk)' /\ StatusComesSecond'
    BY <1>8, <2>1 DEF StartGameByGameId, Step, fields, board, protect, store,
      guards, StatusComesSecond
  <2>4. QED
    BY <2>1, <2>2, <2>3
<1>9. CASE AwaitGame(t)
  <2>1. TypeOK'
    BY <1>9 DEF AwaitGame, Step, GameIsAreadlyRunning, board, protect, store,
      machine, guards, ending
  <2>2. ArgOK'
    BY <1>9, <2>1 DEF AwaitGame, Step, GameIsAreadlyRunning, board, protect,
      store, machine, guards
  <2>3. RecordOK(rec)' /\ RecordOK(disk)' /\ StatusComesSecond'
    BY <1>9, <2>1 DEF AwaitGame, Step, GameIsAreadlyRunning, board, protect,
      store, machine, guards, StatusComesSecond
  <2>4. QED
    BY <2>1, <2>2, <2>3
<1>10. CASE RecordStart(t)
  BY <1>10, RecordStartInvariant
<1>11. CASE SetPushParams(t)
  <2>1. TypeOK'
    BY <1>11 DEF SetPushParams, Step, board, protect, store, machine, guards, ending
  <2>2. ArgOK'
    BY <1>11, <2>1 DEF SetPushParams, Step, board, protect, store, machine,
      guards
  <2>3. RecordOK(rec)' /\ RecordOK(disk)' /\ StatusComesSecond'
    BY <1>11, <2>1 DEF SetPushParams, Step, board, protect, store, machine,
      guards, StatusComesSecond
  <2>4. QED
    BY <2>1, <2>2, <2>3
<1>12. CASE ClosePush(t)
  <2>1. TypeOK'
    BY <1>12 DEF ClosePush, Step, Closepush, AfterPush, NORMAL_MODEL, fields,
      board, protect, store, guards, ending
  <2>2. ArgOK'
    BY <1>12, <2>1 DEF ClosePush, Step, Closepush, AfterPush, NORMAL_MODEL,
      fields, board, protect, store, guards
  <2>3. RecordOK(rec)' /\ RecordOK(disk)' /\ StatusComesSecond'
    BY <1>12, <2>1 DEF ClosePush, Step, Closepush, AfterPush, NORMAL_MODEL,
      fields, board, protect, store, guards, StatusComesSecond
  <2>4. QED
    BY <2>1, <2>2, <2>3
<1>13. CASE PushStream(t)
  <2>1. TypeOK'
    BY <1>13 DEF PushStream, Step, Push, AfterPush, NORMAL_MODEL, fields,
      board, protect, store, guards, ending
  <2>2. ArgOK'
    BY <1>13, <2>1 DEF PushStream, Step, Push, AfterPush, NORMAL_MODEL,
      fields, board, protect, store, guards
  <2>3. RecordOK(rec)' /\ RecordOK(disk)' /\ StatusComesSecond'
    BY <1>13, <2>1 DEF PushStream, Step, Push, AfterPush, NORMAL_MODEL,
      fields, board, protect, store, guards, StatusComesSecond
  <2>4. QED
    BY <2>1, <2>2, <2>3
<1>14. CASE KeyboardStop(t)
  <2>1. TypeOK'
    BY <1>14 DEF KeyboardStop, Step, fields, protect, store, machine, guards, ending
  <2>2. ArgOK'
    BY <1>14, <2>1 DEF KeyboardStop, Step, fields, protect, store, machine,
      guards
  <2>3. RecordOK(rec)' /\ RecordOK(disk)' /\ StatusComesSecond'
    BY <1>14, <2>1 DEF KeyboardStop, Step, fields, protect, store, machine,
      guards, StatusComesSecond
  <2>4. QED
    BY <2>1, <2>2, <2>3
<1>15. CASE KeyboardNew(t)
  <2>1. TypeOK'
    BY <1>15 DEF KeyboardNew, Step, Abort, fields, protect, store, machine,
      guards, ending
  <2>2. ArgOK'
    BY <1>15, <2>1 DEF KeyboardNew, Step, Abort, fields, protect, store,
      machine, guards
  <2>3. RecordOK(rec)' /\ RecordOK(disk)' /\ StatusComesSecond'
    BY <1>15, <2>1 DEF KeyboardNew, Step, Abort, fields, protect, store,
      machine, guards, StatusComesSecond
  <2>4. QED
    BY <2>1, <2>2, <2>3
<1>16. CASE KeyboardStart(t)
  <2>1. TypeOK'
    BY <1>16 DEF KeyboardStart, Step, Abort, SetGamePid, fields, board,
      protect, store, machine, guards, ending
  <2>2. ArgOK'
    BY <1>16, <2>1 DEF KeyboardStart, Step, Abort, SetGamePid, fields, board,
      protect, store, machine, guards
  <2>3. RecordOK(rec)' /\ RecordOK(disk)' /\ StatusComesSecond'
    BY <1>16, <2>1 DEF KeyboardStart, Step, Abort, SetGamePid, fields, board,
      protect, store, machine, guards, StatusComesSecond
  <2>4. QED
    BY <2>1, <2>2, <2>3
<1>17. CASE StartProtectGstLaunch(t)
  <2>1. TypeOK'
    BY <1>17 DEF StartProtectGstLaunch, Step, fields, board, protect, store,
      machine, ending
  <2>2. ArgOK'
    BY <1>17, <2>1 DEF StartProtectGstLaunch, Step, fields, board, protect,
      store, machine
  <2>3. RecordOK(rec)' /\ RecordOK(disk)' /\ StatusComesSecond'
    BY <1>17, <2>1 DEF StartProtectGstLaunch, Step, fields, board, protect,
      store, machine, StatusComesSecond
  <2>4. QED
    BY <2>1, <2>2, <2>3
<1>18. CASE Done(t)
  <2>1. TypeOK'
    BY <1>18 DEF Done, Return, Step, NORMAL_MODEL, fields, board, protect,
      store, machine, guards, ending
  <2>2. ArgOK'
    BY <1>18, <2>1 DEF Done, Return, Step, NORMAL_MODEL, fields, board,
      protect, store, machine, guards
  <2>3. RecordOK(rec)' /\ RecordOK(disk)' /\ StatusComesSecond'
    BY <1>18, <2>1 DEF Done, Return, Step, NORMAL_MODEL, fields, board,
      protect, store, machine, guards, StatusComesSecond
  <2>4. QED
    BY <2>1, <2>2, <2>3
<1>19. QED
  BY <1>1, <1>2, <1>3, <1>4, <1>5, <1>6, <1>7, <1>8, <1>9, <1>10, <1>11,
    <1>12, <1>13, <1>14, <1>15, <1>16, <1>17, <1>18 DEF StartGameCallback

\* The steps of StopGameCallback.
LEMMA StopGameInvariant ==
    ASSUME IInv, NEW t \in Workers, StopGameCallback(t)
    PROVE  IInv'
<1> USE GameSessionAssumption DEF IInv, TypeOK, AbortCauses, RecordType, ArgOK,
      RecordOK, Valid, StopParams, StartPoints, StopPoints, RecoverPoints,
      ProtectPoints, AcceptedPoints, NORMAL_MODEL, ONLY_PUSHSTREAMR
<1>1. CASE StopKillStream(t)
  <2>1. TypeOK'
    BY <1>1 DEF StopKillStream, Step, fields, board, protect, store, guards, ending
  <2>2. ArgOK'
    BY <1>1, <2>1 DEF StopKillStream, Step, fields, board, protect, store,
      guards
  <2>3. RecordOK(rec)' /\ RecordOK(disk)' /\ StatusComesSecond'
    BY <1>1, <2>1 DEF StopKillStream, Step, fields, board, protect, store,
      guards, StatusComesSecond
  <2>4. QED
    BY <2>1, <2>2, <2>3
<1>2. CASE RecordStop(t)
  BY <1>2, RecordStopInvariant
<1>3. CASE StopProtectGstLaunch(t)
  <2>1. TypeOK'
    BY <1>3 DEF StopProtectGstLaunch, Step, fields, board, store, machine,
      guards, ending
  <2>2. ArgOK'
    BY <1>3, <2>1 DEF StopProtectGstLaunch, Step, fields, board, store,
      machine, guards
  <2>3. RecordOK(rec)' /\ RecordOK(disk)' /\ StatusComesSecond'
    BY <1>3, <2>1 DEF StopProtectGstLaunch, Step, fields, board, store,
      machine, guards, StatusComesSecond
  <2>4. QED
    BY <2>1, <2>2, <2>3
<1>4. CASE StopPush(t)
  <2>1. TypeOK'
    BY <1>4 DEF StopPush, Step, Closepush, fields, board, protect, store,
      guards, ending
  <2>2. ArgOK'
    BY <1>4, <2>1 DEF StopPush, Step, Closepush, fields, board, protect,
      store, guards
  <2>3. RecordOK(rec)' /\ RecordOK(disk)' /\ StatusComesSecond'
    BY <1>4, <2>1 DEF StopPush, Step, Closepush, fields, board, protect,
      store, guards, StatusComesSecond
  <2>4. QED
    BY <2>1, <2>2, <2>3
<1>5. CASE StopKeyboard(t)
  <2>1. TypeOK'
    BY <1>5 DEF StopKeyboard, Step, fields, protect, store, machine, guards, ending
  <2>2. ArgOK'
    BY <1>5, <2>1 DEF StopKeyboard, Step, fields, protect, store, machine,
      guards
  <2>3. RecordOK(rec)' /\ RecordOK(disk)' /\ StatusComesSecond'
    BY <1>5, <2>1 DEF StopKeyboard, Step, fields, protect, store, machine,
      guards, StatusComesSecond
  <2>4. QED
    BY <2>1, <2>2, <2>3
<1>6. CASE StopForced(t)
  <2>1. TypeOK'
    BY <1>6 DEF StopForced, Step, KillGameByName, fields, board, protect,
      store, guards, ending
  <2>2. ArgOK'
    BY <1>6, <2>1 DEF StopForced, Step, KillGameByName, fields, board,
      protect, store, guards
  <2>3. RecordOK(rec)' /\ RecordOK(disk)' /\ StatusComesSecond'
    BY <1>6, <2>1 DEF StopForced, Step, KillGameByName, fields, board,
      protect, store, guards, StatusComesSecond
  <2>4. QED
    BY <2>1, <2>2, <2>3
<1>7. CASE StopKillGame(t)
  <2>1. TypeOK'
    BY <1>7 DEF StopKillGame, Return, KillGameByName, Step, NORMAL_MODEL,
      fields, board, protect, store, guards, ending
  <2>2. ArgOK'
    BY <1>7, <2>1 DEF StopKillGame, Return, KillGameByName, Step,
      NORMAL_MODEL, fields, board, protect, store, guards
  <2>3. RecordOK(rec)' /\ RecordOK(disk)' /\ StatusComesSecond'
    BY <1>7, <2>1 DEF StopKillGame, Return, KillGameByName, Step,
      NORMAL_MODEL, fields, board, protect, store, guards, StatusComesSecond
  <2>4. QED
    BY <2>1, <2>2, <2>3
<1>8. QED
  BY <1>1, <1>2, <1>3, <1>4, <1>5, <1>6, <1>7 DEF StopGameCallback

\* The steps of a recovery and of a change of resolution.
LEMMA RecoverInvariant ==
    ASSUME IInv, NEW t \in Workers, RecoverCallback(t)
    PROVE  IInv'
<1> USE GameSessionAssumption DEF IInv, TypeOK, AbortCauses, RecordType, ArgOK,
      RecordOK, Valid, StopParams, StartPoints, StopPoints, RecoverPoints,
      ProtectPoints, AcceptedPoints, NORMAL_MODEL, ONLY_PUSHSTREAMR
<1>1. CASE RecoverReadStatus(t)
  <2>1. TypeOK'
    <3>1. CASE Return(t, "signIn")
      BY <1>1, <3>1 DEF RecoverReadStatus, Step, Return, NORMAL_MODEL, fields,
        board, protect, store, machine, guards, ending
    <3>2. CASE Step(t, "signIn", "recover") /\ UNCHANGED <<arg, model, left>>
      BY <1>1, <3>2 DEF RecoverReadStatus, Step, fields, board, protect,
        store, machine, guards, ending
    <3>3. QED
      BY <1>1, <3>1, <3>2 DEF RecoverReadStatus, StepOrReturn
  <2>2. ArgOK'
    BY <1>1, <2>1 DEF RecoverReadStatus, StepOrReturn, Step, Return,
      NORMAL_MODEL, fields, board, protect, store, machine, guards
  <2>3. RecordOK(rec)' /\ RecordOK(disk)' /\ StatusComesSecond'
    BY <1>1, <2>1 DEF RecoverReadStatus, StepOrReturn, Step, Return,
      NORMAL_MODEL, fields, board, protect, store, machine, guards,
      StatusComesSecond
  <2>4. QED
    BY <2>1, <2>2, <2>3
<1>2. CASE RecoverReadInfo(t)
  <2>1. TypeOK'
    BY <1>2 DEF RecoverReadInfo, Step, fields, board, protect, store, machine,
      guards, ending
  <2>2. ArgOK'
    BY <1>2, <2>1 DEF RecoverReadInfo, Step, fields, board, protect, store,
      machine, guards
  <2>3. RecordOK(rec)' /\ RecordOK(disk)' /\ StatusComesSecond'
    BY <1>2, <2>1 DEF RecoverReadInfo, Step, fields, board, protect, store,
      machine, guards, StatusComesSecond
  <2>4. QED
    BY <2>1, <2>2, <2>3
<1>3. CASE ChangeReadInfo(t)
  <2>1. TypeOK'
    BY <1>3 DEF ChangeReadInfo, Step, Return, NORMAL_MODEL, fields, board,
      protect, store, machine, guards, ending
  <2>2. ArgOK'
    BY <1>3, <2>1 DEF ChangeReadInfo, Step, Return, NORMAL_MODEL, fields,
      board, protect, store, machine, guards
  <2>3. RecordOK(rec)' /\ RecordOK(disk)' /\ StatusComesSecond'
    BY <1>3, <2>1 DEF ChangeReadInfo, Step, Return, NORMAL_MODEL, fields,
      board, protect, store, machine, guards, StatusComesSecond
  <2>4. QED
    BY <2>1, <2>2, <2>3
<1>4. CASE ChangeWriteInfo(t)
  <2>a. arg[t] \in StartParams /\ arg[t].game \in Games
    BY <1>4, ChangeWrites
  <2>0. rec' \in RecordType
    BY <1>4, <2>a, ChangeWrites DEF Record
  <2>1. TypeOK'
    BY <1>4, <2>0, ChangeWrites DEF Keeps
  <2>2. ArgOK'
    BY <1>4, <2>1, ChangeWrites DEF Keeps
  <2>3. RecordOK(rec)' /\ RecordOK(disk)' /\ StatusComesSecond'
    BY <1>4, <2>1, ChangeWrites DEF Keeps, Record, StatusComesSecond
  <2>4. QED
    BY <2>1, <2>2, <2>3
<1>5. CASE ChangeReadStatus(t)
  <2>1. TypeOK'
    BY <1>5 DEF ChangeReadStatus, Step, Return, NORMAL_MODEL,
      ONLY_PUSHSTREAMR, fields, board, protect, store, machine, guards, ending
  <2>2. ArgOK'
    BY <1>5, <2>1 DEF ChangeReadStatus, Step, Return, NORMAL_MODEL,
      ONLY_PUSHSTREAMR, fields, board, protect, store, machine, guards
  <2>3. RecordOK(rec)' /\ RecordOK(disk)' /\ StatusComesSecond'
    BY <1>5, <2>1 DEF ChangeReadStatus, Step, Return, NORMAL_MODEL,
      ONLY_PUSHSTREAMR, fields, board, protect, store, machine, guards,
      StatusComesSecond
  <2>4. QED
    BY <2>1, <2>2, <2>3
<1>6. QED
  BY <1>1, <1>2, <1>3, <1>4, <1>5 DEF RecoverCallback

\* The steps of a protector.
LEMMA ProtectorInvariant ==
    ASSUME IInv, NEW q \in Protectors, ProtectGstLaunch(q)
    PROVE  IInv'
<1> USE GameSessionAssumption DEF IInv, TypeOK, AbortCauses, RecordType, ArgOK,
      RecordOK, Valid, StopParams, StartPoints, StopPoints, RecoverPoints,
      ProtectPoints, AcceptedPoints, NORMAL_MODEL, ONLY_PUSHSTREAMR
<1>1. CASE ProtectBegin(q)
  <2>1. TypeOK'
    BY <1>1 DEF ProtectBegin, PStep, fields, board, store, machine, handlers, ending
  <2>2. ArgOK'
    BY <1>1, <2>1 DEF ProtectBegin, PStep, fields, board, store, machine,
      handlers
  <2>3. RecordOK(rec)' /\ RecordOK(disk)' /\ StatusComesSecond'
    BY <1>1, <2>1 DEF ProtectBegin, PStep, fields, board, store, machine,
      handlers, StatusComesSecond
  <2>4. QED
    BY <2>1, <2>2, <2>3
<1>2. CASE ProtectWait(q)
  <2>1. TypeOK'
    BY <1>2 DEF ProtectWait, PStep, fields, board, protect, store, machine,
      handlers, ending
  <2>2. ArgOK'
    BY <1>2, <2>1 DEF ProtectWait, PStep, fields, board, protect, store,
      machine, handlers
  <2>3. RecordOK(rec)' /\ RecordOK(disk)' /\ StatusComesSecond'
    BY <1>2, <2>1 DEF ProtectWait, PStep, fields, board, protect, store,
      machine, handlers, StatusComesSecond
  <2>4. QED
    BY <2>1, <2>2, <2>3
<1>3. CASE ProtectCheck(q)
  <2>1. TypeOK'
    BY <1>3 DEF ProtectCheck, PStep, fields, board, protect, store, machine,
      handlers, ending
  <2>2. ArgOK'
    BY <1>3, <2>1 DEF ProtectCheck, PStep, fields, board, protect, store,
      machine, handlers
  <2>3. RecordOK(rec)' /\ RecordOK(disk)' /\ StatusComesSecond'
    BY <1>3, <2>1 DEF ProtectCheck, PStep, fields, board, protect, store,
      machine, handlers, StatusComesSecond
  <2>4. QED
    BY <2>1, <2>2, <2>3
<1>4. CASE ProtectProbe(q)
  <2>1. TypeOK'
    BY <1>4 DEF ProtectProbe, PStep, GameIsAreadlyRunning, board, protect,
      store, machine, handlers, ending
  <2>2. ArgOK'
    BY <1>4, <2>1 DEF ProtectProbe, PStep, GameIsAreadlyRunning, board,
      protect, store, machine, handlers
  <2>3. RecordOK(rec)' /\ RecordOK(disk)' /\ StatusComesSecond'
    BY <1>4, <2>1 DEF ProtectProbe, PStep, GameIsAreadlyRunning, board,
      protect, store, machine, handlers, StatusComesSecond
  <2>4. QED
    BY <2>1, <2>2, <2>3
<1>5. CASE ProtectSeesKeyboard(q)
  <2>1. TypeOK'
    BY <1>5 DEF ProtectSeesKeyboard, PStep, fields, board, protect, store,
      machine, handlers, ending
  <2>2. ArgOK'
    BY <1>5, <2>1 DEF ProtectSeesKeyboard, PStep, fields, board, protect,
      store, machine, handlers
  <2>3. RecordOK(rec)' /\ RecordOK(disk)' /\ StatusComesSecond'
    BY <1>5, <2>1 DEF ProtectSeesKeyboard, PStep, fields, board, protect,
      store, machine, handlers, StatusComesSecond
  <2>4. QED
    BY <2>1, <2>2, <2>3
<1>6. CASE ProtectSetsPid(q)
  <2>1. TypeOK'
    BY <1>6 DEF ProtectSetsPid, PStep, Abort, SetGamePid, fields, board,
      protect, store, machine, handlers, ending
  <2>2. ArgOK'
    BY <1>6, <2>1 DEF ProtectSetsPid, PStep, Abort, SetGamePid, fields, board,
      protect, store, machine, handlers
  <2>3. RecordOK(rec)' /\ RecordOK(disk)' /\ StatusComesSecond'
    BY <1>6, <2>1 DEF ProtectSetsPid, PStep, Abort, SetGamePid, fields, board,
      protect, store, machine, handlers, StatusComesSecond
  <2>4. QED
    BY <2>1, <2>2, <2>3
<1>7. CASE ProtectSeesGst(q)
  <2>1. TypeOK'
    BY <1>7 DEF ProtectSeesGst, PStep, fields, board, protect, store, machine,
      handlers, ending
  <2>2. ArgOK'
    BY <1>7, <2>1 DEF ProtectSeesGst, PStep, fields, board, protect, store,
      machine, handlers
  <2>3. RecordOK(rec)' /\ RecordOK(disk)' /\ StatusComesSecond'
    BY <1>7, <2>1 DEF ProtectSeesGst, PStep, fields, board, protect, store,
      machine, handlers, StatusComesSecond
  <2>4. QED
    BY <2>1, <2>2, <2>3
<1>8. CASE ProtectSetPush(q)
  <2>1. TypeOK'
    BY <1>8 DEF ProtectSetPush, PStep, board, protect, store, machine,
      handlers, ending
  <2>2. ArgOK'
    BY <1>8, <2>1 DEF ProtectSetPush, PStep, board, protect, store, machine,
      handlers
  <2>3. RecordOK(rec)' /\ RecordOK(disk)' /\ StatusComesSecond'
    BY <1>8, <2>1 DEF ProtectSetPush, PStep, board, protect, store, machine,
      handlers, StatusComesSecond
  <2>4. QED
    BY <2>1, <2>2, <2>3
<1>9. CASE ProtectClosePush(q)
  <2>1. TypeOK'
    BY <1>9 DEF ProtectClosePush, PStep, Closepush, fields, board, protect,
      store, handlers, ending
  <2>2. ArgOK'
    BY <1>9, <2>1 DEF ProtectClosePush, PStep, Closepush, fields, board,
      protect, store, handlers
  <2>3. RecordOK(rec)' /\ RecordOK(disk)' /\ StatusComesSecond'
    BY <1>9, <2>1 DEF ProtectClosePush, PStep, Closepush, fields, board,
      protect, store, handlers, StatusComesSecond
  <2>4. QED
    BY <2>1, <2>2, <2>3
<1>10. CASE ProtectPush(q)
  <2>1. TypeOK'
    BY <1>10 DEF ProtectPush, PStep, Push, fields, board, protect, store,
      handlers, ending
  <2>2. ArgOK'
    BY <1>10, <2>1 DEF ProtectPush, PStep, Push, fields, board, protect,
      store, handlers
  <2>3. RecordOK(rec)' /\ RecordOK(disk)' /\ StatusComesSecond'
    BY <1>10, <2>1 DEF ProtectPush, PStep, Push, fields, board, protect,
      store, handlers, StatusComesSecond
  <2>4. QED
    BY <2>1, <2>2, <2>3
<1>11. QED
  BY <1>1, <1>2, <1>3, <1>4, <1>5, <1>6, <1>7, <1>8, <1>9, <1>10 DEF
    ProtectGstLaunch

\* The arrival of a message.
LEMMA DispatchInvariant ==
    ASSUME IInv, NEW t \in Workers, Dispatch(t)
    PROVE  IInv'
<1> USE GameSessionAssumption DEF IInv, TypeOK, AbortCauses, RecordType, ArgOK,
      RecordOK, Valid, StopParams, StartPoints, StopPoints, RecoverPoints,
      ProtectPoints, AcceptedPoints, NORMAL_MODEL, ONLY_PUSHSTREAMR
<1>1. CASE \E p \in StartParams : StartGame(t, p)
  <2>1. TypeOK'
    BY <1>1 DEF StartGame, Step, fields, board, protect, store, machine,
      guards, ending
  <2>2. ArgOK'
    BY <1>1, <2>1 DEF StartGame, Step, fields, board, protect, store, machine,
      guards
  <2>3. RecordOK(rec)' /\ RecordOK(disk)' /\ StatusComesSecond'
    BY <1>1, <2>1 DEF StartGame, Step, fields, board, protect, store, machine,
      guards, StatusComesSecond
  <2>4. QED
    BY <2>1, <2>2, <2>3
<1>2. CASE \E m \in StopParams : StopGame(t, m)
  <2>1. TypeOK'
    BY <1>2 DEF StopGame, Step, fields, board, protect, store, machine, guards, ending
  <2>2. ArgOK'
    BY <1>2, <2>1 DEF StopGame, Step, fields, board, protect, store, machine,
      guards
  <2>3. RecordOK(rec)' /\ RecordOK(disk)' /\ StatusComesSecond'
    BY <1>2, <2>1 DEF StopGame, Step, fields, board, protect, store, machine,
      guards, StatusComesSecond
  <2>4. QED
    BY <2>1, <2>2, <2>3
<1>3. CASE SignIn(t)
  <2>1. TypeOK'
    BY <1>3 DEF SignIn, Step, fields, board, protect, store, machine, guards, ending
  <2>2. ArgOK'
    BY <1>3, <2>1 DEF SignIn, Step, fields, board, protect, store, machine,
      guards
  <2>3. RecordOK(rec)' /\ RecordOK(disk)' /\ StatusComesSecond'
    BY <1>3, <2>1 DEF SignIn, Step, fields, board, protect, store, machine,
      guards, StatusComesSecond
  <2>4. QED
    BY <2>1, <2>2, <2>3
<1>4. CASE ChangeResolution(t)
  <2>1. TypeOK'
    BY <1>4 DEF ChangeResolution, Step, fields, board, protect, store,
      machine, guards, ending
  <2>2. ArgOK'
    BY <1>4, <2>1 DEF ChangeResolution, Step, fields, board, protect, store,
      machine, guards
  <2>3. RecordOK(rec)' /\ RecordOK(disk)' /\ StatusComesSecond'
    BY <1>4, <2>1 DEF ChangeResolution, Step, fields, board, protect, store,
      machine, guards, StatusComesSecond
  <2>4. QED
    BY <2>1, <2>2, <2>3
<1>5. QED
  BY <1>1, <1>2, <1>3, <1>4 DEF Dispatch

\* The processes of the machine, the record file, a crash and a restart.
LEMMA MachineInvariant ==
    ASSUME IInv, Machine \/ Sync \/ Crash \/ Restart
    PROVE  IInv'
<1> USE GameSessionAssumption DEF IInv, TypeOK, AbortCauses, RecordType, ArgOK,
      RecordOK, Valid, StopParams, StartPoints, StopPoints, RecoverPoints,
      ProtectPoints, AcceptedPoints, NORMAL_MODEL, ONLY_PUSHSTREAMR
<1>1. CASE Machine
  <2>1. rec' = rec /\ disk' = disk /\ pc' = pc /\ arg' = arg /\ ppc' = ppc /\ parg' = parg
    BY <1>1 DEF Machine, store, handlers, guards
  <2>2. /\ running' \subseteq Games
        /\ launching' \subseteq Games
        /\ dying' \subseteq running'
        /\ streams' \subseteq streams
    BY <1>1 DEF Machine, GameListed, LaunchFails, GameGone, StreamGone
  <2>3. TypeOK'
    BY <1>1, <2>1, <2>2 DEF Machine, fields, board, protect, handlers, ending
  <2>4. QED
    BY <2>1, <2>3 DEF StatusComesSecond
<1>2. CASE Sync
  BY <1>2 DEF Sync, fields, board, protect, machine, handlers, guards, ending,
    StatusComesSecond
<1>3. CASE Crash
  BY <1>3 DEF Crash, Abort, fields, board, protect, store, machine, handlers,
    guards, StatusComesSecond
<1>4. CASE Restart
  BY <1>4 DEF Restart, StatusComesSecond
<1>5. QED
  BY <1>1, <1>2, <1>3, <1>4

LEMMA NextInvariant == IInv /\ [Next]_vars => IInv'
<1> SUFFICES ASSUME IInv, [Next]_vars PROVE IInv'
  OBVIOUS
<1>1. CASE \E t \in Workers : Dispatch(t) \/ Handler(t)
  BY <1>1, DispatchInvariant, StartGameInvariant, StopGameInvariant,
     RecoverInvariant DEF Handler
<1>2. CASE \E q \in Protectors : ProtectGstLaunch(q)
  BY <1>2, ProtectorInvariant
<1>3. CASE Machine \/ Sync \/ Crash \/ Restart
  BY <1>3, MachineInvariant
<1>4. CASE UNCHANGED vars
  BY <1>4 DEF vars, fields, board, protect, store, machine, handlers, guards, ending,
     IInv, TypeOK, ArgOK, RecordOK, StatusComesSecond
<1>5. QED
  BY <1>1, <1>2, <1>3, <1>4 DEF Next

\* IInv holds in every reachable state of GameSession.
THEOREM Invariance == Spec => []IInv
<1>1. QED
  BY InitInvariant, NextInvariant, PTL DEF Spec

\* The types of the fields of CloudStreamer, of the record and of the threads.
THEOREM TypeCorrect == Spec => []TypeOK
<1>1. IInv => TypeOK
  BY DEF IInv
<1>2. QED
  BY <1>1, Invariance, PTL

\* Whatever handlers interleave and wherever the process dies, a record that
\* says a game was started (recordgameinfo.cpp) holds accepted parameters.
THEOREM RecordIsRecoverable == Spec => []RecoverableRecord
<1>1. IInv => RecoverableRecord
  BY DEF IInv, RecordOK, RecoverableRecord, Recoverable, Valid
<1>2. QED
  BY <1>1, Invariance, PTL

-----------------------------------------------------------------------------
(* The refinement. *)

LEMMA AbstractInit == Init => Abstract!Init
  BY DEF Init, EmptyRecord, Abstract!Init, Session

\* A step that leaves the record and the file alone is a stutter.
LEMMA RecordUntouched ==
    ASSUME UNCHANGED store
    PROVE  UNCHANGED <<Session(rec), Session(disk)>>
  BY DEF store, Session

LEMMA HandlerRefines ==
    ASSUME IInv, NEW t \in Workers, Dispatch(t) \/ Handler(t)
    PROVE  [Abstract!Next]_<<Session(rec), Session(disk)>>
<1> USE DEF Session, Abstract!Next, Abstract!Begin, Abstract!End
<1>1. CASE ChangeWriteInfo(t)
  <2>1. arg[t] \in Valid
    BY <1>1, ChangeWrites DEF IInv, ArgOK
  <2>2. QED
    BY <1>1, <2>1, ChangeWrites DEF Keeps, Record
<1>2. CASE RecordStart(t)
  <2>1. arg[t] \in Valid
    BY <1>2, StartWrites DEF IInv, ArgOK, AcceptedPoints, StartPoints
  <2>2. RecordFile /\ pc[t] = "recStatus" => rec.params \in Valid
    BY DEF IInv, StatusComesSecond
  <2>3. QED
    BY <1>2, <2>1, <2>2, StartWrites DEF Keeps, Record
<1>3. CASE RecordStop(t)
  BY <1>3, StopWrites DEF Keeps, Record
<1>4. CASE UNCHANGED store
  BY <1>4, RecordUntouched
<1>5. QED
  BY <1>1, <1>2, <1>3, <1>4 DEF Dispatch, Handler, StartGameCallback,
    StopGameCallback, RecoverCallback, StartGame, StopGame, SignIn,
    ChangeResolution, RecoverReadStatus, RecoverReadInfo, ChangeReadInfo,
    ChangeReadStatus, ClearFunctionParams, StartKillStream, ForeachProbe,
    ForeachKilled, SetGameId, ProbeGame, GameKilled, StartGameByGameId,
    AwaitGame, SetPushParams, ClosePush, PushStream, KeyboardStop,
    KeyboardNew, KeyboardStart, StartProtectGstLaunch, Done, StopKillStream,
    StopProtectGstLaunch, StopPush, StopKeyboard, StopForced, StopKillGame,
    store

LEMMA AbstractNext ==
    IInv /\ [Next]_vars => [Abstract!Next]_<<Session(rec), Session(disk)>>
<1> SUFFICES ASSUME IInv, [Next]_vars
             PROVE  [Abstract!Next]_<<Session(rec), Session(disk)>>
  OBVIOUS
<1>1. CASE \E t \in Workers : Dispatch(t) \/ Handler(t)
  BY <1>1, HandlerRefines
<1>2. CASE \E q \in Protectors : ProtectGstLaunch(q)
  <2>1. UNCHANGED store
    BY <1>2 DEF ProtectGstLaunch, ProtectBegin, ProtectWait, ProtectCheck,
      ProtectProbe, ProtectSeesKeyboard, ProtectSetsPid, ProtectSeesGst,
      ProtectSetPush, ProtectClosePush, ProtectPush, store
  <2>2. QED
    BY <2>1, RecordUntouched
<1>3. CASE Machine \/ Crash \/ UNCHANGED vars
  BY <1>3, RecordUntouched DEF Machine, Crash, vars
<1>4. CASE Sync
  BY <1>4 DEF Sync, Session, Abstract!Next, Abstract!Save
<1>5. CASE Restart
  BY <1>5 DEF Restart, Session, Abstract!Next, Abstract!Fallback
<1>6. QED
  BY <1>1, <1>2, <1>3, <1>4, <1>5 DEF Next

\* The record file with its three separate writes implements the register of
\* SessionRecord, through all interleavings of handlers and all crashes.
THEOREM RecordRefinement == Spec => ImplementsRecord
<1>1. QED
  BY AbstractInit, AbstractNext, Invariance, PTL
     DEF Spec, ImplementsRecord, Abstract!Spec

-----------------------------------------------------------------------------
(* One message at a time.  What the threads of ParseMessageCallback break  *)
(* holds as long as a handler has ended before the next message comes.     *)

\* No two handlers are alive together.
OneAtATime == \A t, u \in Workers : t = u

(* Games.  The games that run or are on their way, but for the orphans of  *)
(* a crash, are the game of the handler at work, as soon as its            *)
(* ForeachKillExe is through, and the ones ForeachKillExe has not come to  *)
(* before.  Only the handler at "await" has a start script on its way, and *)
(* it leaves that place when the game is listed: it is not on its way any  *)
(* more, because it was not running when the script was run.               *)

Live == (running \cup launching) \ orphans

AtMostOne == \A g, h \in Live : g = h

LaunchInv ==
    /\ (aborted # "no" \/ \A t \in Workers : pc[t] # "await")
           => launching \subseteq orphans
    /\ running \cap launching \subseteq orphans
    /\ \A t \in Workers :
        /\ pc[t] = "await" => launching \subseteq orphans \cup {arg[t].game}
        /\ pc[t] = "launch" => arg[t].game \notin running \ orphans

GameInv ==
    \A t \in Workers :
        /\ pc[t] \in {"foreach", "killOther"} => Live \subseteq left[t] \cup {arg[t].game}
        /\ pc[t] \in AcceptedPoints => Live \subseteq {arg[t].game}

GamesInv == AtMostOne /\ LaunchInv /\ GameInv

(* The keyboard thread.  The handler that assigns a new one has stopped    *)
(* the old one, and the one that starts it has assigned it.                *)
BoardInv ==
    /\ \A t \in Workers :
        /\ pc[t] = "boardNew" => keyboard # "running"
        /\ pc[t] = "boardStart" => keyboard # "null"
    /\ OnlyProtectorAborts

(* Without a crash and without a protector the program lives on.           *)
NeverDied == aborted = "no" /\ orphans = {}

(* The names of the record.  Before the last write of RecordInfo the       *)
(* parameters are those of the handler at work, and a change of resolution *)
(* writes back the parameters it has read.                                 *)
NameInv ==
    /\ RecordNamesItsGame
    /\ ~RecordFile => rec.status = 0 /\ disk.status = 0
    /\ \A t \in Workers :
        pc[t] \in {"recStatus", "recGame", "writeInfo"} /\ RecordFile
            => rec.params = arg[t]

(* A stopped session.  What a handler starts it starts with the status     *)
(* recorded, and StopGame takes it down around the write that ends it.     *)
QuietInv ==
    /\ \A t \in Workers :
        /\ pc[t] \in {"recGame", "setPush", "closePush", "push", "boardStop",
                      "boardNew", "boardStart", "protect", "done"}
               => rec.status = 1
        /\ pc[t] \in {"recStopGame", "recStopStatus"}
               => \A s \in streams : s.by = "protector"
    /\ rec.status = 0 => \A s \in streams : s.by = "protector"
    /\ rec.status = 0 /\ keyboard # "null"
           => \E t \in Workers : pc[t] \in {"stopProtect", "stopPush", "stopBoard"}

\* A handler that is alone asks GameIsAreadlyRunning and gets its own answer.
LEMMA OwnAnswer ==
    ASSUME OneAtATime, Protectors = {}, IInv, NEW t \in Workers, GameIsAreadlyRunning
    PROVE  /\ pc[t] = "foreach" => (Found <=> Victim(t) \in running)
           /\ pc[t] \in {"probe", "await"} => (Found <=> arg[t].game \in running)
<1>1. PICK g \in Asked : gamePid' = IF g \in running THEN g ELSE NoGame
  BY DEF GameIsAreadlyRunning
<1>2. NoGame \notin running
  BY GameSessionAssumption DEF IInv, TypeOK
<1>3. \A u \in Workers : u = t
  BY DEF OneAtATime
<1>4. pc[t] = "foreach" => g = Victim(t)
  BY <1>3 DEF Asked
<1>5. pc[t] \in {"probe", "await"} => g = arg[t].game
  BY <1>3 DEF Asked
<1>6. Found <=> g \in running
  BY <1>1, <1>2 DEF Found
<1>7. QED
  BY <1>4, <1>5, <1>6

LEMMA HandlerGames ==
    ASSUME OneAtATime, Protectors = {}, IInv, GamesInv, NEW t \in Workers, Dispatch(t) \/ Handler(t)
    PROVE  GamesInv'
<1> USE DEF Step, Return, StepOrReturn, fields, board, protect, store, machine, guards, ending
<1>w. \A u \in Workers : u = t
  BY DEF OneAtATime
<1>t. /\ pc \in [Workers -> {"idle"} \cup StartPoints \cup StopPoints \cup RecoverPoints]
      /\ running \subseteq Games /\ launching \subseteq Games
      /\ arg \in [Workers -> StartParams \cup StopParams \cup {NoParams}]
      /\ left \in [Workers -> SUBSET Games]
  BY DEF IInv, TypeOK
<1>1. ASSUME Dispatch(t) \/ RecoverCallback(t) \/ StopGameCallback(t)
      PROVE  GamesInv'
  <2>1. /\ pc[t] \in {"idle"} \cup RecoverPoints \cup StopPoints
        /\ pc' = [pc EXCEPT ![t] = pc'[t]]
        /\ pc'[t] \in {"idle", "clear"} \cup RecoverPoints \cup StopPoints
        /\ UNCHANGED <<running, launching, orphans, aborted>>
    BY <1>1, <1>t DEF Dispatch, StartGame, StopGame, SignIn, ChangeResolution,
       RecoverCallback, RecoverReadStatus, RecoverReadInfo, ChangeReadInfo,
       ChangeWriteInfo, ChangeReadStatus, RecoverPoints, StopPoints,
       StopGameCallback, StopKillStream, RecordStop, StopProtectGstLaunch,
       StopPush, StopKeyboard, StopForced, StopKillGame
  <2>2. QED
    BY <1>w, <1>t, <2>1 DEF GamesInv, LaunchInv, GameInv, AtMostOne, Live,
       AcceptedPoints, StartPoints, StopPoints, RecoverPoints
<1>2. ASSUME \/ ClearFunctionParams(t) \/ RecordStart(t) \/ SetPushParams(t)
              \/ ClosePush(t) \/ PushStream(t) \/ KeyboardStop(t)
              \/ KeyboardNew(t) \/ KeyboardStart(t)
              \/ StartProtectGstLaunch(t) \/ Done(t)
      PROVE  GamesInv'
  <2>1. /\ pc[t] \in (AcceptedPoints \cup {"clear"}) \ {"launch", "await"}
        /\ pc' = [pc EXCEPT ![t] = pc'[t]]
        /\ pc[t] = "clear" => pc'[t] = "killStream"
        /\ pc'[t] \in {"idle", "killStream"} \/ arg' = arg
        /\ pc'[t] \in (AcceptedPoints \cup {"idle", "killStream"}) \ {"launch", "await"}
        /\ UNCHANGED <<running, launching>>
    BY <1>2, <1>t DEF ClearFunctionParams, RecordStart, SetPushParams,
       ClosePush, PushStream, AfterPush, KeyboardStop, KeyboardNew,
       KeyboardStart, StartProtectGstLaunch, Done, AcceptedPoints, StartPoints
  <2>2. UNCHANGED <<aborted, orphans>> \/ (aborted' # "no" /\ orphans' = orphans \cup launching)
    BY <1>2 DEF ClearFunctionParams, RecordStart, SetPushParams, ClosePush,
       PushStream, KeyboardStop, KeyboardNew, KeyboardStart, Abort,
       StartProtectGstLaunch, Done
  <2>3. QED
    BY <1>w, <1>t, <2>1, <2>2 DEF GamesInv, LaunchInv, GameInv, AtMostOne,
       Live, AcceptedPoints, StartPoints, StopPoints, RecoverPoints
<1>3. CASE StartKillStream(t)
  <2>1. /\ pc[t] = "killStream"
        /\ pc' = [pc EXCEPT ![t] = pc'[t]]
        /\ \/ pc'[t] = "idle"
           \/ /\ pc'[t] = "foreach" /\ arg' = arg
              /\ left'[t] = Games \ {arg[t].game}
        /\ UNCHANGED <<running, launching, aborted, orphans>>
    BY <1>3, <1>t DEF StartKillStream
  <2>2. QED
    BY <1>w, <1>t, <2>1 DEF GamesInv, LaunchInv, GameInv, AtMostOne, Live,
       AcceptedPoints, StartPoints
<1>4. CASE ForeachProbe(t)
  <2>1. /\ pc[t] = "foreach"
        /\ pc' = [pc EXCEPT ![t] = pc'[t]]
        /\ \/ pc'[t] = "killOther" /\ left' = left
           \/ /\ pc'[t] = "foreach" /\ Victim(t) \notin running
              /\ left'[t] = left[t] \ {Victim(t)}
        /\ UNCHANGED <<running, launching, aborted, orphans, arg>>
    BY <1>4, <1>t, OwnAnswer DEF ForeachProbe
  <2>2. Live \subseteq left'[t] \cup {arg[t].game}
    BY <1>w, <1>t, <2>1 DEF GamesInv, LaunchInv, GameInv, Live
  <2>3. QED
    BY <1>w, <1>t, <2>1, <2>2 DEF GamesInv, LaunchInv, GameInv, AtMostOne,
       Live, AcceptedPoints, StartPoints
<1>5. CASE ForeachKilled(t)
  <2>1. /\ pc[t] = "killOther"
        /\ pc' = [pc EXCEPT ![t] = "foreach"]
        /\ Victim(t) \notin running
        /\ left'[t] = left[t] \ {Victim(t)}
        /\ UNCHANGED <<running, launching, aborted, orphans, arg>>
    BY <1>5, <1>t DEF ForeachKilled
  <2>2. Live \subseteq left'[t] \cup {arg[t].game}
    BY <1>w, <1>t, <2>1 DEF GamesInv, LaunchInv, GameInv, Live
  <2>3. QED
    BY <1>w, <1>t, <2>1, <2>2 DEF GamesInv, LaunchInv, GameInv, AtMostOne,
       Live, AcceptedPoints, StartPoints
<1>6. CASE SetGameId(t)
  <2>1. /\ pc[t] = "foreach" /\ left[t] = {}
        /\ pc' = [pc EXCEPT ![t] = pc'[t]]
        /\ pc'[t] = "idle" \/ (pc'[t] = "probe" /\ arg' = arg)
        /\ UNCHANGED <<running, launching, aborted, orphans>>
    BY <1>6, <1>t DEF SetGameId
  <2>2. QED
    BY <1>w, <1>t, <2>1 DEF GamesInv, LaunchInv, GameInv, AtMostOne, Live,
       AcceptedPoints, StartPoints
<1>7. CASE ProbeGame(t) \/ GameKilled(t) \/ AwaitGame(t)
  <2>1. /\ pc[t] \in {"probe", "killGame", "await"}
        /\ pc' = [pc EXCEPT ![t] = pc'[t]]
        /\ \/ pc'[t] = "launch" /\ arg[t].game \notin running
           \/ pc'[t] = "killGame"
           \/ pc'[t] = "await"
           \/ pc[t] = "await" /\ pc'[t] = "recParams" /\ arg[t].game \in running
        /\ pc[t] = "await" => pc'[t] \in {"await", "recParams"}
        /\ UNCHANGED <<running, launching, aborted, orphans, arg>>
    BY <1>7, <1>t, OwnAnswer DEF ProbeGame, GameKilled, AwaitGame
  <2>2. QED
    BY <1>w, <1>t, <2>1 DEF GamesInv, LaunchInv, GameInv, AtMostOne, Live,
       AcceptedPoints, StartPoints
<1>8. CASE StartGameByGameId(t)
  <2>1. /\ pc[t] = "launch"
        /\ pc' = [pc EXCEPT ![t] = "await"]
        /\ launching' = launching \cup {arg[t].game}
        /\ aborted = "no"
        /\ UNCHANGED <<running, aborted, orphans, arg>>
    BY <1>8, <1>t DEF StartGameByGameId
  <2>2. QED
    BY <1>w, <1>t, <2>1 DEF GamesInv, LaunchInv, GameInv, AtMostOne, Live,
       AcceptedPoints, StartPoints
<1>9. QED
  BY <1>1, <1>2, <1>3, <1>4, <1>5, <1>6, <1>7, <1>8
     DEF Handler, StartGameCallback

LEMMA OtherGames ==
    ASSUME OneAtATime, IInv, GamesInv,
           \/ \E q \in Protectors : ProtectGstLaunch(q)
           \/ Machine \/ Sync \/ Crash \/ Restart
           \/ UNCHANGED vars
    PROVE  GamesInv'
<1> USE DEF GamesInv, LaunchInv, GameInv, AtMostOne, Live
<1>1. CASE \E q \in Protectors : ProtectGstLaunch(q)
  <2>1. /\ UNCHANGED <<running, launching, pc, arg, left>>
        /\ \/ UNCHANGED <<aborted, orphans>>
           \/ aborted' # "no" /\ orphans' = orphans \cup launching
    BY <1>1 DEF ProtectGstLaunch, ProtectBegin, ProtectWait, ProtectCheck,
       ProtectProbe, ProtectSeesKeyboard, ProtectSetsPid, ProtectSeesGst,
       ProtectSetPush, ProtectClosePush, ProtectPush, PStep, Abort, machine,
       handlers, ending
  <2>2. QED
    BY <2>1
<1>2. CASE Machine
  <2>1. /\ UNCHANGED <<pc, arg, left, aborted>>
        /\ orphans' = orphans \cap (running' \cup launching')
    BY <1>2 DEF Machine, handlers
  <2>2. /\ launching' \subseteq launching
        /\ running' \subseteq running \cup (launching \ launching')
    BY <1>2 DEF Machine, GameListed, LaunchFails, GameGone, StreamGone
  <2>3. /\ Live' \subseteq Live
        /\ launching' \ orphans' \subseteq launching \ orphans
        /\ running' \cap launching' \subseteq orphans'
    BY <2>1, <2>2
  <2>4. ASSUME NEW t \in Workers, pc[t] = "launch", arg[t].game \in running' \ orphans'
        PROVE  FALSE
    <3>1. \A u \in Workers : pc[u] # "await"
      BY <2>4 DEF OneAtATime
    <3>2. QED
      BY <2>1, <2>2, <2>4, <3>1
  <2>5. QED
    BY <2>1, <2>3, <2>4
<1>3. CASE Crash
  BY <1>3 DEF Crash, Abort, machine, handlers
<1>4. CASE Restart
  BY <1>4 DEF Restart, AcceptedPoints, StartPoints
<1>5. CASE Sync \/ UNCHANGED vars
  BY <1>5 DEF Sync, vars, machine, handlers, ending
<1>6. QED
  BY <1>1, <1>2, <1>3, <1>4, <1>5

LEMMA GamesInvariant == OneAtATime /\ Protectors = {} => (Spec => []GamesInv)
<1> SUFFICES ASSUME OneAtATime, Protectors = {} PROVE Spec => []GamesInv
  OBVIOUS
<1>1. Init => GamesInv
  BY DEF Init, GamesInv, LaunchInv, GameInv, AtMostOne, Live, AcceptedPoints,
     StartPoints
<1>2. IInv /\ GamesInv /\ [Next]_vars => GamesInv'
  BY HandlerGames, OtherGames DEF Next
<1>3. QED
  BY <1>1, <1>2, Invariance, PTL DEF Spec

\* At most one element, at most one counted.
LEMMA AtMostOneCounted ==
    ASSUME NEW S, \A g, h \in S : g = h
    PROVE  Cardinality(S) <= 1
<1>1. CASE S = {}
  BY <1>1, FS_EmptySet
<1>2. CASE S # {}
  <2>1. PICK g \in S : TRUE
    BY <1>2
  <2>2. S = {g}
    BY <2>1
  <2>3. QED
    BY <2>2, FS_Singleton
<1>3. QED
  BY <1>1, <1>2

\* When messages are handled one at a time and no protector overwrites the
\* m_gamePid of a question, whatever crashes, fails or ends by itself,
\* ForeachKillExe and the wait of KillAreadlyRunningGame leave at most one game
\* next to those that were being launched when the program died.
THEOREM OneGameNextToOrphans ==
    OneAtATime /\ Protectors = {} => (Spec => []OneGameButOrphans)
<1> SUFFICES ASSUME OneAtATime, Protectors = {} PROVE Spec => []OneGameButOrphans
  OBVIOUS
<1>1. GamesInv => OneGameButOrphans
  <2>1. SUFFICES ASSUME \A g, h \in Live : g = h PROVE Cardinality(Live) <= 1
    BY DEF GamesInv, AtMostOne, OneGameButOrphans, Live
  <2>2. QED
    BY <2>1, AtMostOneCounted
<1>2. QED
  BY <1>1, GamesInvariant, PTL

LEMMA BoardInvariant == OneAtATime => (Spec => []BoardInv)
<1> SUFFICES ASSUME OneAtATime PROVE Spec => []BoardInv
  OBVIOUS
<1>1. Init => BoardInv
  BY DEF Init, BoardInv, OnlyProtectorAborts
<1>2. ASSUME IInv, BoardInv, [Next]_vars PROVE BoardInv'
  <2> USE DEF BoardInv, OnlyProtectorAborts, Step, Return, StepOrReturn
  <2>t. pc \in [Workers -> {"idle"} \cup StartPoints \cup StopPoints \cup RecoverPoints]
    BY <1>2 DEF IInv, TypeOK
  <2>1. ASSUME NEW t \in Workers, Dispatch(t) \/ Handler(t) PROVE BoardInv'
    <3>1. \A u \in Workers : u = t
      BY DEF OneAtATime
    <3>2. CASE KeyboardStop(t)
      BY <1>2, <2>t, <3>1, <3>2 DEF KeyboardStop, ending
    <3>3. CASE KeyboardNew(t)
      BY <1>2, <2>t, <3>1, <3>3 DEF KeyboardNew, ending
    <3>4. CASE KeyboardStart(t)
      BY <1>2, <2>t, <3>1, <3>4 DEF KeyboardStart, ending
    <3>5. CASE StopKeyboard(t)
      BY <1>2, <2>t, <3>1, <3>5 DEF StopKeyboard, ending
    <3>6. CASE UNCHANGED board /\ UNCHANGED ending /\ pc'[t] \notin {"boardNew", "boardStart"}
      BY <1>2, <2>t, <3>1, <3>6 DEF board, ending
    <3>7. Dispatch(t) \/ StopGameCallback(t) \/ RecoverCallback(t) =>
            \/ StopKeyboard(t)
            \/ UNCHANGED board /\ UNCHANGED ending /\ pc'[t] \notin {"boardNew", "boardStart"}
      BY <2>t DEF Dispatch, StartGame, StopGame, SignIn, ChangeResolution,
         RecoverCallback, RecoverReadStatus, RecoverReadInfo, ChangeReadInfo,
         ChangeWriteInfo, ChangeReadStatus, StopGameCallback, StopKillStream,
         RecordStop, StopProtectGstLaunch, StopPush, StopForced, StopKillGame
    <3>8. StartGameCallback(t) =>
            \/ KeyboardStop(t) \/ KeyboardNew(t) \/ KeyboardStart(t)
            \/ UNCHANGED board /\ UNCHANGED ending /\ pc'[t] \notin {"boardNew", "boardStart"}
      BY <2>t DEF StartGameCallback, ClearFunctionParams, StartKillStream,
         ForeachProbe, ForeachKilled, SetGameId, ProbeGame, GameKilled,
         StartGameByGameId, AwaitGame, RecordStart, SetPushParams, ClosePush,
         PushStream, AfterPush, StartProtectGstLaunch, Done
    <3>9. QED
      BY <2>1, <3>2, <3>3, <3>4, <3>5, <3>6, <3>7, <3>8 DEF Handler
  <2>2. ASSUME NEW q \in Protectors, ProtectGstLaunch(q) PROVE BoardInv'
    <3>1. /\ keyboard' = keyboard /\ pc' = pc
          /\ aborted' \in {aborted, "usedDeletedThread"}
      BY <2>2 DEF ProtectGstLaunch, ProtectBegin, ProtectWait, ProtectCheck,
         ProtectProbe, ProtectSeesKeyboard, ProtectSetsPid, ProtectSeesGst,
         ProtectSetPush, ProtectClosePush, ProtectPush, PStep, Abort, board,
         handlers, ending
    <3>2. QED
      BY <1>2, <3>1
  <2>3. CASE Machine \/ Sync \/ Crash \/ UNCHANGED vars
    BY <1>2, <2>3 DEF Machine, Sync, Crash, Abort, vars, board, handlers, ending
  <2>4. CASE Restart
    BY <2>4 DEF Restart
  <2>5. QED
    BY <1>2, <2>1, <2>2, <2>3, <2>4 DEF Next
<1>3. QED
  BY <1>1, <1>2, Invariance, PTL DEF Spec

\* When messages are handled one at a time no handler destroys a keyboard
\* thread that runs or starts one that is not there: what ends the program is
\* somebody's kill or a protector that uses the thread it had tested.
THEOREM OnlyProtectorsAbort == OneAtATime => (Spec => []OnlyProtectorAborts)
<1>1. BoardInv => OnlyProtectorAborts
  BY DEF BoardInv
<1>2. QED
  BY <1>1, BoardInvariant, PTL

LEMMA LivesOn ==
    OneAtATime /\ ~CanCrash /\ Protectors = {} => (Spec => []NeverDied)
<1> SUFFICES ASSUME OneAtATime, ~CanCrash, Protectors = {}
             PROVE  Spec => []NeverDied
  OBVIOUS
<1>1. Init => NeverDied
  BY DEF Init, NeverDied
<1>2. ASSUME BoardInv, NeverDied, [Next]_vars PROVE NeverDied'
  <2>1. ASSUME NEW t \in Workers, Dispatch(t) \/ Handler(t) PROVE UNCHANGED ending
    <3>1. CASE KeyboardNew(t) \/ KeyboardStart(t)
      BY <1>2, <3>1 DEF BoardInv, KeyboardNew, KeyboardStart, Step
    <3>2. CASE UNCHANGED ending
      BY <3>2
    <3>3. QED
      BY <2>1, <3>1, <3>2 DEF Dispatch, StartGame, StopGame, SignIn,
         ChangeResolution, Handler, RecoverCallback, RecoverReadStatus,
         RecoverReadInfo, ChangeReadInfo, ChangeWriteInfo, ChangeReadStatus,
         StopGameCallback, StopKillStream, RecordStop, StopProtectGstLaunch,
         StopPush, StopKeyboard, StopForced, StopKillGame, StartGameCallback,
         ClearFunctionParams, StartKillStream, ForeachProbe, ForeachKilled,
         SetGameId, ProbeGame, GameKilled, StartGameByGameId, AwaitGame,
         RecordStart, SetPushParams, ClosePush, PushStream, KeyboardStop,
         StartProtectGstLaunch, Done
  <2>2. CASE Machine
    BY <1>2, <2>2 DEF Machine, NeverDied
  <2>3. CASE Sync \/ Crash \/ Restart
    BY <1>2, <2>3 DEF Sync, Crash, Restart, ending, NeverDied
  <2>4. CASE UNCHANGED vars
    BY <1>2, <2>4 DEF vars, ending, NeverDied
  <2>5. QED
    BY <1>2, <2>1, <2>2, <2>3, <2>4 DEF Next, NeverDied, ending
<1>3. QED
  BY <1>1, <1>2, BoardInvariant, PTL DEF Spec

\* When messages are handled one at a time, nobody kills the program and no
\* protector uses a deleted keyboard thread, one game at most runs or is on
\* its way: ForeachKillExe and KillAreadlyRunningGame see to it.
THEOREM OneGameOnly ==
    OneAtATime /\ ~CanCrash /\ Protectors = {} => (Spec => []OneGame)
<1> SUFFICES ASSUME OneAtATime, ~CanCrash, Protectors = {} PROVE Spec => []OneGame
  OBVIOUS
<1>1. NeverDied /\ OneGameButOrphans => OneGame
  <2>1. ASSUME orphans = {} PROVE (running \cup launching) \ orphans = running \cup launching
    BY <2>1
  <2>2. QED
    BY <2>1 DEF NeverDied, OneGameButOrphans, OneGame
<1>2. QED
  BY <1>1, LivesOn, OneGameNextToOrphans, PTL

\* Under the same assumptions the start script is never run for a game that
\* still runs: KillAreadlyRunningGame (cloudstreamer.h:270) is synchronous.
THEOREM LaunchesDeadGames ==
    OneAtATime /\ ~CanCrash /\ Protectors = {} => (Spec => []LaunchesOnlyDeadGame)
<1> SUFFICES ASSUME OneAtATime, ~CanCrash, Protectors = {}
             PROVE  Spec => []LaunchesOnlyDeadGame
  OBVIOUS
<1>1. NeverDied /\ GamesInv => LaunchesOnlyDeadGame
  BY DEF NeverDied, GamesInv, LaunchInv, LaunchesOnlyDeadGame
<1>2. QED
  BY <1>1, LivesOn, GamesInvariant, PTL

LEMMA NameInvariant == OneAtATime => (Spec => []NameInv)
<1> SUFFICES ASSUME OneAtATime PROVE Spec => []NameInv
  OBVIOUS
<1>1. Init => NameInv
  BY DEF Init, NameInv, EmptyRecord, RecordNamesItsGame, NamesItsGame
<1>2. ASSUME IInv, NameInv, [Next]_vars PROVE NameInv'
  <2> USE DEF NameInv, RecordNamesItsGame, NamesItsGame, Step, Return, StepOrReturn
  <2>t. /\ pc \in [Workers -> {"idle"} \cup StartPoints \cup StopPoints \cup RecoverPoints]
        /\ arg \in [Workers -> StartParams \cup StopParams \cup {NoParams}]
        /\ rec \in RecordType /\ disk \in RecordType
    BY <1>2 DEF IInv, TypeOK
  <2>1. ASSUME NEW t \in Workers, Dispatch(t) \/ Handler(t) PROVE NameInv'
    <3>1. \A u \in Workers : u = t
      BY DEF OneAtATime
    <3>2. CASE RecordStart(t)
      BY <1>2, <2>t, <3>1, <3>2, StartWrites DEF Keeps, Record
    <3>3. CASE RecordStop(t)
      BY <1>2, <2>t, <3>1, <3>3, StopWrites DEF Keeps, Record
    <3>4. CASE ChangeReadInfo(t)
      BY <1>2, <2>t, <3>1, <3>4 DEF ChangeReadInfo, store
    <3>5. CASE ChangeWriteInfo(t)
      BY <1>2, <2>t, <3>1, <3>5, ChangeWrites DEF Keeps, Record
    <3>6. CASE /\ UNCHANGED store
               /\ pc[t] \notin {"recStatus", "recGame", "recStopStatus"}
               /\ pc'[t] \notin {"recStatus", "recGame", "writeInfo"}
      BY <1>2, <2>t, <3>1, <3>6 DEF store
    <3>7. Dispatch(t) \/ StopGameCallback(t) \/ RecoverCallback(t) =>
            \/ RecordStop(t) \/ ChangeReadInfo(t) \/ ChangeWriteInfo(t)
            \/ /\ UNCHANGED store
               /\ pc[t] \notin {"recStatus", "recGame", "recStopStatus"}
               /\ pc'[t] \notin {"recStatus", "recGame", "writeInfo"}
      BY <2>t DEF Dispatch, StartGame, StopGame, SignIn, ChangeResolution,
         RecoverCallback, RecoverReadStatus, RecoverReadInfo, ChangeReadStatus,
         StopGameCallback, StopKillStream, StopProtectGstLaunch, StopPush,
         StopKeyboard, StopForced, StopKillGame
    <3>8. StartGameCallback(t) =>
            \/ RecordStart(t)
            \/ /\ UNCHANGED store
               /\ pc[t] \notin {"recStatus", "recGame", "recStopStatus"}
               /\ pc'[t] \notin {"recStatus", "recGame", "writeInfo"}
      BY <2>t DEF StartGameCallback, ClearFunctionParams, StartKillStream,
         ForeachProbe, ForeachKilled, SetGameId, ProbeGame, GameKilled,
         StartGameByGameId, AwaitGame, SetPushParams, ClosePush, PushStream,
         AfterPush, KeyboardStop, KeyboardNew, KeyboardStart,
         StartProtectGstLaunch, Done
    <3>9. QED
      BY <2>1, <3>2, <3>3, <3>4, <3>5, <3>6, <3>7, <3>8 DEF Handler
  <2>2. CASE \E q \in Protectors : ProtectGstLaunch(q)
    <3>1. UNCHANGED <<rec, disk, pc, arg>>
      BY <2>2 DEF ProtectGstLaunch, ProtectBegin, ProtectWait, ProtectCheck,
         ProtectProbe, ProtectSeesKeyboard, ProtectSetsPid, ProtectSeesGst,
         ProtectSetPush, ProtectClosePush, ProtectPush, store, handlers
    <3>2. QED
      BY <1>2, <3>1
  <2>3. CASE Machine \/ UNCHANGED vars
    BY <1>2, <2>3 DEF Machine, vars, store, handlers
  <2>4. CASE Sync \/ Crash
    BY <1>2, <2>4 DEF Sync, Crash, store, handlers
  <2>5. CASE Restart
    BY <1>2, <2>5 DEF Restart
  <2>6. QED
    BY <1>2, <2>1, <2>2, <2>3, <2>4, <2>5 DEF Next
<1>3. QED
  BY <1>1, <1>2, Invariance, PTL DEF Spec

\* When messages are handled one at a time, next to any number of protectors
\* and whatever kills the program, a record that says a game was started names
\* the game of the parameters it would be restarted with (RecordInfo,
\* recordgameinfo.cpp:65-95), unless it stands, or was reloaded from a file
\* written, between two writes of one RecordInfo.
THEOREM RecordNamesGame == OneAtATime => (Spec => []RecordNamesItsGame)
<1>1. NameInv => RecordNamesItsGame
  BY DEF NameInv
<1>2. QED
  BY <1>1, NameInvariant, PTL

LEMMA QuietInvariant ==
    OneAtATime /\ RecordFile /\ m_mode # "ONLY_PUSH_STREAMER" => (Spec => []QuietInv)
<1> SUFFICES ASSUME OneAtATime, RecordFile, m_mode # "ONLY_PUSH_STREAMER"
             PROVE  Spec => []QuietInv
  OBVIOUS
<1>1. Init => QuietInv
  BY DEF Init, QuietInv, EmptyRecord
<1>2. ASSUME IInv, QuietInv, [Next]_vars PROVE QuietInv'
  <2> USE DEF QuietInv, Step, Return, StepOrReturn
  <2>t. /\ pc \in [Workers -> {"idle"} \cup StartPoints \cup StopPoints \cup RecoverPoints]
        /\ rec \in RecordType
    BY <1>2 DEF IInv, TypeOK
  <2> DEFINE Started == {"recGame", "setPush", "closePush", "push",
                         "boardStop", "boardNew", "boardStart", "protect", "done"}
             Marked == Started \cup {"recStatus", "recStopGame", "recStopStatus",
                         "stopProtect", "stopPush", "stopBoard"}
  <2>1. ASSUME NEW t \in Workers, Dispatch(t) \/ Handler(t) PROVE QuietInv'
    <3>1. \A u \in Workers : u = t
      BY DEF OneAtATime
    <3>2. CASE RecordStart(t)
      BY <1>2, <2>t, <3>1, <3>2, StartWrites DEF Keeps, Record
    <3>3. CASE RecordStop(t)
      BY <1>2, <2>t, <3>1, <3>3, StopWrites DEF Keeps, Record
    <3>4. CASE ChangeWriteInfo(t)
      BY <1>2, <2>t, <3>1, <3>4, ChangeWrites DEF Keeps, Record
    <3>5. CASE SetPushParams(t) \/ ClosePush(t) \/ PushStream(t) \/ Done(t)
      BY <1>2, <2>t, <3>1, <3>5 DEF SetPushParams, ClosePush, Closepush,
         PushStream, Push, AfterPush, Done, store, machine, board
    <3>6. CASE KeyboardStop(t) \/ KeyboardNew(t) \/ KeyboardStart(t) \/ StartProtectGstLaunch(t)
      BY <1>2, <2>t, <3>1, <3>6 DEF KeyboardStop, KeyboardNew, KeyboardStart,
         StartProtectGstLaunch, store, machine, board
    <3>7. CASE StopKillStream(t) \/ StopProtectGstLaunch(t) \/ StopPush(t) \/ StopKeyboard(t)
      BY <1>2, <2>t, <3>1, <3>7 DEF StopKillStream, StopProtectGstLaunch,
         StopPush, Closepush, StopKeyboard, store, machine, board
    <3>8. CASE /\ UNCHANGED <<rec, keyboard>> /\ streams' \in {streams, {}}
               /\ pc[t] \notin Marked
               /\ pc'[t] \notin Started \cup {"recStopGame", "recStopStatus"}
      BY <1>2, <2>t, <3>1, <3>8
    <3>9. Dispatch(t) \/ StopGameCallback(t) \/ RecoverCallback(t) =>
            \/ StopKillStream(t) \/ RecordStop(t) \/ StopProtectGstLaunch(t)
            \/ StopPush(t) \/ StopKeyboard(t) \/ ChangeWriteInfo(t)
            \/ /\ UNCHANGED <<rec, keyboard>> /\ streams' \in {streams, {}}
               /\ pc[t] \notin Marked
               /\ pc'[t] \notin Started \cup {"recStopGame", "recStopStatus"}
      BY <2>t DEF Dispatch, StartGame, StopGame, SignIn, ChangeResolution,
         RecoverCallback, RecoverReadStatus, RecoverReadInfo, ChangeReadInfo,
         ChangeReadStatus, StopGameCallback, StopForced, StopKillGame, store,
         machine, board
    <3>10. StartGameCallback(t) =>
            \/ RecordStart(t) \/ SetPushParams(t) \/ ClosePush(t)
            \/ PushStream(t) \/ KeyboardStop(t) \/ KeyboardNew(t)
            \/ KeyboardStart(t) \/ StartProtectGstLaunch(t) \/ Done(t)
            \/ /\ UNCHANGED <<rec, keyboard>> /\ streams' \in {streams, {}}
               /\ pc[t] \notin Marked
               /\ pc'[t] \notin Started \cup {"recStopGame", "recStopStatus"}
      BY <2>t DEF StartGameCallback, ClearFunctionParams, StartKillStream,
         ForeachProbe, ForeachKilled, SetGameId, ProbeGame, GameKilled,
         StartGameByGameId, AwaitGame, store, machine, board
    <3>11. QED
      BY <2>1, <3>2, <3>3, <3>4, <3>5, <3>6, <3>7, <3>8, <3>9, <3>10 DEF Handler
  <2>2. ASSUME NEW q \in Protectors, ProtectGstLaunch(q) PROVE QuietInv'
    <3>1. UNCHANGED <<rec, keyboard, pc>>
      BY <2>2 DEF ProtectGstLaunch, ProtectBegin, ProtectWait, ProtectCheck,
         ProtectProbe, ProtectSeesKeyboard, ProtectSetsPid, ProtectSeesGst,
         ProtectSetPush, ProtectClosePush, ProtectPush, store, board, handlers
    <3>2. \A s \in streams' : s \in streams \/ s.by = "protector"
      BY <2>2 DEF ProtectGstLaunch, ProtectBegin, ProtectWait, ProtectCheck,
         ProtectProbe, ProtectSeesKeyboard, ProtectSetsPid, ProtectSeesGst,
         ProtectSetPush, ProtectClosePush, Closepush, ProtectPush, Push, machine
    <3>3. QED
      BY <1>2, <3>1, <3>2
  <2>3. CASE Machine
    <3>1. UNCHANGED <<rec, keyboard, pc>> /\ streams' \subseteq streams
      BY <2>3 DEF Machine, GameListed, LaunchFails, GameGone, StreamGone,
         store, board, handlers
    <3>2. QED
      BY <1>2, <3>1
  <2>4. CASE Sync \/ Crash \/ UNCHANGED vars
    BY <1>2, <2>4 DEF Sync, Crash, vars, store, board, handlers, machine
  <2>5. CASE Restart
    BY <2>5 DEF Restart
  <2>6. QED
    BY <1>2, <2>1, <2>2, <2>3, <2>4, <2>5 DEF Next
<1>3. QED
  BY <1>1, <1>2, Invariance, PTL DEF Spec

\* When messages are handled one at a time, the record file is there and the
\* program serves a keyboard, a stopped session is quiet, after crashes too:
\* no keyboard thread is left, and no stream but a protector's.
THEOREM StoppedMeansQuiet ==
    OneAtATime /\ RecordFile /\ m_mode # "ONLY_PUSH_STREAMER" => (Spec => []StoppedIsQuiet)
<1> SUFFICES ASSUME OneAtATime, RecordFile, m_mode # "ONLY_PUSH_STREAMER"
             PROVE  Spec => []StoppedIsQuiet
  OBVIOUS
<1>1. QuietInv => StoppedIsQuiet
  BY DEF QuietInv, StoppedIsQuiet, AllIdle
<1>2. QED
  BY <1>1, QuietInvariant, PTL
=============================================================================
