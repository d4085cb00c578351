---------------------------- MODULE GameSession ----------------------------
(***************************************************************************)
(* The game session of the CloudStreamer object (cloudstreamer.cpp).       *)
(*                                                                         *)
(* ParseMessageCallback runs every server message in a thread of its own   *)
(* and detaches it, so StopWorkThread never waits for the previous one:    *)
(* handlers run concurrently with each other and with the protector        *)
(* threads (ProtectGstLaunch), over the unlocked fields of one object, the *)
(* record file and the processes of the machine.  A handler is a `worker'  *)
(* here, with a program counter; one action is the code between two points *)
(* at which another thread can come in and make a difference.              *)
(*                                                                         *)
(* A crash loses the fields and the threads, keeps the games that run and  *)
(* the record file as last written by QSettings.                           *)
(*                                                                         *)
(* Left to other modules: the reports sent to the server, the session id   *)
(* and what happens inside the keyboard thread.                            *)
(***************************************************************************)
EXTENDS Naturals, FiniteSets

CONSTANTS
    Games,          \* the games of cloudGameConfig.ini
    Rooms,          \* the rooms a stream can be pushed to
    StartParams,    \* the "data" member of the StartGame messages
    NoGame,         \* the empty game id, and the process id 0
    NoParams,       \* the empty string, cleared push parameters
    Workers,        \* bound: handler threads alive at the same time
    Protectors,     \* bound: protector threads alive at the same time; one
                    \* more start leaves them as they are
    m_mode,         \* the UI_MODE chosen in the window
    RecordFile,     \* DealIniFile::OpenFile found the record file
    CanCrash,       \* the process may be killed at any moment
    CanExit,        \* a running game or stream may end by itself
    CanFail         \* push, closepush and the start script may fail

NORMAL_MODEL == "NORMAL_MODEL"
ONLY_PUSHSTREAMR == "ONLY_PUSHSTREAMR"
UIModes == {"DEFAULT_MODE", "ONLY_PUSH_STREAMER", "ONLY_KEY_BOARD"}

ASSUME GameSessionAssumption ==
    /\ NoGame \notin Games
    /\ StartParams \subseteq
         [game : Games, room : Rooms, force : BOOLEAN, valid : BOOLEAN]
    /\ NoParams \notin StartParams
    /\ m_mode \in UIModes
    /\ {RecordFile, CanCrash, CanExit, CanFail} \subseteq BOOLEAN

\* The StopGame messages: isForce = 1, and whether the urls are present.
StopParams == [isForce : BOOLEAN, valid : BOOLEAN]

VARIABLES
    \* fields of CloudStreamer
    gameId,         \* m_gameId
    gamePid,        \* m_gamePid: the game whose process it names, or 0
    pushParams,     \* m_pushStreamerParams
    keyboard,       \* m_keyBoardThread: "null", "new" or "running"
    keyboardPid,    \* the m_gamePid of that keyboard thread
    protectFlag,    \* m_gstlaunchProtectTheadFlag
    protectThread,  \* m_gstlaunchProtectThead is not null
    \* the record: as QSettings holds it in memory, and in the file
    rec, disk,
    \* processes of the machine
    running,        \* games whose process is listed
    launching,      \* games the start script was run for, not listed yet
    dying,          \* running games the stop script was run for
    streams,        \* gst-launch-1.0 processes: their room, who pushed them
    \* threads
    pc, arg, model, left,       \* the handlers
    ppc, parg,                  \* the protectors
    aborted,        \* why the process has died, or "no"
    orphans         \* history: games that were being launched when it died

fields == <<gameId, gamePid, pushParams>>
board == <<keyboard, keyboardPid>>
protect == <<protectFlag, protectThread>>
store == <<rec, disk>>
machine == <<running, launching, dying, streams>>
handlers == <<pc, arg, model, left>>
guards == <<ppc, parg>>
ending == <<aborted, orphans>>
vars == <<fields, board, protect, store, machine, handlers, guards, ending>>

\* The record; `written' is history: "torn" from the first to the last write
\* of a RecordInfo.
EmptyRecord ==
    [params |-> NoParams, status |-> 0, game |-> NoGame, written |-> "whole"]

Init ==
    /\ gameId = NoGame
    /\ gamePid = NoGame
    /\ pushParams = NoParams
    /\ keyboard = "null"
    /\ keyboardPid = NoGame
    /\ protectFlag = FALSE
    /\ protectThread = FALSE
    /\ rec = EmptyRecord
    /\ disk = EmptyRecord
    /\ running = {} /\ launching = {} /\ dying = {} /\ streams = {}
    /\ pc = [t \in Workers |-> "idle"]
    /\ arg = [t \in Workers |-> NoParams]
    /\ model = [t \in Workers |-> NORMAL_MODEL]
    /\ left = [t \in Workers |-> {}]
    /\ ppc = [q \in Protectors |-> "idle"]
    /\ parg = [q \in Protectors |-> NoParams]
    /\ aborted = "no"
    /\ orphans = {}

-----------------------------------------------------------------------------
(* Helpers of the handlers. *)

Step(t, from, to) ==
    /\ aborted = "no"
    /\ pc[t] = from
    /\ pc' = [pc EXCEPT ![t] = to]

\* The thread function returns.
Return(t, from) ==
    /\ Step(t, from, "idle")
    /\ arg' = [arg EXCEPT ![t] = NoParams]
    /\ model' = [model EXCEPT ![t] = NORMAL_MODEL]
    /\ UNCHANGED left

\* The step `from' of t ends in a return when `done', and goes on otherwise.
StepOrReturn(t, from, done, to) ==
    IF done THEN Return(t, from)
            ELSE Step(t, from, to) /\ UNCHANGED <<arg, model, left>>

\* A start script outlives the process that ran it.
Abort(why) == aborted' = why /\ orphans' = orphans \cup launching

\* ForeachKillExe goes through the other games in the order of the file.
Victim(t) == CHOOSE g \in left[t] : TRUE

\* The games that threads ask GameIsAreadlyRunning about, the asker's included.
Asked ==
    {Victim(t) : t \in {u \in Workers : pc[u] = "foreach" /\ left[u] # {}}}
        \cup {arg[t].game : t \in {u \in Workers : pc[u] \in {"probe", "await"}}}
        \cup {g \in {gameId} \ {NoGame} : \E q \in Protectors : ppc[q] = "probe"}

\* GameIsAreadlyRunning writes the process id to the shared m_gamePid and
\* answers with what it reads there again: with several threads that ask,
\* the answer may be the one to another thread's question.
GameIsAreadlyRunning ==
    \E g \in Asked : gamePid' = IF g \in running THEN g ELSE NoGame
Found == gamePid' # NoGame

\* Mutants of KillGameByName: a process that is not there is killed; the
\* script is given the value of a key the game does not have.
KillsUnseenGame(g) == dying' = dying \cup {g}

KillsNobody(g) == dying' = dying

\* KillGameByName runs the stop script and does not wait for it.
KillGameByName(g) == dying' = dying \cup ({g} \cap running)

\* DealIniFile::SetValue does nothing when the file could not be opened.
SetValue(key, v, written) ==
    rec' = IF RecordFile
           THEN [rec EXCEPT ![key] = v, !.written = written]
           ELSE rec

\* closepush ends the stream of a room, push starts one; both may fail.
Closepush(p) ==
    streams' = IF p = NoParams THEN streams
                               ELSE {s \in streams : s.room # p.room}

Push(p, who) == streams' = streams \cup {[room |-> p.room, by |-> who]}

-----------------------------------------------------------------------------
(* ParseMessageCallback: a message starts a handler thread. *)

StartGame(t, p) ==
    /\ Step(t, "idle", "clear")
    /\ arg' = [arg EXCEPT ![t] = p]
    /\ UNCHANGED <<fields, board, protect, store, machine, model, left,
                   guards, ending>>

StopGame(t, m) ==
    /\ Step(t, "idle", "stop")
    /\ arg' = [arg EXCEPT ![t] = m]
    /\ UNCHANGED <<fields, board, protect, store, machine, model, left,
                   guards, ending>>

SignIn(t) ==
    /\ Step(t, "idle", "signIn")
    /\ UNCHANGED <<fields, board, protect, store, machine, arg, model, left,
                   guards, ending>>

ChangeResolution(t) ==
    /\ Step(t, "idle", "readInfo")
    /\ UNCHANGED <<fields, board, protect, store, machine, arg, model, left,
                   guards, ending>>

-----------------------------------------------------------------------------
(* RecoveryGame and ChangeResolutionCallback: they read the record and run *)
(* StartGameCallback with it in a new thread; the worker becomes that one. *)

RecoverReadStatus(t) ==
    /\ StepOrReturn(t, "signIn", rec.status = 0, "recover")
    /\ UNCHANGED <<fields, board, protect, store, machine, guards, ending>>

RecoverReadInfo(t) ==
    /\ Step(t, "recover", "clear")
    /\ arg' = [arg EXCEPT ![t] = rec.params]
    /\ UNCHANGED <<fields, board, protect, store, machine, model, left,
                   guards, ending>>

\* ModifiyStartParams: the resolution itself is abstracted, so what is
\* written back is what was read.
ChangeReadInfo(t) ==
    /\ IF rec.params = NoParams
       THEN Return(t, "readInfo")
       ELSE /\ Step(t, "readInfo", "writeInfo")
            /\ arg' = [arg EXCEPT ![t] = rec.params]
            /\ UNCHANGED <<model, left>>
    /\ UNCHANGED <<fields, board, protect, store, machine, guards, ending>>

ChangeWriteInfo(t) ==
    /\ Step(t, "writeInfo", "readStatus")
    /\ SetValue("params", arg[t], rec.written)
    /\ UNCHANGED <<fields, board, protect, disk, machine, arg, model, left,
                   guards, ending>>

ChangeReadStatus(t) ==
    /\ IF rec.status = 0
       THEN Return(t, "readStatus")
       ELSE /\ Step(t, "readStatus", "clear")
            /\ model' = [model EXCEPT ![t] = ONLY_PUSHSTREAMR]
            /\ UNCHANGED <<arg, left>>
    /\ UNCHANGED <<fields, board, protect, store, machine, guards, ending>>

-----------------------------------------------------------------------------
(* StartGameCallback *)

ClearFunctionParams(t) ==
    /\ Step(t, "clear", "killStream")
    /\ pushParams' = NoParams
    /\ UNCHANGED <<gameId, gamePid, board, protect, store, machine, arg,
                   model, left, guards, ending>>

\* LastGaspGoalPushStreamer; an empty message does nothing more.
StartKillStream(t) ==
    /\ IF arg[t] = NoParams
       THEN Return(t, "killStream")
       ELSE /\ Step(t, "killStream", "foreach")
            /\ left' = [left EXCEPT ![t] = Games \ {arg[t].game}]
            /\ UNCHANGED <<arg, model>>
    /\ streams' = {}
    /\ UNCHANGED <<fields, board, protect, store, running, launching, dying,
                   guards, ending>>

ForeachProbe(t) ==
    /\ pc[t] = "foreach" /\ left[t] # {}
    /\ GameIsAreadlyRunning
    /\ \/ /\ Found /\ Step(t, "foreach", "killOther")
          /\ KillGameByName(Victim(t)) /\ UNCHANGED left
       \/ /\ ~Found /\ Step(t, "foreach", "foreach")
          /\ left' = [left EXCEPT ![t] = @ \ {Victim(t)}] /\ UNCHANGED dying
    /\ UNCHANGED <<gameId, pushParams, board, protect, store, running,
                   launching, streams, arg, model, guards, ending>>

\* Mutant of ForeachKilled: the loop that waits for the end is forgotten.
ForeachDoesNotWait(t) ==
    /\ Step(t, "killOther", "foreach")
    /\ left' = [left EXCEPT ![t] = @ \ {Victim(t)}]
    /\ UNCHANGED <<fields, board, protect, store, machine, arg, model,
                   guards, ending>>

\* KillAreadlyRunningGame polls until the process is gone.
ForeachKilled(t) ==
    /\ Step(t, "killOther", "foreach")
    /\ Victim(t) \notin running
    /\ left' = [left EXCEPT ![t] = @ \ {Victim(t)}]
    /\ UNCHANGED <<fields, board, protect, store, machine, arg, model,
                   guards, ending>>

\* Mutant of SetGameId: the parameters are not validated.
SetGameIdUnchecked(t) ==
    /\ left[t] = {}
    /\ Step(t, "foreach", "probe")
    /\ gameId' = arg[t].game
    /\ UNCHANGED <<gamePid, pushParams, board, protect, store, machine, arg,
                   model, left, guards, ending>>

\* m_gameId is set before the parameters are validated; when they are not
\* valid the exception ends the handler.
SetGameId(t) ==
    /\ pc[t] = "foreach" /\ left[t] = {}
    /\ StepOrReturn(t, "foreach", ~arg[t].valid, "probe")
    /\ gameId' = arg[t].game
    /\ UNCHANGED <<gamePid, pushParams, board, protect, store, machine,
                   guards, ending>>

\* StartGameAction: a running game is kept, unless the message forces.
ProbeGame(t) ==
    /\ pc[t] = "probe"
    /\ GameIsAreadlyRunning
    /\ \/ ~Found /\ Step(t, "probe", "launch") /\ UNCHANGED dying
       \/ /\ Found /\ ~arg[t].force
          /\ Step(t, "probe", "await") /\ UNCHANGED dying
       \/ /\ Found /\ arg[t].force
          /\ Step(t, "probe", "killGame") /\ KillGameByName(arg[t].game)
    /\ UNCHANGED <<gameId, pushParams, board, protect, store, running,
                   launching, streams, arg, model, left, guards, ending>>

\* Mutant of GameKilled: the start script does not wait for the stop script.
GameKillNotAwaited(t) ==
    /\ Step(t, "killGame", "launch")
    /\ UNCHANGED <<fields, board, protect, store, machine, arg, model, left,
                   guards, ending>>

GameKilled(t) ==
    /\ Step(t, "killGame", "launch")
    /\ arg[t].game \notin running
    /\ UNCHANGED <<fields, board, protect, store, machine, arg, model, left,
                   guards, ending>>

StartGameByGameId(t) ==
    /\ Step(t, "launch", "await")
    /\ launching' = launching \cup {arg[t].game}
    /\ UNCHANGED <<fields, board, protect, store, running, dying, streams,
                   arg, model, left, guards, ending>>

\* The loop at its end polls until the game is listed.
AwaitGame(t) ==
    /\ pc[t] = "await"
    /\ GameIsAreadlyRunning
    /\ Step(t, "await", IF Found THEN "recParams" ELSE "await")
    /\ UNCHANGED <<gameId, pushParams, board, protect, store, machine, arg,
                   model, left, guards, ending>>

\* Mutants of RecordStart: the status is written first; the game id is not
\* written.
RecordStatusFirst(t) ==
    /\ \/ /\ Step(t, "recParams", "recStatus")
          /\ SetValue("status", 1, "torn")
       \/ /\ Step(t, "recStatus", "recGame")
          /\ SetValue("params", arg[t], "torn")
       \/ /\ Step(t, "recGame", "setPush")
          /\ SetValue("game", arg[t].game, "whole")
    /\ UNCHANGED <<fields, board, protect, disk, machine, arg, model, left,
                   guards, ending>>

RecordWithoutGame(t) ==
    /\ \/ /\ Step(t, "recParams", "recStatus")
          /\ SetValue("params", arg[t], "torn")
       \/ /\ Step(t, "recStatus", "setPush")
          /\ SetValue("status", 1, "whole")
    /\ UNCHANGED <<fields, board, protect, disk, machine, arg, model, left,
                   guards, ending>>

\* RecordInfo(data, gameId, 1): three separate SetValue calls.
RecordStart(t) ==
    /\ \/ /\ Step(t, "recParams", "recStatus")
          /\ SetValue("params", arg[t], "torn")
       \/ /\ Step(t, "recStatus", "recGame")
          /\ SetValue("status", 1, "torn")
       \/ /\ Step(t, "recGame", "setPush")
          /\ SetValue("game", arg[t].game, "whole")
    /\ UNCHANGED <<fields, board, protect, disk, machine, arg, model, left,
                   guards, ending>>

\* PushStreamerAction, and what StartGameCallback does after it.
AfterPush(t) == IF model[t] = NORMAL_MODEL THEN "boardStop" ELSE "done"

SetPushParams(t) ==
    /\ Step(t, "setPush", "closePush")
    /\ pushParams' = arg[t]
    /\ UNCHANGED <<gameId, gamePid, board, protect, store, machine, arg,
                   model, left, guards, ending>>

ClosePush(t) ==
    /\ \/ Step(t, "closePush", "push") /\ Closepush(arg[t])
       \/ CanFail /\ Step(t, "closePush", AfterPush(t)) /\ UNCHANGED streams
    /\ UNCHANGED <<fields, board, protect, store, running, launching, dying,
                   arg, model, left, guards, ending>>

PushStream(t) ==
    /\ Step(t, "push", AfterPush(t))
    /\ \/ Push(arg[t], "handler")
       \/ CanFail /\ UNCHANGED streams
    /\ UNCHANGED <<fields, board, protect, store, running, launching, dying,
                   arg, model, left, guards, ending>>

\* Mutant of KeyboardStop: the old thread is left to the assignment.
KeyboardNotStopped(t) ==
    /\ Step(t, "boardStop", "boardNew")
    /\ UNCHANGED <<fields, board, protect, store, machine, arg, model, left,
                   guards, ending>>

\* StartKeyboardAction stops and drops the old keyboard thread ...
KeyboardStop(t) ==
    /\ Step(t, "boardStop", "boardNew")
    /\ keyboard' = "null"
    /\ UNCHANGED <<fields, keyboardPid, protect, store, machine, arg, model,
                   left, guards, ending>>

\* ... assigns a new one (destroying a QThread that runs aborts) ...
KeyboardNew(t) ==
    /\ Step(t, "boardNew", "boardStart")
    /\ IF keyboard = "running"
       THEN Abort("destroyedRunningThread")
       ELSE UNCHANGED ending
    /\ keyboard' = "new"
    /\ keyboardPid' = NoGame
    /\ UNCHANGED <<fields, protect, store, machine, arg, model, left, guards>>

\* KeyBoardThread::SetGamePid ignores 0.
SetGamePid == keyboardPid' = IF gamePid = NoGame THEN keyboardPid ELSE gamePid

\* ... hands it m_gamePid and starts it.
KeyboardStart(t) ==
    /\ Step(t, "boardStart", "protect")
    /\ IF keyboard = "null"
       THEN Abort("startedNullThread") /\ UNCHANGED board
       ELSE SetGamePid /\ keyboard' = "running" /\ UNCHANGED ending
    /\ UNCHANGED <<fields, protect, store, machine, arg, model, left, guards>>

\* StartProtectGstLaunch; the flag is raised by the new thread itself.
StartProtectGstLaunch(t) ==
    /\ Step(t, "protect", "done")
    /\ protectThread' = TRUE
    /\ IF \E q \in Protectors : ppc[q] = "idle"
       THEN \E q \in Protectors : /\ ppc[q] = "idle"
                                  /\ ppc' = [ppc EXCEPT ![q] = "start"]
       ELSE UNCHANGED ppc
    /\ UNCHANGED <<fields, board, protectFlag, store, machine, arg, model,
                   left, parg, ending>>

\* StartGameCallback and the thread end.
Done(t) ==
    /\ Return(t, "done")
    /\ UNCHANGED <<fields, board, protect, store, machine, guards, ending>>

-----------------------------------------------------------------------------
(* StopGameCallback.  It works on m_gameId, never on the message's gameId. *)

StopKillStream(t) ==
    /\ Step(t, "stop", "recStopGame")
    /\ streams' = {}
    /\ UNCHANGED <<fields, board, protect, store, running, launching, dying,
                   arg, model, left, guards, ending>>

\* RecordInfo(m_gameId, 0)
RecordStop(t) ==
    /\ \/ /\ Step(t, "recStopGame", "recStopStatus")
          /\ SetValue("game", gameId, "torn")
       \/ /\ Step(t, "recStopStatus", "stopProtect")
          /\ SetValue("status", 0, "whole")
    /\ UNCHANGED <<fields, board, protect, disk, machine, arg, model, left,
                   guards, ending>>

\* The protectors are detached: only the flag is lowered.
StopProtectGstLaunch(t) ==
    /\ Step(t, "stopProtect", "stopPush")
    /\ protectFlag' = (protectFlag /\ ~protectThread)
    /\ UNCHANGED <<fields, board, protectThread, store, machine, arg, model,
                   left, guards, ending>>

StopPush(t) ==
    /\ Step(t, "stopPush", "stopBoard")
    /\ \/ m_mode # "ONLY_KEY_BOARD" /\ Closepush(pushParams)
       \/ (m_mode = "ONLY_KEY_BOARD" \/ CanFail) /\ UNCHANGED streams
    /\ UNCHANGED <<fields, board, protect, store, running, launching, dying,
                   arg, model, left, guards, ending>>

\* Mutant of StopKeyboard: the test of the mode is the wrong way round.
StopKeyboardWrongMode(t) ==
    /\ Step(t, "stopBoard", "stopForced")
    /\ keyboard' = IF m_mode = "ONLY_PUSH_STREAMER" THEN "null" ELSE keyboard
    /\ UNCHANGED <<fields, keyboardPid, protect, store, machine, arg, model,
                   left, guards, ending>>

StopKeyboard(t) ==
    /\ Step(t, "stopBoard", "stopForced")
    /\ keyboard' = IF m_mode = "ONLY_PUSH_STREAMER" THEN keyboard ELSE "null"
    /\ UNCHANGED <<fields, keyboardPid, protect, store, machine, arg, model,
                   left, guards, ending>>

StopForced(t) ==
    /\ Step(t, "stopForced", "stopKill")
    /\ KillGameByName(IF arg[t].isForce THEN gameId ELSE NoGame)
    /\ UNCHANGED <<fields, board, protect, store, running, launching, streams,
                   arg, model, left, guards, ending>>

StopKillGame(t) ==
    /\ Return(t, "stopKill")
    /\ KillGameByName(IF arg[t].valid THEN gameId ELSE NoGame)
    /\ UNCHANGED <<fields, board, protect, store, running, launching, streams,
                   guards, ending>>

-----------------------------------------------------------------------------
(* ProtectGstLaunch: the thread that pushes the stream again when gst is   *)
(* gone.  Its 8 s sleep is the time it may stay in "check".                *)

PStep(q, from, to) ==
    /\ aborted = "no"
    /\ ppc[q] = from
    /\ ppc' = [ppc EXCEPT ![q] = to]

ProtectBegin(q) ==
    /\ PStep(q, "start", "wait")
    /\ protectFlag' = TRUE
    /\ UNCHANGED <<fields, board, protectThread, store, machine, handlers,
                   parg, ending>>

\* The first loop: it goes on as long as a gst process is listed.
ProtectWait(q) ==
    /\ ~(streams # {} /\ protectFlag)
    /\ PStep(q, "wait", "check")
    /\ UNCHANGED <<fields, board, protect, store, machine, handlers, parg,
                   ending>>

\* Mutant of ProtectCheck: the recorded status is not looked at.
ProtectChecksFlagOnly(q) ==
    /\ PStep(q, "check", IF protectFlag THEN "probe" ELSE "idle")
    /\ UNCHANGED <<fields, board, protect, store, machine, handlers, parg,
                   ending>>

\* The head of the second loop: the flag, then the recorded status.
ProtectCheck(q) ==
    /\ PStep(q, "check", IF protectFlag /\ rec.status = 1 THEN "probe" ELSE "idle")
    /\ UNCHANGED <<fields, board, protect, store, machine, handlers, parg,
                   ending>>

ProtectProbe(q) ==
    /\ ppc[q] = "probe"
    /\ \/ /\ gameId = NoGame /\ UNCHANGED gamePid
          /\ PStep(q, "probe", "check")
       \/ /\ gameId # NoGame /\ GameIsAreadlyRunning
          /\ PStep(q, "probe", IF Found THEN "board" ELSE "check")
    /\ UNCHANGED <<gameId, pushParams, board, protect, store, machine,
                   handlers, parg, ending>>

\* m_keyBoardThread is tested first and used afterwards.
ProtectSeesKeyboard(q) ==
    /\ PStep(q, "board", IF keyboard = "null" THEN "gst" ELSE "setPid")
    /\ UNCHANGED <<fields, board, protect, store, machine, handlers, parg,
                   ending>>

\* The object may have been deleted in between: the write then goes
\* unnoticed or ends the process.
ProtectSetsPid(q) ==
    /\ PStep(q, "setPid", "gst")
    /\ IF keyboard = "null"
       THEN /\ UNCHANGED board
            /\ Abort("usedDeletedThread") \/ UNCHANGED ending
       ELSE SetGamePid /\ UNCHANGED <<keyboard, ending>>
    /\ UNCHANGED <<fields, protect, store, machine, handlers, parg>>

ProtectSeesGst(q) ==
    /\ IF streams = {} /\ pushParams # NoParams
       THEN PStep(q, "gst", "setPush") /\ parg' = [parg EXCEPT ![q] = pushParams]
       ELSE PStep(q, "gst", "check") /\ UNCHANGED parg
    /\ UNCHANGED <<fields, board, protect, store, machine, handlers, ending>>

\* PushStreamerAction with the copied parameters.
ProtectSetPush(q) ==
    /\ PStep(q, "setPush", "closePush")
    /\ pushParams' = parg[q]
    /\ UNCHANGED <<gameId, gamePid, board, protect, store, machine, handlers,
                   parg, ending>>

ProtectClosePush(q) ==
    /\ \/ /\ PStep(q, "closePush", "push")
          /\ Closepush(parg[q])
          /\ UNCHANGED parg
       \/ /\ CanFail
          /\ PStep(q, "closePush", "check")
          /\ parg' = [parg EXCEPT ![q] = NoParams]
          /\ UNCHANGED streams
    /\ UNCHANGED <<fields, board, protect, store, running, launching, dying,
                   handlers, ending>>

ProtectPush(q) ==
    /\ PStep(q, "push", "check")
    /\ Push(parg[q], "protector") \/ (CanFail /\ UNCHANGED streams)
    /\ parg' = [parg EXCEPT ![q] = NoParams]
    /\ UNCHANGED <<fields, board, protect, store, running, launching, dying,
                   handlers, ending>>

-----------------------------------------------------------------------------
(* The machine: scripts take effect later, processes end by themselves.    *)

GameListed(g) ==
    /\ g \in launching
    /\ launching' = launching \ {g}
    /\ running' = running \cup {g}
    /\ UNCHANGED <<dying, streams>>

LaunchFails(g) ==
    /\ CanFail /\ g \in launching
    /\ launching' = launching \ {g}
    /\ UNCHANGED <<running, dying, streams>>

GameGone(g) ==
    /\ g \in dying \/ (CanExit /\ g \in running)
    /\ running' = running \ {g}
    /\ dying' = dying \ {g}
    /\ UNCHANGED <<launching, streams>>

StreamGone(s) ==
    /\ CanExit
    /\ streams' = streams \ {s}
    /\ UNCHANGED <<running, launching, dying>>

Machine ==
    /\ \/ \E g \in Games : GameListed(g) \/ LaunchFails(g) \/ GameGone(g)
       \/ \E s \in streams : StreamGone(s)
    /\ orphans' = orphans \cap (running' \cup launching')
    /\ UNCHANGED <<fields, board, protect, store, handlers, guards, aborted>>

\* QSettings writes the file now and then, from the event loop.
Sync ==
    /\ aborted = "no"
    /\ disk' = rec
    /\ UNCHANGED <<fields, board, protect, rec, machine, handlers, guards,
                   ending>>

Crash ==
    /\ CanCrash /\ aborted = "no"
    /\ Abort("killed")
    /\ UNCHANGED <<fields, board, protect, store, machine, handlers, guards>>

\* protectCloudStreamer.bat starts the program again.  The constructor
\* reads m_gameId from the record and kills what is left of the stream.
Restart ==
    /\ aborted # "no"
    /\ aborted' = "no"
    /\ gameId' = disk.game
    /\ gamePid' = NoGame /\ pushParams' = NoParams
    /\ keyboard' = "null" /\ keyboardPid' = NoGame
    /\ protectFlag' = FALSE /\ protectThread' = FALSE
    /\ rec' = disk
    /\ streams' = {}
    /\ pc' = [t \in Workers |-> "idle"]
    /\ arg' = [t \in Workers |-> NoParams]
    /\ model' = [t \in Workers |-> NORMAL_MODEL]
    /\ left' = [t \in Workers |-> {}]
    /\ ppc' = [q \in Protectors |-> "idle"]
    /\ parg' = [q \in Protectors |-> NoParams]
    /\ UNCHANGED <<disk, running, launching, dying, orphans>>

-----------------------------------------------------------------------------
Dispatch(t) ==
    \/ \E p \in StartParams : StartGame(t, p)
    \/ \E m \in StopParams : StopGame(t, m)
    \/ SignIn(t)
    \/ ChangeResolution(t)

StartGameCallback(t) ==
    \/ ClearFunctionParams(t) \/ StartKillStream(t)
    \/ ForeachProbe(t) \/ ForeachKilled(t) \/ SetGameId(t)
    \/ ProbeGame(t) \/ GameKilled(t) \/ StartGameByGameId(t) \/ AwaitGame(t)
    \/ RecordStart(t)
    \/ SetPushParams(t) \/ ClosePush(t) \/ PushStream(t)
    \/ KeyboardStop(t) \/ KeyboardNew(t) \/ KeyboardStart(t)
    \/ StartProtectGstLaunch(t) \/ Done(t)

StopGameCallback(t) ==
    \/ StopKillStream(t) \/ RecordStop(t) \/ StopProtectGstLaunch(t)
    \/ StopPush(t) \/ StopKeyboard(t) \/ StopForced(t) \/ StopKillGame(t)

RecoverCallback(t) ==
    \/ RecoverReadStatus(t) \/ RecoverReadInfo(t)
    \/ ChangeReadInfo(t) \/ ChangeWriteInfo(t) \/ ChangeReadStatus(t)

Handler(t) == StartGameCallback(t) \/ StopGameCallback(t) \/ RecoverCallback(t)

ProtectGstLaunch(q) ==
    \/ ProtectBegin(q) \/ ProtectWait(q) \/ ProtectCheck(q) \/ ProtectProbe(q)
    \/ ProtectSeesKeyboard(q) \/ ProtectSetsPid(q) \/ ProtectSeesGst(q)
    \/ ProtectSetPush(q) \/ ProtectClosePush(q) \/ ProtectPush(q)

Next ==
    \/ \E t \in Workers : Dispatch(t) \/ Handler(t)
    \/ \E q \in Protectors : ProtectGstLaunch(q)
    \/ Machine \/ Sync \/ Crash \/ Restart

Spec == Init /\ [][Next]_vars

\* The threads of the program run, the scripts take effect and the script
\* protectCloudStreamer.bat is there.
Fairness ==
    /\ \A t \in Workers : WF_vars(Handler(t))
    /\ \A q \in Protectors : WF_vars(ProtectGstLaunch(q))
    /\ \A g \in Games : /\ WF_vars(Machine /\ g \in launching \ launching')
                        /\ WF_vars(Machine /\ g \in dying \ dying')
    /\ WF_vars(Restart)

FairSpec == Spec /\ Fairness

-----------------------------------------------------------------------------
(* Properties *)

StartPoints == {"clear", "killStream", "foreach", "killOther", "probe",
    "killGame", "launch", "await", "recParams", "recStatus", "recGame",
    "setPush", "closePush", "push", "boardStop", "boardNew", "boardStart",
    "protect", "done"}
StopPoints == {"stop", "recStopGame", "recStopStatus", "stopProtect",
    "stopPush", "stopBoard", "stopForced", "stopKill"}
RecoverPoints == {"signIn", "recover", "readInfo", "writeInfo", "readStatus"}
ProtectPoints == {"idle", "start", "wait", "check", "probe", "board", "setPid",
    "gst", "setPush", "closePush", "push"}

AbortCauses == {"no", "killed", "destroyedRunningThread", "startedNullThread",
    "usedDeletedThread"}

RecordType == [params : StartParams \cup {NoParams}, status : {0, 1},
               game : Games \cup {NoGame}, written : {"torn", "whole"}]

\* Every variable has its type (the fields of CloudStreamer, the record file,
\* the processes and the threads).
TypeOK ==
    /\ gameId \in Games \cup {NoGame}
    /\ gamePid \in Games \cup {NoGame}
    /\ pushParams \in StartParams \cup {NoParams}
    /\ keyboard \in {"null", "new", "running"}
    /\ keyboardPid \in Games \cup {NoGame}
    /\ protectFlag \in BOOLEAN
    /\ protectThread \in BOOLEAN
    /\ rec \in RecordType
    /\ disk \in RecordType
    /\ running \subseteq Games
    /\ launching \subseteq Games
    /\ dying \subseteq running
    /\ streams \subseteq [room : Rooms, by : {"handler", "protector"}]
    /\ pc \in [Workers -> {"idle"} \cup StartPoints \cup StopPoints \cup RecoverPoints]
    /\ arg \in [Workers -> StartParams \cup StopParams \cup {NoParams}]
    /\ model \in [Workers -> {NORMAL_MODEL, ONLY_PUSHSTREAMR}]
    /\ left \in [Workers -> SUBSET Games]
    /\ ppc \in [Protectors -> ProtectPoints]
    /\ parg \in [Protectors -> StartParams \cup {NoParams}]
    /\ aborted \in AbortCauses
    /\ orphans \subseteq Games

\* The record can always be recovered from: whenever it says that a game was
\* started - in memory or in the file a restart reads, in the middle of any
\* interleaving of the three SetValue calls of RecordInfo and after a crash
\* between them - it holds parameters that StartGameCallback accepted.
Recoverable(r) ==
    r.status = 1 => r.params \in StartParams /\ r.params.valid

RecoverableRecord == Recoverable(rec) /\ Recoverable(disk)

AllIdle == \A t \in Workers : pc[t] = "idle"

\* When messages are handled one at a time and the program does not crash,
\* ForeachKillExe and the wait of KillAreadlyRunningGame leave at most one
\* game running or on its way.
OneGame == Cardinality(running \cup launching) <= 1

\* When messages are handled one at a time, crashes or not, one game at most runs or
\* is on its way, next to those a start script was launching when the program died:
\* ForeachKillExe does not see them, and a recovery starts its game beside them.
OneGameButOrphans == Cardinality((running \cup launching) \ orphans) <= 1

\* "同步" (cloudstreamer.h:270): KillAreadlyRunningGame is synchronous, so the
\* start script is never run for a game that still runs.
LaunchesOnlyDeadGame ==
    \A t \in Workers : pc[t] = "launch" => arg[t].game \notin running

\* When messages are handled one at a time, a stopped session is quiet: no
\* keyboard thread is left, and a stream that is still up can only be the
\* late push of a protector that had looked at the record before the stop.
StoppedIsQuiet ==
    AllIdle /\ rec.status = 0 =>
        /\ keyboard = "null"
        /\ \A s \in streams : s.by = "protector"

\* When messages are handled one at a time, the record of a started session
\* names the game of the parameters it would be restarted with, in memory
\* between two handlers and in the file at any moment, after crashes too:
\* except when QSettings wrote the file between two writes of one RecordInfo
\* (recordgameinfo.cpp:69-71, 92-93) and the program was killed before it
\* wrote it again; the next RecordInfo ends the exception.
NamesItsGame(r) == r.status = 1 /\ r.written = "whole" => r.params.game = r.game

RecordNamesItsGame == NamesItsGame(rec) /\ NamesItsGame(disk)

\* When messages are handled one at a time, the only way the program can
\* bring itself down is a protector that uses the keyboard thread it tested
\* before StopGame deleted it.
OnlyProtectorAborts ==
    aborted \in {"no", "killed", "usedDeletedThread"}

\* When messages are handled one at a time, every handler comes to its end,
\* whatever it waits for, except in one place: the endless loop at the end of
\* StartGameAction, once the awaited game is neither listed nor on its way
\* (its start failed, or it was found running while StopGame's kill, which
\* nobody waits for, was still on its way).
HandlersReturn ==
    \A t \in Workers :
        pc[t] # "idle" ~>
            \/ pc[t] = "idle"
            \/ pc[t] = "await" /\ arg[t].game \notin running \cup launching

\* Detached protectors do not outlive the session for ever: once the record
\* stays stopped and no stream is left, every protector ends, even one whose
\* start raised the flag after StopProtectGstLaunch had lowered it.
ProtectorsRetire ==
    <>[](rec.status = 0 /\ streams = {}) => <>[](\A q \in Protectors : ppc[q] = "idle")

\* "wait the gst-launch-1.0 is start success" (cloudstreamer.cpp:1241): a
\* protector whose flag is up leaves its first loop when gst is running.
ProtectorWaitsForGst ==
    [][\A q \in Protectors :
          ppc[q] = "wait" /\ ppc'[q] = "check" /\ protectFlag => streams # {}]_vars

\* "if the game's exe is running then show the gameWindow top modal"
\* (cloudstreamer.cpp:2563): a change of resolution does not kill the game.
ChangeKeepsGame ==
    [][\A t \in Workers :
          model[t] = ONLY_PUSHSTREAMR /\ pc[t] = "probe" /\ pc'[t] # "probe"
              => arg[t].game \notin dying' \ dying]_vars

-----------------------------------------------------------------------------
(* The inductive invariant behind TypeOK and RecoverableRecord. *)

Valid == {p \in StartParams : p.valid}

\* A handler past the validation works on accepted parameters, before it on
\* a message or on what a recovery read, StopGame on its own message; a
\* protector pushes parameters that are not cleared.
AcceptedPoints == StartPoints \ {"clear", "killStream", "foreach", "killOther"}

ArgOK ==
    /\ \A t \in Workers :
        /\ pc[t] \in AcceptedPoints \cup {"writeInfo", "readStatus"}
               => arg[t] \in Valid
        /\ pc[t] \in {"foreach", "killOther"} => arg[t] \in StartParams
        /\ pc[t] \in {"clear", "killStream"} => arg[t] \in StartParams \cup {NoParams}
        /\ pc[t] \in StopPoints => arg[t] \in StopParams
    /\ \A q \in Protectors :
        ppc[q] \in {"setPush", "closePush", "push"} => parg[q] \in StartParams

\* Parameters are recorded only once accepted, and before the status is.
RecordOK(r) == /\ r.params \in Valid \cup {NoParams}
               /\ r.status = 1 => r.params \in Valid

StatusComesSecond ==
    \A t \in Workers : RecordFile /\ pc[t] = "recStatus" => rec.params \in Valid

IInv == /\ TypeOK
        /\ ArgOK
        /\ RecordOK(rec) /\ RecordOK(disk)
        /\ StatusComesSecond

-----------------------------------------------------------------------------
(* What the record promises to the rest of the program. *)
Session(r) == IF r.status = 1 THEN r.params ELSE NoParams

Abstract == INSTANCE SessionRecord WITH
    Accepted <- Valid,
    NoSession <- NoParams,
    session <- Session(rec),
    saved <- Session(disk)

\* Through all interleavings and crashes the three fields of the record act
\* as one register that holds no session or an accepted one, is saved from
\* time to time and falls back to what was saved.
ImplementsRecord == Abstract!Spec
=============================================================================
