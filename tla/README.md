# CloudStreamer: specification and verification

CloudStreamer runs on a rented game machine. It keeps a websocket to a service,
starts and stops games as the service says, pushes the picture of the game with
gst-launch-1.0, and turns what the player sends over a second websocket into calls
on a virtual keyboard and joystick. It is a Qt program whose handlers run in
detached threads over unlocked fields; most of what can go wrong is an order of
steps nobody wrote down. This directory models those steps in TLA+, checks them with
TLC, and proves about the core what does not depend on the size of the instance.

Paths below are relative to `src/`. A plain number is a line of `cloudstreamer.cpp`.

## 1. The system

| Part | State | Operations | Talks to |
|---|---|---|---|
| **Session handlers** (`CloudStreamer`, 1826-2325, 2498-2573, 2683-2749) | `m_gameId`, `m_gamePid`, `m_pushStreamerParams`, `m_keyBoardThread`, thread pointers | one detached thread per message: StartGame, StopGame, SignIn (recovery), ChangeResolution | scripts and processes, record, keyboard link, protector |
| **Protector** (1239-1327) | `m_gstlaunchProtectTheadFlag` | a detached thread that pushes again when gst-launch-1.0 ended | the record, the push parameters, the keyboard link |
| **Record** (`recordgameinfo.cpp`, `dealinifile.cpp`) | message, status and game id in an ini file | three partial writes, three reads; QSettings writes the file later | session handlers; the next process |
| **Websocket connection** (`websocketconnection.cpp`, with the part of `websocketpp/` behind it) | `m_isConnected`, `m_outter`, an asio thread; websocketpp's session state, handshake state and what `terminate` is to report | connect, SetCallback, send, close, destructor; the handlers of connect, request, response, frames, timeouts; open, message, close, failure | its owner, by callback; the peer |
| **Service link** (`wsservicecloudgamethread.cpp`; 2357-2495, 2616-2651, 2716-2745) | `m_wsSocket`, `m_activeDisconnect`, a QThread, Qt's event queue, `m_sessionId`, the report timer | connect, accident, reconnect, sign in, report, exit | connection; session handlers |
| **Keyboard link** (`KeyBoardThread`, 375-534, 920-1003) | `m_wsBoostSocket`, a QThread, the ping timer and its thread, the reconnect thread, the device | start, stop, destructor, reconnect, ping | connection; device; session handlers own it |
| **Key input** (536-752, 752-760, 857-918, 975-981; `keyvaluetransformt.cpp`, `consumerkeyboardvalue.h`) | the queue, key tables, pid of the game | a keyboard, mouse or gamepad message; the consumer thread, its retries and its stop | keyboard link; device |
| **Virtual keyboard** (`cloudGame/include/libGetrtpcmd_copy.cpp`) | five key slots, one modifier slot, which outlive a session; what the driver holds down | KeyDown, KeyUp, KeyPing, DeviceOpen, DeviceClose; the driver's reset | the driver |
| **Virtual joystick** (157-314, 777-854) | none between messages | DealTheJoystick | the driver |

How they interact: the service link posts messages to the main thread, which starts
a handler for each; handlers own the keyboard link, start the protector and write
the record; the protector reads what handlers write and calls into the keyboard
link; the asio thread of the keyboard link handles the player's messages and feeds
the consumer thread; both call the device.

Left out, with the reason, are in `PROJECT.json` under `components`: the window
(hidden; its buttons call the same handlers), message texts, logging, crash dumps, files
that are not in the build, and vendored libraries except for the part of websocketpp
that decides which callback is called when.

### What is hard, and what would make it correct

`PROJECT.json` lists every hazard at its line. In short:

- **Detached handlers** (1347: StopWorkThread does not wait). The record must stay
  recoverable in every interleaving and after a crash between any two writes.
- **Processes** are seen, killed and launched in separate steps: never two games,
  never a launch next to a process that still runs, and every wait must end.
- **The protector** races every handler: after a stop nothing may survive but what
  is known to, and it must end when the session does.
- **Reconnecting**: an event before SetCallback is lost, an accident is handled late
  or twice, a reconnect races a stop, a link that is cut without a reset is noticed by
  nobody who does not send, and an owner's `close` meets the library's `terminate`
  outside the lock that is to keep them apart.
- **Keys**: five slots that outlive a session, an unlocked queue, direct calls that
  overtake queued ones, messages that are dropped while another window is in front,
  a consumer that is stopped with calls left, and a device that is closed first.
- **Time**: a keyboard that lets go of everything when it is not pinged, a timer that
  pings every six seconds, and a thread start that may lose the timer altogether.
- **Numbers**: button bits at the ends of a byte, positions beyond the limits.

## 2. The modules

```
SessionRecord  <-- GameSession  <-- GameSessionProofs           MCGameSession
ConnectionLife <-- WsConnection <-- ConnectionProofs
                                <-- ServiceLink                 MCServiceLink
                                <-- KeyboardLink                MCKeyboardLink
ServiceLink,  ConnectionProofs  <-- ServiceLinkProofs
KeyboardLink, ConnectionProofs  <-- KeyboardLinkProofs
HidKeyboard    <-- HidKeyboardProofs <-- KeyboardDeviceProofs
               <-- KeyboardDevice    <-- KeyboardDeviceProofs   MCHidKeyboard
               <-- KeyInput (INSTANCE) <-- KeyInputProofs       MCKeyInput
JoystickReport <-- JoystickReportProofs                         MCJoystickReport
```

`map` in `PROJECT.json` gives the source lines of every definition that models code.
In each module a definition whose comment says *Mutant* is a plausible bug, used to
see that a property can fail; it is no part of the specification.

**GameSession.** A handler is a *worker* with a program counter `pc`; an action is
the code between two points at which another thread can make a difference: a read or
a write of a shared field, of the record, or of the machine. `Dispatch` is
ParseMessageCallback, the three groups `StartGameCallback`, `StopGameCallback` and
`RecoverCallback` (SignIn's recovery and ChangeResolution) are the functions of these
names, and `ProtectGstLaunch` is the protector with its counter `ppc`. The `Machine`
action is the world: a script lists or removes a game, a game or a stream ends.
`Sync` is QSettings' write of the record to its file, at any moment, whether the program
is ever killed or not; `Crash` loses fields and threads and keeps games, start scripts
and the file (`orphans` names the games that were being launched); `Restart` reads the
file as the constructor and sign-in do. The record's history field `written` tells one that
stands between two writes of a RecordInfo (`torn`) from a `whole` one.
`GameIsAreadlyRunning` writes the pid it finds to the shared `m_gamePid` and answers with
what it reads there again (2171-2175): when several threads ask, each may get the answer
to any question that is open (`Asked`). A StartGame message is a record of game, room, force and
validity, all that any branch depends on. A push failure returns from
PushStreamerAction and the handler goes on, as in the code (1929-1934).

**SessionRecord.** What the record promises: a register that holds an accepted
session or none, is saved from time to time, and falls back to what was saved.
GameSession implements it with `session <- Session(rec)`, `saved <- Session(disk)`:
of the three separate writes, only the one of the status or of the message of a
started session may change the register.

**WsConnection.** One connection object with its asio thread, and the websocketpp
connection behind it: `m_state`, `m_internal_state` and `tstat` are the library's own
(`session::state`, `istate`, the `terminate_status` handed to `handle_terminate`). One
action per library handler: the TCP connection (`handle_connect`), the request, the
response, whose arrival is `on_open`, the peer's close frame, a failed read or write, and
the two timeouts. All of them end in `terminate`, which closes the connection, and
`handle_terminate`, which reports it (`on_failure`, `on_close`). `link` is the TCP link: an
outage leaves it up, resets it, or cuts it, and a cut link is silent until something is
sent on it (`Revealed`). The order connect, SetCallback
(`wsservicecloudgamethread.cpp:55-56`, 504-505) makes events fall on a null owner: they
are remembered in the history field `deaf`. An owner's close takes two steps, because
`connection::close` tests `m_state` under a lock that `terminate` does not take
(`connection_impl.hpp` 304, 1698): a connection that ends in between is reported ended
twice.

**ConnectionLife.** What an object promises its owner: one open at most, before anything
else; one end, and a second one only after a close of the owner's own. WsConnection
implements it (`ImplementsLife`), with `told` and `asked` as the owner's view. Both links
are built on it, since every reported end starts a reconnect.

**ServiceLink.** The main thread takes events from `queue` (accident, greeting, reply,
report); `Run` is the QThread with its `rpc`; AccidentalTermination is split where
it waits, closes, resets and reconnects; a sign-in reply starts a thread that stores
the session; `DisconnectWS` runs after the event loop, when `main` ends. `quit` before
`exec` is kept by Qt and honoured when `exec` begins (`quitAsked`). `SendCallback` tests
and uses `m_wsSocket` in one step (99-103 of `wsservicecloudgamethread.cpp`): it is a slot on
the main thread, which is also where the socket is reset (77, 90), so nothing comes between.
RestartReportTimer sends the first report itself (2629).

**KeyboardLink.** `at` has a place for the owner, the QThread and each reconnect
thread. What the code does in two steps on `m_wsBoostSocket` (test, use) is two steps,
so a null pointer, a freed object and a thread destroyed while it runs are states the
model can reach (`crashed`). Starting the QThread again clears `quitAsked`. `device` is what
KeyMouseInit and KeyMouseClose left: start goes on when KeyMouseInit fails (949-954, its
`return false` is commented out), and starts the ping timer of a device that is not open.

**HidKeyboard.** The slots and the report: a report is the whole state of the device,
so a key that is not in the last report is up. The press of a modifier, or of a key
in no table, sends a report without the keys held (358-391 of the file). The histories
`blank`, `lastModifier` and `crowded` are kept from the calls alone, never from the report:
from them `LeftOut` says which held keys KeyDown's code leaves out of a report, and
`HeldIsReported` that no other is missing.

**KeyboardDevice.** HidKeyboard's calls over time and over sessions: the driver holds the
keys of the last report that reached it and lets them go after `resetAfter` ticks without
a command; `KeyPing` and every report start the count again. start and stop of
KeyBoardThread are `phase`, the timer is `ping`: its thread is started before `started()` is
connected (411-413), so that the timer may stay off. The slots are static members and
survive `CloseDevice`; `leftover` names the keys a session finds down.

**KeyInput.** MessageCallback, the three input modes, the tables that map gamepad
buttons to lists of keys and mouse buttons, the mouse, and the consumer. Its device is an
instance of HidKeyboard and the button of the last mouse report. Push and pop on the
unlocked `std::queue` take two steps; when they meet, one change of the size may be lost:
the new element, or the removal of an old one, whose call then throws and ends the
process. `session` is the order of `stop` and the destructor: the device is closed, the
socket, the consumer's flag lowered; a call on the closed device fails and is retried
as the code does (a press as a release and a press), and changes the slots all the same.
A session may also begin with a device that failed to open.

**JoystickReport.** One message, one report. The buttons go through
ConvertTheSpecialString twice, as in 837 and 840. A list may hold any integers and have any
length: the code reads 16 of them (199) and checks none, so that one from 128 on, or from -8
down, writes outside the 16 bytes (203-205). What happens then is undefined; the model sets
`overrun`, stops, and claims nothing more. The hat is passed on uninitialised (838-846): any
byte of the constant `Uninitialized`. The X axis stands for the six that are converted alike;
positions are thousandths.

## 3. The runs

Twelve runs: eight that must hold, four in which the program does something else than
its own words say. Each property has a mutant of the code that breaks it under the
same configuration. `session_alone`, `keyboard_races` and `hid_slots` check their module's
type invariant as well; the types of the other modules are stated in them (`TypeOK`) and
not part of a run.

| Run | Question | States |
|---|---|---|
| `session_alone` | Messages one at a time, scripts fail, games exit: `OneGame`, `LaunchesOnlyDeadGame`, `HandlersReturn` | 30 532 |
| `session_protect` | ... with a protector: `StoppedIsQuiet`, `OnlyProtectorAborts`, `ProtectorsRetire` | 419 737 |
| `session_crash` | Crashes anywhere, the file written anytime, scripts fail, games exit: `RecoverableRecord`, `OneGameButOrphans`, `RecordNamesItsGame`, `ImplementsRecord` | 1 006 762 |
| `service_outages` | Two outages anywhere, each link surviving, reset or cut, and an exit: `OneConnection`, `HealthyKept`, `NoSilentDeath`, `NoStaleMessage`, `SessionCurrent`, `QuietAfterExit`, `Reconnects` | 226 920 |
| `keyboard_races` | Two outages against a stop: `OnlyRacesCrash`, `NoPingAfterClose`, `OneReconnect`, `OneConnection`, `NoSilentDeath`, `Reconnects`, `StopReturns`, `ImplementsLife` | 134 021 |
| `hid_slots` | Any calls, any number of sessions, time: `NoDuplicate`, `NothingStuck`, `NoKeyLost`, `NoStrayKey`, `HeldKeyIsDown`, `PingKeepsKeys` | 386 760 |
| `input_order` | Two threads, an unlocked queue and a stop: `KeysFollowPlayer`, `ReleaseTakesEffect` | 287 136 |
| `joystick_messages` | Buttons and positions at and beyond the limits: `NoPhantomButton`, `HighButtonsArrive`, `AxisInRange`, `AxisMonotonic` | 1 609 |
| `session_gstwait` | `ProtectorWaitsForGst` **fails** | |
| `session_change` | `ChangeKeepsGame` **fails** | |
| `input_function` | `FunctionKeysPress` **fails** | |
| `joystick_lost` | `AllButtonsArrive` **fails** | |

What the passing runs say, and where they had to be stated with an exception because
the code does not keep more:

- One handler at a time keeps one game at most. *Two* handlers do not: each may kill
  the other's game and wait for its own for ever; and a thread that asks about a game while
  another does, a protector too, may be given the other's answer (`m_gamePid`). That is why
  the one-game properties are checked with one worker and no protector, and only the record
  is claimed for any number.
- Every handler returns **except** from the loop at 1998-2005, once the game it
  awaits is neither up nor on its way. That happens when the start script fails, and
  when a StartGame comes while the kill of a StopGame, which nobody waits for (2319),
  is on its way: the game is still listed, so it is not launched.
- After a crash one game at most is on the machine, **next to** those whose start script
  was at work when the program died: `ForeachKillExe` cannot see them, and a recovery
  starts its game beside them. Nothing else makes a second game.
- The record of a started session, and what is in its file, names the game of its
  parameters, **except** between two of the separate writes of one RecordInfo and, when the
  program was killed after QSettings had written the file there, in what the next process
  reads; the next RecordInfo ends it.
- After StopGame (one at a time) a stream that is still up is a push of the protector,
  which had read the record before.
- The protector tests `m_keyBoardThread` and then uses it (1260-1261): the one way in
  which the session can bring the process down.
- The service link is connected and signed in again after any outages, unless an event
  came before SetCallback, in which case nobody knows of it and no reconnect is ever tried,
  or the link was cut before the first sign-in: until then the client has no reason to
  send, and only sending reveals the cut. Once the report timer runs, it does.
- The keyboard link is logged in again in the same way; what reveals a cut there is the
  ping, so the exception is a timer that never started (413).
- A connection object reports its end once, and twice only when its owner's close came
  between the two. The links do not notice: an accident of a connection that is gone is
  not in the queue when the next one is made.
- The keyboard link dies only of a reconnect thread that meets a stop or a ping, and
  `stop` returns unless a reconnect thread races it, whose `start()` may clear the quit
  that `stop` waits for.
- The timer pings between KeyMouseInit and KeyMouseClose only, a device that failed to open
  as well; what cannot happen is a ping after the close, when the next session may be
  opening the device.
- Once nothing is on its way, an open device *reports* a key or mouse button as its last
  message says, unless the message was not heard (another window in front, or no link),
  was lost by the queue or given up at the stop, overtook a call in the queue, or pressed
  a function key, or unless a later mouse report named another button or none (the stick
  passes none, 758). The later report may be of the same message: of several mouse buttons
  in one gamepad list only the last stays pressed (`Overridden`). `last` names the reason.
  One more exception is the device's own: a key that KeyDown left out of the last report
  (`LeftOut`), as it does to every held key when a modifier is pressed. In the slots, which
  outlive the session, no key stays that was released, whether the device was open or not.
  A release that was heard is made, however many messages follow it.
- A key that is down was pressed in this session, or was left down by the one before:
  the slots are static, and come down again with the next report.
- A key that is held is down unless KeyDown left it out of the last report (`LeftOut`), or the
  driver let go of it: no timer ran, or too slow a one. `CloudGame.h:52` has two keys go down
  and up one after the other, each down from its KeyDown to its KeyUp; **the code does not
  keep that**. It leaves out every ordinary key while the last call pressed a modifier or an
  unknown code (so W is up from the press of Shift to the next call of an ordinary key or a
  release), a key that found no slot, a modifier that another one replaced, and a key it does
  not know. `HeldKeyIsDown` names these four, from the calls and the slots, not from the
  report, and says that there is no fifth. A timer that runs, and is quicker than the driver,
  is enough to exclude the rest. The code's
  6000 ms are slower than the one second of `CloudGame.h:56`; whether they are slower than the
  driver depends on the unit of the timeout that the library sends with each command
  (`libGetrtpcmd_copy.cpp:43` speaks of a fifth of it in seconds), and the driver is not in
  the repository. So the run has both a driver that is slower than the timer and one that
  is not, and nothing is claimed of the real one.
- Of the first 16 numbers of a button list, those beyond the first byte all arrive but the
  last one of each byte; later numbers are lost (199). After a number that makes the code
  write outside the 16 bytes nothing is claimed.

What the failing runs say (`findings` quotes the lines):

- `session_gstwait`: the loop commented as waiting for the *start* of gst-launch-1.0
  goes on *while* it runs (1241-1246). A protector of a stream that works does not
  reach its checks, nor tell the keyboard the pid of the game, before the stream ends.
- `session_change`: a change of resolution replays the recorded StartGame, force flag
  included, and so kills the game it says it keeps (2563-2567, 1988-1992).
- `input_function`: both ini files are opened with the first parser (960), so function
  keys of the full keyboard mode are never pressed.
- `joystick_lost`: the second conversion (840) leaves one button of the first byte, and
  the last button of each byte is shifted out (205).

Not among the failing runs, but in the model: the press of a modifier releases, for the
device, the keys that are held (`PressModifier`, against `CloudGame.h:52`); the hat of the
joystick is never passed on (838-846, against `CloudGame.h:89-95`).

### Bounds, and why they are enough

- *Session*: two games are what "another game" needs; two rooms tell a stale push from a
  new one. One worker where the property is about messages one at a time; any number of
  workers is what the proofs are for. `session_protect` has one game, one room and one message,
  with force (the longest path of a StartGame), since the protector races over the stream and
  the keyboard, not over games; one protector, because one is enough for every exception
  stated above. That several protectors pile up (1309) is not among its properties.
  Messages elsewhere: with and without force, valid and rejected. Since the file is written at
  any moment, `session_crash` is the largest run.
- *Links*: two connection objects, the second to see that there is never a second one;
  a destroyed object is used again. Two outages: the second one hits the reconnection of
  the first; a close by the peer counts as one. Each outage gives each link one of three
  fates. Two reconnect threads, so that they can meet; an end waits until one is free for
  it. Three sessions: one stored, one on its way, one fresh. `outages` is the only counter,
  bounded by `MaxOutages`.
- *Keyboard*: three ordinary keys for two slots, so that the slots can be full and become
  free in any order, two modifiers, one unknown code; keys and modifiers are symmetric. The
  theorems have any numbers. A tick is the period of the timer; the driver waits one tick
  (as long as the timer) or two (longer).
- *Input*: a key and a modifier, two mouse buttons, and three gamepad buttons: one
  shares the key with the keyboard, one is a combination, and one is the two mouse buttons,
  which the mouse has as well. Two slots (no key is dropped for want of a slot: that is
  `hid_slots`). `MaxQueue` = 1: a button is taken while the queue holds less than that, and its calls (up to two) then
  meet the consumer, the keyboard and the mouse in any order.
- *Joystick*: pairs of numbers at both ends of the first, second and last byte and just
  outside them (128, -8), a negative number that stays inside (-7), and a list of 17, whose
  last is cut; positions inside, at, and beyond both limits; the known mode and another one.

### Fairness

Weak fairness of each thread, and of nothing else: the operating system runs every
thread that can run. Of the world, only the scripts are fair (a game launched is listed
or fails, a game killed ends) and `protectCloudStreamer.bat` starts the program again; a
timer that was started fires (`WF_vars(Tick)` of the reports, the steps of the ping).
websocketpp's own timeouts are asio timers, so a connection that waits for an answer ends
in the end: they are steps of the asio thread. Players, the network, the user and crashes
owe nothing: `Reconnects` is claimed only when the network is up for good.

`CHECK_DEADLOCK FALSE` is set where the system really ends: the exit of `main`, a stopped
link, a process that died of its queue, the end of an input session, a write outside the
joystick's bytes.

### Assumptions about what is not in the repository, or not in doubt

- The addresses of the service and of the keyboard socket are well formed, so that
  `get_connection` succeeds: the code logs a failure and never tries again. The device
  number is not empty; the socket is not pinged without it (478).
- A peer sends no pong of its own accord. `on_pong` (`websocketconnection.cpp` 85-90) sends a
  PING frame through a call that refuses control frames and throws, with nobody to catch it.
- The driver behaves as `CloudGame.h` says: a report is the whole state, and the reset
  releases everything. A call fails exactly when the device is not open.
- The thread of a started timer runs, and a timer that is due fires, before the next tick.

## 4. The proofs

Eight modules hold theorems that TLAPS checks. Every property of the passing runs but the
liveness properties is proved there, for every value of the constants: any number of games,
handlers, connections, reconnect threads, outages, keys, slots, buttons and positions, and a
queue of any length. `PROJECT.json` lists the theorems and the property each of them states.

Every proof has the same shape. An invariant is strengthened until it is inductive
(`IInv`), one lemma for each action or group of actions shows that it is kept, a lemma named
`StepPreserves`, `NextInvariant` or the like puts them together, and each property follows
from the invariant in a state. TLC checked the strengthened invariants on small instances
first. An action that changes much has a step that says *what* it changes and a step that
says why the invariant does not mind, so that the definition of the action is expanded once.

**GameSessionProofs.**

- `TypeCorrect`, `RecordIsRecoverable`, `RecordRefinement`: for any number of games, rooms,
  messages, handlers and protectors, interleaved at will, with or without crashes, exits,
  failures and the record file. `RecoverableRecord` is not inductive: the write of the status
  keeps it only because the same handler recorded its message before (`StatusComesSecond`),
  because that message had been accepted (`ArgOK`), and because nobody ever records any
  other (`RecordOK`). From this invariant every step is `Begin`, `End`, `Save`, `Fallback` or a
  stutter of SessionRecord.
- Six theorems about messages handled one at a time (`OneAtATime`: there is at most one
  worker). They say so in their statement, because two handlers do break these properties
  (section 3); protectors, crashes and failures are as many as one likes unless noted.
  - `OneGameNextToOrphans` (`OneGameButOrphans`). The games that are up or on their way, but
    for the orphans of a crash (`Live`), are the game of the handler at work once
    ForeachKillExe is through, and those it has not come to before (`GameInv`). That only one
    start script is on its way, and for a game that does not run, is `LaunchInv`. It needs
    that there is no protector: one that asks about a game in between overwrites `m_gamePid`, and
    the handler may take its answer for its own (`OwnAnswer` is where that is excluded).
  - `OneGameOnly`, `LaunchesDeadGames`: with neither a crash nor a protector, for either may
    end the program with a start script at work, and then the orphans are no exception any more.
  - `OnlyProtectorsAbort`: no handler destroys a running keyboard thread or starts a missing
    one (`BoardInv`).
  - `RecordNamesGame`: with crashes, aborts, protectors and the file written at any moment.
    A whole record names its game, in memory and in the file; a torn one is that of the
    handler at work, or was reloaded, and before the last write its parameters are those of
    the handler (`NameInv`).
  - `StoppedMeansQuiet`: with the record file, in the mode that has a keyboard, and with
    crashes. What a handler starts, it starts after it recorded the status; StopGame takes
    down the stream before it clears the status, and the keyboard after (`QuietInv`).

**ConnectionProofs** is about one connection object, whatever its owner does with it. It
has no theorem of its own but the lemmas that both links cite: `ConnInv` is kept by every
handler of the library and every call, and each of these is one step of ConnectionLife or a
stutter. What an object has told its owner does not determine where the library stands, since
an end that meets the owner's close is told twice; `ObjectOK` goes through the five histories
and names the states each of them leaves possible.

**ServiceLinkProofs**: `TypeCorrect`, the six properties of `service_outages` but for
`Reconnects`, and `ServiceSeesLife` (the link's connections implement ConnectionLife). The run
thread and the main thread take turns on `m_wsSocket` (`TurnsInv`), so the only object that is
alive is the one it names (`SocketInv`). `HealthyKept` and `NoStaleMessage` are about the event
queue, and need to know what waits in it: as long as the exit has not begun, every event is of
the present connection (`PresentInv`), an accident is the last word of its connection
(`AccidentInv`), and the service has sent nothing since the one message that waits
(`MessageInv`). The session (`SessionInv`) is that of the last reply unless two
sign-in threads overlapped, and then nothing is claimed.

**KeyboardLinkProofs**: `TypeCorrect`, the safety properties of `keyboard_races` and
`KeyboardSeesLife`. Nothing locks what the threads of this link share, so the invariant has to
be true of a link that has gone wrong: `BaseInv` holds whatever races (types, the objects, the
ping timer between StartDevice and KeyMouseClose). `RaceInv` says that a reconnect
thread that meets a stop or a ping is on record, and that nothing else can kill the process.
As long as there is no such record or the owner has not begun to stop (`Sound`), the threads
take turns (`TurnsInv`: one reconnect thread at most, at work on a connection that has ended,
while run() is stopped). `OneReconnect` and `OneConnection` follow from the last part,
`OnlyRacesCrash` from the second, `NoPingAfterClose` (`PingsEndBeforeClose`) from the first:
the timer's thread is over before the close, whether the device ever opened or not.

**KeyInputProofs**: `InputInvariant`, `KeysAndButtonsFollow` and `InputsAreCalls`.
`KeysFollowPlayer` speaks of the moment at which nothing is on its way. The
invariant speaks of every other moment: of each key, the last call that waits in the queue, or
the device if there is none, says what the last message said (`KeysInv`), and so does what the
mouse will hold when the queue is through (`MouseInv`, `Final`). A message that is being
pushed counts once its calls are in the queue, which all say the same (`ProducingInv`). The
proof rests on what an append, or the removal of the head, does to the last call of a
kind (`AppendLast`, `AppendOther`, `TailCalls`). A call that fails and is repeated while it
still heads the queue concerns no other key (`CallIsRepeated`), which is why a closed device
does no harm. `InputsAreCalls` (`Spec => Hid!Spec`) makes the theorems about HidKeyboard hold
of the two threads' calls: HidKeyboardProofs is instantiated here, and `OnlyKeyDownLeavesOut`
takes the argument from the slots, where the invariant puts a held key, to the report.

The first attempt at this proof failed, and for a reason: a gamepad list with two mouse buttons
leaves only the second pressed, which the property did not excuse. KeyInput has `Overridden`
for it, and `input_order` has such a list.

**HidKeyboardProofs** and **KeyboardDeviceProofs**.

- `NothingStaysDown`: no slot, no modifier and no report survives its KeyUp.
- `OnlyCrowdsLoseKeys`: as long as the client never held more ordinary keys than there are
  slots, each has a slot. The argument counts: if no slot is free and no key has two
  (`NoDuplicate`, part of `IInv`), the slots hold as many keys as there are slots, all of them
  held (`NothingStuck`), and the new one is one more (`FullList`, `DroppedKeyCrowds`).
- `OnlyKeyDownLeavesOut` (`HeldIsReported`): a held key that is not in the last report was left
  out for one of the four reasons of `LeftOut`, which speak of the calls that were made. It
  rests on `NothingStuck` and `NoKeyLost`, and on what each kind of call puts into the report.
- `SlotsOverSessions`, `NoStrayKeyEver`, `HeldKeyStaysDown`, `PingsSuffice` and
  `DeviceTypeCorrect`: the properties of `hid_slots` for `DeviceSpec`. `DeviceStepIsCall` says that
  to the slots every step of the device is a call or nothing, so HidKeyboard's invariant
  carries over. `NoStrayKey` and `HeldKeyIsDown` are inductive next to it: what a report says is
  what the slots say, and a session that begins counts everything it finds as left over.
  `PingKeepsKeys` is not: it needs `PingedInTime`, that from the player's first key on the driver
  has been silent for no longer than the timer, which the start of the timer's thread keeps
  only because no time passes between the two.

**JoystickReportProofs**: `TypeCorrect` and the four properties of `joystick_messages`, for
messages with a list of any integers, of any length, and any position. `NothingPressedUnasked` and
`HighButtonsPressed` rest on what one call of ConvertTheSpecialString does to a byte; the
axis needs that clamping, scaling and truncating are each monotonic and where each of them
ends (`ScaledLimits`).

The assumptions are the named `ASSUME`s of the modules, which TLC evaluates in every run: ids
are distinct from the empty one, tables are disjoint, threads are not each other, periods are
positive, an uninitialised byte is a byte. The hypotheses of the six theorems about messages
one at a time hold in the configurations of `session_alone`, `session_protect` and
`session_crash` that check their properties.

Only model-checked: every liveness property (`HandlersReturn`, `ProtectorsRetire`,
`Reconnects` of both links, `StopReturns`, `ReleaseTakesEffect`), which is out of TLAPS's
reach.


## 5. What is not modelled

- Data races below the level of a field: a `shared_ptr` or a `QString` that is read while it is
  assigned is atomic here, except where the model says so (`m_wsBoostSocket`, the queue).
- Calls of the device are atomic, although the asio thread and the consumer thread may meet
  in the slots: the linked library's source is not in the repository, except for the copy
  that HidKeyboard follows.
- Numbers of time: sleeps are steps, and ticks are counted only in KeyboardDevice, where it is
  the ratio of timer and driver that matters.
- The values of the resolution, the report for `startGameParams` "null", the update flag
  (always false), and the fields no handler reads.
- The coordinates of the mouse: they are scaled, truncated and passed on, and kept by nothing.
  The gamepad's `ud` 6 and 7 do nothing in the code. ConvertXYDirection, ReverseBounce and
  DirectionAllUp have no caller.
- websocketpp below its handlers: frames and their masks, UTF-8, extensions, headers, the
  proxy, the server side, the logger; jsoncpp, curl, easywsclient and log4qt as a whole. They
  are some 55 000 of the repository's 62 000 lines of implementation and decide none of the
  properties here; what is modelled is the program's own code and the part of websocketpp that
  decides which callback comes when.
- Two StartGame handlers of different games: each kills the other's game and waits for its own
  (2192, 1998). No property is stated of them, because the code keeps none.

## 6. Plan

Done, in this order: GameSession with its record, its refinement and its proofs; the
connection and both links; the keyboard with its proofs; the input; the joystick. Then: the
library's connection behind both links and ConnectionLife, the keyboard over time with its
proofs, the mouse, the retries and the stop of the input, and the games that outlive a crash.
Then the proofs of the connection, both links, the joystick, the session with one handler at a
time, and the input.

Next, most important first:

1. **What two handlers leave true**, stated and proved: that a handler never kills the game it
   was asked for without the force flag, and which fields of a handler are its own.
2. **The steps that liveness rests on**: that a handler's wait can end only in the ways that
   `HandlersReturn` names, as an action property that can be proved for any number of games.
3. **JoystickReport**: what the first byte holds (`AllButtonsArrive` says what it does not).
4. **HidKeyboard in KeyboardLink**: the pings of the one and the ticks of the other are two
   models of one timer; a module that composes them would relate `NoPingAfterClose` and
   `PingKeepsKeys`.
