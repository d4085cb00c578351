--------------------------- MODULE KeyboardDevice ---------------------------
(* The virtual keyboard over time: HidKeyboard's calls, the driver that holds the
   keys down and lets them go when it is left alone, the ping timer that is to
   prevent that, and the sessions that open and close the device.

   The slots are static members of libGetrtpcmd: they outlive a session, as does
   the driver's state.  The driver is what CloudGame.h says of it; the time after
   which it resets is one second there, and the timeout of each command in the
   library's source, so both a short and a long one are considered. *)
EXTENDS HidKeyboard

CONSTANTS
    PingPeriod,    \* ticks between two pings of the timer
    ResetTimes     \* ticks without a command after which the driver may reset

ASSUME DeviceAssumption ==
    /\ PingPeriod \in Nat \ {0}
    /\ ResetTimes \subseteq Nat \ {0}

VARIABLES
    opened,      \* the device's handle is valid
    driver,      \* the keys the driver holds down
    silence,     \* ticks since a command reached the driver, up to resetAfter
    resetAfter,  \* what the driver does, which never changes
    phase,       \* where start and stop are
    ping,        \* the ping timer
    sincePing,   \* ticks since it fired
    leftover,    \* history: keys down when the session began and not touched since
    cleared      \* history: why the driver let go of the keys after the last report

hidVars == <<keycodelist, Modkeycodelist, report, held, crowded, blank, lastModifier>>
timeVars == <<silence, sincePing>>
lifeVars == <<opened, phase>>
deviceVars == <<hidVars, timeVars, lifeVars, driver, resetAfter, ping, leftover, cleared>>

\* The keys the player of this session holds.
player == held \ leftover

DeviceTypeOK ==
    /\ TypeOK
    /\ opened \in BOOLEAN
    /\ driver \subseteq AllKeys
    /\ resetAfter \in ResetTimes
    /\ silence \in 0..resetAfter
    /\ phase \in {"idle", "timer", "connect", "running", "stopping", "closed"}
    /\ ping \in {"none", "starting", "running", "off"}
    /\ sincePing \in 0..PingPeriod
    /\ leftover \subseteq AllKeys
    /\ cleared \in {"no", "unpinged", "starved"}

DeviceInit ==
    /\ Init
    /\ opened = FALSE
    /\ driver = {}
    /\ resetAfter \in ResetTimes
    /\ silence = 0
    /\ phase = "idle"
    /\ ping = "none"
    /\ sincePing = 0
    /\ leftover = {}
    /\ cleared = "no"

-------------------------------------------------------------------------------
(* Commands to the driver; on a closed device they fail. *)

\* Mutant: the driver adds the keys of a report to those it holds.
FeatureAdds ==
    IF opened
    THEN /\ driver' = driver \cup Reported'
         /\ silence' = 0
         /\ cleared' = "no"
    ELSE UNCHANGED <<driver, silence, cleared>>

\* HidD_SetFeature with a report: the driver holds the keys of the report.
SetFeature ==
    IF opened
    THEN /\ driver' = Reported'
         /\ silence' = 0
         /\ cleared' = "no"
    ELSE UNCHANGED <<driver, silence, cleared>>

\* A player's key reaches the keyboard until the socket is closed, which is after
\* the device is.
Calling == phase \in {"running", "stopping", "closed"}

Press(k) ==
    /\ Calling
    /\ KeyDown(k)
    /\ SetFeature
    /\ leftover' = leftover \ {k}
    /\ UNCHANGED <<lifeVars, sincePing, resetAfter, ping>>

Release(k) ==
    /\ Calling
    /\ KeyUp(k)
    /\ SetFeature
    /\ leftover' = leftover \ {k}
    /\ UNCHANGED <<lifeVars, sincePing, resetAfter, ping>>

\* Mutant: the ping goes to the socket only.
PingForgotten ==
    /\ ping = "running" /\ sincePing = PingPeriod
    /\ sincePing' = 0
    /\ UNCHANGED <<hidVars, lifeVars, silence, driver, resetAfter, ping, leftover, cleared>>

KeyPing ==
    /\ ping = "running" /\ sincePing = PingPeriod
    /\ sincePing' = 0
    /\ silence' = IF opened THEN 0 ELSE silence
    /\ UNCHANGED <<hidVars, lifeVars, driver, resetAfter, ping, leftover, cleared>>

-------------------------------------------------------------------------------
(* start and stop of KeyBoardThread *)

\* The device is opened anew; when that fails the session goes on without.
OpenDevice ==
    /\ phase = "idle"
    /\ opened' \in BOOLEAN
    /\ phase' = "timer"
    /\ leftover' = IF opened' THEN held \cup driver ELSE {}
    /\ UNCHANGED <<hidVars, timeVars, driver, resetAfter, ping, cleared>>

\* The thread of the timer is started, and its started() connected after that.
StartTimerThread ==
    /\ phase = "timer"
    /\ ping' = "starting"
    /\ phase' = "connect"
    /\ UNCHANGED <<hidVars, timeVars, opened, driver, resetAfter, leftover, cleared>>

ConnectTimer ==
    /\ phase = "connect"
    /\ phase' = "running"
    /\ UNCHANGED <<hidVars, timeVars, opened, driver, resetAfter, ping, leftover,
                   cleared>>

\* The signal starts the timer if it was connected in time.
TimerThreadStarted ==
    /\ ping = "starting"
    /\ ping' = IF phase = "connect" THEN "off" ELSE "running"
    /\ sincePing' = 0
    /\ UNCHANGED <<hidVars, lifeVars, silence, driver, resetAfter, leftover, cleared>>

StopTimer ==
    /\ phase = "running" /\ ping # "starting"
    /\ ping' = "none"
    /\ sincePing' = 0
    /\ phase' = "stopping"
    /\ UNCHANGED <<hidVars, silence, opened, driver, resetAfter, leftover, cleared>>

CloseDevice ==
    /\ phase = "stopping"
    /\ opened' = FALSE
    /\ phase' = "closed"
    /\ leftover' = {} /\ cleared' = "no"
    /\ UNCHANGED <<hidVars, timeVars, driver, resetAfter, ping>>

CloseSocket ==
    /\ phase = "closed"
    /\ phase' = "idle"
    /\ UNCHANGED <<hidVars, timeVars, opened, driver, resetAfter, ping, leftover,
                   cleared>>

Life ==
    OpenDevice \/ StartTimerThread \/ ConnectTimer \/ TimerThreadStarted \/ StopTimer
    \/ CloseDevice \/ CloseSocket

-------------------------------------------------------------------------------
(* Time.  A thread that is started runs, a timer that is due fires, and the driver
   resets, before time goes on. *)

Reset ==
    /\ silence = resetAfter /\ driver # {}
    /\ driver' = {}
    /\ cleared' = IF player = {} \/ ~opened THEN cleared
                  ELSE IF ping = "running" THEN "starved" ELSE "unpinged"
    /\ UNCHANGED <<hidVars, timeVars, lifeVars, resetAfter, ping, leftover>>

Tick ==
    /\ silence < resetAfter \/ driver = {}
    /\ ping # "starting"
    /\ ping = "running" => sincePing < PingPeriod
    /\ silence' = IF silence < resetAfter THEN silence + 1 ELSE silence
    /\ sincePing' = IF ping = "running" THEN sincePing + 1 ELSE sincePing
    /\ UNCHANGED <<hidVars, lifeVars, driver, resetAfter, ping, leftover, cleared>>

DeviceNext ==
    \/ Life \/ KeyPing \/ Reset \/ Tick
    \/ \E k \in AllKeys \cup {None} : Press(k) \/ Release(k)

DeviceSpec == DeviceInit /\ [][DeviceNext]_deviceVars

-------------------------------------------------------------------------------
(* Properties *)

\* A key that is down on an open device is held by the player of this session, or
\* was left down when the session began: the slots, which outlive the session,
\* press it again with the first key of the next player.
NoStrayKey == opened => driver \subseteq player \cup leftover

\* CloudGame.h (52) has two keys go down and up one after the other, each down from
\* its KeyDown to its KeyUp.  A key the player holds is down, whatever came between,
\* unless KeyDown left it out of the last report - which it does, against that line,
\* to every key when a modifier or an unknown key is pressed, to a key that found
\* no slot, to a modifier that another one replaced, and to a key it does not know -
\* or the driver let go of it: no timer ran, or one whose period is too long.
HeldKeyIsDown ==
    opened => \A k \in player :
        \/ k \in driver
        \/ LeftOut(k)
        \/ cleared = "unpinged" /\ ping # "running"
        \/ cleared = "starved" /\ PingPeriod >= resetAfter

\* A timer that runs keeps the keys down if its period is shorter than the time
\* the driver waits; the code's 6000 ms are not, if that time is the one second of
\* CloudGame.h.
PingKeepsKeys == cleared = "starved" => PingPeriod >= resetAfter
===============================================================================
