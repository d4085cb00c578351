------------------------ MODULE KeyboardDeviceProofs ------------------------
(* The keyboard over time, for every set of keys, every number of slots, every
   period of the timer and every time after which the driver resets. *)
EXTENDS KeyboardDevice, HidKeyboardProofs

\* While the timer's thread is alive, the driver has not been left alone for longer
\* than the timer has, once the player holds a key.
PingedInTime ==
    opened /\ player # {} =>
        /\ phase \notin {"timer", "connect"}
        /\ ping = "starting" => silence = 0
        /\ ping = "running" => silence <= sincePing

\* Until the driver lets go of them it holds the keys of the last report, once the
\* player of the session caused one; and it lets go of them unpinged only when no
\* timer runs.
DriverFollows ==
    opened /\ player # {} =>
        /\ cleared = "no" => driver = Reported
        /\ cleared = "unpinged" => ping \notin {"starting", "running"}

DeviceInv ==
    /\ DeviceTypeOK /\ IInv /\ ReportSays
    /\ NoStrayKey /\ DriverFollows /\ PingKeepsKeys /\ PingedInTime

\* A key that is not down was left out of the report, or the driver let go of it.
LEMMA HeldFollows == DeviceInv => HeldKeyIsDown
<1> SUFFICES ASSUME DeviceInv, opened, NEW k \in player
             PROVE  \/ k \in driver
                    \/ LeftOut(k)
                    \/ cleared = "unpinged" /\ ping # "running"
                    \/ cleared = "starved" /\ PingPeriod >= resetAfter
  BY DEF HeldKeyIsDown
<1>1. HeldIsReported
  BY ReportHolds DEF DeviceInv
<1>2. k \in Reported \/ LeftOut(k)
  BY <1>1 DEF HeldIsReported, player
<1>3. cleared \in {"no", "unpinged", "starved"}
  BY DEF DeviceInv, DeviceTypeOK
<1>4. QED
  BY <1>2, <1>3 DEF DeviceInv, DriverFollows, PingKeepsKeys

-------------------------------------------------------------------------------
\* To the slots, a step of the device is a call or nothing.
LEMMA DeviceStepIsCall == [DeviceNext]_deviceVars => [Next]_vars
<1> SUFFICES ASSUME [DeviceNext]_deviceVars PROVE [Next]_vars
  OBVIOUS
<1>1. CASE UNCHANGED deviceVars
  BY <1>1 DEF deviceVars, hidVars, vars
<1>2. CASE Life
  BY <1>2 DEF Life, OpenDevice, StartTimerThread, ConnectTimer, TimerThreadStarted,
     StopTimer, CloseDevice, CloseSocket, hidVars, vars
<1>3. CASE KeyPing \/ Reset \/ Tick
  BY <1>3 DEF KeyPing, Reset, Tick, hidVars, vars
<1>4. CASE \E k \in AllKeys \cup {None} : Press(k) \/ Release(k)
  BY <1>4 DEF Press, Release, Next
<1>5. QED
  BY <1>1, <1>2, <1>3, <1>4 DEF DeviceNext

LEMMA DeviceInitEstablishes == DeviceInit => DeviceInv
<1> SUFFICES ASSUME DeviceInit PROVE DeviceInv
  OBVIOUS
<1>1. IInv /\ ReportSays
  BY InitEstablishes, ReportInit DEF DeviceInit
<1>2. DeviceTypeOK
  <2>1. resetAfter \in Nat /\ PingPeriod \in Nat
    BY DeviceAssumption DEF DeviceInit, DeviceAssumption
  <2>2. silence \in 0..resetAfter /\ sincePing \in 0..PingPeriod
    BY <2>1 DEF DeviceInit
  <2>3. TypeOK
    BY <1>1 DEF IInv
  <2>4. QED
    BY <2>2, <2>3 DEF DeviceInit, DeviceTypeOK
<1>3. NoStrayKey /\ DriverFollows /\ PingKeepsKeys /\ PingedInTime
  BY DEF DeviceInit, NoStrayKey, DriverFollows, PingKeepsKeys, PingedInTime
<1>4. QED
  BY <1>1, <1>2, <1>3 DEF DeviceInv

-------------------------------------------------------------------------------
\* A report, sent by a press or a release: what is then in the driver.
LEMMA ReportPreserves ==
    ASSUME DeviceInv, IInv', ReportSays', NEW k, Press(k) \/ Release(k)
    PROVE  DeviceInv'
<1>1. /\ SetFeature
      /\ UNCHANGED <<opened, phase, sincePing, resetAfter, ping>>
      /\ leftover' = leftover \ {k}
      /\ Calling
  BY DEF Press, Release, lifeVars
<1>2. TypeOK' /\ NothingStuck' /\ NoKeyLost'
  BY DEF IInv
<1>3. Reported' \subseteq held' /\ held' \subseteq AllKeys
  BY <1>2 DEF NothingStuck, TypeOK
<1>4. resetAfter \in Nat /\ sincePing \in Nat
  <2>1. resetAfter \in ResetTimes /\ sincePing \in 0..PingPeriod
    BY DEF DeviceInv, DeviceTypeOK
  <2>2. QED
    BY <2>1, DeviceAssumption DEF DeviceAssumption
<1>5. CASE ~opened
  <2>1. UNCHANGED <<driver, silence, cleared>> /\ ~opened'
    BY <1>1, <1>5 DEF SetFeature
  <2>2. DeviceTypeOK'
    BY <1>1, <1>2, <2>1 DEF DeviceInv, DeviceTypeOK
  <2>3. NoStrayKey' /\ DriverFollows' /\ PingKeepsKeys' /\ PingedInTime'
    BY <1>1, <2>1 DEF DeviceInv, NoStrayKey, DriverFollows, PingKeepsKeys, PingedInTime
  <2>4. QED
    BY <2>2, <2>3 DEF DeviceInv
<1>6. CASE opened
  <2>1. /\ driver' = Reported'
        /\ silence' = 0
        /\ cleared' = "no"
    BY <1>1, <1>6 DEF SetFeature
  <2>2. DeviceTypeOK'
    <3>1. silence' \in 0..resetAfter' /\ driver' \subseteq AllKeys
      <4>1. 0 \in 0..resetAfter
        BY <1>4
      <4>2. QED
        BY <1>1, <1>3, <2>1, <4>1 DEF AllKeys
    <3>2. leftover' \subseteq AllKeys
      BY <1>1 DEF DeviceInv, DeviceTypeOK
    <3>3. QED
      BY <1>1, <1>2, <2>1, <3>1, <3>2 DEF DeviceInv, DeviceTypeOK
  <2>3. NoStrayKey'
    BY <1>3, <2>1 DEF NoStrayKey, player
  <2>4. DriverFollows'
    BY <2>1 DEF DriverFollows
  <2>5. PingKeepsKeys'
    BY <2>1 DEF PingKeepsKeys
  <2>6. PingedInTime'
    <3>1. phase' \notin {"timer", "connect"}
      BY <1>1 DEF Calling
    <3>2. silence' = 0 /\ silence' <= sincePing'
      <4>1. sincePing' = sincePing
        BY <1>1
      <4>2. 0 <= sincePing
        BY <1>4
      <4>3. QED
        BY <2>1, <4>1, <4>2
    <3>3. QED
      BY <3>1, <3>2 DEF PingedInTime
  <2>7. QED
    BY <2>2, <2>3, <2>4, <2>5, <2>6 DEF DeviceInv
<1>7. QED
  BY <1>5, <1>6

\* start and stop.
LEMMA LifePreserves ==
    ASSUME DeviceInv, IInv', ReportSays', Life
    PROVE  DeviceInv'
<1> USE DEF DeviceInv
<1>t. DeviceTypeOK'
  <2>1. TypeOK'
    BY DEF IInv
  <2>2. 0 \in 0..PingPeriod
    BY DeviceAssumption DEF DeviceAssumption
  <2>3. CASE OpenDevice
    <3>1. leftover' \subseteq AllKeys
      BY <2>3 DEF OpenDevice, DeviceTypeOK, TypeOK
    <3>2. QED
      BY <2>1, <2>3, <3>1 DEF OpenDevice, timeVars, DeviceTypeOK
  <2>4. CASE StartTimerThread
    BY <2>1, <2>4 DEF StartTimerThread, timeVars, DeviceTypeOK
  <2>5. CASE ConnectTimer \/ CloseSocket
    BY <2>1, <2>5 DEF ConnectTimer, CloseSocket, timeVars, DeviceTypeOK
  <2>6. CASE TimerThreadStarted
    BY <2>1, <2>2, <2>6 DEF TimerThreadStarted, lifeVars, DeviceTypeOK
  <2>7. CASE StopTimer
    BY <2>1, <2>2, <2>7 DEF StopTimer, DeviceTypeOK
  <2>8. CASE CloseDevice
    BY <2>1, <2>8 DEF CloseDevice, timeVars, DeviceTypeOK
  <2>9. QED
    BY <2>3, <2>4, <2>5, <2>6, <2>7, <2>8 DEF Life
<1>1. CASE OpenDevice
  <2>1. held' = held /\ driver' = driver /\ cleared' = cleared /\ resetAfter' = resetAfter
    BY <1>1 DEF OpenDevice, hidVars
  <2>2. opened' => leftover' = held \cup driver
    BY <1>1 DEF OpenDevice
  <2>3. opened' => player' = {} /\ driver' \subseteq leftover'
    BY <2>1, <2>2 DEF player
  <2>4. NoStrayKey' /\ DriverFollows' /\ PingedInTime'
    BY <2>3 DEF NoStrayKey, DriverFollows, PingedInTime
  <2>5. PingKeepsKeys'
    BY <2>1 DEF PingKeepsKeys
  <2>6. QED
    BY <1>t, <2>4, <2>5
<1>2. CASE CloseDevice
  BY <1>t, <1>2 DEF CloseDevice, NoStrayKey, DriverFollows, PingKeepsKeys, PingedInTime
<1>3. CASE StartTimerThread \/ ConnectTimer \/ TimerThreadStarted \/ StopTimer \/ CloseSocket
  <2>1. UNCHANGED <<held, report, driver, opened, leftover, cleared,
                    resetAfter, silence>>
    BY <1>3 DEF StartTimerThread, ConnectTimer, TimerThreadStarted, StopTimer,
       CloseSocket, hidVars, timeVars, lifeVars
  <2>p. player' = player /\ Reported' = Reported
    BY <2>1 DEF player, Reported
  <2>2. NoStrayKey' /\ PingKeepsKeys'
    BY <2>1, <2>p DEF NoStrayKey, PingKeepsKeys
  <2>f. DriverFollows'
    <3>1. CASE StartTimerThread
      BY <3>1, <2>1, <2>p DEF StartTimerThread, DriverFollows, PingedInTime
    <3>2. CASE TimerThreadStarted
      BY <3>2, <2>1, <2>p DEF TimerThreadStarted, DriverFollows
    <3>3. CASE StopTimer
      BY <3>3, <2>1, <2>p DEF StopTimer, DriverFollows
    <3>4. CASE ConnectTimer \/ CloseSocket
      BY <3>4, <2>1, <2>p DEF ConnectTimer, CloseSocket, DriverFollows
    <3>5. QED
      BY <1>3, <3>1, <3>2, <3>3, <3>4
  <2>3. PingedInTime'
    <3>1. player' = player
      BY <2>p
    <3>2. CASE StartTimerThread
      BY <3>2, <2>1, <3>1 DEF StartTimerThread, PingedInTime
    <3>3. CASE TimerThreadStarted
      BY <3>3, <2>1, <3>1 DEF TimerThreadStarted, lifeVars, PingedInTime
    <3>4. CASE ConnectTimer \/ StopTimer \/ CloseSocket
      BY <3>4, <2>1, <3>1 DEF ConnectTimer, StopTimer, CloseSocket, timeVars, PingedInTime
    <3>5. QED
      BY <1>3, <3>2, <3>3, <3>4
  <2>4. QED
    BY <1>t, <2>2, <2>f, <2>3
<1>4. QED
  BY <1>1, <1>2, <1>3 DEF Life

\* Time: the only place where a key is let go for want of a ping.
LEMMA TimePreserves ==
    ASSUME DeviceInv, IInv', ReportSays', KeyPing \/ Reset \/ Tick
    PROVE  DeviceInv'
<1> USE DEF DeviceInv
<1>a. PingPeriod \in Nat /\ resetAfter \in Nat /\ silence \in 0..resetAfter
      /\ sincePing \in 0..PingPeriod
  BY DeviceAssumption DEF DeviceAssumption, DeviceTypeOK
<1>u. UNCHANGED <<held, report, opened, phase, leftover, resetAfter, ping>>
  BY DEF KeyPing, Reset, Tick, hidVars, lifeVars
<1>p. player' = player /\ Reported' = Reported
  BY <1>u DEF player, Reported
<1>t. DeviceTypeOK'
  <2>1. TypeOK'
    BY DEF IInv
  <2>2. CASE KeyPing
    <3>1. silence' \in 0..resetAfter /\ sincePing' \in 0..PingPeriod
      BY <1>a, <2>2 DEF KeyPing
    <3>2. UNCHANGED <<driver, cleared>>
      BY <2>2 DEF KeyPing
    <3>3. QED
      BY <1>u, <2>1, <3>1, <3>2 DEF DeviceTypeOK
  <2>3. CASE Reset
    BY <1>u, <2>1, <2>3 DEF Reset, timeVars, DeviceTypeOK
  <2>4. CASE Tick
    <3>1. silence' \in 0..resetAfter /\ sincePing' \in 0..PingPeriod
      BY <1>a, <2>4 DEF Tick
    <3>2. QED
      BY <1>u, <2>1, <2>4, <3>1 DEF Tick, DeviceTypeOK
  <2>5. QED
    BY <2>2, <2>3, <2>4
<1>1. CASE KeyPing
  BY <1>t, <1>u, <1>p, <1>1, <1>a DEF KeyPing, NoStrayKey, DriverFollows, PingKeepsKeys,
     PingedInTime, Reported
<1>2. CASE Tick
  <2>1. UNCHANGED <<driver, cleared>>
    BY <1>2 DEF Tick
  <2>2. PingedInTime'
    BY <1>2, <1>a, <1>u, <1>p DEF Tick, PingedInTime
  <2>3. NoStrayKey' /\ DriverFollows' /\ PingKeepsKeys'
    BY <2>1, <1>u, <1>p DEF NoStrayKey, DriverFollows, PingKeepsKeys, Reported
  <2>4. QED
    BY <1>t, <2>2, <2>3
<1>3. CASE Reset
  <2>1. driver' = {} /\ UNCHANGED <<silence, sincePing>> /\ silence = resetAfter
    BY <1>3 DEF Reset, timeVars
  <2>2. PingKeepsKeys'
    <3>1. CASE player = {} \/ ~opened
      BY <3>1, <1>3, <1>u DEF Reset, PingKeepsKeys
    <3>2. CASE player # {} /\ opened /\ ping = "running"
      <4>1. resetAfter <= sincePing
        BY <2>1, <3>2 DEF PingedInTime
      <4>2. PingPeriod >= resetAfter
        BY <1>a, <4>1
      <4>3. QED
        BY <4>2, <1>u DEF PingKeepsKeys
    <3>3. CASE player # {} /\ opened /\ ping # "running"
      BY <3>3, <1>3 DEF Reset, PingKeepsKeys
    <3>4. QED
      BY <3>1, <3>2, <3>3
  <2>3. DriverFollows'
    <3>1. CASE player = {} \/ ~opened
      BY <3>1, <1>u, <1>p DEF DriverFollows
    <3>2. CASE player # {} /\ opened
      <4>1. silence # 0
        BY <2>1, DeviceAssumption DEF DeviceAssumption, DeviceTypeOK
      <4>2. ping # "starting"
        BY <3>2, <4>1 DEF PingedInTime
      <4>3. QED
        BY <3>2, <4>2, <1>3, <1>u DEF Reset, DriverFollows
    <3>3. QED
      BY <3>1, <3>2
  <2>4. NoStrayKey' /\ PingedInTime'
    BY <2>1, <1>u, <1>p DEF NoStrayKey, PingedInTime
  <2>5. QED
    BY <1>t, <2>2, <2>3, <2>4
<1>4. QED
  BY <1>1, <1>2, <1>3

LEMMA DeviceStepPreserves == DeviceInv /\ [DeviceNext]_deviceVars => DeviceInv'
<1> SUFFICES ASSUME DeviceInv, [DeviceNext]_deviceVars PROVE DeviceInv'
  OBVIOUS
<1>1. IInv' /\ ReportSays'
  BY DeviceStepIsCall, StepPreserves, ReportStep DEF DeviceInv
<1>2. CASE UNCHANGED deviceVars
  <2>1. DeviceTypeOK'
    BY <1>1, <1>2 DEF deviceVars, timeVars, lifeVars, DeviceInv, DeviceTypeOK, IInv
  <2>2. NoStrayKey' /\ DriverFollows' /\ PingKeepsKeys' /\ PingedInTime'
    BY <1>2 DEF deviceVars, hidVars, timeVars, lifeVars, DeviceInv, NoStrayKey,
       DriverFollows, PingKeepsKeys, PingedInTime, player, Reported
  <2>3. QED
    BY <1>1, <2>1, <2>2 DEF DeviceInv
<1>3. QED
  BY <1>1, <1>2, ReportPreserves, LifePreserves, TimePreserves DEF DeviceNext

THEOREM DeviceInvariant == DeviceSpec => []DeviceInv
BY DeviceInitEstablishes, DeviceStepPreserves, PTL DEF DeviceSpec

\* The types, and with them that the driver's clock never passes its reset.
THEOREM DeviceTypeCorrect == DeviceSpec => []DeviceTypeOK
BY DeviceInvariant, PTL DEF DeviceInv

\* Over any number of sessions and resets the slots are those of HidKeyboard: no key
\* has two, none outlives its KeyUp, and only a crowd loses one.
THEOREM SlotsOverSessions == DeviceSpec => [](NoDuplicate /\ NothingStuck /\ NoKeyLost)
BY DeviceInvariant, PTL DEF DeviceInv, IInv

\* No key is down that neither the player of the session pressed nor the session
\* before left behind.
THEOREM NoStrayKeyEver == DeviceSpec => []NoStrayKey
BY DeviceInvariant, PTL DEF DeviceInv

\* A held key that is up was left out of the last report by KeyDown, for one of the
\* reasons LeftOut names, or let go by a driver that no timer pinged in time:
\* KeyDown and KeyUp have no other way to lose one.
THEOREM HeldKeyStaysDown == DeviceSpec => []HeldKeyIsDown
BY DeviceInvariant, HeldFollows, PTL

\* A running timer whose period is shorter than the driver's patience keeps the
\* keys of the player down, whatever the two numbers are.
THEOREM PingsSuffice == DeviceSpec => []PingKeepsKeys
BY DeviceInvariant, PTL DEF DeviceInv
=============================================================================
