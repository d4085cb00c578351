----------------------------- MODULE KeyboardLink -----------------------------
(* KeyBoardThread: the websocket that carries the player's input, with its own
   QThread, a ping timer in a second QThread, and a detached thread per lost
   connection that stops and starts the link again.  The owner (a handler of
   GameSession) starts it once, stops it, and destroys it.

   m_wsBoostSocket and the QThread are shared by all of them without a lock; what
   the code does in two steps (test the pointer, use it) takes two steps here. *)
EXTENDS WsConnection

CONSTANTS
    Owner, RunThread,   \* threads with one instance
    Reconnectors,       \* reconnect threads that can be alive together
    MaxOutages,         \* bound on outages
    CanStop             \* whether the owner ever stops the link

ASSUME KeyboardLinkAssumption ==
    /\ {Owner, RunThread} \cap Reconnectors = {} /\ Owner # RunThread
    /\ MaxOutages \in Nat
    /\ CanStop \in BOOLEAN

Threads == {Owner, RunThread} \cup Reconnectors

VARIABLES
    at,               \* where each thread is
    destroying,       \* the owner is in the destructor
    m_wsBoostSocket,
    quitAsked,        \* QThread::quit was called
    login,            \* connections on which the login command was sent
    device,           \* what KeyMouseInit and KeyMouseClose left
    pingThread,       \* the QThread of the timer
    pingConnected,    \* started() is connected to the timer's start()
    ping,             \* what the timer does
    raced,            \* history: a reconnect thread met a stop or a ping
    crashed           \* how the process died

connVars == <<conn, serverUp, outages>>
pingVars == <<pingThread, pingConnected, ping>>
vars == <<connVars, pingVars, at, destroying, m_wsBoostSocket, quitAsked, login, device,
          raced, crashed>>

Stopping == {"stopPing", "waitPing", "closeDevice", "quit", "wait", "test", "close",
             "sendClose", "reset"}

TypeOK ==
    /\ ConnTypeOK
    /\ at[Owner] \in Stopping \cup {"idle", "device", "pingThread", "pingConnect",
                                    "start", "started", "stopped", "gone"}
    /\ at[RunThread] \in {"stopped", "test", "close", "sendClose", "reset", "create",
                          "connect", "callback", "exec"}
    /\ \A r \in Reconnectors :
         at[r] \in {"none", "quit", "wait", "test", "close", "sendClose", "reset", "start"}
    /\ m_wsBoostSocket \in Conns \cup {NoConn}
    /\ login \subseteq {c \in Conns : conn[c].m_state \in {"open", "closing", "closed"}}
    /\ {destroying, quitAsked, pingConnected, raced} \subseteq BOOLEAN
    /\ device \in {"none", "open", "failed", "closed"}
    /\ pingThread \in {"none", "starting", "running"}
    /\ ping \in {"off", "waiting", "sending"}
    /\ crashed \in {"no", "null socket", "freed", "destroyed while running"}

Init ==
    /\ ConnInit
    /\ at = [t \in Threads |->
               CASE t = Owner -> "idle" [] t = RunThread -> "stopped" [] OTHER -> "none"]
    /\ destroying = FALSE
    /\ m_wsBoostSocket = NoConn
    /\ quitAsked = FALSE
    /\ login = {}
    /\ device = "none"
    /\ pingThread = "none" /\ pingConnected = FALSE /\ ping = "off"
    /\ raced = FALSE
    /\ crashed = "no"

Reconnecting == \E r \in Reconnectors : at[r] # "none"

\* History: what a reconnect thread must not meet.
Meets == at[Owner] \in Stopping \cup {"stopped", "gone"} \/ ping = "sending"

Goes(t, place) == at' = [at EXCEPT ![t] = place]

-------------------------------------------------------------------------------
(* The owner: start *)

\* start opens the virtual devices, and goes on when that fails; ...
StartDevice ==
    /\ at[Owner] = "idle"
    /\ device' \in {"open", "failed"}
    /\ Goes(Owner, "pingThread")
    /\ UNCHANGED <<connVars, pingVars, destroying, m_wsBoostSocket, quitAsked, login, crashed>>

\* ... it starts the thread of the ping timer, and connects started() after that ...
StartKeyPingTimer ==
    \/ /\ at[Owner] = "pingThread"
       /\ pingThread' = "starting"
       /\ Goes(Owner, "pingConnect")
       /\ UNCHANGED <<connVars, pingConnected, ping, destroying, m_wsBoostSocket, quitAsked,
                      login, device, crashed>>
    \/ /\ at[Owner] = "pingConnect"
       /\ pingConnected' = TRUE
       /\ Goes(Owner, "start")
       /\ UNCHANGED <<connVars, pingThread, ping, destroying, m_wsBoostSocket, quitAsked,
                      login, device, crashed>>

\* QThread::start does nothing when the thread runs.
StartThread(t, place) ==
    IF at[RunThread] = "stopped"
    THEN at' = [at EXCEPT ![t] = place, ![RunThread] = "test"] /\ quitAsked' = FALSE
    ELSE Goes(t, place) /\ UNCHANGED quitAsked

Start ==
    /\ at[Owner] = "start"
    /\ StartThread(Owner, "started")
    /\ UNCHANGED <<connVars, pingVars, destroying, m_wsBoostSocket, login, device, crashed>>

(* The owner: stop and destructor *)

Stop ==
    /\ CanStop /\ at[Owner] = "started"
    /\ Goes(Owner, "stopPing")
    /\ UNCHANGED <<connVars, pingVars, destroying, m_wsBoostSocket, quitAsked, login, device,
                   crashed>>

\* Mutant: the device is closed while the timer still runs.
StopKeepsPinging ==
    /\ at[Owner] = "stopPing"
    /\ Goes(Owner, "closeDevice")
    /\ UNCHANGED <<connVars, pingVars, destroying, m_wsBoostSocket, quitAsked, login,
                   device, crashed>>

\* quit() and wait() on the timer's thread: no ping begins after the quit, and the
\* ping in progress is waited for.
StopKeyPingTImer ==
    \/ /\ at[Owner] = "stopPing"
       /\ Goes(Owner, "waitPing")
       /\ UNCHANGED <<connVars, pingVars, destroying, m_wsBoostSocket, quitAsked, login,
                      device, crashed>>
    \/ /\ at[Owner] = "waitPing"
       /\ pingThread # "starting" /\ ping # "sending"
       /\ pingThread' = "none" /\ ping' = "off"
       /\ Goes(Owner, "closeDevice")
       /\ UNCHANGED <<connVars, pingConnected, destroying, m_wsBoostSocket, quitAsked, login,
                      device, crashed>>

KeyMouseClose ==
    /\ at[Owner] = "closeDevice"
    /\ device' = "closed"
    /\ Goes(Owner, "quit")
    /\ UNCHANGED <<connVars, pingVars, destroying, m_wsBoostSocket, quitAsked, login, crashed>>

\* The destructor closes the socket once more; ~QThread then kills the process if
\* the thread runs.
Destructor ==
    /\ at[Owner] = "stopped"
    /\ destroying' = TRUE
    /\ Goes(Owner, "test")
    /\ UNCHANGED <<connVars, pingVars, m_wsBoostSocket, quitAsked, login, device, crashed>>

-------------------------------------------------------------------------------
(* Steps that stop, StopAccidental, CloseWebsocket and run share *)

AfterSocket(t) ==
    CASE t = Owner -> IF destroying THEN "gone" ELSE "stopped"
      [] t = RunThread -> "create"
      [] OTHER -> "start"

\* The object is freed at the end of the destructor.
Leave(t) ==
    /\ Goes(t, AfterSocket(t))
    /\ crashed' = IF t = Owner /\ destroying /\ at[RunThread] # "stopped"
                  THEN "destroyed while running" ELSE crashed

\* Mutant: wait() without quit().
QuitForgotten(t) ==
    /\ at[t] = "quit"
    /\ Goes(t, IF at[RunThread] = "stopped" THEN "test" ELSE "wait")
    /\ UNCHANGED <<connVars, pingVars, destroying, m_wsBoostSocket, quitAsked, login, device,
                   crashed>>

Quit(t) ==
    /\ at[t] = "quit"
    /\ IF at[RunThread] = "stopped"
       THEN Goes(t, "test") /\ UNCHANGED quitAsked
       ELSE Goes(t, "wait") /\ quitAsked' = TRUE
    /\ UNCHANGED <<connVars, pingVars, destroying, m_wsBoostSocket, login, device, crashed>>

\* Mutant: quit() without wait().
WaitSkipped(t) ==
    /\ at[t] = "wait"
    /\ Goes(t, "test")
    /\ UNCHANGED <<connVars, pingVars, destroying, m_wsBoostSocket, quitAsked, login, device,
                   crashed>>

Wait(t) ==
    /\ at[t] = "wait" /\ at[RunThread] = "stopped"
    /\ Goes(t, "test")
    /\ UNCHANGED <<connVars, pingVars, destroying, m_wsBoostSocket, quitAsked, login, device,
                   crashed>>

TestSocket(t) ==
    /\ at[t] = "test"
    /\ IF m_wsBoostSocket = NoConn THEN Leave(t) ELSE Goes(t, "close") /\ UNCHANGED crashed
    /\ UNCHANGED <<connVars, pingVars, destroying, m_wsBoostSocket, quitAsked, login, device>>

\* close or closeByAccident through the pointer tested before; a close under way
\* stays with the object it began on, wherever the pointer is by then.
CloseSocket(t) ==
    /\ \/ /\ at[t] = "close" /\ m_wsBoostSocket = NoConn
          /\ crashed' = "null socket"
          /\ UNCHANGED <<conn, at>>
       \/ /\ at[t] = "close" /\ m_wsBoostSocket # NoConn
          /\ CloseTest(m_wsBoostSocket)
          /\ Goes(t, IF Accepts(m_wsBoostSocket) THEN "sendClose" ELSE "reset")
          /\ UNCHANGED crashed
       \/ /\ at[t] = "sendClose"
          /\ \E c \in Conns : CloseSend(c)
          /\ Goes(t, "reset")
          /\ UNCHANGED crashed
    /\ UNCHANGED <<serverUp, outages, pingVars, destroying, m_wsBoostSocket, quitAsked, login,
                   device>>

\* Mutant: the pointer is cleared while the object lives on in its asio thread.
SocketLeaks(t) ==
    /\ at[t] = "reset"
    /\ m_wsBoostSocket' = NoConn
    /\ Leave(t)
    /\ UNCHANGED <<connVars, pingVars, destroying, quitAsked, login, device>>

\* reset() clears the pointer and joins the asio thread in the destructor.
ResetSocket(t) ==
    /\ at[t] = "reset"
    /\ IF m_wsBoostSocket = NoConn THEN UNCHANGED <<conn, login>>
       ELSE Destroy(m_wsBoostSocket) /\ login' = login \ {m_wsBoostSocket}
    /\ m_wsBoostSocket' = NoConn
    /\ Leave(t)
    /\ UNCHANGED <<serverUp, outages, pingVars, destroying, quitAsked, device>>

-------------------------------------------------------------------------------
(* run *)

StartWebSocket ==
    \/ /\ at[RunThread] = "create"
       /\ \E c \in Conns : Construct(c) /\ m_wsBoostSocket' = c
       /\ Goes(RunThread, "connect")
       /\ UNCHANGED crashed
    \/ /\ at[RunThread] \in {"connect", "callback"}
       /\ m_wsBoostSocket = NoConn
       /\ crashed' = "null socket"
       /\ UNCHANGED <<conn, m_wsBoostSocket, at>>
    \/ /\ at[RunThread] = "connect" /\ m_wsBoostSocket # NoConn
       /\ Connect(m_wsBoostSocket)
       /\ Goes(RunThread, "callback")
       /\ UNCHANGED <<m_wsBoostSocket, crashed>>
    \/ /\ at[RunThread] = "callback" /\ m_wsBoostSocket # NoConn
       /\ SetCallback(m_wsBoostSocket)
       /\ Goes(RunThread, "exec")
       /\ UNCHANGED <<m_wsBoostSocket, crashed>>

\* Mutant: the login goes out without waiting for the connection to open.
LoginAtOnce ==
    /\ StartWebSocket
    /\ login' = IF at[RunThread] = "callback" /\ m_wsBoostSocket # NoConn
                THEN login \cup {m_wsBoostSocket} ELSE login
    /\ UNCHANGED <<serverUp, outages, pingVars, destroying, quitAsked, device>>

RunSocket ==
    /\ StartWebSocket
    /\ UNCHANGED <<serverUp, outages, pingVars, destroying, quitAsked, login, device>>

RunExec ==
    /\ at[RunThread] = "exec" /\ quitAsked
    /\ Goes(RunThread, "stopped")
    /\ UNCHANGED <<connVars, pingVars, destroying, m_wsBoostSocket, quitAsked, login, device,
                   crashed>>

-------------------------------------------------------------------------------
(* Callbacks, on the asio thread *)

OnOpen(c) ==
    /\ on_open(c)
    /\ UNCHANGED <<serverUp, outages, pingVars, at, destroying, m_wsBoostSocket, quitAsked,
                   login, device, crashed>>

\* ConnectedCallback sends the login command, once per connection.
ConnectedCallback(c) ==
    /\ Opened(c, OpenHeard(c) /\ c = m_wsBoostSocket)
    /\ login' = IF OpenHeard(c) /\ c = m_wsBoostSocket /\ Sends(c)
                THEN login \cup {c} ELSE login
    /\ UNCHANGED <<serverUp, outages, pingVars, at, destroying, m_wsBoostSocket, quitAsked,
                   device, crashed>>

\* Mutant: every loss starts two threads.
ReconnectTwice(c) ==
    /\ on_failure(c) \/ on_close(c)
    /\ IF conn[c].m_outter
       THEN \E q, r \in Reconnectors :
              /\ at[q] = "none" /\ at[r] = "none"
              /\ at' = [at EXCEPT ![q] = "quit", ![r] = "quit"]
       ELSE UNCHANGED at
    /\ UNCHANGED <<serverUp, outages, pingVars, destroying, m_wsBoostSocket, quitAsked,
                   login, device, crashed>>

\* Mutant: a refused connection does not raise the signal.
OnlyCloseReconnects(c) ==
    /\ on_failure(c) \/ on_close(c)
    /\ IF conn[c].m_outter /\ conn[c].tstat = "closed"
       THEN \E r \in Reconnectors : at[r] = "none" /\ Goes(r, "quit")
       ELSE UNCHANGED at
    /\ UNCHANGED <<serverUp, outages, pingVars, destroying, m_wsBoostSocket, quitAsked,
                   login, device, crashed>>

\* FailureCallback and DisconnectedCallback raise AccidentalSignal, which is a
\* direct call here: the asio thread itself starts the reconnect thread.  A thread
\* that is detached cannot be joined, so StopReconnectThread does nothing.
ConnectionLost(c) ==
    /\ on_failure(c) \/ on_close(c)
    /\ IF conn[c].m_outter
       THEN \E r \in Reconnectors : at[r] = "none" /\ Goes(r, "quit")
       ELSE UNCHANGED at
    /\ UNCHANGED <<serverUp, outages, pingVars, destroying, m_wsBoostSocket, quitAsked,
                   login, device, crashed>>

\* The library's own steps, among them the close frame of the peer.  An end waits
\* until a reconnect thread is free for it: the bound on these threads.
AsioLibrary(c) ==
    /\ \/ Library(c) /\ UNCHANGED outages
       \/ process_control_frame(c, MaxOutages)
    /\ Cardinality({d \in Conns : conn'[d].tstat # "unknown"})
         <= Cardinality({r \in Reconnectors : at[r] = "none"})
    /\ UNCHANGED <<serverUp, pingVars, at, destroying, m_wsBoostSocket, quitAsked, login,
                   device, crashed>>

Asio(c) == OnOpen(c) \/ ConnectedCallback(c) \/ ConnectionLost(c) \/ AsioLibrary(c)

-------------------------------------------------------------------------------
(* Reconnect threads: StopAccidental, whose steps are above, and StartAccidental *)

StartAccidental(r) ==
    /\ at[r] = "start"
    /\ StartThread(r, "none")
    /\ UNCHANGED <<connVars, pingVars, destroying, m_wsBoostSocket, login, device, crashed>>

\* The thread refers to the object by address.
UseFreed(r) ==
    /\ at[Owner] = "gone" /\ at[r] # "none"
    /\ crashed' = "freed"
    /\ UNCHANGED <<connVars, pingVars, at, destroying, m_wsBoostSocket, quitAsked, login,
                   device>>

(* The ping timer *)

PingStarted ==
    /\ pingThread = "starting"
    /\ pingThread' = "running"
    /\ ping' = IF pingConnected THEN "waiting" ELSE "off"
    /\ UNCHANGED <<connVars, pingConnected, at, destroying, m_wsBoostSocket, quitAsked,
                   login, device, crashed>>

\* Mutant: the timer pings the keyboard only.
SocketNotPinged ==
    /\ \/ /\ ping = "waiting" /\ at[Owner] # "waitPing" /\ m_wsBoostSocket # NoConn
          /\ ping' = "sending"
       \/ ping = "sending" /\ ping' = "waiting"
    /\ UNCHANGED <<conn, crashed>>

\* The keyboard is pinged, then the socket when there is one.
OnKeyPingTimer ==
    \/ /\ ping = "waiting" /\ at[Owner] # "waitPing" /\ m_wsBoostSocket # NoConn
       /\ ping' = "sending"
       /\ UNCHANGED <<conn, crashed>>
    \/ /\ ping = "sending"
       /\ ping' = "waiting"
       /\ IF m_wsBoostSocket = NoConn
          THEN crashed' = "null socket" /\ UNCHANGED conn
          ELSE Send(m_wsBoostSocket) /\ UNCHANGED crashed

Ping ==
    /\ OnKeyPingTimer
    /\ UNCHANGED <<serverUp, outages, pingThread, pingConnected, at, destroying,
                   m_wsBoostSocket, quitAsked, login, device>>

Network ==
    /\ Outage(MaxOutages) \/ Restored
    /\ UNCHANGED <<pingVars, at, destroying, m_wsBoostSocket, quitAsked, login, device,
                   crashed>>

-------------------------------------------------------------------------------
Socket(t) == Quit(t) \/ Wait(t) \/ TestSocket(t) \/ CloseSocket(t) \/ ResetSocket(t)

OwnerSteps ==
    StartDevice \/ StartKeyPingTimer \/ Start \/ StopKeyPingTImer \/ KeyMouseClose
    \/ Destructor \/ Socket(Owner)
RunSteps == Socket(RunThread) \/ RunSocket \/ RunExec
Reconnect(r) == UseFreed(r) \/ (at[Owner] # "gone" /\ (Socket(r) \/ StartAccidental(r)))
PingSteps == PingStarted \/ Ping

\* Nothing moves in a process that has died.
Step(A) == crashed = "no" /\ A /\ raced' = (raced \/ (Reconnecting' /\ Meets'))

Next ==
    \/ Step(OwnerSteps) \/ Step(Stop) \/ Step(RunSteps) \/ Step(PingSteps) \/ Step(Network)
    \/ \E c \in Conns : Step(Asio(c))
    \/ \E r \in Reconnectors : Step(Reconnect(r))

Spec == Init /\ [][Next]_vars

\* Every thread is scheduled; the owner may keep the link for ever, and the
\* network may stay down.
FairSpec ==
    /\ Spec
    /\ WF_vars(Step(OwnerSteps)) /\ WF_vars(Step(RunSteps)) /\ WF_vars(Step(PingSteps))
    /\ \A c \in Conns : WF_vars(Step(Asio(c)))
    /\ \A r \in Reconnectors : WF_vars(Step(Reconnect(r)))

-------------------------------------------------------------------------------
(* Properties *)

\* Without a lock around m_wsBoostSocket and the QThread, the process can die on a
\* null pointer, a freed object or a thread destroyed while it runs; every such
\* death takes a reconnect thread that is alive during a stop or a ping.
OnlyRacesCrash == crashed # "no" => raced

\* The timer pings between KeyMouseInit and KeyMouseClose only: stop ends its thread
\* and waits for it before it closes the device, which another session may open next.
\* (A device that failed to open is pinged as well, 949-956.)
NoPingAfterClose == ping # "off" => device \in {"open", "failed"}

\* One loss, one reconnect thread: until the link is stopped no two of them work
\* on the same socket.
OneReconnect ==
    at[Owner] \notin Stopping \cup {"stopped", "gone"} =>
        \A q, r \in Reconnectors : at[q] # "none" /\ at[r] # "none" => q = r

\* One object at a time, as long as nothing raced.
OneConnection == ~raced => \A c \in Conns : conn[c].alive => c = m_wsBoostSocket

\* A connection that dies is replaced by a reconnect thread, unless it died before
\* SetCallback (StartWebSocket, 500-507).
NoSilentDeath ==
    at[Owner] = "started" =>
        \A c \in Conns :
            Ended(c) /\ "end" \notin conn[c].deaf => Reconnecting

\* stop returns.  When a reconnect thread races it, start() may clear the quit
\* that stop is waiting for, and it does not.
StopReturns == at[Owner] = "stopPing" ~> at[Owner] = "gone" \/ raced \/ crashed # "no"

Deaf == \E c \in Conns : conn[c].deaf # {}

LoggedIn ==
    /\ m_wsBoostSocket \in login
    /\ Sends(m_wsBoostSocket)

\* After the login only the pings of the timer reveal that the link was cut, and the
\* timer never starts when its thread did before started() was connected.
Unpinged ==
    /\ ping = "off"
    /\ \E c \in Conns : conn[c].link = "cut" /\ conn[c].m_state = "open"

\* While the owner keeps the link, it ends up logged in when the network is up for
\* good, unless an event came before SetCallback, the link was cut and is not
\* pinged, or the process died.
Reconnects ==
    <>[]serverUp => <>[](LoggedIn \/ Deaf \/ Unpinged \/ at[Owner] # "started" \/ crashed # "no")
===============================================================================
