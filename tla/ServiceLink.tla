----------------------------- MODULE ServiceLink -----------------------------
(* The link to the service: WsServiceCloudGameThread keeps one connection alive,
   ParseMessageCallback signs in on it, and the report timer sends the state of
   the game with the session the sign-in obtained.

   Threads: the main thread and its Qt event queue; the QThread whose run()
   builds the connection; the asio thread of the connection; the detached
   threads that take the session from a sign-in reply; the report timer. *)
EXTENDS WsConnection, SequencesExt

CONSTANTS
    Sessions,     \* session ids the service gives out
    NoSession,    \* the empty string m_sessionId starts with
    MaxOutages,   \* bound on outages
    CanExit       \* whether the program may be closed

ASSUME ServiceLinkAssumption ==
    /\ NoSession \notin Sessions
    /\ MaxOutages \in Nat
    /\ CanExit \in BOOLEAN

VARIABLES
    queue,               \* events posted to the main thread
    mpc,                 \* where the main thread is
    leaving,             \* the event loop is over
    m_wsSocket,
    m_activeDisconnect,
    rpc,                 \* where run() is
    quitAsked,           \* QThread::quit was called
    server,              \* per connection: what the service does next
    signing,             \* sessions that a sign-in thread is about to store
    overlapped,          \* history: two sign-in threads were alive together
    m_sessionId,
    lastReply,           \* history: the session of the last reply handled
    timer                \* the report timer runs

connVars == <<conn, serverUp, outages>>
threadVars == <<rpc, quitAsked, m_wsSocket>>
sessionVars == <<signing, overlapped, m_sessionId, lastReply, timer>>
mainVars == <<mpc, leaving>>
vars == <<connVars, threadVars, sessionVars, queue, mainVars, m_activeDisconnect, server>>

Accident(c) == [type |-> "accident", from |-> c, session |-> NoSession]
Greeting(c) == [type |-> "greeting", from |-> c, session |-> NoSession]
Reply(c, s) == [type |-> "reply", from |-> c, session |-> s]
Report == [type |-> "report", from |-> NoConn, session |-> NoSession]

Event == [type : {"accident", "greeting", "reply", "report"},
          from : Conns \cup {NoConn}, session : Sessions \cup {NoSession}]

TypeOK ==
    /\ ConnTypeOK
    /\ queue \in Seq(Event) /\ (leaving \/ IsInjective(queue))
    /\ mpc \in {"loop", "restartTimer", "wait", "close", "sendClose", "reset", "reconnect", "exited"}
    /\ leaving \in BOOLEAN
    /\ m_wsSocket \in Conns \cup {NoConn}
    /\ m_activeDisconnect \in BOOLEAN
    /\ rpc \in {"stopped", "create", "connect", "callback", "exec"}
    /\ quitAsked \in BOOLEAN
    /\ server \in [Conns -> {"quiet", "greets", "replies"}]
    /\ signing \subseteq Sessions
    /\ overlapped \in BOOLEAN
    /\ m_sessionId \in Sessions \cup {NoSession}
    /\ lastReply \in Sessions \cup {NoSession}
    /\ timer \in BOOLEAN

\* main has called ConnectWS and entered its event loop.
Init ==
    /\ ConnInit
    /\ queue = <<>>
    /\ mpc = "loop"
    /\ leaving = FALSE
    /\ m_wsSocket = NoConn
    /\ m_activeDisconnect = FALSE
    /\ rpc = "create"
    /\ quitAsked = FALSE
    /\ server = [c \in Conns |-> "quiet"]
    /\ signing = {}
    /\ overlapped = FALSE
    /\ m_sessionId = NoSession
    /\ lastReply = NoSession
    /\ timer = FALSE

\* Mutant: accidents overtake the messages that came before them.
PostAccidentFirst(e) ==
    queue' = IF e.type = "accident" THEN <<e>> \o queue ELSE Append(queue, e)

Post(e) == queue' = Append(queue, e)

-------------------------------------------------------------------------------
(* WsServiceCloudGameThread::run *)

RunCreate ==
    /\ rpc = "create"
    /\ \E c \in Conns :
        /\ Construct(c)
        /\ m_wsSocket' = c
        /\ server' = [server EXCEPT ![c] = "quiet"]
    /\ rpc' = "connect"
    /\ UNCHANGED <<serverUp, outages, quitAsked, sessionVars, queue, mainVars, m_activeDisconnect>>

RunConnect ==
    /\ rpc = "connect"
    /\ Connect(m_wsSocket)
    /\ rpc' = "callback"
    /\ UNCHANGED <<serverUp, outages, quitAsked, m_wsSocket, sessionVars, queue, mainVars,
                   m_activeDisconnect, server>>

RunSetCallback ==
    /\ rpc = "callback"
    /\ SetCallback(m_wsSocket)
    /\ rpc' = "exec"
    /\ UNCHANGED <<serverUp, outages, quitAsked, m_wsSocket, sessionVars, queue, mainVars,
                   m_activeDisconnect, server>>

\* exec() returns at once if quit() came before it.
RunExec ==
    /\ rpc = "exec" /\ quitAsked
    /\ rpc' = "stopped"
    /\ UNCHANGED <<connVars, quitAsked, m_wsSocket, sessionVars, queue, mainVars,
                   m_activeDisconnect, server>>

Run == RunCreate \/ RunConnect \/ RunSetCallback \/ RunExec

-------------------------------------------------------------------------------
(* Callbacks, on the asio thread *)

ServiceGreets(c) ==
    /\ on_open(c)
    /\ server' = [server EXCEPT ![c] = "greets"]
    /\ UNCHANGED <<serverUp, outages, threadVars, sessionVars, queue, mainVars,
                   m_activeDisconnect>>

ConnectedCallback(c) ==
    /\ Opened(c, FALSE)
    /\ m_activeDisconnect' = IF OpenHeard(c) THEN FALSE ELSE m_activeDisconnect
    /\ UNCHANGED <<serverUp, outages, threadVars, sessionVars, queue, mainVars, server>>

\* The library's own steps, among them the close frame of the peer.
AsioLibrary(c) ==
    /\ \/ Library(c) /\ UNCHANGED outages
       \/ process_control_frame(c, MaxOutages)
    /\ UNCHANGED <<serverUp, threadVars, sessionVars, queue, mainVars, m_activeDisconnect, server>>

\* Mutant: a refused connection does not raise the signal.
OnlyCloseIsAccident(c) ==
    /\ on_failure(c) \/ on_close(c)
    /\ IF conn[c].m_outter /\ conn[c].tstat = "closed"
       THEN Post(Accident(c)) ELSE UNCHANGED queue
    /\ UNCHANGED <<serverUp, outages, threadVars, sessionVars, mainVars, m_activeDisconnect, server>>

\* Mutant: the end of a connection raises the signal twice.
AccidentTwice(c) ==
    /\ on_failure(c) \/ on_close(c)
    /\ IF conn[c].m_outter
       THEN queue' = queue \o <<Accident(c), Accident(c)>> ELSE UNCHANGED queue
    /\ UNCHANGED <<serverUp, outages, threadVars, sessionVars, mainVars, m_activeDisconnect, server>>

\* FailureCallback and DisconnectedCallback emit AccidentalSignal, a queued
\* connection to the main thread.
ConnectionLost(c) ==
    /\ on_failure(c) \/ on_close(c)
    /\ IF conn[c].m_outter THEN Post(Accident(c)) ELSE UNCHANGED queue
    /\ UNCHANGED <<serverUp, outages, threadVars, sessionVars, mainVars, m_activeDisconnect, server>>

\* The service greets a new connection with code 0, and answers SignIn with a
\* session.
MessageCallback(c) ==
    /\ on_message(c)
    /\ \/ /\ server[c] = "greets"
          /\ IF conn[c].m_outter THEN Post(Greeting(c)) ELSE UNCHANGED queue
       \/ /\ server[c] = "replies"
          /\ \E s \in Sessions \ ({m_sessionId, lastReply} \cup signing) : Post(Reply(c, s))
    /\ server' = [server EXCEPT ![c] = "quiet"]
    /\ UNCHANGED <<serverUp, outages, threadVars, sessionVars, mainVars, m_activeDisconnect>>

Asio(c) ==
    ServiceGreets(c) \/ ConnectedCallback(c) \/ ConnectionLost(c) \/ MessageCallback(c) \/ AsioLibrary(c)

-------------------------------------------------------------------------------
(* The main thread *)

Handles(type) == mpc = "loop" /\ queue # <<>> /\ Head(queue).type = type

\* SendCallback sends on the present connection, if there is one: a slot of an
\* object that lives on the main thread, where the connection is also dropped.
SendCallback == IF m_wsSocket # NoConn THEN Send(m_wsSocket) ELSE UNCHANGED conn

\* SignInWsService: the answer to the greeting goes out on the present connection.
SignInWsService ==
    /\ Handles("greeting")
    /\ queue' = Tail(queue)
    /\ server' = IF m_wsSocket # NoConn /\ Sends(m_wsSocket)
                 THEN [server EXCEPT ![m_wsSocket] = "replies"] ELSE server
    /\ SendCallback
    /\ UNCHANGED <<serverUp, outages, threadVars, sessionVars, mainVars, m_activeDisconnect>>

\* The reply starts a detached thread (SignInCloudGameCallback) ...
SignIn ==
    /\ Handles("reply")
    /\ queue' = Tail(queue)
    /\ overlapped' = (overlapped \/ signing # {})
    /\ signing' = signing \cup {Head(queue).session}
    /\ lastReply' = Head(queue).session
    /\ mpc' = "restartTimer"
    /\ UNCHANGED <<leaving, connVars, threadVars, m_sessionId, timer, m_activeDisconnect, server>>

\* ... and restarts the report timer, the first report going out at once.
RestartReportTimer ==
    /\ mpc = "restartTimer"
    /\ timer' = TRUE
    /\ mpc' = "loop"
    /\ SendCallback
    /\ UNCHANGED <<leaving, serverUp, outages, threadVars, signing, overlapped, m_sessionId,
                   lastReply, queue, m_activeDisconnect, server>>

\* GameStatusCallback sends one message and keeps nothing.
GameStatusCallback ==
    /\ Handles("report")
    /\ queue' = Tail(queue)
    /\ SendCallback
    /\ UNCHANGED <<serverUp, outages, threadVars, sessionVars, mainVars, m_activeDisconnect, server>>

\* quit() and wait(), which blocks the event loop; Threads that do not run are
\* not waited for.
QuitThread ==
    /\ quitAsked' = (rpc # "stopped")
    /\ mpc' = "wait"

AccidentalTermination ==
    /\ Handles("accident")
    /\ queue' = Tail(queue)
    /\ QuitThread
    /\ UNCHANGED <<leaving, connVars, rpc, m_wsSocket, sessionVars, m_activeDisconnect, server>>

\* a.exec() has returned: DisconnectWS.
DisconnectWS ==
    /\ CanExit /\ mpc = "loop"
    /\ leaving' = TRUE
    /\ m_activeDisconnect' = TRUE
    /\ queue' = <<>>
    /\ QuitThread
    /\ UNCHANGED <<connVars, rpc, m_wsSocket, sessionVars, server>>

\* Mutant: quit() without wait().
ThreadNotAwaited ==
    /\ mpc = "wait"
    /\ mpc' = "close"
    /\ UNCHANGED <<leaving, connVars, threadVars, sessionVars, queue, m_activeDisconnect, server>>

ThreadFinished ==
    /\ mpc = "wait" /\ rpc = "stopped"
    /\ mpc' = "close"
    /\ UNCHANGED <<leaving, connVars, threadVars, sessionVars, queue, m_activeDisconnect, server>>

CloseSocket ==
    /\ \/ /\ mpc = "close"
          /\ IF m_wsSocket # NoConn THEN CloseTest(m_wsSocket) ELSE UNCHANGED conn
          /\ mpc' = IF m_wsSocket # NoConn /\ Accepts(m_wsSocket) THEN "sendClose" ELSE "reset"
       \/ /\ mpc = "sendClose"
          /\ CloseSend(m_wsSocket)
          /\ mpc' = "reset"
    /\ UNCHANGED <<leaving, serverUp, outages, threadVars, sessionVars, queue, m_activeDisconnect, server>>

\* Mutant: the pointer is cleared while the object lives on in its asio thread.
SocketLeaks ==
    /\ mpc = "reset"
    /\ m_wsSocket' = NoConn
    /\ mpc' = "reconnect"
    /\ UNCHANGED <<leaving, connVars, rpc, quitAsked, sessionVars, queue, m_activeDisconnect, server>>

\* m_wsSocket.reset() runs the destructor, which joins the asio thread.
ResetSocket ==
    /\ mpc = "reset"
    /\ IF m_wsSocket # NoConn THEN Destroy(m_wsSocket) ELSE UNCHANGED conn
    /\ m_wsSocket' = NoConn
    /\ mpc' = "reconnect"
    /\ UNCHANGED <<leaving, serverUp, outages, rpc, quitAsked, sessionVars, queue, m_activeDisconnect,
                   server>>

\* After 100 ms a link that was not ended on purpose is started again.
Reconnect ==
    /\ mpc = "reconnect" /\ ~leaving /\ ~m_activeDisconnect
    /\ rpc' = "create"
    /\ quitAsked' = FALSE
    /\ mpc' = "loop"
    /\ UNCHANGED <<leaving, connVars, m_wsSocket, sessionVars, queue, m_activeDisconnect, server>>

Exited ==
    /\ mpc = "reconnect" /\ leaving
    /\ mpc' = "exited"
    /\ UNCHANGED <<leaving, connVars, threadVars, sessionVars, queue, m_activeDisconnect, server>>

Main ==
    \/ SignInWsService \/ SignIn \/ RestartReportTimer \/ GameStatusCallback
    \/ AccidentalTermination \/ ThreadFinished \/ CloseSocket \/ ResetSocket
    \/ Reconnect \/ Exited

-------------------------------------------------------------------------------
(* Sign-in threads and the timer *)

\* Mutant: only the first session is kept.
KeepsFirstSession(s) ==
    /\ s \in signing
    /\ m_sessionId' = IF m_sessionId = NoSession THEN s ELSE m_sessionId
    /\ signing' = signing \ {s}
    /\ UNCHANGED <<connVars, threadVars, overlapped, lastReply, timer, queue, mainVars,
                   m_activeDisconnect, server>>

SignInCloudGameCallback(s) ==
    /\ s \in signing
    /\ m_sessionId' = s
    /\ signing' = signing \ {s}
    /\ UNCHANGED <<connVars, threadVars, overlapped, lastReply, timer, queue, mainVars,
                   m_activeDisconnect, server>>

\* At most one report waits in the queue: the bound on the timer.
Tick ==
    /\ timer /\ mpc # "exited"
    /\ \A i \in DOMAIN queue : queue[i] # Report
    /\ Post(Report)
    /\ UNCHANGED <<connVars, threadVars, sessionVars, mainVars, m_activeDisconnect, server>>

Network ==
    /\ Outage(MaxOutages) \/ Restored
    /\ UNCHANGED <<threadVars, sessionVars, queue, mainVars, m_activeDisconnect, server>>

Next ==
    \/ Run \/ Main \/ DisconnectWS \/ Tick \/ Network
    \/ \E c \in Conns : Asio(c)
    \/ \E s \in Sessions : SignInCloudGameCallback(s)

Spec == Init /\ [][Next]_vars

\* Every thread is scheduled, and a timer that runs fires; the network may stay down.
FairSpec ==
    /\ Spec
    /\ WF_vars(Run) /\ WF_vars(Tick)
    /\ WF_vars(Main)
    /\ \A c \in Conns : WF_vars(Asio(c))
    /\ \A s \in Sessions : WF_vars(SignInCloudGameCallback(s))
-------------------------------------------------------------------------------
(* Properties *)

\* One object, hence one connection, at a time: run() overwrites m_wsSocket, and
\* only the wait and the reset before it keep the old one from living on.
OneConnection == \A c \in Conns : conn[c].alive => c = m_wsSocket

\* AccidentalTermination never ends a connection that works: the queue holds at
\* most one accident per connection, and none of a connection that is gone.
HealthyKept ==
    mpc \in {"wait", "close"} /\ ~leaving =>
        m_wsSocket # NoConn /\ Ended(m_wsSocket)

\* A connection does not die in silence: once it is dead, an accident is on its way
\* or being handled, unless it died before SetCallback (run, 52-58), where
\* connect() has already started the asio thread on it.
NoSilentDeath ==
    \A c \in Conns :
        Ended(c) /\ "end" \notin conn[c].deaf =>
            \/ \E i \in DOMAIN queue : queue[i] = Accident(c)
            \/ mpc \in {"wait", "close", "sendClose", "reset"}

\* A message is handled while its connection is the current one: the answer to a
\* greeting never goes out on a later connection.
NoStaleMessage ==
    ~leaving => \A i \in DOMAIN queue :
        queue[i].type \in {"greeting", "reply"} => queue[i].from = m_wsSocket

\* Detached sign-in threads store their sessions in any order: with no two of them
\* alive together, the stored session is that of the last reply.
SessionCurrent == signing = {} /\ ~overlapped => m_sessionId = lastReply

\* When main has returned nothing of the link runs any more.
QuietAfterExit ==
    mpc = "exited" => rpc = "stopped" /\ \A c \in Conns : ~conn[c].alive

Deaf == \E c \in Conns : conn[c].deaf # {}

SignedIn ==
    /\ m_wsSocket # NoConn
    /\ Sends(m_wsSocket) /\ server[m_wsSocket] = "quiet"
    /\ \A i \in DOMAIN queue : queue[i] = Report
    /\ signing = {} /\ m_sessionId # NoSession

\* Only what the client sends reveals a link that was cut, and until the first
\* sign-in it sends nothing of its own accord.
Waiting == ~timer /\ \E c \in Conns : conn[c].link = "cut" /\ conn[c].m_state = "open"

\* However often the service goes away, a client that stays open is connected and
\* signed in when it is back for good, unless an event came before SetCallback or the
\* link was cut under a client that has nothing to send.
Reconnects == <>[]serverUp => <>[](SignedIn \/ Deaf \/ Waiting \/ leaving)
===============================================================================
