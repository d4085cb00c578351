--------------------------- MODULE ServiceLinkProofs ---------------------------
(* Proofs about ServiceLink, for any number of connection objects and sessions,
   any number of outages, and an exit at any moment. *)
EXTENDS ServiceLink, ConnectionProofs

Closing == {"close", "sendClose", "reset"}

LinkTypes ==
    /\ serverUp \in BOOLEAN /\ outages \in Nat
    /\ mpc \in {"loop", "restartTimer", "wait", "close", "sendClose", "reset", "reconnect", "exited"}
    /\ leaving \in BOOLEAN
    /\ m_wsSocket \in Conns \cup {NoConn}
    /\ m_activeDisconnect \in BOOLEAN
    /\ rpc \in {"stopped", "create", "connect", "callback", "exec"}
    /\ quitAsked \in BOOLEAN
    /\ server \in [Conns -> {"quiet", "greets", "replies"}]

\* run() and the main thread take turns on m_wsSocket, which holds the only object.
TurnsInv ==
    /\ mpc \in Closing \cup {"reconnect", "exited"} => rpc = "stopped"
    /\ mpc \in {"reconnect", "exited"} => m_wsSocket = NoConn
    /\ mpc = "exited" => leaving
    /\ rpc = "create" => m_wsSocket = NoConn
    /\ rpc \in {"connect", "callback", "exec"} => m_wsSocket # NoConn
    /\ rpc = "connect" => conn[m_wsSocket].m_state = "none"

SocketInv ==
    /\ \A c \in Conns : conn[c].alive <=> c = m_wsSocket
    /\ \A c \in Conns : conn[c].asked => mpc \in {"sendClose", "reset"}

LinkInv == LinkTypes /\ ConnInv /\ TurnsInv /\ SocketInv

(* What main does with a connection that has ended, and with the events. *)

LeavingInv ==
    /\ leaving => mpc \notin {"loop", "restartTimer"}
    /\ mpc = "sendClose" => leaving
    /\ \A c \in Conns : conn[c].asked => leaving
    /\ mpc \in {"wait", "close", "reset"} /\ ~leaving => m_wsSocket # NoConn /\ Ended(m_wsSocket)

Kind(i) == queue[i].type
IsMessage(i) == Kind(i) \in {"greeting", "reply"}

\* Events of the connection are about the present one, and come while main handles them.
PresentInv ==
    \A i \in DOMAIN queue : Kind(i) # "report" =>
        m_wsSocket # NoConn /\ queue[i].from = m_wsSocket /\ mpc \in {"loop", "restartTimer"}

\* An accident is the last word of its connection, which has ended.
AccidentInv ==
    /\ \A i \in DOMAIN queue : Kind(i) = "accident" =>
         queue[i] = Accident(m_wsSocket) /\ Ended(m_wsSocket)
    /\ \A i, j \in DOMAIN queue : Kind(i) = "accident" /\ Kind(j) # "report" => j <= i

\* The service waits for the answer to its one message.
MessageInv ==
    /\ \A i \in DOMAIN queue : IsMessage(i) =>
         server[m_wsSocket] = "quiet" /\ conn[m_wsSocket].told # <<>>
    /\ \A i, j \in DOMAIN queue : IsMessage(i) /\ IsMessage(j) => i = j

ReportInv == \A i, j \in DOMAIN queue : Kind(i) = "report" /\ Kind(j) = "report" => i = j

EventsInv == PresentInv /\ AccidentInv /\ MessageInv /\ ReportInv

QueueTypes ==
    /\ queue \in Seq(Event)
    /\ \A i \in DOMAIN queue : Kind(i) = "report" => queue[i] = Report

QueueInv == QueueTypes /\ (~leaving => EventsInv)

SessionInv ==
    /\ overlapped \in BOOLEAN /\ timer \in BOOLEAN
    /\ m_sessionId \in Sessions \cup {NoSession} /\ lastReply \in Sessions \cup {NoSession}
    /\ signing \subseteq Sessions
    /\ signing = {} /\ ~overlapped => m_sessionId = lastReply
    /\ signing # {} /\ ~overlapped => signing = {lastReply}
    /\ \A i \in DOMAIN queue : Kind(i) = "reply" => queue[i].session \in Sessions

MainInv == LeavingInv /\ QueueInv /\ NoSilentDeath

IInv == LinkInv /\ MainInv /\ SessionInv

-------------------------------------------------------------------------------
(* LinkInv: the connection and the two threads that share the pointer to it *)

\* The steps that leave the threads, the pointer and the life of the objects alone.
LEMMA KeepsLink ==
    ASSUME LinkInv, ConnInv', serverUp' \in BOOLEAN, outages' \in Nat,
           \A d \in Conns : conn'[d].alive = conn[d].alive /\ conn'[d].asked = conn[d].asked,
           rpc = "connect" => conn'[m_wsSocket].m_state = "none",
           UNCHANGED <<threadVars, mainVars>>, m_activeDisconnect' \in BOOLEAN,
           server' \in [Conns -> {"quiet", "greets", "replies"}]
    PROVE  LinkInv'
<1>1. LinkTypes'
  BY DEF LinkInv, LinkTypes, threadVars, mainVars
<1>2. TurnsInv' /\ SocketInv'
  BY DEF LinkInv, TurnsInv, SocketInv, threadVars, mainVars, Closing
<1>3. QED
  BY <1>1, <1>2 DEF LinkInv

\* The object that run() is about to connect is new.
LEMMA SocketFresh ==
    ASSUME LinkInv, rpc = "connect"
    PROVE  m_wsSocket \in Conns /\ conn[m_wsSocket].m_state = "none"
  BY DEF LinkInv, LinkTypes, TurnsInv

LEMMA LinkInvRun == LinkInv /\ Run => LinkInv'
<1> SUFFICES ASSUME LinkInv, Run PROVE LinkInv'
  OBVIOUS
<1> USE DEF LinkInv
<1>1. CASE RunCreate
  <2>1. PICK c \in Conns : Construct(c) /\ m_wsSocket' = c /\ server' = [server EXCEPT ![c] = "quiet"]
    BY <1>1 DEF RunCreate
  <2>2. /\ ConnInv' /\ conn'[c] = [NoObject EXCEPT !.alive = TRUE]
        /\ \A d \in Conns \ {c} : conn'[d] = conn[d]
    BY <2>1, ConstructStep
  <2>3. conn'[c].alive /\ ~conn'[c].asked
    BY <2>2 DEF NoObject
  <2>4. m_wsSocket = NoConn /\ \A d \in Conns : ~conn[d].alive
    BY <1>1, ConnectionAssumption DEF RunCreate, TurnsInv, SocketInv
  <2>5. LinkTypes'
    BY <1>1, <2>1 DEF RunCreate, LinkTypes, mainVars
  <2>6. conn'[c].m_state = "none" /\ c # NoConn
    BY <2>2, ConnectionAssumption DEF NoObject
  <2>7. TurnsInv'
    BY <1>1, <2>1, <2>6 DEF RunCreate, TurnsInv, Closing, mainVars
  <2>8. SocketInv'
    BY <1>1, <2>1, <2>2, <2>3, <2>4 DEF RunCreate, SocketInv, mainVars
  <2>9. QED
    BY <2>2, <2>5, <2>7, <2>8
<1>2. CASE RunConnect
  <2>1. m_wsSocket \in Conns /\ conn[m_wsSocket].m_state = "none" /\ conn[m_wsSocket].alive
    BY <1>2, SocketFresh DEF RunConnect, SocketInv
  <2>2. ConnInv' /\ SameLife
    BY <1>2, <2>1, ConnectStep DEF RunConnect
  <2>3. LinkTypes' /\ TurnsInv'
    BY <1>2 DEF RunConnect, LinkTypes, TurnsInv, Closing, mainVars
  <2>4. SocketInv'
    BY <1>2, <2>2 DEF RunConnect, SocketInv, SameLife, mainVars
  <2>5. QED
    BY <2>2, <2>3, <2>4
<1>3. CASE RunSetCallback
  <2>1. m_wsSocket \in Conns /\ conn[m_wsSocket].alive
    BY <1>3 DEF RunSetCallback, SocketInv, TurnsInv, LinkTypes
  <2>2. /\ ConnInv' /\ conn'[m_wsSocket] = [conn[m_wsSocket] EXCEPT !.m_outter = TRUE]
        /\ \A d \in Conns \ {m_wsSocket} : conn'[d] = conn[d]
    BY <1>3, <2>1, SetCallbackStep DEF RunSetCallback
  <2>3. LinkTypes' /\ TurnsInv'
    BY <1>3 DEF RunSetCallback, LinkTypes, TurnsInv, Closing, mainVars
  <2>4. \A d \in Conns : conn'[d].alive = conn[d].alive /\ conn'[d].asked = conn[d].asked
    BY <2>1, <2>2 DEF ConnInv, Connection
  <2>5. SocketInv'
    BY <1>3, <2>4 DEF RunSetCallback, SocketInv, mainVars
  <2>6. QED
    BY <2>2, <2>3, <2>5
<1>4. CASE RunExec
  <2>1. ConnInv' /\ SocketInv'
    BY <1>4 DEF RunExec, ConnInv, SocketInv, connVars, mainVars
  <2>2. LinkTypes' /\ TurnsInv'
    BY <1>4 DEF RunExec, LinkTypes, TurnsInv, Closing, connVars, mainVars
  <2>3. QED
    BY <2>1, <2>2
<1>5. QED
  BY <1>1, <1>2, <1>3, <1>4 DEF Run

LEMMA LinkInvAsio ==
    ASSUME LinkInv, NEW c \in Conns, Asio(c)
    PROVE  LinkInv'
<1> ConnInv /\ serverUp \in BOOLEAN /\ outages \in Nat /\ m_activeDisconnect \in BOOLEAN
    /\ server \in [Conns -> {"quiet", "greets", "replies"}]
  BY DEF LinkInv, LinkTypes
<1>1. CASE ServiceGreets(c)
  <2>1. on_open(c) /\ server' \in [Conns -> {"quiet", "greets", "replies"}]
        /\ UNCHANGED <<serverUp, outages, threadVars, mainVars, m_activeDisconnect>>
    BY <1>1 DEF ServiceGreets
  <2>2. rpc = "connect" => conn'[m_wsSocket].m_state = "none"
    BY <2>1, SocketFresh, FreshStays
  <2>3. QED
    BY <2>1, <2>2, OnOpenStep, KeepsLink
<1>2. CASE ConnectedCallback(c)
  <2>1. Opened(c, FALSE) /\ m_activeDisconnect' \in BOOLEAN
        /\ UNCHANGED <<serverUp, outages, threadVars, mainVars, server>>
    BY <1>2 DEF ConnectedCallback
  <2>2. rpc = "connect" => conn'[m_wsSocket].m_state = "none"
    BY <2>1, SocketFresh, FreshStays
  <2>3. QED
    BY <2>1, <2>2, OpenedStep, KeepsLink
<1>3. CASE AsioLibrary(c)
  <2>1. /\ Library(c) \/ process_control_frame(c, MaxOutages)
        /\ UNCHANGED <<serverUp, threadVars, mainVars, m_activeDisconnect, server>>
    BY <1>3 DEF AsioLibrary
  <2>2. rpc = "connect" => conn'[m_wsSocket].m_state = "none"
    BY <2>1, SocketFresh, FreshStays
  <2>3. ConnInv' /\ SameLife /\ outages' \in Nat
    BY <1>3, LibraryStep, CloseFrameStep DEF AsioLibrary
  <2>4. QED
    BY <2>1, <2>2, <2>3, KeepsLink DEF SameLife
<1>4. CASE ConnectionLost(c)
  <2>1. /\ on_failure(c) \/ on_close(c)
        /\ UNCHANGED <<serverUp, outages, threadVars, mainVars, m_activeDisconnect, server>>
    BY <1>4 DEF ConnectionLost
  <2>2. rpc = "connect" => conn'[m_wsSocket].m_state = "none"
    BY <2>1, SocketFresh, FreshStays
  <2>3. QED
    BY <2>1, <2>2, OnEndStep, KeepsLink
<1>5. CASE MessageCallback(c)
  <2>1. on_message(c) /\ server' \in [Conns -> {"quiet", "greets", "replies"}]
        /\ UNCHANGED <<serverUp, outages, threadVars, mainVars, m_activeDisconnect>>
    BY <1>5 DEF MessageCallback
  <2>2. rpc = "connect" => conn'[m_wsSocket].m_state = "none"
    BY <2>1, SocketFresh, FreshStays
  <2>3. QED
    BY <2>1, <2>2, OnMessageStep, KeepsLink
<1>6. QED
  BY <1>1, <1>2, <1>3, <1>4, <1>5 DEF Asio

\* What main sends on the connection.
LEMMA SendCallbackStep ==
    ASSUME LinkInv, SendCallback
    PROVE  /\ ConnInv' /\ SameLife
           /\ rpc = "connect" => conn'[m_wsSocket].m_state = "none"
<1>1. CASE m_wsSocket = NoConn
  BY <1>1, SocketFresh DEF SendCallback, LinkInv, ConnInv, SameLife
<1>2. CASE m_wsSocket # NoConn
  BY <1>2, SendStep, SocketFresh, FreshStays DEF SendCallback, LinkInv, LinkTypes
<1>3. QED
  BY <1>1, <1>2

LEMMA LinkInvQuiet ==
    ASSUME LinkInv, UNCHANGED <<connVars, threadVars, mainVars, m_activeDisconnect, server>>
    PROVE  LinkInv'
<1>1. ConnInv'
  BY DEF LinkInv, ConnInv, connVars
<1>2. QED
  BY <1>1 DEF LinkInv, LinkTypes, TurnsInv, SocketInv, connVars, threadVars, mainVars

LEMMA LinkInvMain == LinkInv /\ (Main \/ DisconnectWS) => LinkInv'
<1> SUFFICES ASSUME LinkInv, Main \/ DisconnectWS PROVE LinkInv'
  OBVIOUS
<1> ConnInv /\ LinkTypes /\ TurnsInv /\ SocketInv
  BY DEF LinkInv
<1>1. CASE SignInWsService \/ GameStatusCallback
  <2>1. SendCallback /\ server' \in [Conns -> {"quiet", "greets", "replies"}]
        /\ UNCHANGED <<serverUp, outages, threadVars, mainVars, m_activeDisconnect>>
    BY <1>1 DEF SignInWsService, GameStatusCallback, LinkTypes
  <2>2. QED
    BY <2>1, SendCallbackStep, KeepsLink DEF SameLife, LinkTypes
<1>a. CASE RestartReportTimer
  <2>1. /\ SendCallback
        /\ UNCHANGED <<leaving, serverUp, outages, threadVars, queue, m_activeDisconnect, server>>
        /\ mpc = "restartTimer" /\ mpc' = "loop"
    BY <1>a DEF RestartReportTimer
  <2>2. ConnInv' /\ SameLife /\ (rpc = "connect" => conn'[m_wsSocket].m_state = "none")
    BY <2>1, SendCallbackStep
  <2>3. LinkTypes'
    BY <2>1, <2>2 DEF LinkTypes, SameLife, threadVars
  <2>4. TurnsInv' /\ SocketInv'
    BY <2>1, <2>2 DEF TurnsInv, SocketInv, SameLife, Closing, threadVars
  <2>5. QED
    BY <2>2, <2>3, <2>4 DEF LinkInv
<1>2. CASE \/ SignIn \/ AccidentalTermination \/ DisconnectWS
           \/ ThreadFinished \/ Reconnect \/ Exited
  <2>1. UNCHANGED connVars /\ UNCHANGED <<m_wsSocket, server>>
    BY <1>2 DEF SignIn, AccidentalTermination, DisconnectWS,
      ThreadFinished, Reconnect, Exited, threadVars
  <2>2. ConnInv'
    BY <2>1 DEF ConnInv, connVars
  <2>3. \A d \in Conns : conn[d].asked => mpc \in {"sendClose", "reset"}
    BY DEF SocketInv
  <2>4. LinkTypes'
    BY <1>2, <2>1 DEF SignIn, AccidentalTermination, DisconnectWS,
      ThreadFinished, Reconnect, Exited, QuitThread, LinkTypes, connVars, threadVars
  <2>5. TurnsInv'
    BY <1>2, <2>1 DEF SignIn, AccidentalTermination, DisconnectWS,
      ThreadFinished, Reconnect, Exited, QuitThread, TurnsInv, Closing, Handles, connVars, threadVars
  <2>6. SocketInv'
    BY <1>2, <2>1 DEF SignIn, AccidentalTermination, DisconnectWS,
      ThreadFinished, Reconnect, Exited, QuitThread, SocketInv, Handles, connVars, threadVars
  <2>7. QED
    BY <2>2, <2>4, <2>5, <2>6 DEF LinkInv
<1>3. CASE CloseSocket
  <2>1. /\ UNCHANGED <<leaving, serverUp, outages, threadVars, m_activeDisconnect, server>>
        /\ mpc \in {"close", "sendClose"} /\ mpc' \in {"sendClose", "reset"}
    BY <1>3 DEF CloseSocket
  <2>2. ConnInv' /\ \A d \in Conns : conn'[d].alive = conn[d].alive
    <3>1. CASE m_wsSocket = NoConn /\ mpc = "close"
      BY <1>3, <3>1 DEF CloseSocket, ConnInv
    <3>2. CASE m_wsSocket # NoConn /\ mpc = "close"
      <4>1. m_wsSocket \in Conns /\ CloseTest(m_wsSocket)
        BY <1>3, <3>2 DEF CloseSocket, LinkTypes
      <4>2. conn[m_wsSocket] \in Connection
        BY <4>1 DEF ConnInv
      <4>3. \/ SameLife
            \/ /\ conn'[m_wsSocket]
                     = [conn[m_wsSocket] EXCEPT !.closing = TRUE, !.asked = TRUE]
               /\ \A d \in Conns \ {m_wsSocket} : conn'[d] = conn[d]
        BY <4>1, CloseTestStep, ZenonT(40)
      <4>4. \A d \in Conns : conn'[d].alive = conn[d].alive
        <5>1. CASE SameLife
          BY <5>1 DEF SameLife
        <5>2. CASE /\ conn'[m_wsSocket]
                        = [conn[m_wsSocket] EXCEPT !.closing = TRUE, !.asked = TRUE]
                   /\ \A d \in Conns \ {m_wsSocket} : conn'[d] = conn[d]
          <6>1. conn'[m_wsSocket].alive = conn[m_wsSocket].alive
            BY <4>2, <5>2 DEF Connection
          <6>2. QED
            BY <5>2, <6>1
        <5>3. QED
          BY <4>3, <5>1, <5>2
      <4>5. ConnInv'
        BY <4>1, CloseTestStep
      <4>6. QED
        BY <4>4, <4>5
    <3>3. CASE mpc = "sendClose"
      BY <1>3, <3>3, CloseSendStep DEF CloseSocket, SameLife
    <3>4. QED
      BY <2>1, <3>1, <3>2, <3>3
  <2>3. LinkTypes' /\ TurnsInv'
    BY <2>1 DEF LinkTypes, TurnsInv, Closing, threadVars
  <2>4. SocketInv'
    BY <2>1, <2>2 DEF SocketInv, threadVars
  <2>5. QED
    BY <2>2, <2>3, <2>4 DEF LinkInv
<1>4. CASE ResetSocket
  <2>1. /\ m_wsSocket' = NoConn /\ mpc = "reset" /\ mpc' = "reconnect"
        /\ UNCHANGED <<leaving, serverUp, outages, rpc, quitAsked, m_activeDisconnect, server>>
    BY <1>4 DEF ResetSocket
  <2>2. ConnInv' /\ \A d \in Conns : conn'[d] = NoObject
    <3>1. \A d \in Conns : d # m_wsSocket => conn[d] = NoObject
      BY DEF SocketInv, ConnInv, ObjectOK
    <3>2. CASE m_wsSocket = NoConn
      BY <1>4, <3>1, <3>2, ConnectionAssumption DEF ResetSocket, ConnInv
    <3>3. CASE m_wsSocket # NoConn
      BY <1>4, <3>1, <3>3, DestroyStep DEF ResetSocket, LinkTypes
    <3>4. QED
      BY <3>2, <3>3
  <2>3. \A d \in Conns : ~conn'[d].alive /\ ~conn'[d].asked
    BY <2>2 DEF NoObject
  <2>4. LinkTypes' /\ TurnsInv'
    BY <2>1 DEF LinkTypes, TurnsInv, Closing
  <2>5. SocketInv'
    BY <2>1, <2>3, ConnectionAssumption DEF SocketInv
  <2>6. QED
    BY <2>2, <2>4, <2>5 DEF LinkInv
<1>5. QED
  BY <1>1, <1>a, <1>2, <1>3, <1>4 DEF Main

LEMMA LinkInvInit == Init => LinkInv
<1> SUFFICES ASSUME Init PROVE LinkInv
  OBVIOUS
<1>1. ConnInv /\ \A c \in Conns : ~conn[c].alive /\ ~conn[c].asked
  BY ConnInitInv DEF Init, ConnInit, NoObject
<1>2. LinkTypes /\ TurnsInv
  BY DEF Init, ConnInit, LinkTypes, TurnsInv, Closing
<1>3. SocketInv
  BY <1>1, ConnectionAssumption DEF Init, SocketInv
<1>4. QED
  BY <1>1, <1>2, <1>3 DEF LinkInv

LEMMA LinkInvStep == LinkInv /\ [Next]_vars => LinkInv'
<1> SUFFICES ASSUME LinkInv, [Next]_vars PROVE LinkInv'
  OBVIOUS
<1>1. CASE Network
  <2>1. ConnInv' /\ SameLife /\ serverUp' \in BOOLEAN /\ outages' \in Nat
        /\ (rpc = "connect" => conn'[m_wsSocket].m_state = "none")
    BY <1>1, NetworkStep, SocketFresh, FreshStays DEF Network, LinkInv, LinkTypes
  <2>2. QED
    BY <1>1, <2>1, KeepsLink DEF Network, SameLife, LinkInv, LinkTypes
<1>2. CASE Tick \/ (\E s \in Sessions : SignInCloudGameCallback(s)) \/ UNCHANGED vars
  BY <1>2, LinkInvQuiet DEF Tick, SignInCloudGameCallback, vars
<1>3. QED
  BY <1>1, <1>2, LinkInvRun, LinkInvAsio, LinkInvMain DEF Next

-------------------------------------------------------------------------------
(* MainInv: the events and what becomes of a connection that ends *)

LEMMA PostIndices ==
    ASSUME queue \in Seq(Event), NEW e \in Event, Post(e)
    PROVE  /\ queue' \in Seq(Event)
           /\ DOMAIN queue = 1 .. Len(queue) /\ Len(queue) \in Nat
           /\ DOMAIN queue' = 1 .. (Len(queue) + 1)
           /\ queue'[Len(queue) + 1] = e
           /\ \A i \in DOMAIN queue : queue'[i] = queue[i]
  BY DEF Post

LEMMA TailIndices ==
    ASSUME queue \in Seq(Event), queue # <<>>, queue' = Tail(queue)
    PROVE  /\ queue' \in Seq(Event)
           /\ DOMAIN queue = 1 .. Len(queue) /\ Len(queue) \in Nat \ {0}
           /\ DOMAIN queue' = 1 .. (Len(queue) - 1)
           /\ Head(queue) = queue[1]
           /\ \A i \in DOMAIN queue' : i + 1 \in DOMAIN queue /\ queue'[i] = queue[i + 1]
<1>1. Len(queue) \in Nat \ {0} /\ DOMAIN queue = 1 .. Len(queue) /\ Head(queue) = queue[1]
  OBVIOUS
<1>2. queue' \in Seq(Event) /\ Len(queue') = Len(queue) - 1
      /\ \A i \in 1 .. Len(queue') : queue'[i] = queue[i + 1]
  BY <1>1, HeadTailProperties
<1>3. DOMAIN queue' = 1 .. (Len(queue) - 1)
  BY <1>1, <1>2
<1>4. \A i \in DOMAIN queue' : i + 1 \in DOMAIN queue
  BY <1>1, <1>3
<1>5. QED
  BY <1>1, <1>2, <1>3, <1>4

LEMMA KindOf ==
    ASSUME QueueTypes, NEW i \in DOMAIN queue
    PROVE  queue[i] \in Event /\ Kind(i) \in {"accident", "greeting", "reply", "report"}
<1>1. queue[i] \in Event
  BY DEF QueueTypes
<1>2. QED
  BY <1>1 DEF Event, Kind

LEMMA EventTypes ==
    /\ \A c \in Conns : Accident(c) \in Event /\ Greeting(c) \in Event
    /\ \A c \in Conns, s \in Sessions : Reply(c, s) \in Event
    /\ Report \in Event
  BY DEF Event, Accident, Greeting, Reply, Report

\* The steps that leave the tales, the pointer and the main thread alone.
TalesKept ==
    \A d \in Conns :
        /\ conn'[d].told = conn[d].told /\ conn'[d].asked = conn[d].asked
        /\ conn[d].deaf \subseteq conn'[d].deaf

LEMMA KeepsLeaving ==
    ASSUME LinkInv, LeavingInv, TalesKept, UNCHANGED <<m_wsSocket, mainVars>>
    PROVE  LeavingInv'
  BY DEF LinkInv, LinkTypes, LeavingInv, TalesKept, mainVars, Ended

LEMMA KeepsMain ==
    ASSUME LinkInv, MainInv, TalesKept, UNCHANGED <<m_wsSocket, mainVars, queue, server>>
    PROVE  MainInv'
<1>1. LeavingInv'
  BY KeepsLeaving DEF MainInv
<1>2. QueueTypes'
  BY DEF MainInv, QueueInv, QueueTypes, Kind
<1>3. ~leaving => PresentInv'
  BY DEF MainInv, QueueInv, EventsInv, PresentInv, Kind, mainVars
<1>4. ~leaving => AccidentInv' /\ MessageInv' /\ ReportInv'
  BY <1>3 DEF MainInv, QueueInv, EventsInv, PresentInv, AccidentInv, MessageInv, ReportInv,
    Kind, IsMessage, TalesKept, LinkInv, LinkTypes, Accident, Ended
<1>5. NoSilentDeath'
  BY DEF MainInv, NoSilentDeath, TalesKept, mainVars, Accident, Ended
<1>6. QED
  BY <1>1, <1>2, <1>3, <1>4, <1>5 DEF MainInv, QueueInv, EventsInv, mainVars

\* With nothing but reports in the queue there is nothing to say of the events.
LEMMA OnlyReports ==
    ASSUME \A i \in DOMAIN queue : Kind(i) = "report", ReportInv
    PROVE  EventsInv
  BY DEF EventsInv, PresentInv, AccidentInv, MessageInv, IsMessage, ReportInv

(* run() *)

LEMMA MainInvRun ==
    ASSUME LinkInv, MainInv, Run
    PROVE  MainInv'
<1> ConnInv /\ LinkTypes /\ TurnsInv /\ SocketInv
  BY DEF LinkInv
<1>1. CASE RunCreate
  <2>1. PICK c \in Conns : Construct(c) /\ m_wsSocket' = c /\ server' = [server EXCEPT ![c] = "quiet"]
    BY <1>1 DEF RunCreate
  <2>2. /\ conn'[c] = [NoObject EXCEPT !.alive = TRUE]
        /\ \A d \in Conns \ {c} : conn'[d] = conn[d]
    BY <2>1, ConstructStep
  <2>3. conn'[c].told = <<>> /\ ~conn'[c].asked
    BY <2>2 DEF NoObject
  <2>4. m_wsSocket = NoConn /\ UNCHANGED <<queue, mainVars>>
    BY <1>1 DEF RunCreate, TurnsInv
  <2>5. LeavingInv'
    BY <2>2, <2>3, <2>4 DEF MainInv, LeavingInv, mainVars
  <2>6. QueueTypes'
    BY <2>4 DEF MainInv, QueueInv, QueueTypes, Kind
  <2>7. ~leaving => (\A i \in DOMAIN queue : Kind(i) = "report")
    BY <2>4 DEF MainInv, QueueInv, EventsInv, PresentInv
  <2>8. ~leaving => EventsInv'
    BY <2>4, <2>7 DEF MainInv, QueueInv, EventsInv, PresentInv, AccidentInv, MessageInv,
      IsMessage, ReportInv, Kind
  <2>9. NoSilentDeath'
    BY <2>2, <2>3, <2>4 DEF MainInv, NoSilentDeath, mainVars, Accident, Ended
  <2>10. QED
    BY <2>4, <2>5, <2>6, <2>8, <2>9 DEF MainInv, QueueInv, mainVars
<1>2. CASE RunConnect
  <2>1. m_wsSocket \in Conns /\ conn[m_wsSocket].m_state = "none" /\ conn[m_wsSocket].alive
    BY <1>2, SocketFresh DEF RunConnect, SocketInv
  <2>2. SameLife
    BY <1>2, <2>1, ConnectStep DEF RunConnect
  <2>3. QED
    BY <1>2, <2>2, KeepsMain DEF RunConnect, SameLife, TalesKept
<1>3. CASE RunSetCallback
  <2>1. m_wsSocket \in Conns /\ conn[m_wsSocket].alive
    BY <1>3 DEF RunSetCallback, SocketInv, TurnsInv, LinkTypes
  <2>2. /\ conn'[m_wsSocket] = [conn[m_wsSocket] EXCEPT !.m_outter = TRUE]
        /\ \A d \in Conns \ {m_wsSocket} : conn'[d] = conn[d]
    BY <1>3, <2>1, SetCallbackStep DEF RunSetCallback
  <2>3. TalesKept
    BY <2>1, <2>2 DEF ConnInv, Connection, TalesKept
  <2>4. QED
    BY <1>3, <2>3, KeepsMain DEF RunSetCallback
<1>4. CASE RunExec
  BY <1>4, KeepsMain DEF RunExec, TalesKept, connVars
<1>5. QED
  BY <1>1, <1>2, <1>3, <1>4 DEF Run

(* The asio thread *)

\* A callback comes from the present connection, and, unless main is leaving, while main
\* handles events: what it waits for when it does not has ended.
LEMMA CallerIsPresent ==
    ASSUME LinkInv, LeavingInv, NEW c \in Conns, conn[c].alive
    PROVE  /\ c = m_wsSocket
           /\ ~Ended(c) /\ ~leaving => mpc \in {"loop", "restartTimer"}
           /\ mpc \in {"loop", "restartTimer", "wait", "close", "sendClose", "reset"}
  BY ConnectionAssumption DEF LinkInv, LinkTypes, TurnsInv, SocketInv, LeavingInv

LEMMA MainInvOpen ==
    ASSUME LinkInv, MainInv, NEW c \in Conns, ServiceGreets(c)
    PROVE  MainInv'
<1>1. /\ conn[c].alive /\ conn[c].told = <<>> /\ conn'[c].told = <<"open">>
      /\ conn'[c].asked = conn[c].asked
      /\ \A d \in Conns \ {c} : conn'[d] = conn[d]
      /\ UNCHANGED <<m_wsSocket, mainVars, queue>>
  BY OnOpenStep DEF ServiceGreets, LinkInv, threadVars
<1>2. c = m_wsSocket /\ ~Ended(c)
  BY <1>1, CallerIsPresent, EndedFacts DEF LinkInv, MainInv
<1>3. ~(conn'[c].told \notin {<<>>, <<"open">>})
  BY <1>1
<1>4. LeavingInv'
  BY <1>1, <1>2 DEF MainInv, LeavingInv, mainVars, Ended
<1>5. QueueTypes'
  BY <1>1 DEF MainInv, QueueInv, QueueTypes, Kind
<1>6. ASSUME ~leaving, NEW i \in DOMAIN queue
      PROVE  Kind(i) = "report"
  <2>1. Kind(i) \in {"accident", "greeting", "reply", "report"}
    BY KindOf DEF MainInv, QueueInv
  <2>2. QED
    BY <1>1, <1>2, <1>6, <2>1 DEF MainInv, QueueInv, EventsInv, AccidentInv, MessageInv, IsMessage
<1>7. ~leaving => EventsInv'
  BY <1>1, <1>6 DEF MainInv, QueueInv, EventsInv, PresentInv, AccidentInv, MessageInv,
    IsMessage, ReportInv, Kind
<1>8. NoSilentDeath'
  BY <1>1, <1>3 DEF MainInv, NoSilentDeath, mainVars, Accident, Ended
<1>9. QED
  BY <1>1, <1>4, <1>5, <1>7, <1>8 DEF MainInv, QueueInv, mainVars

\* FailureCallback and DisconnectedCallback.
LEMMA MainInvLost ==
    ASSUME LinkInv, MainInv, NEW c \in Conns, ConnectionLost(c)
    PROVE  MainInv'
<1> ConnInv /\ LeavingInv /\ QueueTypes
  BY DEF LinkInv, MainInv, QueueInv
<1>1. /\ conn[c].alive /\ conn'[c].deaf = Missed(c, "end") /\ conn'[c].asked = conn[c].asked
      /\ \A d \in Conns \ {c} : conn'[d] = conn[d]
      /\ \/ conn[c].told = <<>> /\ conn'[c].told = <<"failure">>
         \/ conn[c].told = <<"open">> /\ conn'[c].told = <<"open", "close">>
         \/ /\ conn[c].asked /\ conn[c].told = <<"open", "close">>
            /\ conn'[c].told = <<"open", "close", "close">>
      /\ UNCHANGED <<m_wsSocket, mainVars, server>>
  BY OnEndStep DEF ConnectionLost, threadVars
<1>2. conn'[c].told # <<>> /\ conn'[c].told # <<"open">>
  BY <1>1, Histories
<1>3. c = m_wsSocket /\ mpc \in {"loop", "restartTimer", "wait", "close", "sendClose", "reset"}
  BY <1>1, CallerIsPresent
<1>4. ~leaving => ~Ended(c) /\ mpc \in {"loop", "restartTimer"}
  BY <1>1, CallerIsPresent, EndedFacts DEF LeavingInv
<1>5. LeavingInv'
  BY <1>1, <1>2, <1>3 DEF LeavingInv, mainVars, Ended
<1>6. Accident(c) \in Event
  BY EventTypes
<1>7. CASE Post(Accident(c)) /\ conn[c].m_outter
  <2> DEFINE n == Len(queue)
  <2>1. /\ queue' \in Seq(Event) /\ DOMAIN queue = 1 .. n /\ n \in Nat
        /\ DOMAIN queue' = 1 .. (n + 1) /\ queue'[n + 1] = Accident(c)
        /\ \A i \in DOMAIN queue : queue'[i] = queue[i]
    BY <1>6, <1>7, PostIndices DEF QueueTypes
  <2> HIDE DEF n
  <2>2. \A i \in DOMAIN queue' : i \in DOMAIN queue \/ i = n + 1
    BY <2>1
  <2>3. Accident(c).type = "accident" /\ Accident(c).from = c
    BY DEF Accident
  <2>4. QueueTypes'
    BY <2>1, <2>2, <2>3 DEF QueueTypes, Kind
  <2>5. ASSUME ~leaving
        PROVE  EventsInv'
    <3> EventsInv
      BY <2>5 DEF MainInv, QueueInv
    <3>1. \A i \in DOMAIN queue : Kind(i) # "accident"
      BY <1>3, <1>4, <2>5 DEF EventsInv, AccidentInv
    <3>2. PresentInv'
      BY <1>1, <1>3, <1>4, <2>1, <2>2, <2>3, <2>5, ConnectionAssumption
        DEF EventsInv, PresentInv, Kind, mainVars
    <3>3. AccidentInv'
      <4>1. ASSUME NEW i \in DOMAIN queue', Kind(i)' = "accident"
            PROVE  i = n + 1
        BY <2>1, <2>2, <3>1, <4>1 DEF Kind
      <4>2. \A i \in DOMAIN queue' : i <= n + 1
        BY <2>1
      <4>3. Ended(m_wsSocket)'
        BY <1>1, <1>2, <1>3 DEF Ended
      <4>4. QED
        BY <1>1, <1>3, <2>1, <4>1, <4>2, <4>3 DEF AccidentInv, Accident
    <3>4. \A i \in DOMAIN queue' : IsMessage(i)' => i \in DOMAIN queue /\ IsMessage(i)
      BY <2>1, <2>2, <2>3 DEF IsMessage, Kind
    <3>5. MessageInv'
      BY <1>1, <1>2, <1>3, <3>4 DEF EventsInv, MessageInv
    <3>6. \A i \in DOMAIN queue' : Kind(i)' = "report" => i \in DOMAIN queue /\ Kind(i) = "report"
      BY <2>1, <2>2, <2>3 DEF Kind
    <3>7. ReportInv'
      BY <3>6 DEF EventsInv, ReportInv
    <3>8. QED
      BY <3>2, <3>3, <3>5, <3>7 DEF EventsInv
  <2>6. n + 1 \in DOMAIN queue'
    BY <2>1
  <2>7. NoSilentDeath'
    BY <1>1, <2>1, <2>6 DEF MainInv, NoSilentDeath, mainVars, Accident, Ended
  <2>8. QED
    BY <1>1, <1>5, <2>4, <2>5, <2>7 DEF MainInv, QueueInv, mainVars
<1>8. CASE UNCHANGED queue /\ ~conn[c].m_outter
  <2>1. "end" \in conn'[c].deaf
    BY <1>1, <1>8 DEF Missed
  <2>2. QueueTypes'
    BY <1>8 DEF QueueTypes, Kind
  <2>3. ASSUME ~leaving
        PROVE  EventsInv'
    <3> EventsInv
      BY <2>3 DEF MainInv, QueueInv
    <3>1. \A i \in DOMAIN queue : Kind(i) # "accident"
      BY <1>3, <1>4, <2>3 DEF EventsInv, AccidentInv
    <3>2. PresentInv' /\ AccidentInv' /\ ReportInv'
      BY <1>1, <1>8, <3>1 DEF EventsInv, PresentInv, AccidentInv, ReportInv, Kind, mainVars
    <3>3. MessageInv'
      BY <1>1, <1>2, <1>3, <1>8 DEF EventsInv, MessageInv, IsMessage, Kind
    <3>4. QED
      BY <3>2, <3>3 DEF EventsInv
  <2>4. NoSilentDeath'
    BY <1>1, <1>8, <2>1 DEF MainInv, NoSilentDeath, mainVars, Accident, Ended
  <2>5. QED
    BY <1>1, <1>5, <2>2, <2>3, <2>4 DEF MainInv, QueueInv, mainVars
<1>9. QED
  BY <1>7, <1>8 DEF ConnectionLost

LEMMA MainInvMessage ==
    ASSUME LinkInv, MainInv, NEW c \in Conns, MessageCallback(c)
    PROVE  MainInv'
<1> ConnInv /\ LeavingInv /\ QueueTypes
  BY DEF LinkInv, MainInv, QueueInv
<1>1. /\ conn[c].alive /\ conn[c].told = <<"open">> /\ conn'[c].told = conn[c].told
      /\ conn'[c].deaf = Missed(c, "message") /\ conn'[c].asked = conn[c].asked
      /\ \A d \in Conns \ {c} : conn'[d] = conn[d]
      /\ server[c] # "quiet" /\ server' = [server EXCEPT ![c] = "quiet"]
      /\ UNCHANGED <<m_wsSocket, mainVars>>
  BY OnMessageStep DEF MessageCallback, threadVars
<1>2. TalesKept
  BY <1>1 DEF TalesKept, Missed
<1>3. c = m_wsSocket /\ ~Ended(c) /\ (~leaving => mpc \in {"loop", "restartTimer"})
  BY <1>1, CallerIsPresent, EndedFacts
<1>4. LeavingInv'
  BY <1>1, <1>2, KeepsLeaving
<1>5. server'[c] = "quiet"
  BY <1>1 DEF LinkInv, LinkTypes
<1>6. ASSUME ~leaving
      PROVE  EventsInv /\ \A i \in DOMAIN queue : Kind(i) = "report"
  <2>1. EventsInv
    BY <1>6 DEF MainInv, QueueInv
  <2>2. ASSUME NEW i \in DOMAIN queue PROVE Kind(i) = "report"
    <3>1. Kind(i) \in {"accident", "greeting", "reply", "report"}
      BY KindOf
    <3>2. QED
      BY <1>1, <1>3, <2>1, <3>1 DEF EventsInv, AccidentInv, MessageInv, IsMessage
  <2>3. QED
    BY <2>1, <2>2
<1>7. CASE UNCHANGED queue
  <2>1. QueueTypes'
    BY <1>7 DEF QueueTypes, Kind
  <2>2. ~leaving => EventsInv'
    BY <1>6, <1>7 DEF EventsInv, PresentInv, AccidentInv, MessageInv, IsMessage, ReportInv, Kind
  <2>3. NoSilentDeath'
    BY <1>1, <1>2, <1>7 DEF MainInv, NoSilentDeath, TalesKept, mainVars, Accident, Ended
  <2>4. QED
    BY <1>1, <1>4, <2>1, <2>2, <2>3 DEF MainInv, QueueInv, mainVars
<1>8. ASSUME NEW e \in Event, Post(e), e.type \in {"greeting", "reply"}, e.from = c
      PROVE  MainInv'
  <2> DEFINE n == Len(queue)
  <2>1. /\ queue' \in Seq(Event) /\ DOMAIN queue = 1 .. n /\ n \in Nat
        /\ DOMAIN queue' = 1 .. (n + 1) /\ queue'[n + 1] = e
        /\ \A i \in DOMAIN queue : queue'[i] = queue[i]
    BY <1>8, PostIndices DEF QueueTypes
  <2> HIDE DEF n
  <2>2. \A i \in DOMAIN queue' : i \in DOMAIN queue \/ i = n + 1
    BY <2>1
  <2>3. QueueTypes'
    BY <1>8, <2>1, <2>2 DEF QueueTypes, Kind
  <2>4. ASSUME ~leaving
        PROVE  EventsInv'
    <3>1. \A i \in DOMAIN queue' : Kind(i)' = "report" \/ i = n + 1
      BY <1>6, <2>1, <2>2, <2>4 DEF Kind
    <3>2. queue'[n + 1].type \in {"greeting", "reply"} /\ queue'[n + 1].from = c
      BY <1>8, <2>1
    <3>3. PresentInv'
      BY <1>1, <1>3, <1>8, <2>4, <3>1, <3>2, ConnectionAssumption DEF PresentInv, mainVars
    <3>4. AccidentInv'
      BY <3>1, <3>2 DEF AccidentInv, Kind
    <3>5. MessageInv'
      <4>1. \A i \in DOMAIN queue' : IsMessage(i)' => i = n + 1
        BY <3>1 DEF IsMessage
      <4>2. server'[m_wsSocket'] = "quiet" /\ conn'[m_wsSocket'].told # <<>>
        BY <1>1, <1>3, <1>5, Histories
      <4>3. QED
        BY <4>1, <4>2 DEF MessageInv
    <3>6. \A i \in DOMAIN queue' : Kind(i)' = "report" => i \in DOMAIN queue /\ Kind(i) = "report"
      BY <1>8, <2>1, <2>2 DEF Kind
    <3>7. ReportInv'
      BY <1>6, <2>4, <3>6 DEF EventsInv, ReportInv
    <3>8. QED
      BY <3>3, <3>4, <3>5, <3>7 DEF EventsInv
  <2>5. NoSilentDeath'
    BY <1>1, <1>2, <2>1 DEF MainInv, NoSilentDeath, TalesKept, mainVars, Accident, Ended
  <2>6. QED
    BY <1>1, <1>4, <2>3, <2>4, <2>5 DEF MainInv, QueueInv, mainVars
<1>9. \/ UNCHANGED queue \/ Post(Greeting(c))
      \/ \E s \in Sessions : Post(Reply(c, s))
  BY DEF MessageCallback
<1>10. QED
  BY <1>7, <1>8, <1>9, EventTypes DEF Greeting, Reply

LEMMA MainInvAsio ==
    ASSUME LinkInv, MainInv, NEW c \in Conns, Asio(c)
    PROVE  MainInv'
<1> ConnInv /\ outages \in Nat
  BY DEF LinkInv, LinkTypes
<1>1. CASE ConnectedCallback(c)
  <2>1. TalesKept
    BY <1>1, OpenedStep DEF ConnectedCallback, TalesKept, Missed
  <2>2. QED
    BY <1>1, <2>1, KeepsMain DEF ConnectedCallback, threadVars
<1>2. CASE AsioLibrary(c)
  <2>1. TalesKept
    BY <1>2, LibraryStep, CloseFrameStep DEF AsioLibrary, SameLife, TalesKept
  <2>2. QED
    BY <1>2, <2>1, KeepsMain DEF AsioLibrary, threadVars
<1>3. QED
  BY <1>1, <1>2, MainInvOpen, MainInvLost, MainInvMessage DEF Asio

(* The main thread *)

\* The first event is taken out, and something is sent: the others stay as they were.
LEMMA TakesEvent ==
    ASSUME LinkInv, MainInv, queue # <<>>, queue' = Tail(queue), mpc = "loop",
           TalesKept, UNCHANGED m_wsSocket
    PROVE  /\ QueueTypes'
           /\ AccidentInv' /\ ReportInv'
           /\ \A i \in DOMAIN queue' : Kind(i)' = Kind(i + 1) /\ i + 1 \in DOMAIN queue
           /\ \A i \in DOMAIN queue' : queue'[i] = queue[i + 1] /\ i \in Nat \ {0}
           /\ Kind(1) = Head(queue).type /\ 1 \in DOMAIN queue /\ EventsInv
           /\ Kind(1) # "accident" => NoSilentDeath'
<1> LeavingInv /\ QueueInv /\ QueueTypes
  BY DEF MainInv, QueueInv
<1>1. /\ queue' \in Seq(Event) /\ DOMAIN queue = 1 .. Len(queue) /\ Len(queue) \in Nat \ {0}
      /\ DOMAIN queue' = 1 .. (Len(queue) - 1) /\ Head(queue) = queue[1]
      /\ \A i \in DOMAIN queue' : i + 1 \in DOMAIN queue /\ queue'[i] = queue[i + 1]
  BY TailIndices DEF QueueTypes
<1>2. ~leaving /\ EventsInv
  BY DEF LeavingInv, QueueInv
<1>3. /\ \A i \in DOMAIN queue' : Kind(i)' = Kind(i + 1) /\ i + 1 \in DOMAIN queue
      /\ \A i \in DOMAIN queue' : queue'[i] = queue[i + 1]
      /\ Kind(1) = Head(queue).type
  BY <1>1 DEF Kind
<1>4. 1 \in DOMAIN queue /\ \A i \in DOMAIN queue' : i \in Nat \ {0}
  BY <1>1
<1>5. QueueTypes'
  BY <1>1, <1>3 DEF QueueTypes
<1>6. \A i, j \in DOMAIN queue' : (i + 1 = j + 1 => i = j) /\ (j + 1 <= i + 1 => j <= i)
  BY <1>4
<1>7. m_wsSocket \in Conns \cup {NoConn}
  BY DEF LinkInv, LinkTypes
<1>8. \A i \in DOMAIN queue : Kind(i) = "accident" => m_wsSocket \in Conns
  BY <1>2, <1>7 DEF EventsInv, PresentInv
<1>9. \A i \in DOMAIN queue' : Kind(i)' = "accident" =>
         queue'[i] = Accident(m_wsSocket) /\ Ended(m_wsSocket)'
  BY <1>2, <1>3, <1>8 DEF EventsInv, AccidentInv, TalesKept, Ended
<1>10. AccidentInv'
  BY <1>2, <1>3, <1>6, <1>9 DEF EventsInv, AccidentInv, Accident
<1>11. ReportInv'
  BY <1>2, <1>3, <1>6 DEF EventsInv, ReportInv
<1>12. ASSUME Kind(1) # "accident" PROVE NoSilentDeath'
  <2>1. SUFFICES ASSUME NEW c \in Conns, Ended(c)', "end" \notin conn'[c].deaf
                 PROVE  \E i \in DOMAIN queue' : queue'[i] = Accident(c)
    BY DEF NoSilentDeath, Accident
  <2>2. Ended(c) /\ "end" \notin conn[c].deaf
    BY <2>1 DEF TalesKept, Ended
  <2>3. PICK j \in DOMAIN queue : queue[j] = Accident(c)
    BY <2>2 DEF MainInv, NoSilentDeath
  <2>4. j # 1
    BY <1>12, <2>3 DEF Kind, Accident
  <2>5. j - 1 \in DOMAIN queue' /\ (j - 1) + 1 = j
    BY <1>1, <2>4
  <2>6. queue'[j - 1] = Accident(c)
    BY <1>1, <2>3, <2>5
  <2>7. QED
    BY <2>5, <2>6
<1>13. QED
  BY <1>2, <1>3, <1>4, <1>5, <1>10, <1>11, <1>12

LEMMA MainInvHandlers ==
    ASSUME LinkInv, MainInv, SignInWsService \/ SignIn \/ GameStatusCallback
    PROVE  MainInv'
<1>1. /\ mpc = "loop" /\ queue # <<>> /\ queue' = Tail(queue)
      /\ UNCHANGED <<m_wsSocket, leaving>> /\ mpc' \in {"loop", "restartTimer"}
      /\ Head(queue).type # "accident"
  BY DEF SignInWsService, SignIn, GameStatusCallback, Handles, threadVars, mainVars
<1>2. SameLife
  <2>1. CASE SignIn
    BY <2>1 DEF SignIn, connVars, SameLife
  <2>2. CASE SendCallback
    BY <2>2, SendCallbackStep
  <2>3. QED
    BY <2>1, <2>2 DEF SignInWsService, GameStatusCallback
<1>3. TalesKept
  BY <1>2 DEF SameLife, TalesKept
<1>4. /\ QueueTypes' /\ AccidentInv' /\ ReportInv' /\ NoSilentDeath' /\ EventsInv
      /\ \A i \in DOMAIN queue' : Kind(i)' = Kind(i + 1) /\ i + 1 \in DOMAIN queue
      /\ \A i \in DOMAIN queue' : queue'[i] = queue[i + 1] /\ i \in Nat \ {0}
      /\ Kind(1) = Head(queue).type /\ 1 \in DOMAIN queue
  BY <1>1, <1>3, TakesEvent
<1>5. LeavingInv'
  BY <1>1, <1>3 DEF MainInv, LeavingInv, TalesKept
<1>6. PresentInv'
  BY <1>1, <1>4 DEF EventsInv, PresentInv
<1>7. \A i, j \in DOMAIN queue' : i + 1 = j + 1 => i = j
  BY <1>4
<1>8. \A i, j \in DOMAIN queue' : IsMessage(i)' /\ IsMessage(j)' => i = j
  BY <1>4, <1>7 DEF EventsInv, MessageInv, IsMessage
<1>9. ASSUME NEW i \in DOMAIN queue', IsMessage(i)'
      PROVE  server'[m_wsSocket'] = "quiet" /\ conn'[m_wsSocket'].told # <<>>
  <2>1. i + 1 \in DOMAIN queue /\ IsMessage(i + 1) /\ i + 1 # 1
    BY <1>4, <1>9 DEF IsMessage
  <2>2. m_wsSocket \in Conns
    BY <1>4, <2>1 DEF EventsInv, PresentInv, IsMessage, LinkInv, LinkTypes
  <2>3. server[m_wsSocket] = "quiet" /\ conn[m_wsSocket].told # <<>>
    BY <1>4, <2>1 DEF EventsInv, MessageInv
  <2>4. ~IsMessage(1)
    BY <1>4, <2>1 DEF EventsInv, MessageInv
  <2>5. server' = server
    BY <1>4, <2>4 DEF SignInWsService, SignIn, GameStatusCallback, Handles, IsMessage
  <2>6. QED
    BY <1>1, <1>3, <2>2, <2>3, <2>5 DEF TalesKept
<1>10. MessageInv'
  BY <1>8, <1>9 DEF MessageInv
<1>11. QED
  BY <1>4, <1>5, <1>6, <1>10 DEF MainInv, QueueInv, EventsInv

LEMMA MainInvAccident ==
    ASSUME LinkInv, MainInv, AccidentalTermination
    PROVE  MainInv'
<1>1. /\ mpc = "loop" /\ queue # <<>> /\ queue' = Tail(queue) /\ mpc' = "wait"
      /\ UNCHANGED <<m_wsSocket, leaving, conn>> /\ Head(queue).type = "accident"
  BY DEF AccidentalTermination, QuitThread, Handles, connVars
<1>2. TalesKept
  BY <1>1 DEF TalesKept
<1>3. /\ QueueTypes' /\ AccidentInv' /\ ReportInv' /\ EventsInv
      /\ \A i \in DOMAIN queue' : Kind(i)' = Kind(i + 1) /\ i + 1 \in DOMAIN queue
      /\ \A i \in DOMAIN queue' : queue'[i] = queue[i + 1] /\ i \in Nat \ {0}
      /\ Kind(1) = Head(queue).type /\ 1 \in DOMAIN queue
  BY <1>1, <1>2, TakesEvent
<1>4. m_wsSocket # NoConn /\ Ended(m_wsSocket)
  BY <1>1, <1>3 DEF EventsInv, PresentInv, AccidentInv
<1>5. LeavingInv'
  BY <1>1, <1>4 DEF MainInv, LeavingInv, Ended
<1>6. \A i \in DOMAIN queue' : ~(i + 1 <= 1)
  BY <1>3
<1>7. \A i \in DOMAIN queue' : Kind(i)' = "report"
  BY <1>1, <1>3, <1>6 DEF EventsInv, AccidentInv
<1>8. EventsInv'
  BY <1>3, <1>7 DEF EventsInv, PresentInv, MessageInv, IsMessage
<1>9. NoSilentDeath'
  BY <1>1 DEF NoSilentDeath
<1>10. QED
  BY <1>3, <1>5, <1>8, <1>9 DEF MainInv, QueueInv

LEMMA MainInvExit ==
    ASSUME LinkInv, MainInv, DisconnectWS
    PROVE  MainInv'
<1>1. /\ leaving' /\ queue' = <<>> /\ mpc' = "wait" /\ UNCHANGED conn
  BY DEF DisconnectWS, QuitThread, connVars
<1>2. QueueTypes'
  <2>1. queue' \in Seq(Event) /\ DOMAIN queue' = {}
    BY <1>1
  <2>2. QED
    BY <2>1 DEF QueueTypes
<1>3. LeavingInv'
  BY <1>1 DEF LeavingInv
<1>4. NoSilentDeath'
  BY <1>1 DEF NoSilentDeath
<1>5. QED
  BY <1>1, <1>2, <1>3, <1>4 DEF MainInv, QueueInv

\* The connection of an accident is over: main has nothing to close.
LEMMA MainInvClose ==
    ASSUME LinkInv, MainInv, CloseSocket
    PROVE  MainInv'
<1> ConnInv /\ LeavingInv /\ QueueInv /\ QueueTypes
  BY DEF LinkInv, MainInv, QueueInv
<1>1. /\ UNCHANGED <<leaving, m_wsSocket, queue, server>>
      /\ mpc \in {"close", "sendClose"} /\ mpc' \in {"sendClose", "reset"}
  BY DEF CloseSocket, threadVars
<1>2. CASE ~leaving
  <2>1. mpc = "close" /\ m_wsSocket \in Conns /\ Ended(m_wsSocket) /\ ~conn[m_wsSocket].asked
    BY <1>1, <1>2 DEF LeavingInv, LinkInv, LinkTypes
  <2>2. conn[m_wsSocket].m_state = "closed"
    BY <2>1, EndedFacts
  <2>3. CloseTest(m_wsSocket) /\ mpc' = "reset"
    BY <2>1, <2>2, ConnectionAssumption DEF CloseSocket, Accepts
  <2>4. SameLife
    BY <2>1, <2>2, <2>3, CloseTestStep
  <2>5. LeavingInv'
    BY <1>1, <1>2, <2>1, <2>3, <2>4 DEF LeavingInv, SameLife, Ended
  <2>6. EventsInv /\ \A i \in DOMAIN queue : Kind(i) = "report"
    BY <1>2, <2>1 DEF QueueInv, EventsInv, PresentInv
  <2>7. EventsInv'
    BY <1>1, <2>6 DEF EventsInv, PresentInv, AccidentInv, MessageInv, IsMessage, ReportInv, Kind
  <2>8. QueueTypes' /\ NoSilentDeath'
    BY <1>1, <2>3 DEF QueueTypes, Kind, NoSilentDeath
  <2>9. QED
    BY <2>5, <2>7, <2>8 DEF MainInv, QueueInv
<1>3. CASE leaving
  <2>1. LeavingInv'
    BY <1>1, <1>3 DEF LeavingInv
  <2>2. QueueTypes' /\ NoSilentDeath'
    BY <1>1 DEF QueueTypes, Kind, NoSilentDeath
  <2>3. QED
    BY <1>1, <1>3, <2>1, <2>2 DEF MainInv, QueueInv
<1>4. QED
  BY <1>2, <1>3

LEMMA MainInvReset ==
    ASSUME LinkInv, MainInv, ResetSocket
    PROVE  MainInv'
<1> ConnInv /\ LeavingInv /\ QueueInv /\ QueueTypes
  BY DEF LinkInv, MainInv, QueueInv
<1>1. /\ UNCHANGED <<leaving, queue, server>> /\ mpc = "reset" /\ mpc' = "reconnect"
  BY DEF ResetSocket
<1>2. \A d \in Conns : conn'[d] = NoObject
  <2>1. \A d \in Conns : d # m_wsSocket => conn[d] = NoObject
    BY DEF LinkInv, SocketInv, ConnInv, ObjectOK
  <2>2. CASE m_wsSocket = NoConn
    BY <2>1, <2>2, ConnectionAssumption DEF ResetSocket
  <2>3. CASE m_wsSocket # NoConn
    BY <2>1, <2>3, DestroyStep DEF ResetSocket, LinkInv, LinkTypes
  <2>4. QED
    BY <2>2, <2>3
<1>3. \A d \in Conns : conn'[d].told = <<>> /\ ~conn'[d].asked
  BY <1>2 DEF NoObject
<1>4. LeavingInv'
  BY <1>1, <1>3 DEF LeavingInv
<1>5. ASSUME ~leaving PROVE EventsInv'
  <2>1. EventsInv /\ \A i \in DOMAIN queue : Kind(i) = "report"
    BY <1>1, <1>5 DEF QueueInv, EventsInv, PresentInv
  <2>2. QED
    BY <1>1, <2>1 DEF EventsInv, PresentInv, AccidentInv, MessageInv, IsMessage, ReportInv, Kind
<1>6. QueueTypes' /\ NoSilentDeath'
  BY <1>1, <1>3 DEF QueueTypes, Kind, NoSilentDeath, Ended
<1>7. QED
  BY <1>1, <1>4, <1>5, <1>6 DEF MainInv, QueueInv

LEMMA MainInvTimer ==
    ASSUME LinkInv, MainInv, RestartReportTimer
    PROVE  MainInv'
<1>1. /\ TalesKept /\ UNCHANGED <<m_wsSocket, leaving, queue, server>>
      /\ mpc = "restartTimer" /\ mpc' = "loop"
  BY SendCallbackStep DEF RestartReportTimer, SameLife, TalesKept, threadVars
<1>2. LeavingInv'
  BY <1>1 DEF MainInv, LeavingInv, TalesKept
<1>3. QueueTypes'
  BY <1>1 DEF MainInv, QueueInv, QueueTypes, Kind
<1>4. ~leaving => PresentInv'
  BY <1>1 DEF MainInv, QueueInv, EventsInv, PresentInv, Kind
<1>5. ~leaving => AccidentInv' /\ MessageInv' /\ ReportInv'
  BY <1>1, <1>4 DEF MainInv, QueueInv, EventsInv, PresentInv, AccidentInv, MessageInv,
    ReportInv, Kind, IsMessage, TalesKept, LinkInv, LinkTypes, Accident, Ended
<1>6. NoSilentDeath'
  BY <1>1 DEF MainInv, NoSilentDeath, TalesKept, Accident, Ended
<1>7. QED
  BY <1>1, <1>2, <1>3, <1>4, <1>5, <1>6 DEF MainInv, QueueInv, EventsInv

LEMMA MainInvTurns ==
    ASSUME LinkInv, MainInv, ThreadFinished \/ Reconnect \/ Exited
    PROVE  MainInv'
<1> LeavingInv /\ QueueInv /\ QueueTypes /\ NoSilentDeath
  BY DEF LinkInv, MainInv, QueueInv
<1>1. /\ UNCHANGED <<conn, m_wsSocket, leaving, queue, server>>
      /\ \/ mpc = "wait" /\ mpc' = "close"
         \/ mpc = "reconnect" /\ mpc' = "loop" /\ ~leaving
         \/ mpc = "reconnect" /\ mpc' = "exited" /\ leaving
  BY DEF ThreadFinished, Reconnect, Exited, threadVars, connVars
<1>2. LeavingInv'
  BY <1>1 DEF LeavingInv, Ended
<1>3. QueueTypes'
  BY <1>1 DEF QueueTypes, Kind
<1>4. ASSUME ~leaving PROVE EventsInv'
  BY <1>1, <1>4 DEF QueueInv, EventsInv, PresentInv, AccidentInv, MessageInv, IsMessage,
    ReportInv, Kind, Accident, Ended
<1>5. mpc = "reconnect" => \A c \in Conns : ~Ended(c)
  BY EndedFacts, ConnectionAssumption DEF LinkInv, TurnsInv, SocketInv
<1>6. NoSilentDeath'
  BY <1>1, <1>5 DEF NoSilentDeath, Ended, Accident
<1>7. QED
  BY <1>1, <1>2, <1>3, <1>4, <1>6 DEF MainInv, QueueInv

(* The timer, the sign-in threads and the network *)

LEMMA MainInvTick ==
    ASSUME LinkInv, MainInv, Tick
    PROVE  MainInv'
<1> LeavingInv /\ QueueInv /\ QueueTypes /\ NoSilentDeath
  BY DEF LinkInv, MainInv, QueueInv
<1> DEFINE n == Len(queue)
<1>1. /\ Post(Report) /\ \A i \in DOMAIN queue : queue[i] # Report
      /\ UNCHANGED <<conn, m_wsSocket, mpc, leaving, server>>
  BY DEF Tick, connVars, threadVars, mainVars
<1>2. /\ queue' \in Seq(Event) /\ DOMAIN queue = 1 .. n /\ n \in Nat
      /\ DOMAIN queue' = 1 .. (n + 1) /\ queue'[n + 1] = Report
      /\ \A i \in DOMAIN queue : queue'[i] = queue[i]
  BY <1>1, EventTypes, PostIndices DEF QueueTypes
<1> HIDE DEF n
<1>3. Report.type = "report"
  BY DEF Report
<1>4. \A i \in DOMAIN queue' :
        \/ i \in DOMAIN queue /\ Kind(i)' = Kind(i) /\ queue'[i] = queue[i] /\ Kind(i) # "report"
        \/ i = n + 1 /\ Kind(i)' = "report" /\ queue'[i] = Report
  BY <1>1, <1>2, <1>3 DEF QueueTypes, Kind
<1>5. QueueTypes'
  BY <1>2, <1>4 DEF QueueTypes
<1>6. LeavingInv'
  BY <1>1 DEF LeavingInv, Ended
<1>7. ASSUME ~leaving PROVE EventsInv'
  <2>1. EventsInv
    BY <1>7 DEF QueueInv
  <2>2. PresentInv'
    BY <1>1, <1>4, <2>1 DEF EventsInv, PresentInv
  <2>3. AccidentInv'
    BY <1>1, <1>4, <2>1 DEF EventsInv, AccidentInv, Ended, Accident
  <2>4. \A i \in DOMAIN queue' : IsMessage(i)' => i \in DOMAIN queue /\ IsMessage(i)
    BY <1>4 DEF IsMessage
  <2>5. MessageInv'
    BY <1>1, <2>1, <2>4 DEF EventsInv, MessageInv
  <2>6. ReportInv'
    BY <1>4 DEF ReportInv
  <2>7. QED
    BY <2>2, <2>3, <2>5, <2>6 DEF EventsInv
<1>8. \A i \in DOMAIN queue : i \in DOMAIN queue'
  BY <1>2
<1>9. NoSilentDeath'
  BY <1>1, <1>2, <1>8 DEF NoSilentDeath, Ended, Accident
<1>10. QED
  BY <1>1, <1>5, <1>6, <1>7, <1>9 DEF MainInv, QueueInv

LEMMA MainInvInit == Init => MainInv
<1> SUFFICES ASSUME Init PROVE MainInv
  OBVIOUS
<1>1. queue \in Seq(Event) /\ DOMAIN queue = {}
  BY DEF Init
<1>2. QueueTypes /\ EventsInv
  BY <1>1 DEF QueueTypes, EventsInv, PresentInv, AccidentInv, MessageInv, ReportInv
<1>3. \A c \in Conns : conn[c].told = <<>> /\ ~conn[c].asked
  BY DEF Init, ConnInit, NoObject
<1>4. LeavingInv /\ NoSilentDeath
  BY <1>3 DEF Init, LeavingInv, NoSilentDeath, Ended
<1>5. QED
  BY <1>2, <1>4 DEF MainInv, QueueInv

LEMMA MainInvStep == LinkInv /\ MainInv /\ [Next]_vars => MainInv'
<1> SUFFICES ASSUME LinkInv, MainInv, [Next]_vars PROVE MainInv'
  OBVIOUS
<1>1. CASE Main
  BY <1>1, MainInvHandlers, MainInvAccident, MainInvClose, MainInvReset, MainInvTimer, MainInvTurns DEF Main
<1>2. CASE Network
  <2>1. TalesKept
    BY <1>2, NetworkStep DEF Network, LinkInv, LinkTypes, SameLife, TalesKept
  <2>2. QED
    BY <1>2, <2>1, KeepsMain DEF Network, threadVars
<1>3. CASE (\E s \in Sessions : SignInCloudGameCallback(s)) \/ UNCHANGED vars
  <2>1. UNCHANGED <<connVars, threadVars, mainVars, queue, server>>
    BY <1>3 DEF SignInCloudGameCallback, vars
  <2>2. QED
    BY <2>1, KeepsMain DEF TalesKept, connVars, threadVars
<1>4. QED
  BY <1>1, <1>2, <1>3, MainInvRun, MainInvExit, MainInvTick, MainInvAsio DEF Next

-------------------------------------------------------------------------------
(* SessionInv: which session is stored *)

LEMMA SessionInvInit == Init => SessionInv
<1> SUFFICES ASSUME Init PROVE SessionInv
  OBVIOUS
<1>1. DOMAIN queue = {}
  BY DEF Init
<1>2. QED
  BY <1>1 DEF Init, SessionInv

\* A session in the queue is one that the service gave out.
RepliesInv == \A i \in DOMAIN queue : Kind(i) = "reply" => queue[i].session \in Sessions

\* One more event does not change that ...
LEMMA PostReplies ==
    ASSUME QueueTypes, RepliesInv, NEW e \in Event, e.type = "reply" => e.session \in Sessions,
           Post(e)
    PROVE  RepliesInv'
<1> DEFINE n == Len(queue)
<1>1. /\ DOMAIN queue = 1 .. n /\ n \in Nat
      /\ DOMAIN queue' = 1 .. (n + 1) /\ queue'[n + 1] = e
      /\ \A i \in DOMAIN queue : queue'[i] = queue[i]
  BY PostIndices DEF QueueTypes
<1> HIDE DEF n
<1>2. \A i \in DOMAIN queue' : i \in DOMAIN queue \/ i = n + 1
  BY <1>1
<1>3. QED
  BY <1>1, <1>2 DEF RepliesInv, Kind

\* ... and neither does one less.
LEMMA TailReplies ==
    ASSUME QueueTypes, RepliesInv, queue # <<>>, queue' = Tail(queue)
    PROVE  /\ RepliesInv'
           /\ Head(queue).type = "reply" => Head(queue).session \in Sessions
<1>1. /\ DOMAIN queue = 1 .. Len(queue) /\ Len(queue) \in Nat \ {0} /\ Head(queue) = queue[1]
      /\ \A i \in DOMAIN queue' : i + 1 \in DOMAIN queue /\ queue'[i] = queue[i + 1]
  BY TailIndices DEF QueueTypes
<1>2. 1 \in DOMAIN queue
  BY <1>1
<1>3. QED
  BY <1>1, <1>2 DEF RepliesInv, Kind

LEMMA RepliesStep ==
    ASSUME LinkInv, MainInv, RepliesInv, [Next]_vars
    PROVE  RepliesInv'
<1> QueueTypes
  BY DEF MainInv, QueueInv
<1>1. CASE UNCHANGED queue
  BY <1>1 DEF RepliesInv, Kind
<1>2. CASE queue # <<>> /\ queue' = Tail(queue)
  BY <1>2, TailReplies
<1>3. CASE queue' = <<>>
  <2>1. DOMAIN queue' = {}
    BY <1>3
  <2>2. QED
    BY <2>1 DEF RepliesInv
<1>4. CASE \E e \in Event : Post(e) /\ (e.type = "reply" => e.session \in Sessions)
  BY <1>4, PostReplies
<1>5. ASSUME NEW c \in Conns, Asio(c)
      PROVE  UNCHANGED queue \/ \E e \in Event : Post(e) /\ (e.type = "reply" => e.session \in Sessions)
  <2>1. \/ UNCHANGED queue \/ Post(Accident(c)) \/ Post(Greeting(c))
        \/ \E s \in Sessions : Post(Reply(c, s))
    BY <1>5 DEF Asio, ServiceGreets, ConnectedCallback, ConnectionLost, MessageCallback, AsioLibrary
  <2>2. CASE Post(Accident(c)) \/ Post(Greeting(c))
    BY <2>2, EventTypes DEF Accident, Greeting
  <2>3. CASE \E s \in Sessions : Post(Reply(c, s))
    <3>1. PICK s \in Sessions : Post(Reply(c, s))
      BY <2>3
    <3>2. Reply(c, s) \in Event /\ Reply(c, s).session \in Sessions
      BY EventTypes DEF Reply
    <3>3. QED
      BY <3>1, <3>2
  <2>4. QED
    BY <2>1, <2>2, <2>3
<1>6. CASE Tick
  <2>1. Post(Report) /\ Report \in Event /\ Report.type # "reply"
    BY <1>6, EventTypes DEF Tick, Report
  <2>2. QED
    BY <1>4, <2>1
<1>7. CASE Main \/ DisconnectWS
  BY <1>1, <1>2, <1>3, <1>7 DEF Main, DisconnectWS, SignInWsService, SignIn, RestartReportTimer,
    GameStatusCallback, AccidentalTermination, ThreadFinished, CloseSocket, ResetSocket, Reconnect,
    Exited, Handles
<1>8. CASE Run \/ Network \/ (\E s \in Sessions : SignInCloudGameCallback(s)) \/ UNCHANGED vars
  BY <1>1, <1>8 DEF Run, RunCreate, RunConnect, RunSetCallback, RunExec, Network,
    SignInCloudGameCallback, vars
<1>9. QED
  BY <1>1, <1>4, <1>5, <1>6, <1>7, <1>8 DEF Next

LEMMA SessionInvStep == LinkInv /\ MainInv /\ SessionInv /\ [Next]_vars => SessionInv'
<1> SUFFICES ASSUME LinkInv, MainInv, SessionInv, [Next]_vars PROVE SessionInv'
  OBVIOUS
<1>1. RepliesInv
  BY DEF SessionInv, RepliesInv
<1>2. RepliesInv'
  BY <1>1, RepliesStep
<1>3. CASE UNCHANGED sessionVars
  BY <1>2, <1>3 DEF SessionInv, RepliesInv, sessionVars
<1>4. CASE SignIn
  <2>1. /\ overlapped' = (overlapped \/ signing # {}) /\ lastReply' = Head(queue).session
        /\ signing' = signing \cup {Head(queue).session} /\ UNCHANGED <<m_sessionId, timer>>
        /\ Head(queue).session \in Sessions
    BY <1>1, <1>4, TailReplies DEF SignIn, Handles, MainInv, QueueInv
  <2>2. overlapped' \in BOOLEAN /\ (~overlapped' => signing = {})
    BY <2>1 DEF SessionInv
  <2>3. signing' \subseteq Sessions /\ signing' # {} /\ (~overlapped' => signing' = {lastReply'})
    BY <2>1, <2>2 DEF SessionInv
  <2>4. QED
    BY <1>2, <2>1, <2>2, <2>3 DEF SessionInv, RepliesInv
<1>5. CASE RestartReportTimer
  BY <1>2, <1>5 DEF RestartReportTimer, SessionInv, RepliesInv
<1>6. ASSUME NEW s \in Sessions, SignInCloudGameCallback(s)
      PROVE  SessionInv'
  <2>1. /\ s \in signing /\ m_sessionId' = s /\ signing' = signing \ {s}
        /\ UNCHANGED <<overlapped, lastReply, timer>>
    BY <1>6 DEF SignInCloudGameCallback
  <2>2. ~overlapped => s = lastReply /\ signing' = {}
    BY <2>1 DEF SessionInv
  <2>3. QED
    BY <1>2, <2>1, <2>2 DEF SessionInv, RepliesInv
<1>7. QED
  BY <1>3, <1>4, <1>5, <1>6 DEF Next, Run, RunCreate, RunConnect, RunSetCallback, RunExec, Main,
    SignInWsService, GameStatusCallback, AccidentalTermination, ThreadFinished, CloseSocket,
    ResetSocket, Reconnect, Exited, DisconnectWS, Tick, Network, Asio, ServiceGreets,
    ConnectedCallback, ConnectionLost, MessageCallback, AsioLibrary, vars

-------------------------------------------------------------------------------
(* The theorems *)

\* IInv holds in every reachable state of the link.
THEOREM LinkInvariant == Spec => []IInv
<1>1. Init => IInv
  BY LinkInvInit, MainInvInit, SessionInvInit DEF IInv
<1>2. IInv /\ [Next]_vars => IInv'
  BY LinkInvStep, MainInvStep, SessionInvStep DEF IInv
<1>3. QED
  BY <1>1, <1>2, PTL DEF Spec

\* The types of the objects, the queue, the threads and the session; while main
\* handles events no two of them are the same.
THEOREM TypeCorrect == Spec => []TypeOK
<1>1. IInv => TypeOK
  <2> SUFFICES ASSUME IInv PROVE TypeOK
    OBVIOUS
  <2>1. ASSUME ~leaving PROVE IsInjective(queue)
    <3> EventsInv /\ QueueTypes
      BY <2>1 DEF IInv, MainInv, QueueInv
    <3>1. SUFFICES ASSUME NEW i \in DOMAIN queue, NEW j \in DOMAIN queue, queue[i] = queue[j]
                   PROVE  i = j
      BY DEF IsInjective
    <3>2. Kind(i) = Kind(j)
      BY <3>1 DEF Kind
    <3>3. CASE Kind(i) = "accident"
      <4>1. i <= j /\ j <= i
        BY <3>2, <3>3 DEF EventsInv, AccidentInv
      <4>2. i \in Nat /\ j \in Nat
        BY DEF QueueTypes
      <4>3. QED
        BY <4>1, <4>2
    <3>4. CASE Kind(i) # "accident"
      <4>1. Kind(i) \in {"greeting", "reply", "report"}
        BY <3>4, KindOf
      <4>2. QED
        BY <3>2, <4>1 DEF EventsInv, MessageInv, IsMessage, ReportInv
    <3>5. QED
      BY <3>3, <3>4
  <2>2. QED
    BY <2>1 DEF IInv, LinkInv, LinkTypes, ConnInv, MainInv, QueueInv, QueueTypes, SessionInv,
      TypeOK, ConnTypeOK
<1>2. QED
  BY <1>1, LinkInvariant, PTL

\* run() never overwrites a pointer whose object lives on.
THEOREM OneConnectionOnly == Spec => []OneConnection
<1>1. IInv => OneConnection
  BY DEF IInv, LinkInv, SocketInv, OneConnection
<1>2. QED
  BY <1>1, LinkInvariant, PTL

\* An accident is handled while the connection that had it is the current one, and
\* nothing has replaced that connection since.
THEOREM HealthyConnectionKept == Spec => []HealthyKept
<1>1. IInv => HealthyKept
  BY DEF IInv, MainInv, LeavingInv, HealthyKept
<1>2. QED
  BY <1>1, LinkInvariant, PTL

\* Every end that meets a set m_outter becomes an accident that main handles.
THEOREM EveryDeathNoticed == Spec => []NoSilentDeath
<1>1. IInv => NoSilentDeath
  BY DEF IInv, MainInv
<1>2. QED
  BY <1>1, LinkInvariant, PTL

\* No greeting or reply waits longer than its connection lives.
THEOREM MessagesAreCurrent == Spec => []NoStaleMessage
<1>1. IInv => NoStaleMessage
  BY DEF IInv, MainInv, QueueInv, EventsInv, PresentInv, Kind, NoStaleMessage
<1>2. QED
  BY <1>1, LinkInvariant, PTL

\* Sign-in threads that never overlap leave the session of the last reply.
THEOREM SessionIsCurrent == Spec => []SessionCurrent
<1>1. IInv => SessionCurrent
  BY DEF IInv, SessionInv, SessionCurrent
<1>2. QED
  BY <1>1, LinkInvariant, PTL

\* DisconnectWS leaves neither the thread nor a connection behind.
THEOREM QuietWhenExited == Spec => []QuietAfterExit
<1>1. IInv => QuietAfterExit
  BY ConnectionAssumption DEF IInv, LinkInv, TurnsInv, SocketInv, QuietAfterExit
<1>2. QED
  BY <1>1, LinkInvariant, PTL

-------------------------------------------------------------------------------
(* The refinement *)

LEMMA StepImplementsLife == LinkInv /\ [Next]_vars => LifeStep
<1> SUFFICES ASSUME LinkInv, [Next]_vars PROVE LifeStep
  OBVIOUS
<1> ConnInv /\ LinkTypes
  BY DEF LinkInv
<1>1. CASE conn' = conn
  BY <1>1, SameLifeStutters DEF SameLife
<1>2. CASE Run
  <2>1. CASE RunCreate
    BY <2>1, ConstructLife DEF RunCreate
  <2>2. CASE RunConnect
    <3>1. m_wsSocket \in Conns /\ conn[m_wsSocket].m_state = "none" /\ conn[m_wsSocket].alive
      BY <2>2, SocketFresh DEF RunConnect, LinkInv, SocketInv
    <3>2. QED
      BY <2>2, <3>1, ConnectStep, SameLifeStutters DEF RunConnect
  <2>3. CASE RunSetCallback
    <3>1. m_wsSocket \in Conns /\ conn[m_wsSocket].alive
      BY <2>3 DEF RunSetCallback, LinkInv, SocketInv, TurnsInv, LinkTypes
    <3>2. QED
      BY <2>3, <3>1, SetCallbackLife DEF RunSetCallback
  <2>4. QED
    BY <1>1, <1>2, <2>1, <2>2, <2>3 DEF Run, RunExec, connVars
<1>3. ASSUME NEW c \in Conns, Asio(c) PROVE LifeStep
  <2>1. CASE AsioLibrary(c)
    BY <2>1, LibraryStep, CloseFrameStep, SameLifeStutters DEF AsioLibrary, LinkTypes
  <2>2. CASE ConnectedCallback(c)
    BY <2>2, OpenedLife DEF ConnectedCallback
  <2>3. QED
    BY <1>3, <2>1, <2>2, OnOpenLife, OnMessageLife, OnEndLife
      DEF Asio, ServiceGreets, ConnectionLost, MessageCallback
<1>4. CASE SignInWsService \/ GameStatusCallback \/ RestartReportTimer
  BY <1>4, SendCallbackStep, SameLifeStutters
     DEF SignInWsService, GameStatusCallback, RestartReportTimer
<1>5. CASE CloseSocket
  <2>1. CASE mpc = "close" /\ m_wsSocket # NoConn
    BY <1>5, <2>1, CloseTestLife DEF CloseSocket, LinkTypes
  <2>2. CASE mpc = "sendClose"
    BY <1>5, <2>2, CloseSendStep, SameLifeStutters DEF CloseSocket
  <2>3. QED
    BY <1>1, <1>5, <2>1, <2>2 DEF CloseSocket
<1>6. CASE ResetSocket
  BY <1>1, <1>6, DestroyLife DEF ResetSocket, LinkTypes
<1>7. CASE Network
  BY <1>7, NetworkStep, SameLifeStutters DEF Network, LinkTypes
<1>8. CASE \/ SignIn \/ AccidentalTermination \/ ThreadFinished
           \/ Reconnect \/ Exited \/ DisconnectWS \/ Tick
           \/ (\E s \in Sessions : SignInCloudGameCallback(s)) \/ UNCHANGED vars
  BY <1>1, <1>8 DEF SignIn, AccidentalTermination, ThreadFinished,
    Reconnect, Exited, DisconnectWS, Tick, SignInCloudGameCallback, connVars, vars
<1>9. QED
  BY <1>2, <1>3, <1>4, <1>5, <1>6, <1>7, <1>8 DEF Next, Main

\* What the service link sees of its connections is what ConnectionLife promises.
THEOREM ServiceSeesLife == Spec => ImplementsLife
<1>1. Init => Life!Init
  BY ConnInitLife DEF Init
<1>2. IInv /\ [Next]_vars => [Life!Next]_(Life!vars)
  BY StepImplementsLife DEF IInv, LifeStep
<1>3. QED
  BY <1>1, <1>2, LinkInvariant, PTL DEF Spec, ImplementsLife, Life!Spec
===============================================================================
