-------------------------- MODULE KeyboardLinkProofs --------------------------
(* Proofs about KeyboardLink, for any number of connection objects, of reconnect
   threads and of outages, and a stop at any moment.

   Nothing locks what the threads share, so most of what is true of the link is
   true only of threads that take turns.  The invariant has three parts: BaseInv
   holds whatever races; RaceInv says that a reconnect thread that meets a stop
   or a ping is on record; and while there is no such record, or the owner has
   not begun to stop the link (Sound), the threads take turns (TurnsInv). *)
EXTENDS KeyboardLink, ConnectionProofs

OwnerPlaces == Stopping \cup {"idle", "device", "pingThread", "pingConnect", "start", "started",
                             "stopped", "gone"}
RunPlaces == {"stopped", "test", "close", "sendClose", "reset", "create", "connect", "callback",
              "exec"}
ReconnectPlaces == {"none", "quit", "wait", "test", "close", "sendClose", "reset", "start"}
Places == OwnerPlaces \cup RunPlaces \cup ReconnectPlaces

\* Every thread keeps to its own places.
AtTypes ==
    /\ at \in [Threads -> Places]
    /\ at[Owner] \in OwnerPlaces /\ at[RunThread] \in RunPlaces
    /\ \A r \in Reconnectors : at[r] \in ReconnectPlaces

Scalars ==
    /\ serverUp \in BOOLEAN /\ outages \in Nat
    /\ m_wsBoostSocket \in Conns \cup {NoConn}
    /\ destroying \in BOOLEAN /\ quitAsked \in BOOLEAN /\ raced \in BOOLEAN
    /\ crashed \in {"no", "null socket", "freed", "destroyed while running"}

Late(c) == conn[c].m_state \in {"open", "closing", "closed"}

\* Whatever races, the pointer leads to an object that exists, and to a new one
\* where run() is about to connect it.
ObjectInv ==
    /\ m_wsBoostSocket # NoConn => conn[m_wsBoostSocket].alive
    /\ at[RunThread] = "connect" /\ m_wsBoostSocket # NoConn =>
         conn[m_wsBoostSocket].m_state = "none"
    /\ login \subseteq {c \in Conns : Late(c)}

\* The thread of the timer runs between StartDevice and KeyMouseClose.
Pinging == {"pingConnect", "start", "started", "stopPing", "waitPing"}

PingInv ==
    /\ device \in {"none", "open", "failed", "closed"} /\ pingConnected \in BOOLEAN
    /\ pingThread \in {"none", "starting", "running"}
    /\ ping \in {"off", "waiting", "sending"}
    /\ ping # "off" => pingThread = "running"
    /\ pingThread # "none" => at[Owner] \in Pinging
    /\ at[Owner] \in Pinging \cup {"pingThread", "closeDevice"} => device \in {"open", "failed"}

BaseInv == AtTypes /\ Scalars /\ ConnInv /\ ObjectInv /\ PingInv

\* The owner has not begun to stop the link.
Calm == at[Owner] \notin Stopping \cup {"stopped", "gone"}

\* The threads still take turns: no reconnect thread has met a stop.  (A ping alone
\* disturbs nothing but the process that it can kill.)
Sound == Calm \/ ~raced

RunInv ==
    /\ at[RunThread] \in {"test", "create"} => m_wsBoostSocket = NoConn
    /\ at[RunThread] \notin {"close", "sendClose", "reset"}
    /\ at[RunThread] \in {"connect", "callback", "exec"} => m_wsBoostSocket # NoConn

OwnerInv ==
    /\ Calm /\ at[Owner] # "started" =>
         at[RunThread] = "stopped" /\ m_wsBoostSocket = NoConn /\ ~Reconnecting
    /\ at[Owner] \in {"test", "close", "sendClose", "reset", "stopped", "gone"} =>
         at[RunThread] = "stopped"
    /\ at[Owner] \in {"close", "sendClose", "reset"} => m_wsBoostSocket # NoConn
    /\ at[Owner] \in {"stopped", "gone"} => m_wsBoostSocket = NoConn
    /\ destroying => at[Owner] \in {"test", "gone"} /\ m_wsBoostSocket = NoConn

\* A reconnect thread works on a connection that has ended, alone.
ReconnectInv ==
    /\ \A q, r \in Reconnectors : at[q] # "none" /\ at[r] # "none" => q = r
    /\ \A q \in Reconnectors :
         /\ at[q] \in {"quit", "wait"} => at[RunThread] \in {"exec", "stopped"}
         /\ at[q] \in {"test", "close", "reset", "start"} => at[RunThread] = "stopped"
         /\ at[q] \in {"quit", "wait", "test", "close", "reset"} =>
              m_wsBoostSocket # NoConn /\ Ended(m_wsBoostSocket)
         /\ at[q] # "sendClose"
         /\ at[q] = "start" => m_wsBoostSocket = NoConn

LifeInv ==
    /\ \A c \in Conns : conn[c].alive => c = m_wsBoostSocket
    /\ \A c \in Conns : conn[c].m_outter => at[RunThread] \in {"exec", "stopped"}
    /\ \A c \in Conns : conn[c].asked => at[Owner] \in {"sendClose", "reset"}
    /\ Calm /\ ~Reconnecting => \A c \in Conns : Ended(c) => "end" \in conn[c].deaf

TurnsInv == RunInv /\ OwnerInv /\ ReconnectInv /\ LifeInv

\* A reconnect thread that meets a stop or a ping is on record, and so is every death.
RaceInv ==
    /\ Reconnecting /\ Meets => raced
    /\ ~raced /\ ping = "sending" => m_wsBoostSocket # NoConn
    /\ OnlyRacesCrash

IInv == BaseInv /\ RaceInv /\ (Sound => TurnsInv)

-------------------------------------------------------------------------------
(* Where the threads are *)

LEMMA ThreadsDiffer ==
    /\ Owner # RunThread /\ Owner \notin Reconnectors /\ RunThread \notin Reconnectors
    /\ Owner \in Threads /\ RunThread \in Threads /\ Reconnectors \subseteq Threads
    /\ \A t \in Threads : t = Owner \/ t = RunThread \/ t \in Reconnectors
  BY KeyboardLinkAssumption DEF Threads

\* The places a thread may go to.
Allowed(t) ==
    CASE t = Owner -> OwnerPlaces [] t = RunThread -> RunPlaces [] OTHER -> ReconnectPlaces

LEMMA AllowedPlaces ==
    /\ Allowed(Owner) = OwnerPlaces /\ Allowed(RunThread) = RunPlaces
    /\ \A r \in Reconnectors : Allowed(r) = ReconnectPlaces
    /\ \A t \in Threads : Allowed(t) \subseteq Places
  BY ThreadsDiffer DEF Allowed, Places

LEMMA OneGoes ==
    ASSUME AtTypes, NEW t \in Threads, NEW p \in Allowed(t), Goes(t, p)
    PROVE  /\ AtTypes' /\ at'[t] = p
           /\ \A u \in Threads \ {t} : at'[u] = at[u]
<1>1. at' = [at EXCEPT ![t] = p] /\ p \in Places
  BY AllowedPlaces DEF Goes
<1>2. at' \in [Threads -> Places] /\ at'[t] = p /\ \A u \in Threads \ {t} : at'[u] = at[u]
  BY <1>1 DEF AtTypes
<1>3. QED
  BY <1>2, ThreadsDiffer, AllowedPlaces DEF AtTypes

\* QThread::start: the caller goes on, and the thread starts if it is not running.
LEMMA StartGoes ==
    ASSUME AtTypes, NEW t \in Threads \ {RunThread}, NEW p \in Allowed(t), StartThread(t, p),
           quitAsked \in BOOLEAN
    PROVE  /\ AtTypes' /\ at'[t] = p /\ quitAsked' \in BOOLEAN
           /\ at'[RunThread] = IF at[RunThread] = "stopped" THEN "test" ELSE at[RunThread]
           /\ \A u \in Threads \ {t, RunThread} : at'[u] = at[u]
<1>1. CASE at[RunThread] = "stopped"
  <2>1. at' = [at EXCEPT ![t] = p, ![RunThread] = "test"] /\ p \in Places /\ "test" \in Places
        /\ quitAsked' = FALSE
    BY <1>1, AllowedPlaces DEF StartThread, Places, RunPlaces
  <2>2. /\ at' \in [Threads -> Places] /\ at'[t] = p /\ at'[RunThread] = "test"
        /\ \A u \in Threads \ {t, RunThread} : at'[u] = at[u]
    BY <2>1, ThreadsDiffer DEF AtTypes
  <2>3. AtTypes'
    BY <2>2, ThreadsDiffer, AllowedPlaces DEF AtTypes, RunPlaces
  <2>4. QED
    BY <1>1, <2>1, <2>2, <2>3
<1>2. CASE at[RunThread] # "stopped"
  BY <1>2, OneGoes, ThreadsDiffer DEF StartThread
<1>3. QED
  BY <1>1, <1>2

\* Where the work on the socket leaves a thread.
LEMMA AfterSocketPlace ==
    /\ AfterSocket(Owner) = IF destroying THEN "gone" ELSE "stopped"
    /\ AfterSocket(RunThread) = "create"
    /\ \A r \in Reconnectors : AfterSocket(r) = "start"
    /\ \A t \in Threads : AfterSocket(t) \in Allowed(t)
<1>1. /\ AfterSocket(Owner) = IF destroying THEN "gone" ELSE "stopped"
      /\ AfterSocket(RunThread) = "create"
      /\ \A r \in Reconnectors : AfterSocket(r) = "start"
  BY ThreadsDiffer DEF AfterSocket
<1>2. QED
  BY <1>1, ThreadsDiffer, AllowedPlaces DEF OwnerPlaces, RunPlaces, ReconnectPlaces

-------------------------------------------------------------------------------
(* BaseInv: what holds whatever races *)

\* What becomes of the objects while none is created, connected or destroyed.
ObjectsKept ==
    \A d \in Conns :
        /\ conn'[d].alive = conn[d].alive
        /\ conn[d].m_state = "none" => conn'[d].m_state = "none"
        /\ Late(d) => Late(d)'

LEMMA KeepsBase ==
    ASSUME BaseInv, ConnInv', ObjectsKept, AtTypes', Scalars', PingInv',
           UNCHANGED <<m_wsBoostSocket, login>>,
           at'[RunThread] = "connect" => at[RunThread] = "connect"
    PROVE  BaseInv'
<1>1. ObjectInv'
  BY DEF BaseInv, ObjectInv, ObjectsKept, Scalars
<1>2. QED
  BY <1>1 DEF BaseInv

\* The owner stays where it was, or moves between places that the timer's thread does not
\* outlive.
LEMMA PingKept ==
    ASSUME PingInv, UNCHANGED <<pingVars, device>>,
           \/ at'[Owner] = at[Owner]
           \/ /\ at[Owner] \notin Pinging
              /\ at'[Owner] \notin Pinging \cup {"pingThread", "closeDevice"}
    PROVE  PingInv'
  BY DEF PingInv, pingVars, Pinging

LEMMA SameConn ==
    ASSUME ConnInv, UNCHANGED conn
    PROVE  ConnInv' /\ ObjectsKept
  BY DEF ConnInv, ObjectsKept, Late

LEMMA BaseOwner ==
    ASSUME BaseInv, raced' \in BOOLEAN,
           \/ StartDevice \/ StartKeyPingTimer \/ Start \/ Stop \/ StopKeyPingTImer
           \/ KeyMouseClose \/ Destructor
    PROVE  BaseInv'
<1> AtTypes /\ Scalars /\ ConnInv /\ ObjectInv /\ PingInv
  BY DEF BaseInv
<1>1. UNCHANGED <<connVars, m_wsBoostSocket, login, crashed>>
  BY DEF StartDevice, StartKeyPingTimer, Start, Stop, StopKeyPingTImer, KeyMouseClose, Destructor
<1>2. CASE Start
  <2>1. "started" \in Allowed(Owner) /\ Owner \in Threads \ {RunThread}
    BY ThreadsDiffer, AllowedPlaces DEF OwnerPlaces
  <2>2. /\ AtTypes' /\ at'[Owner] = "started" /\ quitAsked' \in BOOLEAN
        /\ at'[RunThread] = IF at[RunThread] = "stopped" THEN "test" ELSE at[RunThread]
    BY <1>2, <2>1, StartGoes DEF Start, Scalars
  <2>3. Scalars' /\ PingInv'
    BY <1>1, <1>2, <2>2 DEF Start, Scalars, PingInv, pingVars, connVars, Pinging
  <2>4. QED
    BY <1>1, <2>2, <2>3, SameConn, KeepsBase DEF connVars
<1>3. ASSUME StartDevice \/ StartKeyPingTimer \/ Stop \/ StopKeyPingTImer \/ KeyMouseClose \/ Destructor
      PROVE  BaseInv'
  <2>1. PICK p \in OwnerPlaces : Goes(Owner, p)
    BY <1>3 DEF StartDevice, StartKeyPingTimer, Stop, StopKeyPingTImer, KeyMouseClose, Destructor,
      OwnerPlaces, Stopping
  <2>2. AtTypes' /\ at'[Owner] = p /\ at'[RunThread] = at[RunThread]
    BY <2>1, OneGoes, ThreadsDiffer, AllowedPlaces
  <2>3. Scalars'
    BY <1>1, <1>3 DEF StartDevice, StartKeyPingTimer, Stop, StopKeyPingTImer, KeyMouseClose,
      Destructor, Scalars, connVars
  <2>4. ASSUME NEW x \in OwnerPlaces, Goes(Owner, x) PROVE at'[Owner] = x
    BY <2>4, OneGoes, ThreadsDiffer, AllowedPlaces
  <2>5. PingInv'
    <3>1. CASE StartDevice
      <4>1. at'[Owner] = "pingThread"
        BY <2>4, <3>1 DEF StartDevice, OwnerPlaces
      <4>2. QED
        BY <3>1, <4>1 DEF StartDevice, PingInv, pingVars, Pinging
    <3>2. CASE StartKeyPingTimer
      <4>1. \/ at[Owner] = "pingThread" /\ at'[Owner] = "pingConnect"
            \/ at[Owner] = "pingConnect" /\ at'[Owner] = "start"
        BY <2>4, <3>2 DEF StartKeyPingTimer, OwnerPlaces
      <4>2. QED
        BY <3>2, <4>1 DEF StartKeyPingTimer, PingInv, Pinging
    <3>3. CASE Stop
      <4>1. at'[Owner] = "stopPing"
        BY <2>4, <3>3 DEF Stop, OwnerPlaces, Stopping
      <4>2. QED
        BY <3>3, <4>1 DEF Stop, PingInv, pingVars, Pinging
    <3>4. CASE StopKeyPingTImer
      <4>1. \/ at[Owner] = "stopPing" /\ at'[Owner] = "waitPing"
            \/ at[Owner] = "waitPing" /\ at'[Owner] = "closeDevice"
        BY <2>4, <3>4 DEF StopKeyPingTImer, OwnerPlaces, Stopping
      <4>2. QED
        BY <3>4, <4>1 DEF StopKeyPingTImer, PingInv, pingVars, Pinging
    <3>5. CASE KeyMouseClose
      <4>1. at[Owner] = "closeDevice" /\ at'[Owner] = "quit"
        BY <2>4, <3>5 DEF KeyMouseClose, OwnerPlaces, Stopping
      <4>2. QED
        BY <3>5, <4>1 DEF KeyMouseClose, PingInv, pingVars, Pinging
    <3>6. CASE Destructor
      <4>1. at[Owner] = "stopped" /\ at'[Owner] = "test"
        BY <2>4, <3>6 DEF Destructor, OwnerPlaces, Stopping
      <4>2. QED
        BY <3>6, <4>1, PingKept DEF Destructor, Pinging
    <3>7. QED
      BY <1>3, <3>1, <3>2, <3>3, <3>4, <3>5, <3>6
  <2>6. QED
    BY <1>1, <2>2, <2>3, <2>5, SameConn, KeepsBase DEF connVars
<1>4. QED
  BY <1>2, <1>3

\* Where a thread that works on the socket goes.
LEMMA SocketGoes ==
    ASSUME BaseInv, NEW t \in Threads, Socket(t)
    PROVE  /\ AtTypes'
           /\ \A u \in Threads \ {t} : at'[u] = at[u]
           /\ at'[RunThread] = "connect" => at[RunThread] = "connect"
           /\ PingInv'
<1> AtTypes /\ PingInv
  BY DEF BaseInv
<1>1. at[t] \in {"quit", "wait", "test", "close", "sendClose", "reset"}
  BY DEF Socket, Quit, Wait, TestSocket, CloseSocket, ResetSocket
<1>2. UNCHANGED pingVars /\ UNCHANGED device
  BY DEF Socket, Quit, Wait, TestSocket, CloseSocket, ResetSocket, pingVars
<1>3. at[t] \in {"quit", "wait"} => t # RunThread
  BY DEF AtTypes, RunPlaces
<1>4. \/ UNCHANGED at
      \/ Goes(t, AfterSocket(t))
      \/ \E p \in {"close", "sendClose", "reset"} : Goes(t, p)
      \/ t # RunThread /\ (Goes(t, "test") \/ Goes(t, "wait"))
  <2>1. CASE Quit(t)
    BY <1>3, <2>1 DEF Quit
  <2>2. CASE Wait(t)
    BY <1>3, <2>2 DEF Wait
  <2>3. CASE TestSocket(t)
    BY <2>3 DEF TestSocket, Leave
  <2>4. CASE CloseSocket(t)
    BY <2>4 DEF CloseSocket
  <2>5. CASE ResetSocket(t)
    BY <2>5 DEF ResetSocket, Leave
  <2>6. QED
    BY <2>1, <2>2, <2>3, <2>4, <2>5 DEF Socket
<1>5. \/ UNCHANGED at
      \/ \E p \in Allowed(t) \ {"connect"} :
            Goes(t, p) /\ (t = Owner => p \notin Pinging \cup {"pingThread", "closeDevice"})
  <2>1. AfterSocket(t) \in Allowed(t) \ {"connect"}
        /\ (t = Owner => AfterSocket(t) \notin Pinging \cup {"pingThread", "closeDevice"})
    BY AfterSocketPlace, ThreadsDiffer DEF Pinging
  <2>2. \A p \in {"close", "sendClose", "reset"} :
          p \in Allowed(t) \ {"connect"} /\ p \notin Pinging \cup {"pingThread", "closeDevice"}
    BY AllowedPlaces, ThreadsDiffer DEF Pinging, OwnerPlaces, Stopping, RunPlaces, ReconnectPlaces
  <2>3. t # RunThread => \A p \in {"test", "wait"} :
          p \in Allowed(t) \ {"connect"} /\ p \notin Pinging \cup {"pingThread", "closeDevice"}
    BY AllowedPlaces, ThreadsDiffer DEF Pinging, OwnerPlaces, Stopping, RunPlaces, ReconnectPlaces
  <2>4. QED
    BY <1>4, <2>1, <2>2, <2>3
<1>6. CASE UNCHANGED at
  BY <1>2, <1>6, PingKept DEF AtTypes
<1>7. ASSUME NEW p \in Allowed(t) \ {"connect"}, Goes(t, p),
             t = Owner => p \notin Pinging \cup {"pingThread", "closeDevice"}
      PROVE  /\ AtTypes'
             /\ \A u \in Threads \ {t} : at'[u] = at[u]
             /\ at'[RunThread] = "connect" => at[RunThread] = "connect"
             /\ PingInv'
  <2>1. AtTypes' /\ at'[t] = p /\ \A u \in Threads \ {t} : at'[u] = at[u]
    BY <1>7, OneGoes
  <2>2. at'[Owner] = at[Owner]
        \/ /\ at[Owner] \notin Pinging
           /\ at'[Owner] \notin Pinging \cup {"pingThread", "closeDevice"}
    BY <1>1, <1>7, <2>1, ThreadsDiffer DEF Pinging
  <2>3. QED
    BY <1>2, <1>7, <2>1, <2>2, PingKept, ThreadsDiffer
<1>8. QED
  BY <1>5, <1>6, <1>7

LEMMA BaseSocket ==
    ASSUME BaseInv, raced' \in BOOLEAN, NEW t \in Threads, Socket(t)
    PROVE  BaseInv'
<1> AtTypes /\ Scalars /\ ConnInv /\ ObjectInv /\ PingInv
  BY DEF BaseInv
<1>1. Scalars'
  BY DEF Socket, Quit, Wait, TestSocket, CloseSocket, ResetSocket, Leave, Scalars, connVars
<1>2. CASE Quit(t) \/ Wait(t) \/ TestSocket(t)
  <2>1. UNCHANGED <<conn, m_wsBoostSocket, login>>
    BY <1>2 DEF Quit, Wait, TestSocket, connVars
  <2>2. QED
    BY <1>1, <2>1, SocketGoes, SameConn, KeepsBase
<1>3. CASE CloseSocket(t)
  <2>1. \/ UNCHANGED conn
        \/ m_wsBoostSocket \in Conns /\ CloseTest(m_wsBoostSocket)
        \/ \E c \in Conns : CloseSend(c)
    BY <1>3 DEF CloseSocket, Scalars
  <2>2. ConnInv' /\ ObjectsKept
    <3>1. CASE m_wsBoostSocket \in Conns /\ CloseTest(m_wsBoostSocket)
      <4>1. conn[m_wsBoostSocket] \in Connection
        BY <3>1 DEF ConnInv
      <4>2. \A d \in Conns : conn'[d].alive = conn[d].alive
        <5>1. CASE SameLife
          BY <5>1 DEF SameLife
        <5>2. CASE /\ conn'[m_wsBoostSocket]
                        = [conn[m_wsBoostSocket] EXCEPT !.closing = TRUE, !.asked = TRUE]
                   /\ \A d \in Conns \ {m_wsBoostSocket} : conn'[d] = conn[d]
          <6>1. conn'[m_wsBoostSocket].alive = conn[m_wsBoostSocket].alive
            BY <4>1, <5>2 DEF Connection
          <6>2. QED
            BY <5>2, <6>1
        <5>3. QED
          BY <3>1, <5>1, <5>2, CloseTestStep, ZenonT(40)
      <4>3. QED
        BY <3>1, <4>2, CloseTestStep, FreshStays, LateStays DEF ObjectsKept, Late
    <3>2. CASE \E c \in Conns : CloseSend(c)
      <4>1. PICK c \in Conns : CloseSend(c)
        BY <3>2
      <4>2. ConnInv' /\ SameLife
        BY <4>1, CloseSendStep
      <4>3. QED
        BY <4>1, <4>2, FreshStays, LateStays DEF ObjectsKept, SameLife, Late
    <3>3. QED
      BY <2>1, <3>1, <3>2, SameConn
  <2>3. UNCHANGED <<m_wsBoostSocket, login>>
    BY <1>3 DEF CloseSocket
  <2>4. QED
    BY <1>1, <2>2, <2>3, SocketGoes, KeepsBase
<1>4. CASE ResetSocket(t)
  <2>1. m_wsBoostSocket' = NoConn
    BY <1>4 DEF ResetSocket
  <2>2. ConnInv' /\ login' \subseteq {c \in Conns : Late(c)'}
    <3>1. CASE m_wsBoostSocket = NoConn
      BY <1>4, <3>1, SameConn DEF ResetSocket, ObjectInv, Late
    <3>2. CASE m_wsBoostSocket # NoConn
      <4>1. m_wsBoostSocket \in Conns /\ Destroy(m_wsBoostSocket) /\ login' = login \ {m_wsBoostSocket}
        BY <1>4, <3>2 DEF ResetSocket, Scalars
      <4>2. ConnInv' /\ \A d \in Conns \ {m_wsBoostSocket} : conn'[d] = conn[d]
        BY <4>1, DestroyStep
      <4>3. QED
        BY <4>1, <4>2 DEF ObjectInv, Late
    <3>3. QED
      BY <3>1, <3>2
  <2>3. ObjectInv'
    BY <2>1, <2>2 DEF ObjectInv
  <2>4. QED
    BY <1>1, <2>2, <2>3, SocketGoes DEF BaseInv
<1>5. QED
  BY <1>2, <1>3, <1>4 DEF Socket

LEMMA BaseRun ==
    ASSUME BaseInv, raced' \in BOOLEAN, RunSocket \/ RunExec
    PROVE  BaseInv'
<1> AtTypes /\ Scalars /\ ConnInv /\ ObjectInv /\ PingInv
  BY DEF BaseInv
<1>1. UNCHANGED <<serverUp, outages, pingVars, destroying, quitAsked, login, device>>
  BY DEF RunSocket, RunExec, connVars
<1>2. ASSUME NEW p \in RunPlaces, Goes(RunThread, p)
      PROVE  AtTypes' /\ at'[RunThread] = p /\ at'[Owner] = at[Owner] /\ PingInv'
  <2>1. AtTypes' /\ at'[RunThread] = p /\ at'[Owner] = at[Owner]
    BY <1>2, OneGoes, ThreadsDiffer, AllowedPlaces
  <2>2. QED
    BY <1>1, <2>1, PingKept
<1>3. CASE RunExec
  <2>1. UNCHANGED <<conn, m_wsBoostSocket, login>> /\ Goes(RunThread, "stopped") /\ UNCHANGED crashed
    BY <1>3 DEF RunExec, connVars
  <2>2. AtTypes' /\ at'[RunThread] = "stopped" /\ PingInv'
    BY <1>2, <2>1 DEF RunPlaces
  <2>3. Scalars'
    BY <1>1, <2>1 DEF Scalars
  <2>4. QED
    BY <2>1, <2>2, <2>3, SameConn, KeepsBase
<1>4. CASE RunSocket /\ at[RunThread] = "create"
  <2>1. PICK c \in Conns : Construct(c) /\ m_wsBoostSocket' = c
    BY <1>4 DEF RunSocket, StartWebSocket
  <2>2. Goes(RunThread, "connect") /\ UNCHANGED crashed
    BY <1>4 DEF RunSocket, StartWebSocket
  <2>3. /\ ConnInv' /\ ~conn[c].alive /\ conn'[c] = [NoObject EXCEPT !.alive = TRUE]
        /\ \A d \in Conns \ {c} : conn'[d] = conn[d]
    BY <2>1, ConstructStep
  <2>4. conn'[c].alive /\ conn'[c].m_state = "none"
    BY <2>3 DEF NoObject
  <2>5. ~Late(c)
    BY <2>3 DEF ConnInv, ObjectOK, NoObject, Late
  <2>6. login' \subseteq {d \in Conns : Late(d)'}
    BY <1>1, <2>3, <2>5 DEF ObjectInv, Late
  <2>7. ObjectInv'
    BY <2>1, <2>4, <2>6 DEF ObjectInv
  <2>8. AtTypes' /\ PingInv'
    BY <1>2, <2>2 DEF RunPlaces
  <2>9. Scalars'
    BY <1>1, <2>1, <2>2 DEF Scalars
  <2>10. QED
    BY <2>3, <2>7, <2>8, <2>9 DEF BaseInv
<1>5. CASE RunSocket /\ m_wsBoostSocket = NoConn /\ at[RunThread] \in {"connect", "callback"}
  <2>1. UNCHANGED <<conn, m_wsBoostSocket, at>> /\ crashed' = "null socket"
    BY <1>5 DEF RunSocket, StartWebSocket
  <2>2. Scalars' /\ AtTypes'
    BY <1>1, <2>1 DEF Scalars, AtTypes
  <2>3. QED
    BY <1>1, <2>1, <2>2, SameConn, KeepsBase, PingKept
<1>6. CASE RunSocket /\ m_wsBoostSocket # NoConn /\ at[RunThread] = "connect"
  <2>1. Connect(m_wsBoostSocket) /\ Goes(RunThread, "callback") /\ UNCHANGED <<m_wsBoostSocket, crashed>>
    BY <1>6 DEF RunSocket, StartWebSocket
  <2>2. /\ m_wsBoostSocket \in Conns /\ conn[m_wsBoostSocket].alive
        /\ conn[m_wsBoostSocket].m_state = "none"
    BY <1>6 DEF ObjectInv, Scalars
  <2>3. ConnInv' /\ SameLife
    BY <2>1, <2>2, ConnectStep
  <2>4. ~Late(m_wsBoostSocket) /\ \A d \in Conns \ {m_wsBoostSocket} : conn'[d] = conn[d]
    BY <2>1, <2>2 DEF Connect, ConnInv, Late
  <2>5. AtTypes' /\ PingInv' /\ at'[RunThread] = "callback"
    BY <1>2, <2>1 DEF RunPlaces
  <2>6. Scalars'
    BY <1>1, <2>1 DEF Scalars
  <2>7. ObjectInv'
    BY <1>1, <2>1, <2>2, <2>3, <2>4, <2>5 DEF ObjectInv, SameLife, Late
  <2>8. QED
    BY <2>3, <2>5, <2>6, <2>7 DEF BaseInv
<1>7. CASE RunSocket /\ m_wsBoostSocket # NoConn /\ at[RunThread] = "callback"
  <2>1. SetCallback(m_wsBoostSocket) /\ Goes(RunThread, "exec") /\ UNCHANGED <<m_wsBoostSocket, crashed>>
    BY <1>7 DEF RunSocket, StartWebSocket
  <2>2. m_wsBoostSocket \in Conns /\ conn[m_wsBoostSocket].alive
    BY <1>7 DEF ObjectInv, Scalars
  <2>3. /\ ConnInv' /\ conn'[m_wsBoostSocket] = [conn[m_wsBoostSocket] EXCEPT !.m_outter = TRUE]
        /\ \A d \in Conns \ {m_wsBoostSocket} : conn'[d] = conn[d]
    BY <2>1, <2>2, SetCallbackStep
  <2>4. ObjectsKept
    BY <2>3 DEF ObjectsKept, ConnInv, Connection, Late
  <2>5. AtTypes' /\ PingInv' /\ at'[RunThread] = "exec"
    BY <1>2, <2>1 DEF RunPlaces
  <2>6. Scalars'
    BY <1>1, <2>1 DEF Scalars
  <2>7. QED
    BY <1>1, <2>1, <2>3, <2>4, <2>5, <2>6, KeepsBase
<1>8. QED
  BY <1>3, <1>4, <1>5, <1>6, <1>7 DEF RunSocket, StartWebSocket

\* What the asio thread, the network and a ping do to the objects.
LEMMA HandlerKeeps ==
    ASSUME BaseInv, NEW c \in Conns, NEW sends \in BOOLEAN,
           \/ Library(c) \/ process_control_frame(c, MaxOutages)
           \/ on_open(c) \/ Opened(c, sends) \/ on_failure(c) \/ on_close(c)
           \/ Send(c) \/ Outage(MaxOutages) \/ Restored
    PROVE  ConnInv' /\ ObjectsKept
<1> ConnInv /\ serverUp \in BOOLEAN /\ outages \in Nat
  BY DEF BaseInv, Scalars
<1>1. ConnInv' /\ \A d \in Conns : conn'[d].alive = conn[d].alive
  <2>1. CASE Library(c) \/ process_control_frame(c, MaxOutages)
    BY <2>1, LibraryStep, CloseFrameStep DEF SameLife
  <2>2. CASE on_open(c)
    BY <2>2, OnOpenStep
  <2>3. CASE Opened(c, sends)
    BY <2>3, OpenedStep
  <2>4. CASE on_failure(c) \/ on_close(c)
    BY <2>4, OnEndStep
  <2>5. CASE Send(c)
    BY <2>5, SendStep DEF SameLife
  <2>6. CASE Outage(MaxOutages) \/ Restored
    BY <2>6, NetworkStep DEF SameLife
  <2>7. QED
    BY <2>1, <2>2, <2>3, <2>4, <2>5, <2>6
<1>2. QED
  BY <1>1, FreshStays, LateStays DEF ObjectsKept, Late

LEMMA BaseAsio ==
    ASSUME BaseInv, raced' \in BOOLEAN, NEW c \in Conns, Asio(c)
    PROVE  BaseInv'
<1> AtTypes /\ Scalars /\ ConnInv /\ ObjectInv /\ PingInv
  BY DEF BaseInv
<1>1. /\ UNCHANGED <<serverUp, pingVars, destroying, m_wsBoostSocket, quitAsked, device, crashed>>
      /\ UNCHANGED outages \/ process_control_frame(c, MaxOutages)
  BY DEF Asio, OnOpen, ConnectedCallback, ConnectionLost, AsioLibrary
<1>2. Scalars'
  BY <1>1, CloseFrameStep DEF Scalars
<1>3. \/ Library(c) \/ process_control_frame(c, MaxOutages) \/ on_open(c)
      \/ (\E sends \in BOOLEAN : Opened(c, sends)) \/ on_failure(c) \/ on_close(c)
  <2>1. (OpenHeard(c) /\ c = m_wsBoostSocket) \in BOOLEAN
    OBVIOUS
  <2>2. QED
    BY <2>1 DEF Asio, OnOpen, ConnectedCallback, ConnectionLost, AsioLibrary
<1>4. ConnInv' /\ ObjectsKept
  BY <1>3, HandlerKeeps
<1>5. AtTypes' /\ at'[Owner] = at[Owner] /\ at'[RunThread] = at[RunThread]
  <2>1. CASE UNCHANGED at
    BY <2>1 DEF AtTypes
  <2>2. CASE \E r \in Reconnectors : Goes(r, "quit")
    <3>1. PICK r \in Reconnectors : Goes(r, "quit")
      BY <2>2
    <3>2. r \in Threads /\ "quit" \in Allowed(r)
      BY ThreadsDiffer, AllowedPlaces DEF ReconnectPlaces
    <3>3. QED
      BY <3>1, <3>2, OneGoes, ThreadsDiffer
  <2>3. QED
    BY <2>1, <2>2 DEF Asio, OnOpen, ConnectedCallback, ConnectionLost, AsioLibrary
<1>6. PingInv'
  BY <1>1, <1>5, PingKept
<1>7. CASE UNCHANGED login
  BY <1>1, <1>2, <1>4, <1>5, <1>6, <1>7, KeepsBase
<1>8. CASE login' = login \cup {c} /\ Sends(c) /\ ConnectedCallback(c)
  <2>1. Late(c)
    BY <1>8 DEF Sends, Accepts, Late
  <2>2. login' \subseteq {d \in Conns : Late(d)'}
    BY <1>4, <1>8, <2>1 DEF ObjectInv, ObjectsKept
  <2>3. ObjectInv'
    BY <1>1, <1>4, <1>5, <2>2 DEF ObjectInv, ObjectsKept, Scalars
  <2>4. QED
    BY <1>2, <1>4, <1>5, <1>6, <2>3 DEF BaseInv
<1>9. QED
  BY <1>7, <1>8 DEF Asio, OnOpen, ConnectedCallback, ConnectionLost, AsioLibrary

LEMMA BaseOthers ==
    ASSUME BaseInv, raced' \in BOOLEAN, PingSteps \/ Network
    PROVE  BaseInv'
<1> AtTypes /\ Scalars /\ ConnInv /\ ObjectInv /\ PingInv
  BY DEF BaseInv
<1>1. UNCHANGED <<at, destroying, m_wsBoostSocket, quitAsked, login, device>>
  BY DEF PingSteps, PingStarted, Ping, Network
<1>2. AtTypes'
  BY <1>1 DEF AtTypes
<1>3. CASE PingStarted
  <2>1. Scalars' /\ UNCHANGED conn
    BY <1>3 DEF PingStarted, Scalars, connVars
  <2>2. PingInv'
    BY <1>3 DEF PingStarted, PingInv
  <2>3. QED
    BY <1>1, <1>2, <2>1, <2>2, SameConn, KeepsBase
<1>4. CASE Ping
  <2>1. Scalars' /\ PingInv'
    <3>1. /\ UNCHANGED <<serverUp, outages, pingThread, pingConnected>>
          /\ ping # "off" /\ ping' \in {"waiting", "sending"}
          /\ crashed' \in {crashed, "null socket"}
      BY <1>4 DEF Ping, OnKeyPingTimer
    <3>2. Scalars'
      BY <1>1, <3>1 DEF Scalars
    <3>3. PingInv'
      BY <1>1, <3>1 DEF PingInv
    <3>4. QED
      BY <3>2, <3>3
  <2>2. UNCHANGED conn \/ (m_wsBoostSocket \in Conns /\ Send(m_wsBoostSocket))
    BY <1>4 DEF Ping, OnKeyPingTimer, Scalars
  <2>3. TRUE \in BOOLEAN
    OBVIOUS
  <2>4. ConnInv' /\ ObjectsKept
    BY <2>2, <2>3, SameConn, HandlerKeeps
  <2>5. QED
    BY <1>1, <1>2, <2>1, <2>4, KeepsBase
<1>5. CASE Network
  <2>1. ConnInv' /\ SameLife /\ serverUp' \in BOOLEAN /\ outages' \in Nat
    BY <1>5, NetworkStep DEF Network, Scalars
  <2>2. Scalars'
    BY <1>1, <1>5, <2>1 DEF Network, Scalars
  <2>3. ObjectsKept
    BY <1>5, <2>1, FreshStays, LateStays DEF Network, ObjectsKept, SameLife, Late
  <2>4. PingInv'
    BY <1>1, <1>5, PingKept DEF Network
  <2>5. QED
    BY <1>1, <1>2, <2>1, <2>2, <2>3, <2>4, KeepsBase
<1>6. QED
  BY <1>3, <1>4, <1>5 DEF PingSteps

LEMMA BaseReconnect ==
    ASSUME BaseInv, raced' \in BOOLEAN, NEW r \in Reconnectors, Reconnect(r)
    PROVE  BaseInv'
<1> AtTypes /\ Scalars /\ ConnInv /\ ObjectInv /\ PingInv
  BY DEF BaseInv
<1>1. r \in Threads \ {RunThread, Owner}
  BY ThreadsDiffer
<1>2. CASE UseFreed(r)
  <2>1. UNCHANGED <<connVars, pingVars, at, m_wsBoostSocket, login, device>>
    BY <1>2 DEF UseFreed
  <2>2. Scalars' /\ AtTypes'
    BY <1>2 DEF UseFreed, Scalars, AtTypes, connVars
  <2>3. QED
    BY <2>1, <2>2, SameConn, KeepsBase, PingKept DEF connVars
<1>3. CASE StartAccidental(r)
  <2>1. UNCHANGED <<connVars, pingVars, destroying, m_wsBoostSocket, login, device, crashed>>
        /\ StartThread(r, "none")
    BY <1>3 DEF StartAccidental
  <2>2. "none" \in Allowed(r)
    BY AllowedPlaces DEF ReconnectPlaces
  <2>3. /\ AtTypes' /\ quitAsked' \in BOOLEAN
        /\ at'[RunThread] = IF at[RunThread] = "stopped" THEN "test" ELSE at[RunThread]
        /\ at'[Owner] = at[Owner]
    BY <1>1, <2>1, <2>2, StartGoes, ThreadsDiffer DEF Scalars
  <2>4. Scalars'
    BY <2>1, <2>3 DEF Scalars, connVars
  <2>5. QED
    BY <2>1, <2>3, <2>4, SameConn, KeepsBase, PingKept DEF connVars
<1>4. QED
  BY <1>1, <1>2, <1>3, BaseSocket DEF Reconnect

LEMMA BaseStep == BaseInv /\ [Next]_vars => BaseInv'
<1> SUFFICES ASSUME BaseInv, [Next]_vars PROVE BaseInv'
  OBVIOUS
<1>1. CASE UNCHANGED vars
  <2>1. UNCHANGED <<conn, serverUp, outages, pingVars, at, destroying, m_wsBoostSocket, quitAsked,
                    login, device, raced, crashed>>
    BY <1>1 DEF vars, connVars
  <2>2. AtTypes' /\ Scalars'
    BY <2>1 DEF BaseInv, AtTypes, Scalars
  <2>3. QED
    BY <2>1, <2>2, SameConn, KeepsBase, PingKept DEF BaseInv
<1>2. CASE Next
  <2>1. raced' \in BOOLEAN
    BY <1>2 DEF Next, Step
  <2>2. CASE OwnerSteps \/ Stop
    BY <2>1, <2>2, BaseOwner, BaseSocket, ThreadsDiffer DEF OwnerSteps
  <2>3. CASE RunSteps
    BY <2>1, <2>3, BaseRun, BaseSocket, ThreadsDiffer DEF RunSteps
  <2>4. CASE PingSteps \/ Network
    BY <2>1, <2>4, BaseOthers
  <2>5. CASE \E c \in Conns : Asio(c)
    BY <2>1, <2>5, BaseAsio
  <2>6. CASE \E r \in Reconnectors : Reconnect(r)
    BY <2>1, <2>6, BaseReconnect
  <2>7. QED
    BY <1>2, <2>2, <2>3, <2>4, <2>5, <2>6 DEF Next, Step
<1>3. QED
  BY <1>1, <1>2

LEMMA BaseInit == Init => BaseInv
<1> SUFFICES ASSUME Init PROVE BaseInv
  OBVIOUS
<1>1. ConnInv
  BY ConnInitInv DEF Init
<1>2. /\ at[Owner] = "idle" /\ at[RunThread] = "stopped"
      /\ \A r \in Reconnectors : at[r] = "none"
  BY ThreadsDiffer DEF Init
<1>3. at \in [Threads -> {"idle", "stopped", "none"}]
  BY DEF Init
<1>4. AtTypes
  BY <1>2, <1>3 DEF AtTypes, Places, OwnerPlaces, RunPlaces, ReconnectPlaces
<1>5. Scalars /\ PingInv
  BY <1>2 DEF Init, ConnInit, Scalars, PingInv, Pinging
<1>6. ObjectInv
  BY DEF Init, ObjectInv
<1>7. QED
  BY <1>1, <1>4, <1>5, <1>6 DEF BaseInv

-------------------------------------------------------------------------------
(* TurnsInv: what holds as long as the threads take turns *)

\* Objects that do not exist say nothing.
LEMMA NothingAlive ==
    ASSUME ConnInv, NEW c \in Conns, ~conn[c].alive
    PROVE  ~conn[c].asked /\ ~conn[c].m_outter /\ conn[c].told = <<>> /\ ~Ended(c)
  BY DEF ConnInv, ObjectOK, NoObject, Ended

\* With no pointer there is no object.
LEMMA NoSocketNoObject ==
    ASSUME ConnInv, LifeInv, m_wsBoostSocket = NoConn
    PROVE  \A c \in Conns : /\ ~conn[c].alive /\ ~conn[c].asked /\ ~conn[c].m_outter
                            /\ conn[c].told = <<>> /\ ~Ended(c)
  BY NothingAlive, ConnectionAssumption DEF LifeInv

\* The steps that leave the threads, the pointer and the tales alone.
TalesKept ==
    \A d \in Conns :
        /\ conn'[d].alive = conn[d].alive /\ conn'[d].told = conn[d].told
        /\ conn'[d].asked = conn[d].asked /\ conn'[d].m_outter = conn[d].m_outter
        /\ conn[d].deaf \subseteq conn'[d].deaf

LEMMA SameTales == ASSUME UNCHANGED conn PROVE TalesKept
  BY DEF TalesKept

LEMMA KeepsTurns ==
    ASSUME BaseInv, TurnsInv, TalesKept, UNCHANGED <<at, m_wsBoostSocket, destroying>>
    PROVE  TurnsInv'
<1>1. \A d \in Conns : Ended(d)' <=> Ended(d)
  BY DEF TalesKept, Ended
<1>2. m_wsBoostSocket # NoConn => m_wsBoostSocket \in Conns
  BY DEF BaseInv, Scalars
<1>3. RunInv' /\ OwnerInv'
  BY DEF TurnsInv, RunInv, OwnerInv, Calm, Reconnecting
<1>4. ReconnectInv'
  BY <1>1, <1>2 DEF TurnsInv, ReconnectInv
<1>5. LifeInv'
  BY <1>1 DEF TurnsInv, LifeInv, TalesKept, Calm, Reconnecting
<1>6. QED
  BY <1>3, <1>4, <1>5 DEF TurnsInv

LEMMA TurnsPing ==
    ASSUME BaseInv, TurnsInv, PingSteps \/ Network
    PROVE  TurnsInv'
<1>1. UNCHANGED <<at, m_wsBoostSocket, destroying>>
  BY DEF PingSteps, PingStarted, Ping, Network
<1>2. SameLife
  <2>1. CASE UNCHANGED conn
    BY <2>1 DEF SameLife
  <2>2. CASE m_wsBoostSocket \in Conns /\ Send(m_wsBoostSocket)
    BY <2>2, SendStep DEF BaseInv
  <2>3. CASE Network
    BY <2>3, NetworkStep DEF Network, BaseInv, Scalars
  <2>4. QED
    BY <2>1, <2>2, <2>3 DEF PingSteps, PingStarted, Ping, OnKeyPingTimer, connVars, BaseInv, Scalars
<1>3. TalesKept
  BY <1>2 DEF SameLife, TalesKept
<1>4. QED
  BY <1>1, <1>3, KeepsTurns

(* The asio thread *)

LEMMA TurnsOpen ==
    ASSUME BaseInv, TurnsInv, NEW c \in Conns, OnOpen(c)
    PROVE  TurnsInv'
<1>1. /\ conn[c].alive /\ conn[c].told = <<>> /\ conn'[c].told = <<"open">>
      /\ conn'[c].alive = conn[c].alive /\ conn'[c].asked = conn[c].asked
      /\ conn'[c].m_outter = conn[c].m_outter /\ conn'[c].deaf = conn[c].deaf
      /\ \A d \in Conns \ {c} : conn'[d] = conn[d]
      /\ UNCHANGED <<at, m_wsBoostSocket, destroying>>
  BY OnOpenStep DEF OnOpen, BaseInv
<1>2. \A d \in Conns : Ended(d)' <=> Ended(d)
  BY <1>1 DEF Ended
<1>3. m_wsBoostSocket # NoConn => m_wsBoostSocket \in Conns
  BY DEF BaseInv, Scalars
<1>4. RunInv' /\ OwnerInv'
  BY <1>1 DEF TurnsInv, RunInv, OwnerInv, Calm, Reconnecting
<1>5. ReconnectInv'
  BY <1>1, <1>2, <1>3 DEF TurnsInv, ReconnectInv
<1>6. LifeInv'
  BY <1>1, <1>2 DEF TurnsInv, LifeInv, Calm, Reconnecting
<1>7. QED
  BY <1>4, <1>5, <1>6 DEF TurnsInv

\* The end of the present connection, which no reconnect thread knows of yet: its own
\* close cannot have brought it about.
LEMMA TurnsLost ==
    ASSUME BaseInv, TurnsInv, RaceInv, RaceInv', Sound', NEW c \in Conns, ConnectionLost(c)
    PROVE  TurnsInv'
<1> ConnInv /\ AtTypes
  BY DEF BaseInv
<1>1. /\ conn[c].alive /\ conn'[c].deaf = Missed(c, "end")
      /\ conn'[c].alive = conn[c].alive /\ conn'[c].asked = conn[c].asked
      /\ conn'[c].m_outter = conn[c].m_outter
      /\ \A d \in Conns \ {c} : conn'[d] = conn[d]
      /\ UNCHANGED <<m_wsBoostSocket, destroying>>
  BY OnEndStep DEF ConnectionLost
<1>2. conn'[c].told # <<>> /\ conn'[c].told # <<"open">>
      /\ (Ended(c) => conn[c].asked)
  BY OnEndStep, Histories DEF ConnectionLost, Ended
<1>3. Ended(c)' /\ \A d \in Conns \ {c} : Ended(d)' <=> Ended(d)
  BY <1>1, <1>2 DEF Ended
<1>4. c = m_wsBoostSocket /\ m_wsBoostSocket # NoConn
  BY <1>1, ConnectionAssumption DEF TurnsInv, LifeInv
<1>5. CASE conn[c].m_outter
  <2>1. PICK r \in Reconnectors : at[r] = "none" /\ Goes(r, "quit")
    BY <1>5 DEF ConnectionLost
  <2>2. /\ at'[r] = "quit" /\ \A u \in Threads \ {r} : at'[u] = at[u]
    <3>1. r \in Threads /\ "quit" \in Allowed(r)
      BY ThreadsDiffer, AllowedPlaces DEF ReconnectPlaces
    <3>2. QED
      BY <2>1, <3>1, OneGoes
  <2>3. at'[Owner] = at[Owner] /\ at'[RunThread] = at[RunThread]
        /\ \A q \in Reconnectors \ {r} : at'[q] = at[q]
    BY <2>2, ThreadsDiffer
  <2>4. Reconnecting'
    BY <2>2 DEF Reconnecting
  <2>5. Calm
    BY <2>3, <2>4 DEF Sound, Calm, RaceInv, Meets
  <2>6. ~conn[c].asked /\ ~Ended(c)
    BY <1>2, <2>5 DEF TurnsInv, LifeInv, Calm, Stopping
  <2>7. \A q \in Reconnectors : at[q] = "none"
    BY <1>4, <2>6 DEF TurnsInv, ReconnectInv, AtTypes, ReconnectPlaces
  <2>8. at[RunThread] \in {"exec", "stopped"}
    BY <1>5 DEF TurnsInv, LifeInv
  <2>9. RunInv'
    BY <1>1, <2>3 DEF TurnsInv, RunInv
  <2>10. OwnerInv'
    BY <1>1, <1>4, <2>3 DEF TurnsInv, OwnerInv, Calm
  <2>11. ReconnectInv'
    BY <1>1, <1>3, <1>4, <2>2, <2>3, <2>7, <2>8 DEF ReconnectInv
  <2>12. LifeInv'
    BY <1>1, <2>3, <2>4 DEF TurnsInv, LifeInv
  <2>13. QED
    BY <2>9, <2>10, <2>11, <2>12 DEF TurnsInv
<1>6. CASE ~conn[c].m_outter
  <2>1. UNCHANGED at /\ "end" \in conn'[c].deaf
    BY <1>1, <1>6 DEF ConnectionLost, Missed
  <2>2. RunInv' /\ OwnerInv'
    BY <1>1, <2>1 DEF TurnsInv, RunInv, OwnerInv, Calm, Reconnecting
  <2>3. ReconnectInv'
    BY <1>1, <1>3, <1>4, <2>1 DEF TurnsInv, ReconnectInv
  <2>4. LifeInv'
    BY <1>1, <1>3, <2>1 DEF TurnsInv, LifeInv, Calm, Reconnecting
  <2>5. QED
    BY <2>2, <2>3, <2>4 DEF TurnsInv
<1>7. QED
  BY <1>5, <1>6

LEMMA TurnsAsio ==
    ASSUME BaseInv, TurnsInv, RaceInv, RaceInv', Sound', NEW c \in Conns, Asio(c)
    PROVE  TurnsInv'
<1> ConnInv /\ outages \in Nat
  BY DEF BaseInv, Scalars
<1>1. CASE ConnectedCallback(c)
  <2>1. (OpenHeard(c) /\ c = m_wsBoostSocket) \in BOOLEAN
    OBVIOUS
  <2>2. TalesKept
    BY <1>1, <2>1, OpenedStep DEF ConnectedCallback, TalesKept, Missed
  <2>3. QED
    BY <1>1, <2>2, KeepsTurns DEF ConnectedCallback
<1>2. CASE AsioLibrary(c)
  <2>1. SameLife
    BY <1>2, LibraryStep, CloseFrameStep DEF AsioLibrary
  <2>2. TalesKept
    BY <2>1 DEF SameLife, TalesKept
  <2>3. QED
    BY <1>2, <2>2, KeepsTurns DEF AsioLibrary
<1>3. QED
  BY <1>1, <1>2, TurnsOpen, TurnsLost DEF Asio

(* The owner *)

\* While the owner stops the link in a sound state there is no reconnect thread.
LEMMA StopsAlone ==
    ASSUME RaceInv, Sound, ~Calm
    PROVE  ~raced /\ ~Reconnecting /\ \A r \in Reconnectors : at[r] = "none"
  BY DEF RaceInv, Sound, Calm, Meets, Reconnecting

LEMMA StopsAloneNext ==
    ASSUME RaceInv', Sound', ~Calm'
    PROVE  ~raced' /\ ~Reconnecting' /\ \A r \in Reconnectors : at'[r] = "none"
  BY DEF RaceInv, Sound, Calm, Meets, Reconnecting

LEMMA TurnsOwner ==
    ASSUME BaseInv, TurnsInv, RaceInv', Sound',
           \/ StartDevice \/ StartKeyPingTimer \/ Start \/ Stop \/ StopKeyPingTImer
           \/ KeyMouseClose \/ Destructor
    PROVE  TurnsInv'
<1> AtTypes /\ ConnInv /\ Scalars /\ RunInv /\ OwnerInv /\ ReconnectInv /\ LifeInv
  BY DEF BaseInv, TurnsInv
<1>1. UNCHANGED <<conn, m_wsBoostSocket>>
  BY DEF StartDevice, StartKeyPingTimer, Start, Stop, StopKeyPingTImer, KeyMouseClose, Destructor,
    connVars
<1>2. CASE Start
  <2>1. /\ at[Owner] = "start" /\ at[RunThread] = "stopped" /\ m_wsBoostSocket = NoConn
        /\ \A r \in Reconnectors : at[r] = "none"
    BY <1>2 DEF Start, OwnerInv, Calm, Stopping, Reconnecting
  <2>2. "started" \in Allowed(Owner) /\ Owner \in Threads \ {RunThread}
    BY ThreadsDiffer, AllowedPlaces DEF OwnerPlaces
  <2>3. /\ at'[Owner] = "started" /\ at'[RunThread] = "test"
        /\ \A u \in Threads \ {Owner, RunThread} : at'[u] = at[u]
    BY <1>2, <2>1, <2>2, StartGoes DEF Start, Scalars
  <2>4. \A r \in Reconnectors : at'[r] = "none"
    BY <2>1, <2>3, ThreadsDiffer
  <2>5. UNCHANGED destroying
    BY <1>2 DEF Start
  <2>6. RunInv' /\ OwnerInv'
    BY <1>1, <2>1, <2>3, <2>5 DEF RunInv, OwnerInv, Calm
  <2>7. ReconnectInv'
    BY <2>4 DEF ReconnectInv
  <2>8. LifeInv'
    BY <1>1, <2>1, NoSocketNoObject DEF LifeInv, Ended
  <2>9. QED
    BY <2>6, <2>7, <2>8 DEF TurnsInv
<1>3. ASSUME NEW p \in OwnerPlaces, Goes(Owner, p),
             \/ at[Owner] = "idle" /\ p = "pingThread"
             \/ at[Owner] = "pingThread" /\ p = "pingConnect"
             \/ at[Owner] = "pingConnect" /\ p = "start",
             UNCHANGED destroying
      PROVE  TurnsInv'
  <2>1. at'[Owner] = p /\ \A u \in Threads \ {Owner} : at'[u] = at[u]
    BY <1>3, OneGoes, ThreadsDiffer, AllowedPlaces
  <2>2. at'[RunThread] = at[RunThread] /\ \A r \in Reconnectors : at'[r] = at[r]
    BY <2>1, ThreadsDiffer
  <2>3. RunInv' /\ OwnerInv'
    BY <1>1, <1>3, <2>1, <2>2 DEF RunInv, OwnerInv, Calm, Stopping, Reconnecting
  <2>4. ReconnectInv'
    BY <1>1, <2>2 DEF ReconnectInv, Ended
  <2>5. LifeInv'
    BY <1>1, <1>3, <2>1, <2>2 DEF LifeInv, Calm, Stopping, Reconnecting, Ended
  <2>6. QED
    BY <2>3, <2>4, <2>5 DEF TurnsInv
<1>4. ASSUME NEW p \in OwnerPlaces, Goes(Owner, p), p \in {"stopPing", "waitPing", "closeDevice", "quit"},
             at[Owner] \in {"started", "stopPing", "waitPing", "closeDevice"}, UNCHANGED destroying
      PROVE  TurnsInv'
  <2>1. at'[Owner] = p /\ \A u \in Threads \ {Owner} : at'[u] = at[u]
    BY <1>4, OneGoes, ThreadsDiffer, AllowedPlaces
  <2>2. at'[RunThread] = at[RunThread]
    BY <2>1, ThreadsDiffer
  <2>3. ~Calm'
    BY <1>4, <2>1 DEF Calm, Stopping
  <2>4. \A r \in Reconnectors : at'[r] = "none"
    BY <2>3, StopsAloneNext
  <2>5. RunInv' /\ OwnerInv'
    BY <1>1, <1>4, <2>1, <2>2, <2>3 DEF RunInv, OwnerInv
  <2>6. ReconnectInv'
    BY <2>4 DEF ReconnectInv
  <2>7. LifeInv'
    BY <1>1, <1>4, <2>2, <2>3 DEF LifeInv
  <2>8. QED
    BY <2>5, <2>6, <2>7 DEF TurnsInv
<1>5. CASE Destructor
  <2>1. at[Owner] = "stopped" /\ Goes(Owner, "test") /\ destroying'
    BY <1>5 DEF Destructor
  <2>2. at'[Owner] = "test" /\ \A u \in Threads \ {Owner} : at'[u] = at[u]
    BY <2>1, OneGoes, ThreadsDiffer, AllowedPlaces DEF OwnerPlaces, Stopping
  <2>3. at'[RunThread] = at[RunThread]
    BY <2>2, ThreadsDiffer
  <2>4. ~Calm'
    BY <2>2 DEF Calm, Stopping
  <2>5. \A r \in Reconnectors : at'[r] = "none"
    BY <2>4, StopsAloneNext
  <2>6. RunInv' /\ OwnerInv'
    BY <1>1, <2>1, <2>2, <2>3, <2>4 DEF RunInv, OwnerInv
  <2>7. ReconnectInv'
    BY <2>5 DEF ReconnectInv
  <2>8. LifeInv'
    BY <1>1, <2>1, <2>3, <2>4 DEF LifeInv
  <2>9. QED
    BY <2>6, <2>7, <2>8 DEF TurnsInv
<1>6. CASE StartDevice
  BY <1>3, <1>6 DEF StartDevice, OwnerPlaces
<1>7. CASE StartKeyPingTimer
  BY <1>3, <1>7 DEF StartKeyPingTimer, OwnerPlaces
<1>8. CASE Stop
  BY <1>4, <1>8 DEF Stop, OwnerPlaces, Stopping
<1>9. CASE StopKeyPingTImer
  BY <1>4, <1>9 DEF StopKeyPingTImer, OwnerPlaces, Stopping
<1>10. CASE KeyMouseClose
  BY <1>4, <1>10 DEF KeyMouseClose, OwnerPlaces, Stopping
<1>11. QED
  BY <1>2, <1>5, <1>6, <1>7, <1>8, <1>9, <1>10

\* stop and the destructor, alone with run() and, from the wait on, without it.
LEMMA TurnsOwnerSocket ==
    ASSUME BaseInv, TurnsInv, RaceInv', Sound', Socket(Owner)
    PROVE  TurnsInv'
<1> AtTypes /\ ConnInv /\ Scalars /\ RunInv /\ OwnerInv /\ ReconnectInv /\ LifeInv
  BY DEF BaseInv, TurnsInv
<1> Owner \in Threads /\ RunThread # Owner /\ RunThread \in Threads
  BY ThreadsDiffer
<1>1. ASSUME NEW p \in {"test", "wait", "close", "sendClose", "reset", "stopped", "gone"},
             Goes(Owner, p)
      PROVE  /\ at'[Owner] = p /\ at'[RunThread] = at[RunThread] /\ ~Calm'
             /\ ReconnectInv'
  <2>1. at'[Owner] = p /\ at'[RunThread] = at[RunThread]
    BY <1>1, OneGoes, AllowedPlaces DEF OwnerPlaces, Stopping
  <2>2. ~Calm'
    BY <2>1 DEF Calm, Stopping
  <2>3. ReconnectInv'
    BY <2>2, StopsAloneNext DEF ReconnectInv
  <2>4. QED
    BY <2>1, <2>2, <2>3
<1>2. CASE Quit(Owner) \/ Wait(Owner)
  <2>1. /\ UNCHANGED <<conn, m_wsBoostSocket, destroying>> /\ at[Owner] \in {"quit", "wait"}
        /\ \/ Goes(Owner, "test") /\ at[RunThread] = "stopped"
           \/ Goes(Owner, "wait")
    BY <1>2 DEF Quit, Wait, connVars
  <2>2. /\ at'[RunThread] = at[RunThread] /\ ~Calm' /\ ReconnectInv'
        /\ at'[Owner] \in {"test", "wait"} /\ (at'[Owner] = "test" => at[RunThread] = "stopped")
    BY <1>1, <2>1
  <2>3. RunInv' /\ OwnerInv'
    BY <2>1, <2>2 DEF RunInv, OwnerInv
  <2>4. LifeInv'
    BY <2>1, <2>2 DEF LifeInv
  <2>5. QED
    BY <2>2, <2>3, <2>4 DEF TurnsInv
<1>3. CASE TestSocket(Owner)
  <2>1. /\ UNCHANGED <<conn, m_wsBoostSocket, destroying>> /\ at[Owner] = "test"
        /\ \/ m_wsBoostSocket = NoConn /\ Goes(Owner, AfterSocket(Owner))
           \/ m_wsBoostSocket # NoConn /\ Goes(Owner, "close")
    BY <1>3 DEF TestSocket, Leave, connVars
  <2>2. \/ m_wsBoostSocket = NoConn /\ ~destroying /\ Goes(Owner, "stopped")
        \/ m_wsBoostSocket = NoConn /\ Goes(Owner, "gone")
        \/ m_wsBoostSocket # NoConn /\ ~destroying /\ Goes(Owner, "close")
    BY <2>1, AfterSocketPlace DEF OwnerInv
  <2>3. /\ at'[RunThread] = at[RunThread] /\ ~Calm' /\ ReconnectInv'
        /\ \/ m_wsBoostSocket = NoConn /\ ~destroying /\ at'[Owner] = "stopped"
           \/ m_wsBoostSocket = NoConn /\ at'[Owner] = "gone"
           \/ m_wsBoostSocket # NoConn /\ ~destroying /\ at'[Owner] = "close"
    BY <1>1, <2>2
  <2>4. RunInv' /\ OwnerInv'
    BY <2>1, <2>3 DEF RunInv, OwnerInv
  <2>5. LifeInv'
    BY <2>1, <2>3 DEF LifeInv
  <2>6. QED
    BY <2>3, <2>4, <2>5 DEF TurnsInv
<1>4. CASE CloseSocket(Owner)
  <2>1. at[Owner] \in {"close", "sendClose"} /\ m_wsBoostSocket \in Conns
        /\ m_wsBoostSocket # NoConn /\ ~destroying
    BY <1>4 DEF CloseSocket, OwnerInv, Scalars
  <2>2. /\ UNCHANGED <<m_wsBoostSocket, destroying>>
        /\ \/ at[Owner] = "close" /\ CloseTest(m_wsBoostSocket)
              /\ (Goes(Owner, "sendClose") \/ Goes(Owner, "reset"))
           \/ at[Owner] = "sendClose" /\ Goes(Owner, "reset") /\ \E c \in Conns : CloseSend(c)
    BY <1>4, <2>1 DEF CloseSocket
  <2>3. /\ at'[RunThread] = at[RunThread] /\ ~Calm' /\ ReconnectInv'
        /\ at'[Owner] \in {"sendClose", "reset"}
    BY <1>1, <2>2
  <2>4. \A d \in Conns : conn'[d].alive = conn[d].alive /\ conn'[d].m_outter = conn[d].m_outter
    <3>1. CASE SameLife
      BY <3>1 DEF SameLife
    <3>2. CASE /\ conn'[m_wsBoostSocket]
                    = [conn[m_wsBoostSocket] EXCEPT !.closing = TRUE, !.asked = TRUE]
               /\ \A d \in Conns \ {m_wsBoostSocket} : conn'[d] = conn[d]
      <4>1. conn[m_wsBoostSocket] \in Connection
        BY <2>1 DEF ConnInv
      <4>2. /\ conn'[m_wsBoostSocket].alive = conn[m_wsBoostSocket].alive
            /\ conn'[m_wsBoostSocket].m_outter = conn[m_wsBoostSocket].m_outter
        BY <3>2, <4>1 DEF Connection
      <4>3. QED
        BY <3>2, <4>2
    <3>3. CASE \E c \in Conns : CloseSend(c)
      BY <3>1, <3>3, CloseSendStep
    <3>4. CASE CloseTest(m_wsBoostSocket)
      BY <2>1, <3>1, <3>2, <3>4, CloseTestStep
    <3>5. QED
      BY <2>2, <3>3, <3>4
  <2>5. RunInv' /\ OwnerInv'
    BY <2>1, <2>2, <2>3 DEF RunInv, OwnerInv
  <2>6. LifeInv'
    BY <2>2, <2>3, <2>4 DEF LifeInv
  <2>7. QED
    BY <2>3, <2>5, <2>6 DEF TurnsInv
<1>5. CASE ResetSocket(Owner)
  <2>1. at[Owner] = "reset" /\ m_wsBoostSocket \in Conns /\ m_wsBoostSocket # NoConn /\ ~destroying
    BY <1>5 DEF ResetSocket, OwnerInv, Scalars
  <2>2. /\ Destroy(m_wsBoostSocket) /\ m_wsBoostSocket' = NoConn /\ UNCHANGED destroying
        /\ Goes(Owner, "stopped")
    BY <1>5, <2>1, AfterSocketPlace DEF ResetSocket, Leave
  <2>3. /\ at'[RunThread] = at[RunThread] /\ ~Calm' /\ ReconnectInv' /\ at'[Owner] = "stopped"
    BY <1>1, <2>2
  <2>4. \A d \in Conns : ~conn'[d].alive /\ ~conn'[d].asked /\ ~conn'[d].m_outter
    <3>1. conn'[m_wsBoostSocket] = NoObject
          /\ \A d \in Conns \ {m_wsBoostSocket} : conn'[d] = conn[d]
      BY <2>1, <2>2, DestroyStep
    <3>2. \A d \in Conns \ {m_wsBoostSocket} : ~conn[d].alive /\ ~conn[d].asked /\ ~conn[d].m_outter
      BY NothingAlive DEF LifeInv
    <3>3. QED
      BY <3>1, <3>2 DEF NoObject
  <2>5. RunInv' /\ OwnerInv'
    BY <2>1, <2>2, <2>3 DEF RunInv, OwnerInv
  <2>6. LifeInv'
    BY <2>3, <2>4 DEF LifeInv
  <2>7. QED
    BY <2>3, <2>5, <2>6 DEF TurnsInv
<1>6. QED
  BY <1>2, <1>3, <1>4, <1>5 DEF Socket

(* run() *)

LEMMA TurnsRun ==
    ASSUME BaseInv, TurnsInv, RunSteps
    PROVE  TurnsInv'
<1> AtTypes /\ ConnInv /\ Scalars /\ RunInv /\ OwnerInv /\ ReconnectInv /\ LifeInv
  BY DEF BaseInv, TurnsInv
<1> RunThread \in Threads /\ Owner # RunThread /\ Owner \in Threads
  BY ThreadsDiffer
<1>1. ASSUME NEW p \in RunPlaces, Goes(RunThread, p)
      PROVE  /\ at'[RunThread] = p /\ at'[Owner] = at[Owner]
             /\ \A r \in Reconnectors : at'[r] = at[r]
  BY <1>1, OneGoes, AllowedPlaces, ThreadsDiffer
<1>2. UNCHANGED destroying
  BY DEF RunSteps, RunSocket, RunExec, Socket, Quit, Wait, TestSocket, CloseSocket, ResetSocket
<1>3. CASE RunExec
  <2>1. /\ UNCHANGED <<conn, m_wsBoostSocket>> /\ at[RunThread] = "exec"
        /\ at'[RunThread] = "stopped" /\ at'[Owner] = at[Owner]
        /\ \A r \in Reconnectors : at'[r] = at[r]
    BY <1>1, <1>3 DEF RunExec, connVars, RunPlaces
  <2>2. at[Owner] = "started" \/ ~Calm
    BY <2>1 DEF OwnerInv
  <2>3. RunInv' /\ OwnerInv'
    BY <1>2, <2>1, <2>2 DEF RunInv, OwnerInv, Calm
  <2>4. ReconnectInv'
    BY <2>1 DEF ReconnectInv, Ended
  <2>5. LifeInv'
    BY <2>1 DEF LifeInv, Calm, Reconnecting, Ended
  <2>6. QED
    BY <2>3, <2>4, <2>5 DEF TurnsInv
<1>4. ASSUME at[RunThread] \in {"test", "create", "connect", "callback"}
      PROVE  /\ at[Owner] = "started" \/ ~Calm
             /\ at[Owner] \notin {"test", "close", "sendClose", "reset", "stopped", "gone"}
             /\ ~destroying /\ \A r \in Reconnectors : at[r] = "none"
  <2>1. \A r \in Reconnectors : at[r] = "none"
    BY <1>4 DEF AtTypes, ReconnectPlaces, ReconnectInv
  <2>2. QED
    BY <1>4, <2>1 DEF OwnerInv
<1>5. CASE Socket(RunThread)
  <2>1. at[RunThread] \notin {"quit", "wait", "close", "sendClose", "reset"}
    BY DEF AtTypes, RunPlaces, RunInv
  <2>2. TestSocket(RunThread)
    BY <1>5, <2>1 DEF Socket, Quit, Wait, CloseSocket, ResetSocket
  <2>3. /\ UNCHANGED <<conn, m_wsBoostSocket>> /\ at[RunThread] = "test" /\ m_wsBoostSocket = NoConn
        /\ Goes(RunThread, "create")
    BY <2>2, AfterSocketPlace DEF TestSocket, Leave, connVars, RunInv
  <2>4. /\ at'[RunThread] = "create" /\ at'[Owner] = at[Owner]
        /\ \A r \in Reconnectors : at'[r] = at[r]
    BY <1>1, <2>3 DEF RunPlaces
  <2>5. RunInv' /\ OwnerInv'
    BY <1>2, <1>4, <2>3, <2>4 DEF RunInv, OwnerInv, Calm
  <2>6. ReconnectInv'
    BY <1>4, <2>3, <2>4 DEF ReconnectInv
  <2>7. LifeInv'
    BY <2>3, <2>4, NoSocketNoObject DEF LifeInv, Ended
  <2>8. QED
    BY <2>5, <2>6, <2>7 DEF TurnsInv
<1>6. CASE RunSocket /\ at[RunThread] = "create"
  <2>1. PICK c \in Conns : Construct(c) /\ m_wsBoostSocket' = c
    BY <1>6 DEF RunSocket, StartWebSocket
  <2>2. Goes(RunThread, "connect") /\ m_wsBoostSocket = NoConn
    BY <1>6 DEF RunSocket, StartWebSocket, RunInv
  <2>3. /\ at'[RunThread] = "connect" /\ at'[Owner] = at[Owner]
        /\ \A r \in Reconnectors : at'[r] = at[r]
    BY <1>1, <2>2 DEF RunPlaces
  <2>4. /\ conn'[c] = [NoObject EXCEPT !.alive = TRUE]
        /\ \A d \in Conns \ {c} : conn'[d] = conn[d]
    BY <2>1, ConstructStep
  <2>5. conn'[c].told = <<>> /\ ~conn'[c].asked /\ ~conn'[c].m_outter
    BY <2>4 DEF NoObject
  <2>6. \A d \in Conns : ~conn'[d].asked /\ ~conn'[d].m_outter /\ ~Ended(d)'
                         /\ (conn'[d].alive => d = c)
    BY <2>2, <2>4, <2>5, NoSocketNoObject DEF Ended
  <2>7. RunInv' /\ OwnerInv'
    BY <1>2, <1>4, <1>6, <2>1, <2>3, ConnectionAssumption DEF RunInv, OwnerInv, Calm
  <2>8. ReconnectInv'
    BY <1>4, <1>6, <2>3 DEF ReconnectInv
  <2>9. LifeInv'
    BY <2>1, <2>6 DEF LifeInv
  <2>10. QED
    BY <2>7, <2>8, <2>9 DEF TurnsInv
<1>7. CASE RunSocket /\ at[RunThread] # "create"
  <2>1. at[RunThread] \in {"connect", "callback"} /\ m_wsBoostSocket # NoConn
        /\ m_wsBoostSocket \in Conns /\ UNCHANGED m_wsBoostSocket
    BY <1>7 DEF RunSocket, StartWebSocket, RunInv, Scalars
  <2>2. \/ at[RunThread] = "connect" /\ Connect(m_wsBoostSocket) /\ Goes(RunThread, "callback")
        \/ at[RunThread] = "callback" /\ SetCallback(m_wsBoostSocket) /\ Goes(RunThread, "exec")
    BY <1>7, <2>1 DEF RunSocket, StartWebSocket
  <2>3. /\ at'[RunThread] \in {"callback", "exec"} /\ at'[Owner] = at[Owner]
        /\ \A r \in Reconnectors : at'[r] = at[r]
    BY <1>1, <2>2 DEF RunPlaces
  <2>4. conn[m_wsBoostSocket].alive
    BY <2>1 DEF BaseInv, ObjectInv
  <2>5. \A d \in Conns :
          /\ conn'[d].alive = conn[d].alive /\ conn'[d].told = conn[d].told
          /\ conn'[d].asked = conn[d].asked /\ conn'[d].deaf = conn[d].deaf
          /\ conn'[d].m_outter => conn[d].m_outter \/ at'[RunThread] = "exec"
    <3>1. CASE at[RunThread] = "connect"
      <4>1. conn[m_wsBoostSocket].m_state = "none"
        BY <2>1, <3>1 DEF BaseInv, ObjectInv
      <4>2. SameLife
        BY <2>1, <2>2, <2>4, <3>1, <4>1, ConnectStep
      <4>3. QED
        BY <4>2 DEF SameLife
    <3>2. CASE at[RunThread] = "callback"
      <4>1. /\ conn'[m_wsBoostSocket] = [conn[m_wsBoostSocket] EXCEPT !.m_outter = TRUE]
            /\ \A d \in Conns \ {m_wsBoostSocket} : conn'[d] = conn[d]
        BY <2>1, <2>2, <2>4, <3>2, SetCallbackStep
      <4>2. at'[RunThread] = "exec"
        BY <1>1, <2>2, <3>2 DEF RunPlaces
      <4>3. QED
        BY <2>1, <4>1, <4>2 DEF ConnInv, Connection
    <3>3. QED
      BY <2>1, <3>1, <3>2
  <2>6. RunInv' /\ OwnerInv'
    BY <1>2, <1>4, <2>1, <2>3 DEF RunInv, OwnerInv, Calm
  <2>7. ReconnectInv'
    BY <1>4, <2>1, <2>3 DEF ReconnectInv
  <2>8. LifeInv'
    BY <2>1, <2>3, <2>5 DEF LifeInv, Calm, Reconnecting, Ended
  <2>9. QED
    BY <2>6, <2>7, <2>8 DEF TurnsInv
<1>8. QED
  BY <1>3, <1>5, <1>6, <1>7 DEF RunSteps
(* The reconnect threads *)

\* The only reconnect thread, while the link is kept.
LEMMA ReconnectsAlone ==
    ASSUME BaseInv, TurnsInv, RaceInv, Sound, NEW q \in Reconnectors, at[q] # "none"
    PROVE  /\ Calm /\ at[Owner] = "started" /\ ~destroying
           /\ \A r \in Reconnectors \ {q} : at[r] = "none"
           /\ \A c \in Conns : ~conn[c].asked
<1>1. Reconnecting
  BY DEF Reconnecting
<1>2. Calm
  BY <1>1, StopsAlone
<1>3. at[Owner] = "started" /\ ~destroying
  BY <1>1, <1>2 DEF TurnsInv, OwnerInv, Calm, Stopping
<1>4. \A r \in Reconnectors \ {q} : at[r] = "none"
  BY DEF TurnsInv, ReconnectInv
<1>5. \A c \in Conns : ~conn[c].asked
  BY <1>3 DEF TurnsInv, LifeInv
<1>6. QED
  BY <1>2, <1>3, <1>4, <1>5

LEMMA TurnsReconnect ==
    ASSUME BaseInv, TurnsInv, RaceInv, RaceInv', Sound, Sound', NEW q \in Reconnectors,
           Reconnect(q)
    PROVE  TurnsInv'
<1> AtTypes /\ ConnInv /\ Scalars /\ RunInv /\ OwnerInv /\ ReconnectInv /\ LifeInv
  BY DEF BaseInv, TurnsInv
<1> q \in Threads \ {RunThread, Owner} /\ Owner # RunThread
  BY ThreadsDiffer
<1>1. at[q] # "none"
  BY DEF Reconnect, Socket, Quit, Wait, TestSocket, CloseSocket, ResetSocket, StartAccidental,
    UseFreed
<1>2. /\ Calm /\ at[Owner] = "started" /\ ~destroying
      /\ \A r \in Reconnectors \ {q} : at[r] = "none"
      /\ \A c \in Conns : ~conn[c].asked
  BY <1>1, ReconnectsAlone
<1>3. UNCHANGED destroying
  BY DEF Reconnect, Socket, Quit, Wait, TestSocket, CloseSocket, ResetSocket, StartAccidental,
    UseFreed
<1>4. ASSUME NEW p \in ReconnectPlaces, Goes(q, p)
      PROVE  /\ at'[q] = p /\ at'[RunThread] = at[RunThread] /\ at'[Owner] = "started"
             /\ \A r \in Reconnectors \ {q} : at'[r] = "none"
  BY <1>2, <1>4, OneGoes, AllowedPlaces, ThreadsDiffer
<1>5. ASSUME at'[q] # "none", at'[Owner] = "started", at'[RunThread] = at[RunThread],
             \A r \in Reconnectors \ {q} : at'[r] = "none",
             at[RunThread] \in {"exec", "stopped"},
             m_wsBoostSocket' # NoConn \/ at[RunThread] = "stopped",
             at'[q] \in {"quit", "wait"} \/ at[RunThread] = "stopped",
             at'[q] \in {"quit", "wait", "test", "close", "reset"} =>
                m_wsBoostSocket' # NoConn /\ Ended(m_wsBoostSocket)',
             at'[q] # "sendClose", at'[q] = "start" => m_wsBoostSocket' = NoConn,
             \A d \in Conns : /\ conn'[d].alive => d = m_wsBoostSocket'
                              /\ ~conn'[d].asked
      PROVE  TurnsInv'
  <2>1. Reconnecting' /\ Calm'
    BY <1>5 DEF Reconnecting, Calm, Stopping
  <2>2. RunInv'
    BY <1>5 DEF RunInv
  <2>3. OwnerInv'
    BY <1>2, <1>3, <1>5 DEF OwnerInv
  <2>4. ReconnectInv'
    BY <1>5 DEF ReconnectInv
  <2>5. LifeInv'
    BY <1>5, <2>1 DEF LifeInv
  <2>6. QED
    BY <2>2, <2>3, <2>4, <2>5 DEF TurnsInv
<1>6. at[RunThread] \in {"exec", "stopped"} \/ at[q] = "sendClose"
  BY <1>1 DEF ReconnectInv, AtTypes, ReconnectPlaces
<1>7. CASE Quit(q) \/ Wait(q)
  <2>1. /\ UNCHANGED <<conn, m_wsBoostSocket>> /\ at[q] \in {"quit", "wait"}
        /\ \/ Goes(q, "test") /\ at[RunThread] = "stopped"
           \/ Goes(q, "wait")
    BY <1>7 DEF Quit, Wait, connVars
  <2>2. /\ at'[q] \in {"test", "wait"} /\ (at'[q] = "test" => at[RunThread] = "stopped")
        /\ at'[RunThread] = at[RunThread] /\ at'[Owner] = "started"
        /\ \A r \in Reconnectors \ {q} : at'[r] = "none"
    BY <1>4, <2>1 DEF ReconnectPlaces
  <2>3. m_wsBoostSocket # NoConn /\ Ended(m_wsBoostSocket)
    BY <2>1 DEF ReconnectInv
  <2>4. Ended(m_wsBoostSocket)'
    BY <2>1, <2>3 DEF Ended
  <2>5. QED
    BY <1>2, <1>5, <1>6, <2>1, <2>2, <2>3, <2>4 DEF LifeInv
<1>8. CASE TestSocket(q)
  <2>1. /\ UNCHANGED <<conn, m_wsBoostSocket>> /\ at[q] = "test"
        /\ m_wsBoostSocket # NoConn /\ Ended(m_wsBoostSocket) /\ at[RunThread] = "stopped"
    BY <1>8 DEF TestSocket, connVars, ReconnectInv
  <2>2. Goes(q, "close")
    BY <1>8, <2>1 DEF TestSocket
  <2>3. /\ at'[q] = "close" /\ at'[RunThread] = at[RunThread] /\ at'[Owner] = "started"
        /\ \A r \in Reconnectors \ {q} : at'[r] = "none"
    BY <1>4, <2>2 DEF ReconnectPlaces
  <2>4. Ended(m_wsBoostSocket)'
    BY <2>1 DEF Ended
  <2>5. QED
    BY <1>2, <1>5, <2>1, <2>3, <2>4 DEF LifeInv
<1>9. CASE CloseSocket(q)
  <2>1. /\ at[q] = "close" /\ m_wsBoostSocket # NoConn /\ m_wsBoostSocket \in Conns
        /\ Ended(m_wsBoostSocket) /\ at[RunThread] = "stopped"
    BY <1>9 DEF CloseSocket, ReconnectInv, Scalars
  <2>2. conn[m_wsBoostSocket].m_state = "closed"
    BY <1>2, <2>1, EndedFacts
  <2>3. CloseTest(m_wsBoostSocket) /\ Goes(q, "reset") /\ UNCHANGED m_wsBoostSocket
    BY <1>9, <2>1, <2>2 DEF CloseSocket, Accepts
  <2>4. SameLife
    BY <2>1, <2>2, <2>3, CloseTestStep
  <2>5. /\ at'[q] = "reset" /\ at'[RunThread] = at[RunThread] /\ at'[Owner] = "started"
        /\ \A r \in Reconnectors \ {q} : at'[r] = "none"
    BY <1>4, <2>3 DEF ReconnectPlaces
  <2>6. Ended(m_wsBoostSocket)'
    BY <2>1, <2>3, <2>4 DEF Ended, SameLife
  <2>7. \A d \in Conns : /\ conn'[d].alive => d = m_wsBoostSocket'
                         /\ ~conn'[d].asked
    BY <1>2, <2>3, <2>4 DEF SameLife, LifeInv
  <2>8. QED
    BY <1>5, <2>1, <2>3, <2>5, <2>6, <2>7
<1>10. CASE ResetSocket(q)
  <2>1. /\ at[q] = "reset" /\ m_wsBoostSocket # NoConn /\ m_wsBoostSocket \in Conns
        /\ at[RunThread] = "stopped"
    BY <1>10 DEF ResetSocket, ReconnectInv, Scalars
  <2>2. Destroy(m_wsBoostSocket) /\ m_wsBoostSocket' = NoConn /\ Goes(q, "start")
    BY <1>10, <2>1, AfterSocketPlace DEF ResetSocket, Leave
  <2>3. /\ at'[q] = "start" /\ at'[RunThread] = at[RunThread] /\ at'[Owner] = "started"
        /\ \A r \in Reconnectors \ {q} : at'[r] = "none"
    BY <1>4, <2>2 DEF ReconnectPlaces
  <2>4. \A d \in Conns : ~conn'[d].alive /\ ~conn'[d].asked
    <3>1. conn'[m_wsBoostSocket] = NoObject
          /\ \A d \in Conns \ {m_wsBoostSocket} : conn'[d] = conn[d]
      BY <2>1, <2>2, DestroyStep
    <3>2. \A d \in Conns \ {m_wsBoostSocket} : ~conn[d].alive /\ ~conn[d].asked
      BY NothingAlive DEF LifeInv
    <3>3. QED
      BY <3>1, <3>2 DEF NoObject
  <2>5. QED
    BY <1>5, <2>1, <2>2, <2>3, <2>4
<1>11. CASE StartAccidental(q)
  <2>1. /\ at[q] = "start" /\ m_wsBoostSocket = NoConn /\ at[RunThread] = "stopped"
        /\ UNCHANGED <<conn, m_wsBoostSocket>> /\ StartThread(q, "none")
    BY <1>11 DEF StartAccidental, ReconnectInv, connVars
  <2>2. "none" \in Allowed(q)
    BY AllowedPlaces DEF ReconnectPlaces
  <2>3. /\ at'[q] = "none" /\ at'[RunThread] = "test"
        /\ \A u \in Threads \ {q, RunThread} : at'[u] = at[u]
    BY <2>1, <2>2, StartGoes DEF Scalars
  <2>4. at'[Owner] = "started" /\ \A r \in Reconnectors : at'[r] = "none"
    BY <1>2, <2>3, ThreadsDiffer
  <2>5. \A d \in Conns : ~conn[d].alive /\ ~conn[d].asked /\ ~conn[d].m_outter /\ ~Ended(d)
    BY <2>1, NoSocketNoObject
  <2>6. RunInv' /\ OwnerInv'
    BY <1>2, <1>3, <2>1, <2>3, <2>4 DEF RunInv, OwnerInv
  <2>7. ReconnectInv'
    BY <2>4 DEF ReconnectInv
  <2>8. LifeInv'
    BY <2>1, <2>5 DEF LifeInv, Ended
  <2>9. QED
    BY <2>6, <2>7, <2>8 DEF TurnsInv
<1>12. CASE UseFreed(q)
  BY <1>2, <1>12 DEF UseFreed
<1>13. QED
  BY <1>7, <1>8, <1>9, <1>10, <1>11, <1>12 DEF Reconnect, Socket

-------------------------------------------------------------------------------
(* IInv: every step keeps the threads in turn, or is on record *)

\* Only a reset clears the pointer, and only on a socket does a ping begin.
LEMMA PointerKept ==
    ASSUME Next
    PROVE  /\ m_wsBoostSocket' = m_wsBoostSocket \/ m_wsBoostSocket' \in Conns
              \/ \E t \in Threads : ResetSocket(t)
           /\ \/ ping' = ping
              \/ ping' # "sending"
              \/ m_wsBoostSocket # NoConn /\ UNCHANGED m_wsBoostSocket
<1>1. CASE StartDevice \/ StartKeyPingTimer \/ Start \/ Stop \/ StopKeyPingTImer \/ KeyMouseClose
           \/ Destructor
  BY <1>1 DEF StartDevice, StartKeyPingTimer, Start, Stop, StopKeyPingTImer, KeyMouseClose,
    Destructor, pingVars
<1>2. CASE \E t \in Threads : Socket(t)
  BY <1>2 DEF Socket, Quit, Wait, TestSocket, CloseSocket, ResetSocket, pingVars
<1>3. CASE RunSocket \/ RunExec
  BY <1>3 DEF RunSocket, RunExec, StartWebSocket, pingVars
<1>4. CASE PingSteps \/ Network
  BY <1>4 DEF PingSteps, PingStarted, Ping, OnKeyPingTimer, Network, pingVars
<1>5. CASE \E c \in Conns : Asio(c)
  BY <1>5 DEF Asio, OnOpen, ConnectedCallback, ConnectionLost, AsioLibrary, pingVars
<1>6. CASE \E r \in Reconnectors : UseFreed(r) \/ StartAccidental(r)
  BY <1>6 DEF UseFreed, StartAccidental, pingVars
<1>7. QED
  BY <1>1, <1>2, <1>3, <1>4, <1>5, <1>6, ThreadsDiffer
  DEF Next, Step, OwnerSteps, RunSteps, Reconnect

\* What kills the process.
LEMMA Deaths ==
    ASSUME Next, crashed' # "no"
    PROVE  \/ destroying /\ at[Owner] \in {"test", "reset"} /\ at[RunThread] # "stopped"
           \/ m_wsBoostSocket = NoConn /\ \E t \in Threads : at[t] = "close"
           \/ m_wsBoostSocket = NoConn /\ at[RunThread] \in {"connect", "callback"}
           \/ m_wsBoostSocket = NoConn /\ ping = "sending"
           \/ at[Owner] = "gone" /\ UNCHANGED at /\ Reconnecting
<1>0. crashed = "no"
  BY DEF Next, Step
<1>1. CASE StartDevice \/ StartKeyPingTimer \/ Start \/ Stop \/ StopKeyPingTImer \/ KeyMouseClose
           \/ Destructor
  BY <1>0, <1>1 DEF StartDevice, StartKeyPingTimer, Start, Stop, StopKeyPingTImer, KeyMouseClose,
    Destructor
<1>2. CASE \E t \in Threads : Socket(t)
  BY <1>0, <1>2 DEF Socket, Quit, Wait, TestSocket, CloseSocket, ResetSocket, Leave
<1>3. CASE RunSocket \/ RunExec
  BY <1>0, <1>3 DEF RunSocket, RunExec, StartWebSocket
<1>4. CASE PingSteps \/ Network
  BY <1>0, <1>4 DEF PingSteps, PingStarted, Ping, OnKeyPingTimer, Network
<1>5. CASE \E c \in Conns : Asio(c)
  BY <1>0, <1>5 DEF Asio, OnOpen, ConnectedCallback, ConnectionLost, AsioLibrary
<1>6. CASE \E r \in Reconnectors : UseFreed(r) \/ StartAccidental(r)
  BY <1>0, <1>6 DEF UseFreed, StartAccidental, Reconnecting
<1>7. QED
  BY <1>1, <1>2, <1>3, <1>4, <1>5, <1>6, ThreadsDiffer
  DEF Next, Step, OwnerSteps, RunSteps, Reconnect

LEMMA RaceStep ==
    ASSUME BaseInv, RaceInv, Sound => TurnsInv, BaseInv', Next
    PROVE  RaceInv'
<1>1. raced' = (raced \/ (Reconnecting' /\ Meets'))
  BY DEF Next, Step
<1>2. ASSUME ~raced', ping' = "sending" PROVE m_wsBoostSocket' # NoConn
  <2>1. ~raced /\ ~Reconnecting'
    BY <1>1, <1>2 DEF Meets
  <2>2. TurnsInv
    BY <2>1 DEF Sound
  <2>3. ASSUME NEW t \in Threads, ResetSocket(t), ping = "sending" PROVE FALSE
    <3>1. at[t] = "reset"
      BY <2>3 DEF ResetSocket
    <3>2. t # Owner
      BY <2>3, <3>1 DEF BaseInv, PingInv, Pinging
    <3>3. t # RunThread
      BY <2>2, <3>1 DEF TurnsInv, RunInv
    <3>4. t \in Reconnectors /\ Goes(t, "start")
      BY <2>3, <3>2, <3>3, AfterSocketPlace, ThreadsDiffer DEF ResetSocket, Leave
    <3>5. "start" \in Allowed(t)
      BY <3>4, AllowedPlaces DEF ReconnectPlaces
    <3>6. at'[t] = "start"
      BY <3>4, <3>5, OneGoes DEF BaseInv
    <3>7. QED
      BY <2>1, <3>4, <3>6 DEF Reconnecting
  <2>4. CASE ping = "sending"
    BY <2>1, <2>3, <2>4, PointerKept, ConnectionAssumption DEF RaceInv
  <2>5. CASE ping # "sending"
    BY <1>2, <2>5, PointerKept
  <2>6. QED
    BY <2>4, <2>5
<1>3. ASSUME ~raced', crashed' # "no" PROVE FALSE
  <2>1. ~raced
    BY <1>1, <1>3
  <2>2. TurnsInv
    BY <2>1 DEF Sound
  <2>3. ~(destroying /\ at[Owner] \in {"test", "reset"} /\ at[RunThread] # "stopped")
    BY <2>2 DEF TurnsInv, OwnerInv
  <2>4. m_wsBoostSocket = NoConn => \A t \in Threads : at[t] # "close"
    BY <2>2, ThreadsDiffer DEF TurnsInv, RunInv, OwnerInv, ReconnectInv
  <2>5. m_wsBoostSocket = NoConn => at[RunThread] \notin {"connect", "callback"}
    BY <2>2 DEF TurnsInv, RunInv
  <2>6. m_wsBoostSocket = NoConn => ping # "sending"
    BY <2>1 DEF RaceInv
  <2>7. ~(at[Owner] = "gone" /\ UNCHANGED at /\ Reconnecting)
    BY <1>1, <1>3 DEF Reconnecting, Meets
  <2>8. QED
    BY <1>3, <2>3, <2>4, <2>5, <2>6, <2>7, Deaths
<1>4. QED
  BY <1>1, <1>2, <1>3 DEF RaceInv, OnlyRacesCrash

\* Once the owner has begun to stop the link it does not go back.
LEMMA StopsForGood ==
    ASSUME BaseInv, ~Calm, Next
    PROVE  ~Calm'
<1> AtTypes /\ Scalars
  BY DEF BaseInv
<1> Owner \in Threads
  BY ThreadsDiffer
<1>1. at'[Owner] = at[Owner] => ~Calm'
  BY DEF Calm
<1>2. ASSUME NEW p \in Stopping \cup {"stopped", "gone"}, Goes(Owner, p) PROVE ~Calm'
  <2>1. at'[Owner] = p
    BY <1>2, OneGoes, AllowedPlaces DEF OwnerPlaces
  <2>2. QED
    BY <1>2, <2>1 DEF Calm
<1>3. CASE StartDevice \/ StartKeyPingTimer \/ Start \/ Stop \/ StopKeyPingTImer \/ KeyMouseClose
           \/ Destructor
  <2>1. StopKeyPingTImer \/ KeyMouseClose \/ Destructor
    BY <1>3 DEF StartDevice, StartKeyPingTimer, Start, Stop, Calm, Stopping
  <2>2. \E p \in Stopping : Goes(Owner, p)
    BY <2>1 DEF StopKeyPingTImer, KeyMouseClose, Destructor, Stopping
  <2>3. QED
    BY <1>2, <2>2
<1>4. CASE Socket(Owner)
  <2>1. \/ UNCHANGED at
        \/ Goes(Owner, AfterSocket(Owner))
        \/ \E p \in {"test", "wait", "close", "sendClose", "reset"} : Goes(Owner, p)
    BY <1>4 DEF Socket, Quit, Wait, TestSocket, CloseSocket, ResetSocket, Leave
  <2>2. AfterSocket(Owner) \in {"gone", "stopped"}
    BY AfterSocketPlace
  <2>3. QED
    BY <1>1, <1>2, <2>1, <2>2 DEF Stopping
<1>5. CASE \E t \in Threads \ {Owner} : Socket(t)
  BY <1>1, <1>5, SocketGoes
<1>6. CASE RunSocket \/ RunExec
  <2>1. UNCHANGED at \/ \E p \in RunPlaces : Goes(RunThread, p)
    BY <1>6 DEF RunSocket, RunExec, StartWebSocket, RunPlaces
  <2>2. at'[Owner] = at[Owner]
    BY <2>1, OneGoes, AllowedPlaces, ThreadsDiffer
  <2>3. QED
    BY <1>1, <2>2
<1>7. CASE PingSteps \/ Network
  BY <1>1, <1>7 DEF PingSteps, PingStarted, Ping, Network
<1>8. CASE \E c \in Conns : Asio(c)
  <2>1. UNCHANGED at \/ \E r \in Reconnectors : Goes(r, "quit")
    BY <1>8 DEF Asio, OnOpen, ConnectedCallback, ConnectionLost, AsioLibrary
  <2>2. "quit" \in ReconnectPlaces
    BY DEF ReconnectPlaces
  <2>3. at'[Owner] = at[Owner]
    BY <2>1, <2>2, OneGoes, AllowedPlaces, ThreadsDiffer
  <2>4. QED
    BY <1>1, <2>3
<1>9. CASE \E r \in Reconnectors : UseFreed(r) \/ StartAccidental(r)
  <2>1. UNCHANGED at \/ \E r \in Reconnectors : StartThread(r, "none")
    BY <1>9 DEF UseFreed, StartAccidental
  <2>2. ASSUME NEW r \in Reconnectors, StartThread(r, "none") PROVE at'[Owner] = at[Owner]
    <3>1. "none" \in Allowed(r) /\ r \in Threads \ {RunThread}
      BY AllowedPlaces, ThreadsDiffer DEF ReconnectPlaces
    <3>2. QED
      BY <2>2, <3>1, StartGoes, ThreadsDiffer DEF Scalars
  <2>3. QED
    BY <1>1, <2>1, <2>2
<1>10. QED
  BY <1>3, <1>4, <1>5, <1>6, <1>7, <1>8, <1>9, ThreadsDiffer
  DEF Next, Step, OwnerSteps, RunSteps, Reconnect

LEMMA TurnsStep ==
    ASSUME BaseInv, RaceInv, Sound => TurnsInv, RaceInv', Sound', Next
    PROVE  TurnsInv'
<1>1. Sound
  BY StopsForGood DEF Sound, Next, Step
<1>2. TurnsInv
  BY <1>1
<1>3. CASE StartDevice \/ StartKeyPingTimer \/ Start \/ Stop \/ StopKeyPingTImer \/ KeyMouseClose
           \/ Destructor
  BY <1>2, <1>3, TurnsOwner
<1>4. CASE Socket(Owner)
  BY <1>2, <1>4, TurnsOwnerSocket
<1>5. CASE RunSteps
  BY <1>2, <1>5, TurnsRun
<1>6. CASE PingSteps \/ Network
  BY <1>2, <1>6, TurnsPing
<1>7. CASE \E c \in Conns : Asio(c)
  BY <1>2, <1>7, TurnsAsio
<1>8. CASE \E r \in Reconnectors : Reconnect(r)
  BY <1>1, <1>2, <1>8, TurnsReconnect
<1>9. QED
  BY <1>3, <1>4, <1>5, <1>6, <1>7, <1>8 DEF Next, Step, OwnerSteps

LEMMA IInvInit == Init => IInv
<1> SUFFICES ASSUME Init PROVE IInv
  OBVIOUS
<1>1. /\ BaseInv
      /\ at[Owner] = "idle" /\ at[RunThread] = "stopped" /\ \A r \in Reconnectors : at[r] = "none"
  BY BaseInit, ThreadsDiffer DEF Init
<1>2. ~Reconnecting
  BY <1>1 DEF Reconnecting
<1>3. RaceInv
  BY <1>2 DEF RaceInv, OnlyRacesCrash, Init
<1>4. LifeInv
  BY <1>1 DEF Init, ConnInit, NoObject, LifeInv, Ended
<1>5. RunInv /\ OwnerInv /\ ReconnectInv
  BY <1>1, <1>2 DEF Init, RunInv, OwnerInv, ReconnectInv
<1>6. QED
  BY <1>1, <1>3, <1>4, <1>5 DEF IInv, TurnsInv

LEMMA IInvStep == IInv /\ [Next]_vars => IInv'
<1> SUFFICES ASSUME IInv, [Next]_vars PROVE IInv'
  OBVIOUS
<1>1. BaseInv /\ RaceInv /\ (Sound => TurnsInv) /\ BaseInv'
  BY BaseStep DEF IInv
<1>2. CASE Next
  BY <1>1, <1>2, RaceStep, TurnsStep DEF IInv
<1>3. CASE UNCHANGED vars
  <2>1. UNCHANGED <<conn, ping, at, m_wsBoostSocket, destroying, raced, crashed>>
    BY <1>3 DEF vars, connVars, pingVars
  <2>2. RaceInv'
    BY <1>1, <2>1 DEF RaceInv, Reconnecting, Meets, OnlyRacesCrash
  <2>3. Sound' => TurnsInv'
    BY <1>1, <2>1, SameTales, KeepsTurns DEF Sound, Calm
  <2>4. QED
    BY <1>1, <2>2, <2>3 DEF IInv
<1>4. QED
  BY <1>2, <1>3

\* The inductive invariant of the keyboard link, for any number of objects, reconnect
\* threads and outages.
THEOREM KeyboardLinkInvariant == Spec => []IInv
  BY IInvInit, IInvStep, PTL DEF Spec

-------------------------------------------------------------------------------
(* The properties of the runs *)

\* The fields keep their types; the threads keep to their own places, and the login
\* went out only on connections that have opened.
THEOREM TypeCorrect == Spec => []TypeOK
<1>1. IInv => TypeOK
  BY DEF IInv, BaseInv, AtTypes, Scalars, ConnInv, ObjectInv, PingInv, Late, TypeOK, ConnTypeOK,
    OwnerPlaces, RunPlaces, ReconnectPlaces
<1>2. QED
  BY <1>1, KeyboardLinkInvariant, PTL

\* A null pointer, a freed object or a thread destroyed while it runs: each takes a
\* reconnect thread that was alive during a stop or a ping.
THEOREM DeathNeedsRace == Spec => []OnlyRacesCrash
<1>1. IInv => OnlyRacesCrash
  BY DEF IInv, RaceInv
<1>2. QED
  BY <1>1, KeyboardLinkInvariant, PTL

\* The timer's thread is over before stop closes the device, and begins after start
\* has tried to open it: nothing pings a device that a next session may be opening.
THEOREM PingsEndBeforeClose == Spec => []NoPingAfterClose
<1>1. IInv => NoPingAfterClose
  BY DEF IInv, BaseInv, PingInv, NoPingAfterClose
<1>2. QED
  BY <1>1, KeyboardLinkInvariant, PTL

\* Until the link is stopped a lost connection has one reconnect thread at work.
THEOREM ReconnectsOnce == Spec => []OneReconnect
<1>1. IInv => OneReconnect
  BY DEF IInv, Sound, Calm, TurnsInv, ReconnectInv, OneReconnect
<1>2. QED
  BY <1>1, KeyboardLinkInvariant, PTL

\* No object outlives the pointer to it unless threads have raced.
THEOREM ConnectsOnce == Spec => []OneConnection
<1>1. IInv => OneConnection
  BY DEF IInv, Sound, TurnsInv, LifeInv, OneConnection
<1>2. QED
  BY <1>1, KeyboardLinkInvariant, PTL

\* Every end that the link hears of has a reconnect thread at work on it.
THEOREM DeathsHeard == Spec => []NoSilentDeath
<1>1. IInv => NoSilentDeath
  BY DEF IInv, Sound, Calm, Stopping, TurnsInv, LifeInv, NoSilentDeath
<1>2. QED
  BY <1>1, KeyboardLinkInvariant, PTL

-------------------------------------------------------------------------------
(* The refinement: what the link sees of its connections, whatever races *)

LEMMA StepImplementsLife == BaseInv /\ [Next]_vars => LifeStep
<1> SUFFICES ASSUME BaseInv, [Next]_vars PROVE LifeStep
  OBVIOUS
<1> ConnInv /\ Scalars /\ ObjectInv
  BY DEF BaseInv
<1>1. CASE UNCHANGED conn
  BY <1>1, SameLifeStutters DEF SameLife
<1>2. CASE m_wsBoostSocket \in Conns /\ CloseTest(m_wsBoostSocket)
  BY <1>2, CloseTestLife
<1>3. CASE \E c \in Conns : CloseSend(c)
  BY <1>3, CloseSendStep, SameLifeStutters
<1>4. CASE m_wsBoostSocket \in Conns /\ Destroy(m_wsBoostSocket)
  BY <1>4, DestroyLife
<1>5. CASE RunSocket
  <2>1. CASE \E c \in Conns : Construct(c)
    BY <2>1, ConstructLife
  <2>2. CASE at[RunThread] = "connect" /\ m_wsBoostSocket # NoConn /\ Connect(m_wsBoostSocket)
    BY <2>2, ConnectStep, SameLifeStutters DEF ObjectInv, Scalars
  <2>3. CASE m_wsBoostSocket # NoConn /\ SetCallback(m_wsBoostSocket)
    BY <2>3, SetCallbackLife DEF ObjectInv, Scalars
  <2>4. QED
    BY <1>1, <1>5, <2>1, <2>2, <2>3 DEF RunSocket, StartWebSocket
<1>6. CASE \E c \in Conns : Asio(c)
  <2>1. PICK c \in Conns : Asio(c)
    BY <1>6
  <2>2. CASE OnOpen(c)
    BY <2>2, OnOpenLife DEF OnOpen
  <2>3. CASE ConnectedCallback(c)
    <3>1. (OpenHeard(c) /\ c = m_wsBoostSocket) \in BOOLEAN
      OBVIOUS
    <3>2. QED
      BY <2>3, <3>1, OpenedLife DEF ConnectedCallback
  <2>4. CASE ConnectionLost(c)
    BY <2>4, OnEndLife DEF ConnectionLost
  <2>5. CASE AsioLibrary(c)
    BY <2>5, LibraryStep, CloseFrameStep, SameLifeStutters DEF AsioLibrary, Scalars
  <2>6. QED
    BY <2>1, <2>2, <2>3, <2>4, <2>5 DEF Asio
<1>7. CASE m_wsBoostSocket \in Conns /\ Send(m_wsBoostSocket)
  BY <1>7, SendStep, SameLifeStutters
<1>8. CASE Network
  BY <1>8, NetworkStep, SameLifeStutters DEF Network, Scalars
<1>9. ASSUME NEW t \in Threads, Socket(t) PROVE LifeStep
  <2>1. CASE Quit(t) \/ Wait(t) \/ TestSocket(t)
    BY <1>1, <2>1 DEF Quit, Wait, TestSocket, connVars
  <2>2. CASE CloseSocket(t)
    BY <1>1, <1>2, <1>3, <2>2 DEF CloseSocket, Scalars
  <2>3. CASE ResetSocket(t)
    BY <1>1, <1>4, <2>3 DEF ResetSocket, Scalars
  <2>4. QED
    BY <1>9, <2>1, <2>2, <2>3 DEF Socket
<1>10. CASE StartDevice \/ StartKeyPingTimer \/ Start \/ Stop \/ StopKeyPingTImer \/ KeyMouseClose
            \/ Destructor \/ RunExec
  BY <1>1, <1>10 DEF StartDevice, StartKeyPingTimer, Start, Stop, StopKeyPingTImer,
    KeyMouseClose, Destructor, RunExec, connVars
<1>11. CASE PingSteps
  BY <1>1, <1>7, <1>11 DEF PingSteps, PingStarted, Ping, OnKeyPingTimer, Scalars, connVars
<1>12. CASE \E r \in Reconnectors : UseFreed(r) \/ StartAccidental(r)
  BY <1>1, <1>12 DEF UseFreed, StartAccidental, connVars
<1>13. CASE UNCHANGED vars
  BY <1>1, <1>13 DEF vars, connVars
<1>14. QED
  BY <1>5, <1>6, <1>8, <1>9, <1>10, <1>11, <1>12, <1>13, ThreadsDiffer
  DEF Next, Step, OwnerSteps, RunSteps, Reconnect

\* What the keyboard link sees of its connections is what ConnectionLife promises, also
\* when threads race.
THEOREM KeyboardSeesLife == Spec => ImplementsLife
<1>1. Init => Life!Init
  BY ConnInitLife DEF Init
<1>2. IInv /\ [Next]_vars => [Life!Next]_(Life!vars)
  BY StepImplementsLife DEF IInv, LifeStep
<1>3. QED
  BY <1>1, <1>2, KeyboardLinkInvariant, PTL DEF Spec, ImplementsLife, Life!Spec
===============================================================================
