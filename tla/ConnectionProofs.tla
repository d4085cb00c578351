--------------------------- MODULE ConnectionProofs ---------------------------
(* What holds of a connection object whatever its owner does with it, for any
   number of objects: ConnInv, preserved by every call and every handler of
   WsConnection, and the step of ConnectionLife that each of them is.  The links
   cite one lemma per operation, which says what it may change of told, asked,
   alive, m_outter and deaf; the rest of an object is known to them by ConnInv.

   What an object has told does not say where it stands: an end that the owner's
   close met on its way is told twice.  ObjectOK goes through the histories and
   names the states of the library each of them leaves possible. *)
EXTENDS WsConnection, SequenceTheorems, TLAPS

\* The histories an object can have, and where the library then is.
ObjectOK(o) ==
    /\ ~o.alive => o = NoObject
    /\ o.m_state = "none" => o.told = <<>> /\ o.m_internal_state = "USER_INIT"
    /\ o.closing => o.asked
    /\ o.asked /\ o.m_state = "open" => o.closing
    /\ o.told = <<>> =>
        /\ ~o.opening /\ ~o.asked
        /\ \/ o.tstat = "unknown" /\ o.m_state \in {"none", "connecting"}
           \/ o.tstat = "failed" /\ o.m_state = "closed"
    /\ o.told = <<"failure">> =>
        ~o.opening /\ ~o.asked /\ o.tstat = "unknown" /\ o.m_state = "closed"
    /\ o.told = <<"open">> =>
        \/ o.tstat = "unknown" /\ o.m_state \in {"open", "closing"}
        \/ o.tstat = "closed" /\ o.m_state = "closed" /\ ~o.opening
        \/ o.tstat = "closed" /\ o.m_state = "closing" /\ ~o.opening /\ o.asked /\ ~o.closing
    /\ o.told = <<"open", "close">> =>
        /\ ~o.opening
        /\ \/ o.tstat = "unknown" /\ o.m_state = "closed"
           \/ /\ o.tstat = "unknown" /\ o.m_state = "closing"
              /\ o.asked /\ ~o.closing
           \/ /\ o.tstat = "closed" /\ o.m_state = "closed"
              /\ o.asked /\ ~o.closing
    /\ o.told = <<"open", "close", "close">> =>
        /\ ~o.opening /\ ~o.closing /\ o.asked
        /\ o.tstat = "unknown" /\ o.m_state = "closed"

ConnInv ==
    /\ conn \in [Conns -> Connection]
    /\ \A c \in Conns : ObjectOK(conn[c])

LEMMA AppendToNone ==
    ASSUME NEW S, NEW a \in S
    PROVE  Append(<<>>, a) = <<a>>
<1> DEFINE s == Append(<<>>, a)
           t == <<a>>
<1>1. s \in Seq(S) /\ Len(s) = 1 /\ s[1] = a
  OBVIOUS
<1>2. t \in Seq(S) /\ Len(t) = 1 /\ t[1] = a
  OBVIOUS
<1> HIDE DEF s, t
<1>3. \A i \in 1..Len(s) : s[i] = t[i]
  BY <1>1, <1>2
<1>4. s = t
  BY <1>1, <1>2, <1>3, SeqEqual
<1>5. QED
  BY <1>4 DEF s, t

LEMMA AppendToOne ==
    ASSUME NEW S, NEW a \in S, NEW b \in S
    PROVE  Append(<<a>>, b) = <<a, b>>
<1> DEFINE s == Append(<<a>>, b)
           t == <<a, b>>
<1>1. s \in Seq(S) /\ Len(s) = 2 /\ s[1] = a /\ s[2] = b
  OBVIOUS
<1>2. t \in Seq(S) /\ Len(t) = 2 /\ t[1] = a /\ t[2] = b
  OBVIOUS
<1> HIDE DEF s, t
<1>3. \A i \in 1..Len(s) : s[i] = t[i]
  BY <1>1, <1>2
<1>4. s = t
  BY <1>1, <1>2, <1>3, SeqEqual
<1>5. QED
  BY <1>4 DEF s, t

LEMMA AppendToTwo ==
    ASSUME NEW S, NEW a \in S, NEW b \in S, NEW c \in S
    PROVE  Append(<<a, b>>, c) = <<a, b, c>>
<1> DEFINE s == Append(<<a, b>>, c)
           t == <<a, b, c>>
<1>1. s \in Seq(S) /\ Len(s) = 3 /\ s[1] = a /\ s[2] = b /\ s[3] = c
  OBVIOUS
<1>2. t \in Seq(S) /\ Len(t) = 3 /\ t[1] = a /\ t[2] = b /\ t[3] = c
  OBVIOUS
<1> HIDE DEF s, t
<1>3. \A i \in 1..Len(s) : s[i] = t[i]
  BY <1>1, <1>2
<1>4. s = t
  BY <1>1, <1>2, <1>3, SeqEqual
<1>5. QED
  BY <1>4 DEF s, t

\* The five histories are different, and how one grows into the next.
LEMMA Histories ==
    /\ <<>> # <<"failure">> /\ <<>> # <<"open">> /\ <<>> # <<"open", "close">>
    /\ <<>> # <<"open", "close", "close">>
    /\ <<"failure">> # <<"open">> /\ <<"failure">> # <<"open", "close">>
    /\ <<"failure">> # <<"open", "close", "close">>
    /\ <<"open">> # <<"open", "close">> /\ <<"open">> # <<"open", "close", "close">>
    /\ <<"open", "close">> # <<"open", "close", "close">>
    /\ Append(<<>>, "failure") = <<"failure">>
    /\ Append(<<>>, "open") = <<"open">>
    /\ Append(<<"open">>, "close") = <<"open", "close">>
    /\ Append(<<"open", "close">>, "close") = <<"open", "close", "close">>
<1>1. Append(<<"open">>, "close") = <<"open", "close">>
  <2>1. "open" \in {"open", "close"} /\ "close" \in {"open", "close"}
    OBVIOUS
  <2>2. QED
    BY <2>1, AppendToOne
<1>2. Append(<<"open", "close">>, "close") = <<"open", "close", "close">>
  <2>1. "open" \in {"open", "close"} /\ "close" \in {"open", "close"}
    OBVIOUS
  <2>2. QED
    BY <2>1, AppendToTwo
<1>3. Append(<<>>, "failure") = <<"failure">> /\ Append(<<>>, "open") = <<"open">>
  <2>1. "open" \in {"open", "failure"} /\ "failure" \in {"open", "failure"}
    OBVIOUS
  <2>2. QED
    BY <2>1, AppendToNone
<1>4. QED
  BY <1>1, <1>2, <1>3

LEMMA NoObjectOK == NoObject \in Connection /\ ObjectOK(NoObject)
  BY Histories DEF NoObject, Connection, ObjectOK

\* A new object is one that has just been created.
LEMMA ConnInitInv == ConnInit => ConnInv
  BY NoObjectOK DEF ConnInit, ConnInv

\* The steps that concern neither the owner nor what it was told.
SameLife ==
    \A d \in Conns :
        /\ conn'[d].alive = conn[d].alive /\ conn'[d].told = conn[d].told
        /\ conn'[d].asked = conn[d].asked /\ conn'[d].m_outter = conn[d].m_outter
        /\ conn'[d].deaf = conn[d].deaf

\* A step that changes one object only, and keeps it well formed.
LEMMA OneObject ==
    ASSUME ConnInv, NEW c \in Conns, NEW o \in Connection, ObjectOK(o),
           conn' = [conn EXCEPT ![c] = o]
    PROVE  /\ ConnInv'
           /\ conn'[c] = o
           /\ \A d \in Conns \ {c} : conn'[d] = conn[d]
  BY DEF ConnInv


\* terminate, called by a handler that runs while nothing else is under way.
LEMMA TerminateStep ==
    ASSUME ConnInv, NEW c \in Conns, Idle(c), conn[c].m_state # "none", terminate(c)
    PROVE  ConnInv' /\ SameLife
<1>1. CASE conn[c].m_state = "closed"
  BY <1>1 DEF terminate, ConnInv, SameLife
<1>2. CASE conn[c].m_state # "closed"
  <2> DEFINE o == [conn[c] EXCEPT !.m_state = "closed",
                     !.tstat = IF conn[c].m_state = "connecting" THEN "failed" ELSE "closed",
                     !.link = IF conn[c].link = "reset" THEN "reset" ELSE "none"]
  <2>1. conn[c] \in Connection /\ ObjectOK(conn[c])
    BY DEF ConnInv
  <2>2. conn' = [conn EXCEPT ![c] = o]
    BY <1>2 DEF terminate
  <2>3. o \in Connection
    BY <2>1 DEF Connection
  <2>4. ObjectOK(o)
    BY <1>2, <2>1, Histories DEF ObjectOK, Connection, Idle
  <2>5. o.alive = conn[c].alive /\ o.told = conn[c].told /\ o.asked = conn[c].asked
        /\ o.m_outter = conn[c].m_outter /\ o.deaf = conn[c].deaf
    BY <2>1 DEF Connection
  <2>6. QED
    BY <2>2, <2>3, <2>4, <2>5, OneObject, ZenonT(40) DEF SameLife
<1>3. QED
  BY <1>1, <1>2

\* The library's own handlers.
LEMMA LibraryStep ==
    ASSUME ConnInv, NEW c \in Conns, Library(c)
    PROVE  ConnInv' /\ SameLife
<1> conn[c] \in Connection /\ ObjectOK(conn[c])
  BY DEF ConnInv
<1>1. CASE terminate(c) /\ Idle(c) /\ conn[c].m_state # "none"
  BY <1>1, TerminateStep
<1>2. CASE /\ conn' = [conn EXCEPT ![c].m_internal_state = "WRITE_HTTP_REQUEST", ![c].link = "up"]
           /\ Idle(c) /\ conn[c].m_state = "connecting"
  <2> DEFINE o == [conn[c] EXCEPT !.m_internal_state = "WRITE_HTTP_REQUEST", !.link = "up"]
  <2>1. conn' = [conn EXCEPT ![c] = o]
    BY <1>2
  <2>2. o \in Connection
    BY DEF Connection
  <2>3. ObjectOK(o)
    BY <1>2 DEF ObjectOK, Connection, Idle
  <2>4. o.alive = conn[c].alive /\ o.told = conn[c].told /\ o.asked = conn[c].asked
        /\ o.m_outter = conn[c].m_outter /\ o.deaf = conn[c].deaf
    BY DEF Connection
  <2>5. QED
    BY <2>1, <2>2, <2>3, <2>4, OneObject DEF SameLife
<1>3. CASE /\ conn' = [conn EXCEPT ![c].m_internal_state = "READ_HTTP_RESPONSE"]
           /\ Idle(c) /\ conn[c].m_state = "connecting"
  <2> DEFINE o == [conn[c] EXCEPT !.m_internal_state = "READ_HTTP_RESPONSE"]
  <2>1. conn' = [conn EXCEPT ![c] = o]
    BY <1>3
  <2>2. o \in Connection
    BY DEF Connection
  <2>3. ObjectOK(o)
    BY <1>3 DEF ObjectOK, Connection, Idle
  <2>4. o.alive = conn[c].alive /\ o.told = conn[c].told /\ o.asked = conn[c].asked
        /\ o.m_outter = conn[c].m_outter /\ o.deaf = conn[c].deaf
    BY DEF Connection
  <2>5. QED
    BY <2>1, <2>2, <2>3, <2>4, OneObject DEF SameLife
<1>4. QED
  BY <1>1, <1>2, <1>3 DEF Library, handle_connect, handle_send_http_request,
    handle_read_http_response, handle_read_frame, handle_write_frame,
    handle_close_handshake_timeout, Reading, ObjectOK

\* The peer's close frame.
LEMMA CloseFrameStep ==
    ASSUME ConnInv, outages \in Nat, NEW c \in Conns, NEW max, process_control_frame(c, max)
    PROVE  ConnInv' /\ SameLife /\ outages' \in Nat
<1> DEFINE o == [conn[c] EXCEPT !.m_state = "closing"]
<1>1. conn[c] \in Connection /\ ObjectOK(conn[c])
  BY DEF ConnInv
<1>2. /\ conn' = [conn EXCEPT ![c] = o] /\ outages' = outages + 1
      /\ Idle(c) /\ conn[c].m_state = "open"
  BY DEF process_control_frame
<1>3. o \in Connection
  BY <1>1 DEF Connection
<1>4. ObjectOK(o)
  BY <1>1, <1>2, Histories DEF ObjectOK, Connection, Idle
<1>5. o.alive = conn[c].alive /\ o.told = conn[c].told /\ o.asked = conn[c].asked
      /\ o.m_outter = conn[c].m_outter /\ o.deaf = conn[c].deaf
  BY <1>1 DEF Connection
<1> HIDE DEF o
<1>6. ConnInv' /\ SameLife
  BY <1>2, <1>3, <1>4, <1>5, OneObject DEF SameLife
<1>7. QED
  BY <1>2, <1>6

\* The network goes down and comes back.
LEMMA NetworkStep ==
    ASSUME ConnInv, serverUp \in BOOLEAN, outages \in Nat, NEW max, Outage(max) \/ Restored
    PROVE  ConnInv' /\ SameLife /\ serverUp' \in BOOLEAN /\ outages' \in Nat
<1>1. CASE Outage(max)
  <2> DEFINE linked == {c \in Conns : conn[c].link = "up"}
  <2>1. PICK fate \in [linked -> {"up", "reset", "cut"}] :
          conn' = [c \in Conns |->
                     IF c \in linked THEN [conn[c] EXCEPT !.link = fate[c]] ELSE conn[c]]
    BY <1>1 DEF Outage
  <2>2. ASSUME NEW c \in Conns
        PROVE  /\ conn'[c] \in Connection /\ ObjectOK(conn'[c])
               /\ conn'[c].alive = conn[c].alive /\ conn'[c].told = conn[c].told
               /\ conn'[c].asked = conn[c].asked /\ conn'[c].m_outter = conn[c].m_outter
               /\ conn'[c].deaf = conn[c].deaf
    <3>1. conn[c] \in Connection /\ ObjectOK(conn[c])
      BY DEF ConnInv
    <3>2. CASE c \in linked
      <4> DEFINE o == [conn[c] EXCEPT !.link = fate[c]]
      <4>1. conn'[c] = o /\ conn[c].link = "up" /\ conn[c].alive
        BY <2>1, <3>1, <3>2 DEF ObjectOK, NoObject
      <4>2. o \in Connection /\ ObjectOK(o)
        BY <3>1, <3>2, <4>1 DEF Connection, ObjectOK
      <4>3. QED
        BY <3>1, <4>1, <4>2, ZenonT(40) DEF Connection
    <3>3. CASE c \notin linked
      BY <2>1, <3>1, <3>3
    <3>4. QED
      BY <3>2, <3>3
  <2>3. conn' \in [Conns -> Connection]
    BY <2>1, <2>2
  <2>4. ConnInv' /\ SameLife
    BY <2>2, <2>3 DEF ConnInv, SameLife
  <2>5. serverUp' = FALSE /\ outages' = outages + 1
    BY <1>1 DEF Outage
  <2>6. serverUp' \in BOOLEAN
    BY <2>5
  <2>7. outages' \in Nat
    BY <2>5
  <2>8. QED
    BY <2>4, <2>6, <2>7
<1>2. CASE Restored
  <2>1. conn' = conn /\ serverUp' = TRUE /\ outages' = outages
    BY <1>2 DEF Restored
  <2>2. QED
    BY <2>1 DEF ConnInv, SameLife
<1>3. QED
  BY <1>1, <1>2

-------------------------------------------------------------------------------
(* The calls of the owner *)

LEMMA ConstructStep ==
    ASSUME ConnInv, NEW c \in Conns, Construct(c)
    PROVE  /\ ConnInv' /\ ~conn[c].alive
           /\ conn'[c] = [NoObject EXCEPT !.alive = TRUE]
           /\ \A d \in Conns \ {c} : conn'[d] = conn[d]
<1>1. [NoObject EXCEPT !.alive = TRUE] \in Connection
      /\ ObjectOK([NoObject EXCEPT !.alive = TRUE])
  BY Histories DEF NoObject, Connection, ObjectOK
<1>2. QED
  BY <1>1, OneObject DEF Construct

LEMMA ConnectStep ==
    ASSUME ConnInv, NEW c \in Conns, conn[c].alive, conn[c].m_state = "none", Connect(c)
    PROVE  ConnInv' /\ SameLife
<1> DEFINE o == [conn[c] EXCEPT !.m_state = "connecting"]
<1>1. conn[c] \in Connection /\ ObjectOK(conn[c])
  BY DEF ConnInv
<1>2. conn' = [conn EXCEPT ![c] = o]
  BY DEF Connect
<1>3. o \in Connection /\ ObjectOK(o)
  BY <1>1, Histories DEF Connection, ObjectOK
<1>4. o.alive = conn[c].alive /\ o.told = conn[c].told /\ o.asked = conn[c].asked
      /\ o.m_outter = conn[c].m_outter /\ o.deaf = conn[c].deaf
  BY <1>1 DEF Connection
<1>5. QED
  BY <1>2, <1>3, <1>4, OneObject DEF SameLife

\* Everything but m_outter stays.
LEMMA SetCallbackStep ==
    ASSUME ConnInv, NEW c \in Conns, conn[c].alive, SetCallback(c)
    PROVE  /\ ConnInv'
           /\ conn'[c] = [conn[c] EXCEPT !.m_outter = TRUE]
           /\ \A d \in Conns \ {c} : conn'[d] = conn[d]
<1> DEFINE o == [conn[c] EXCEPT !.m_outter = TRUE]
<1>1. conn[c] \in Connection /\ ObjectOK(conn[c])
  BY DEF ConnInv
<1>2. conn' = [conn EXCEPT ![c] = o]
  BY DEF SetCallback
<1>3. o \in Connection /\ ObjectOK(o)
  BY <1>1, Histories DEF Connection, ObjectOK
<1>4. QED
  BY <1>2, <1>3, OneObject

\* Only an open connection is asked to close.
LEMMA CloseTestStep ==
    ASSUME ConnInv, NEW c \in Conns, CloseTest(c)
    PROVE  /\ ConnInv'
           /\ \/ SameLife
              \/ /\ conn[c].alive /\ conn[c].m_state = "open" /\ conn[c].m_isConnected
                 /\ conn'[c] = [conn[c] EXCEPT !.closing = TRUE, !.asked = TRUE]
                 /\ \A d \in Conns \ {c} : conn'[d] = conn[d]
<1>1. conn[c] \in Connection /\ ObjectOK(conn[c])
  BY DEF ConnInv
<1>2. CASE conn[c].m_isConnected /\ conn[c].m_state = "open"
  <2> DEFINE o == [conn[c] EXCEPT !.closing = TRUE, !.asked = TRUE]
  <2>1. conn' = [conn EXCEPT ![c] = o] /\ ~conn[c].closing
    BY <1>2 DEF CloseTest
  <2>2. conn[c].alive
    BY <1>1, <1>2 DEF ObjectOK, NoObject
  <2>3. o \in Connection
    BY <1>1 DEF Connection
  <2>4. conn[c].told = <<"open">> /\ conn[c].tstat = "unknown"
    BY <1>1, <1>2, Histories DEF Connection, ObjectOK
  <2>5. ObjectOK(o)
    BY <1>1, <1>2, <2>2, <2>4, Histories DEF Connection, ObjectOK
  <2>6. QED
    BY <1>2, <2>1, <2>2, <2>3, <2>5, OneObject
<1>3. CASE ~(conn[c].m_isConnected /\ conn[c].m_state = "open")
  <2> DEFINE o == [conn[c] EXCEPT !.m_isConnected = FALSE]
  <2>1. conn' = [conn EXCEPT ![c] = o]
    BY <1>3 DEF CloseTest
  <2>2. o \in Connection
    BY <1>1 DEF Connection
  <2>3. ObjectOK(o)
    <3>1. CASE conn[c].alive
      BY <1>1, <3>1, Histories DEF Connection, ObjectOK
    <3>2. CASE ~conn[c].alive
      <4>1. conn[c] = NoObject
        BY <1>1, <3>2 DEF ObjectOK
      <4>2. o = [NoObject EXCEPT !.m_isConnected = NoObject.m_isConnected]
        BY <4>1 DEF NoObject
      <4>3. o = NoObject
        BY <4>2, NoObjectOK DEF Connection
      <4>4. QED
        BY <4>3, NoObjectOK
    <3>3. QED
      BY <3>1, <3>2
  <2>4. o.alive = conn[c].alive /\ o.told = conn[c].told /\ o.asked = conn[c].asked
        /\ o.m_outter = conn[c].m_outter /\ o.deaf = conn[c].deaf
    BY <1>1 DEF Connection
  <2>5. QED
    BY <2>1, <2>2, <2>3, <2>4, OneObject DEF SameLife
<1>4. QED
  BY <1>2, <1>3

\* It does not matter whether the object is still there.
LEMMA CloseSendStep ==
    ASSUME ConnInv, NEW c, CloseSend(c)
    PROVE  ConnInv' /\ SameLife
<1>1. CASE c \in Conns
  <2> DEFINE o == [conn[c] EXCEPT !.closing = FALSE, !.m_state = "closing", !.m_isConnected = FALSE]
  <2>1. conn[c] \in Connection /\ ObjectOK(conn[c])
    BY <1>1 DEF ConnInv
  <2>2. conn' = [conn EXCEPT ![c] = o] /\ conn[c].closing
    BY <1>1 DEF CloseSend
  <2>3. o \in Connection
    BY <2>1 DEF Connection
  <2>4. ObjectOK(o)
    BY <2>1, <2>2, Histories DEF Connection, ObjectOK, NoObject
  <2>5. o.alive = conn[c].alive /\ o.told = conn[c].told /\ o.asked = conn[c].asked
        /\ o.m_outter = conn[c].m_outter /\ o.deaf = conn[c].deaf
    BY <2>1 DEF Connection
  <2>6. QED
    BY <1>1, <2>2, <2>3, <2>4, <2>5, OneObject DEF SameLife
<1>2. CASE c \notin Conns
  <2>1. conn' = conn
    BY <1>2 DEF CloseSend, ConnInv
  <2>2. QED
    BY <2>1 DEF ConnInv, SameLife
<1>3. QED
  BY <1>1, <1>2

LEMMA SendStep ==
    ASSUME ConnInv, NEW c \in Conns, Send(c)
    PROVE  ConnInv' /\ SameLife
<1> DEFINE o == [conn[c] EXCEPT !.link = Revealed(c)]
<1>1. conn[c] \in Connection /\ ObjectOK(conn[c])
  BY DEF ConnInv
<1>2. conn' = [conn EXCEPT ![c] = o]
  BY DEF Send
<1>3. Revealed(c) \in {"none", "up", "reset", "cut"}
      /\ (Revealed(c) # conn[c].link => conn[c].alive)
  BY <1>1 DEF Revealed, Accepts, Connection, ObjectOK, NoObject
<1> HIDE DEF Revealed
<1>4. o \in Connection
  BY <1>1, <1>3 DEF Connection
<1>5. ObjectOK(o)
  <2>1. CASE conn[c].alive
    BY <1>1, <2>1, Histories DEF Connection, ObjectOK
  <2>2. CASE ~conn[c].alive
    BY <1>1, <1>3, <2>2, NoObjectOK DEF Connection, ObjectOK, NoObject
  <2>3. QED BY <2>1, <2>2
<1>6. o.alive = conn[c].alive /\ o.told = conn[c].told /\ o.asked = conn[c].asked
      /\ o.m_outter = conn[c].m_outter /\ o.deaf = conn[c].deaf
  BY <1>1 DEF Connection
<1>7. QED
  BY <1>2, <1>4, <1>5, <1>6, OneObject DEF SameLife

\* No handler of a destroyed object is half done.
LEMMA DestroyStep ==
    ASSUME ConnInv, NEW c \in Conns, Destroy(c)
    PROVE  /\ ConnInv' /\ conn'[c] = NoObject
           /\ \A d \in Conns \ {c} : conn'[d] = conn[d]
  BY NoObjectOK, OneObject DEF Destroy

-------------------------------------------------------------------------------
(* What the owner is told *)

LEMMA OnOpenStep ==
    ASSUME ConnInv, NEW c \in Conns, on_open(c)
    PROVE  /\ ConnInv' /\ conn[c].alive
           /\ conn[c].told = <<>> /\ conn'[c].told = <<"open">>
           /\ conn'[c].alive = conn[c].alive /\ conn'[c].asked = conn[c].asked
           /\ conn'[c].m_outter = conn[c].m_outter /\ conn'[c].deaf = conn[c].deaf
           /\ \A d \in Conns \ {c} : conn'[d] = conn[d]
<1> DEFINE o == [conn[c] EXCEPT !.m_internal_state = "PROCESS_CONNECTION", !.m_state = "open",
                                !.m_isConnected = TRUE, !.opening = TRUE,
                                !.told = Append(@, "open")]
<1>1. conn[c] \in Connection /\ ObjectOK(conn[c])
  BY DEF ConnInv
<1>2. conn' = [conn EXCEPT ![c] = o] /\ Idle(c) /\ conn[c].m_state = "connecting"
  BY DEF on_open, Reading
<1>3. conn[c].told = <<>>
  BY <1>1, <1>2, Histories DEF Connection, ObjectOK
<1>4. o.told = <<"open">>
  BY <1>1, <1>3, Histories DEF Connection
<1>5. o \in Connection
  BY <1>1, <1>4 DEF Connection
<1>6. ObjectOK(o)
  BY <1>1, <1>2, <1>3, <1>4, Histories DEF Connection, ObjectOK, Idle
<1>7. o.alive = conn[c].alive /\ o.asked = conn[c].asked
      /\ o.m_outter = conn[c].m_outter /\ o.deaf = conn[c].deaf
  BY <1>1 DEF Connection
<1>8. conn[c].alive
  BY <1>2 DEF Idle
<1> HIDE DEF o
<1>9. QED
  BY <1>2, <1>3, <1>4, <1>5, <1>6, <1>7, <1>8, OneObject

LEMMA MissedType ==
    ASSUME ConnInv, NEW c \in Conns, NEW e \in {"open", "end", "message"}
    PROVE  Missed(c, e) \in SUBSET {"open", "end", "message"}
  BY DEF Missed, ConnInv, Connection

LEMMA OpenedStep ==
    ASSUME ConnInv, NEW c \in Conns, NEW sends \in BOOLEAN, Opened(c, sends)
    PROVE  /\ ConnInv' /\ conn'[c].deaf = Missed(c, "open")
           /\ conn'[c].alive = conn[c].alive /\ conn'[c].asked = conn[c].asked
           /\ conn'[c].m_outter = conn[c].m_outter /\ conn'[c].told = conn[c].told
           /\ \A d \in Conns \ {c} : conn'[d] = conn[d]
<1> DEFINE o == [conn[c] EXCEPT !.opening = FALSE, !.deaf = Missed(c, "open"),
                                !.link = IF sends THEN Revealed(c) ELSE conn[c].link]
<1>1. conn[c] \in Connection /\ ObjectOK(conn[c])
  BY DEF ConnInv
<1>2. conn' = [conn EXCEPT ![c] = o] /\ conn[c].opening
  BY DEF Opened
<1>3. o \in Connection
  BY <1>1, MissedType, ZenonT(40) DEF Connection, Revealed
<1>4. ObjectOK(o)
  BY <1>1, <1>2, Histories DEF Connection, ObjectOK, NoObject
<1>5. o.deaf = Missed(c, "open") /\ o.alive = conn[c].alive /\ o.asked = conn[c].asked
      /\ o.m_outter = conn[c].m_outter /\ o.told = conn[c].told
  BY <1>1 DEF Connection
<1> HIDE DEF o
<1>6. QED
  BY <1>2, <1>3, <1>4, <1>5, OneObject

LEMMA OnMessageStep ==
    ASSUME ConnInv, NEW c \in Conns, on_message(c)
    PROVE  /\ ConnInv' /\ conn[c].alive
           /\ conn[c].told = <<"open">> /\ conn'[c].deaf = Missed(c, "message")
           /\ conn'[c].alive = conn[c].alive /\ conn'[c].asked = conn[c].asked
           /\ conn'[c].m_outter = conn[c].m_outter /\ conn'[c].told = conn[c].told
           /\ \A d \in Conns \ {c} : conn'[d] = conn[d]
<1> DEFINE o == [conn[c] EXCEPT !.deaf = Missed(c, "message")]
<1>1. conn[c] \in Connection /\ ObjectOK(conn[c])
  BY DEF ConnInv
<1>2. conn' = [conn EXCEPT ![c] = o] /\ Idle(c) /\ conn[c].m_state = "open"
  BY DEF on_message
<1>3. conn[c].told = <<"open">>
  BY <1>1, <1>2, Histories DEF Connection, ObjectOK
<1>4. o \in Connection
  BY <1>1, MissedType DEF Connection
<1>5. ObjectOK(o)
  BY <1>1, <1>2, Histories DEF Connection, ObjectOK, Idle
<1>6. o.deaf = Missed(c, "message") /\ o.alive = conn[c].alive /\ o.asked = conn[c].asked
      /\ o.m_outter = conn[c].m_outter /\ o.told = conn[c].told
  BY <1>1 DEF Connection
<1>7. conn[c].alive
  BY <1>2 DEF Idle
<1> HIDE DEF o
<1>8. QED
  BY <1>2, <1>3, <1>4, <1>5, <1>6, <1>7, OneObject

\* The end is told once, and again only to an owner that asked for it.
LEMMA OnEndStep ==
    ASSUME ConnInv, NEW c \in Conns, on_failure(c) \/ on_close(c)
    PROVE  /\ ConnInv' /\ conn[c].alive /\ conn'[c].deaf = Missed(c, "end")
           /\ conn'[c].alive = conn[c].alive /\ conn'[c].asked = conn[c].asked
           /\ conn'[c].m_outter = conn[c].m_outter
           /\ \A d \in Conns \ {c} : conn'[d] = conn[d]
           /\ \/ conn[c].told = <<>> /\ conn'[c].told = <<"failure">>
              \/ conn[c].told = <<"open">> /\ conn'[c].told = <<"open", "close">>
              \/ /\ conn[c].asked
                 /\ conn[c].told = <<"open", "close">>
                 /\ conn'[c].told = <<"open", "close", "close">>
<1>1. conn[c] \in Connection /\ ObjectOK(conn[c])
  BY DEF ConnInv
<1>2. PICK e \in {"failure", "close"} :
        /\ Reported(c, e)
        /\ \/ e = "failure" /\ conn[c].tstat = "failed"
           \/ e = "close" /\ conn[c].tstat = "closed"
  BY DEF on_failure, on_close
<1> DEFINE o == [conn[c] EXCEPT !.tstat = "unknown", !.told = Append(@, e),
                                !.deaf = Missed(c, "end")]
<1>3. conn' = [conn EXCEPT ![c] = o]
  BY <1>2 DEF Reported
<1>4. \/ conn[c].told = <<>> /\ o.told = <<"failure">>
      \/ conn[c].told = <<"open">> /\ o.told = <<"open", "close">>
      \/ /\ conn[c].told = <<"open", "close">> /\ o.told = <<"open", "close", "close">>
         /\ conn[c].asked
  BY <1>1, <1>2, Histories DEF Connection, ObjectOK
<1>5. o \in Connection
  BY <1>1, <1>4, MissedType DEF Connection
<1>6. conn[c].alive
  BY <1>1, <1>2 DEF ObjectOK, NoObject
<1>7. ObjectOK(o)
  <2>1. CASE conn[c].told = <<>> /\ o.told = <<"failure">>
    BY <1>1, <1>2, <1>6, <2>1, Histories DEF Connection, ObjectOK
  <2>2. CASE conn[c].told = <<"open">> /\ o.told = <<"open", "close">>
    BY <1>1, <1>2, <1>6, <2>2, Histories DEF Connection, ObjectOK
  <2>3. CASE conn[c].told = <<"open", "close">> /\ o.told = <<"open", "close", "close">>
    BY <1>1, <1>2, <1>6, <2>3, Histories DEF Connection, ObjectOK
  <2>4. QED
    BY <1>4, <2>1, <2>2, <2>3
<1>8. o.deaf = Missed(c, "end") /\ o.alive = conn[c].alive /\ o.asked = conn[c].asked
      /\ o.m_outter = conn[c].m_outter
  BY <1>1 DEF Connection
<1> HIDE DEF o
<1>9. QED
  BY <1>3, <1>4, <1>5, <1>6, <1>7, <1>8, OneObject
-------------------------------------------------------------------------------
\* Nothing but Connect happens to an object that was not told to connect.
LEMMA FreshStays ==
    ASSUME ConnInv, NEW c \in Conns, NEW d \in Conns, conn[d].m_state = "none",
           NEW max, NEW sends,
           \/ Library(c) \/ process_control_frame(c, max)
           \/ on_open(c) \/ Opened(c, sends) \/ on_message(c) \/ on_failure(c) \/ on_close(c)
           \/ CloseTest(c) \/ CloseSend(c) \/ Send(c) \/ SetCallback(c)
           \/ Outage(max) \/ Restored
    PROVE  conn'[d].m_state = "none"
<1> /\ conn[c] \in Connection /\ ObjectOK(conn[c])
    /\ conn[d] \in Connection /\ ObjectOK(conn[d])
  BY DEF ConnInv
<1>1. CASE terminate(c) /\ conn[c].m_state # "none"
  BY <1>1 DEF terminate, ConnInv
<1>2. CASE Library(c)
  BY <1>1, <1>2 DEF Library, handle_connect, handle_send_http_request,
    handle_read_http_response, handle_read_frame, handle_write_frame,
    handle_close_handshake_timeout, Reading, ObjectOK, ConnInv
<1>3. CASE process_control_frame(c, max) \/ on_open(c)
  BY <1>3 DEF process_control_frame, on_open, Reading, ConnInv
<1>4. CASE Opened(c, sends) \/ on_message(c) \/ Send(c) \/ SetCallback(c)
  BY <1>4 DEF Opened, on_message, Send, SetCallback, ConnInv, Connection
<1>5. CASE on_failure(c) \/ on_close(c)
  BY <1>5 DEF on_failure, on_close, Reported, ConnInv, Connection
<1>6. CASE CloseTest(c)
  BY <1>6 DEF CloseTest, ConnInv, Connection
<1>7. CASE CloseSend(c)
  BY <1>7, Histories DEF CloseSend, ConnInv, ObjectOK, Connection
<1>8. CASE Outage(max)
  <2> DEFINE linked == {e \in Conns : conn[e].link = "up"}
  <2>1. PICK fate \in [linked -> {"up", "reset", "cut"}] :
          conn' = [e \in Conns |->
                     IF e \in linked THEN [conn[e] EXCEPT !.link = fate[e]] ELSE conn[e]]
    BY <1>8 DEF Outage
  <2>2. QED
    BY <2>1 DEF Connection
<1>9. CASE Restored
  BY <1>9 DEF Restored
<1>10. QED
  BY <1>2, <1>3, <1>4, <1>5, <1>6, <1>7, <1>8, <1>9

\* An object that has been open, or failed, does not connect again.
LEMMA LateStays ==
    ASSUME ConnInv, NEW c \in Conns, NEW d \in Conns,
           conn[d].m_state \in {"open", "closing", "closed"}, NEW max, NEW sends,
           \/ Library(c) \/ process_control_frame(c, max)
           \/ on_open(c) \/ Opened(c, sends) \/ on_message(c) \/ on_failure(c) \/ on_close(c)
           \/ CloseTest(c) \/ CloseSend(c) \/ Send(c) \/ SetCallback(c)
           \/ Outage(max) \/ Restored
    PROVE  conn'[d].m_state \in {"open", "closing", "closed"}
<1> /\ conn[c] \in Connection /\ ObjectOK(conn[c])
    /\ conn[d] \in Connection /\ ObjectOK(conn[d])
  BY DEF ConnInv
<1>1. CASE terminate(c)
  BY <1>1 DEF terminate, ConnInv, Connection
<1>2. CASE Library(c)
  BY <1>1, <1>2 DEF Library, handle_connect, handle_send_http_request,
    handle_read_http_response, handle_read_frame, handle_write_frame,
    handle_close_handshake_timeout, Reading, ConnInv
<1>3. CASE process_control_frame(c, max) \/ on_open(c)
  BY <1>3 DEF process_control_frame, on_open, ConnInv, Connection
<1>4. CASE Opened(c, sends) \/ on_message(c) \/ Send(c) \/ SetCallback(c)
  BY <1>4 DEF Opened, on_message, Send, SetCallback, ConnInv, Connection
<1>5. CASE on_failure(c) \/ on_close(c)
  BY <1>5 DEF on_failure, on_close, Reported, ConnInv, Connection
<1>6. CASE CloseTest(c)
  BY <1>6 DEF CloseTest, ConnInv, Connection
<1>7. CASE CloseSend(c)
  BY <1>7 DEF CloseSend, ConnInv, Connection
<1>8. CASE Outage(max)
  <2> DEFINE linked == {e \in Conns : conn[e].link = "up"}
  <2>1. PICK fate \in [linked -> {"up", "reset", "cut"}] :
          conn' = [e \in Conns |->
                     IF e \in linked THEN [conn[e] EXCEPT !.link = fate[e]] ELSE conn[e]]
    BY <1>8 DEF Outage
  <2>2. QED
    BY <2>1 DEF Connection
<1>9. CASE Restored
  BY <1>9 DEF Restored
<1>10. QED
  BY <1>2, <1>3, <1>4, <1>5, <1>6, <1>7, <1>8, <1>9

\* What the histories say of a connection that has ended.
LEMMA EndedFacts ==
    ASSUME ConnInv, NEW c \in Conns
    PROVE  /\ conn[c].told = <<>> => ~Ended(c)
           /\ conn[c].told = <<"open">> => ~Ended(c)
           /\ conn[c].told = <<"failure">> => Ended(c)
           /\ conn[c].told = <<"open", "close">> => Ended(c)
           /\ conn[c].told = <<"open", "close", "close">> => Ended(c)
           /\ Ended(c) => conn[c].told # <<>> /\ conn[c].alive
           /\ Ended(c) /\ ~conn[c].asked => conn[c].m_state = "closed"
<1>1. conn[c] \in Connection /\ ObjectOK(conn[c])
  BY DEF ConnInv
<1>2. Ended(c) => conn[c].alive
  BY <1>1 DEF Ended, ObjectOK, NoObject
<1>3. Ended(c) /\ ~conn[c].asked => conn[c].m_state = "closed"
  BY <1>1, Histories DEF Ended, ObjectOK, Connection
<1>4. QED
  BY <1>2, <1>3, Histories DEF Ended

-------------------------------------------------------------------------------
(* The refinement: each of these effects is a step of ConnectionLife, or none. *)

LifeStep == [Life!Next]_(Life!vars)

\* An object that only takes on another deaf event or m_outter tells nothing.
SameTale(c) ==
    /\ conn'[c].alive = conn[c].alive /\ conn'[c].told = conn[c].told
    /\ conn'[c].asked = conn[c].asked

LEMMA LifeStutters ==
    ASSUME \A d \in Conns : SameTale(d)
    PROVE  LifeStep
<1>1. [c \in Conns |-> conn[c].told]' = [c \in Conns |-> conn[c].told]
  BY DEF SameTale
<1>2. {c \in Conns : conn[c].alive}' = {c \in Conns : conn[c].alive}
  BY DEF SameTale
<1>3. {c \in Conns : conn[c].asked}' = {c \in Conns : conn[c].asked}
  BY DEF SameTale
<1>4. QED
  BY <1>1, <1>2, <1>3 DEF LifeStep, Life!vars

LEMMA SameLifeStutters == SameLife => LifeStep
  BY LifeStutters DEF SameLife, SameTale

\* The owner's calls.
LEMMA ConstructLife ==
    ASSUME ConnInv, NEW c \in Conns, Construct(c)
    PROVE  LifeStep
<1>1. /\ ~conn[c].alive /\ conn[c] = NoObject
      /\ conn'[c] = [NoObject EXCEPT !.alive = TRUE]
      /\ \A d \in Conns \ {c} : conn'[d] = conn[d]
  BY ConstructStep DEF ConnInv, ObjectOK
<1>2. conn'[c].alive /\ conn'[c].told = conn[c].told /\ conn'[c].asked = conn[c].asked
  BY <1>1 DEF NoObject
<1>3. [d \in Conns |-> conn[d].told]' = [d \in Conns |-> conn[d].told]
  BY <1>1, <1>2
<1>4. {d \in Conns : conn[d].alive}' = {d \in Conns : conn[d].alive} \cup {c}
  BY <1>1, <1>2
<1>5. {d \in Conns : conn[d].asked}' = {d \in Conns : conn[d].asked}
  BY <1>1, <1>2
<1>6. Life!Create(c)
  BY <1>1, <1>3, <1>4, <1>5 DEF Life!Create
<1>7. QED
  BY <1>6 DEF LifeStep, Life!Next

LEMMA SetCallbackLife ==
    ASSUME ConnInv, NEW c \in Conns, conn[c].alive, SetCallback(c)
    PROVE  LifeStep
<1>1. /\ conn'[c] = [conn[c] EXCEPT !.m_outter = TRUE]
      /\ \A d \in Conns \ {c} : conn'[d] = conn[d]
  BY SetCallbackStep
<1>2. \A d \in Conns : SameTale(d)
  BY <1>1 DEF SameTale, ConnInv, Connection
<1>3. QED
  BY <1>2, LifeStutters

LEMMA CloseTestLife ==
    ASSUME ConnInv, NEW c \in Conns, CloseTest(c)
    PROVE  LifeStep
<1>1. CASE SameLife
  BY <1>1, SameLifeStutters
<1>2. CASE /\ conn[c].alive /\ conn[c].m_state = "open"
           /\ conn'[c] = [conn[c] EXCEPT !.closing = TRUE, !.asked = TRUE]
           /\ \A d \in Conns \ {c} : conn'[d] = conn[d]
  <2>1. conn[c] \in Connection /\ conn[c].told # <<>>
    BY <1>2, Histories DEF ConnInv, ObjectOK
  <2>2. conn'[c].alive = conn[c].alive /\ conn'[c].told = conn[c].told /\ conn'[c].asked
    BY <1>2, <2>1 DEF Connection
  <2>3. [d \in Conns |-> conn[d].told]' = [d \in Conns |-> conn[d].told]
    BY <1>2, <2>2
  <2>4. {d \in Conns : conn[d].alive}' = {d \in Conns : conn[d].alive}
    BY <1>2, <2>2
  <2>5. {d \in Conns : conn[d].asked}' = {d \in Conns : conn[d].asked} \cup {c}
    BY <1>2, <2>2
  <2>6. Life!Ask(c)
    BY <1>2, <2>1, <2>3, <2>4, <2>5 DEF Life!Ask
  <2>7. QED
    BY <2>6 DEF LifeStep, Life!Next
<1>3. QED
  BY <1>1, <1>2, CloseTestStep

LEMMA DestroyLife ==
    ASSUME ConnInv, NEW c \in Conns, Destroy(c)
    PROVE  LifeStep
<1>1. conn'[c] = NoObject /\ \A d \in Conns \ {c} : conn'[d] = conn[d]
  BY DestroyStep
<1>2. ~conn'[c].alive /\ conn'[c].told = <<>> /\ ~conn'[c].asked
  BY <1>1 DEF NoObject
<1>3. [d \in Conns |-> conn[d].told]' = [[d \in Conns |-> conn[d].told] EXCEPT ![c] = <<>>]
  BY <1>1, <1>2
<1>4. {d \in Conns : conn[d].alive}' = {d \in Conns : conn[d].alive} \ {c}
  BY <1>1, <1>2
<1>5. {d \in Conns : conn[d].asked}' = {d \in Conns : conn[d].asked} \ {c}
  BY <1>1, <1>2
<1>6. Life!Destroy(c)
  BY <1>3, <1>4, <1>5 DEF Life!Destroy
<1>7. QED
  BY <1>6 DEF LifeStep, Life!Next

\* The callbacks.
LEMMA TellLife ==
    ASSUME NEW c \in Conns, NEW e, conn[c].alive,
           conn'[c].told = Append(conn[c].told, e),
           conn'[c].alive = conn[c].alive, conn'[c].asked = conn[c].asked,
           \A d \in Conns \ {c} : conn'[d] = conn[d]
    PROVE  Life!Tell(c, e)
<1>1. [d \in Conns |-> conn[d].told]'
        = [[d \in Conns |-> conn[d].told] EXCEPT ![c] = Append(conn[c].told, e)]
  OBVIOUS
<1>2. {d \in Conns : conn[d].alive}' = {d \in Conns : conn[d].alive}
  OBVIOUS
<1>3. {d \in Conns : conn[d].asked}' = {d \in Conns : conn[d].asked}
  OBVIOUS
<1>4. QED
  BY <1>1, <1>2, <1>3 DEF Life!Tell

LEMMA OnOpenLife ==
    ASSUME ConnInv, NEW c \in Conns, on_open(c)
    PROVE  LifeStep
<1>1. conn[c].told = <<>> /\ Life!Tell(c, "open")
  BY OnOpenStep, TellLife, Histories, ZenonT(40)
<1>2. Life!Open(c)
  BY <1>1 DEF Life!Open
<1>3. QED
  BY <1>2 DEF LifeStep, Life!Next

LEMMA OpenedLife ==
    ASSUME ConnInv, NEW c \in Conns, NEW sends \in BOOLEAN, Opened(c, sends)
    PROVE  LifeStep
<1>1. \A d \in Conns : SameTale(d)
  BY OpenedStep DEF SameTale
<1>2. QED
  BY <1>1, LifeStutters

LEMMA OnMessageLife ==
    ASSUME ConnInv, NEW c \in Conns, on_message(c)
    PROVE  LifeStep
<1>1. \A d \in Conns : SameTale(d)
  BY OnMessageStep DEF SameTale
<1>2. QED
  BY <1>1, LifeStutters

LEMMA OnEndLife ==
    ASSUME ConnInv, NEW c \in Conns, on_failure(c) \/ on_close(c)
    PROVE  LifeStep
<1>1. CASE conn[c].told = <<>> /\ conn'[c].told = <<"failure">>
  <2>1. Life!Tell(c, "failure")
    BY <1>1, OnEndStep, TellLife, Histories, ZenonT(40)
  <2>2. Life!Fail(c)
    BY <1>1, <2>1 DEF Life!Fail
  <2>3. QED
    BY <2>2 DEF LifeStep, Life!Next
<1>2. CASE conn[c].told = <<"open">> /\ conn'[c].told = <<"open", "close">>
  <2>1. Life!Tell(c, "close")
    BY <1>2, OnEndStep, TellLife, Histories, ZenonT(40)
  <2>2. Life!Close(c)
    BY <1>2, <2>1 DEF Life!Close
  <2>3. QED
    BY <2>2 DEF LifeStep, Life!Next
<1>3. CASE /\ conn[c].asked
           /\ conn[c].told = <<"open", "close">>
           /\ conn'[c].told = <<"open", "close", "close">>
  <2>1. Life!Tell(c, "close")
    BY <1>3, OnEndStep, TellLife, Histories, ZenonT(40)
  <2>2. Life!CloseAgain(c)
    BY <1>3, <2>1 DEF Life!CloseAgain
  <2>3. QED
    BY <2>2 DEF LifeStep, Life!Next
<1>4. QED
  BY <1>1, <1>2, <1>3, OnEndStep

LEMMA ConnInitLife == ConnInit => Life!Init
  BY DEF ConnInit, NoObject, Life!Init
===============================================================================
