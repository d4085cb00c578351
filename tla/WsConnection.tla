---------------------------- MODULE WsConnection ----------------------------
(* WsAppConnection: one websocketpp client with its own asio thread, and the
   library's connection behind it.  Two owners use it, the service link and the
   keyboard link; each extends this module and adds what its callbacks
   (OutterInterfaceConnection) do.

   An object is created, told to connect, and only then given its owner
   (SetCallback): the asio thread already runs, so the handlers test m_outter
   and drop the event when it is not set yet.

   The asio thread runs one handler at a time.  A handler is one step, except
   where it calls the owner: on_open has two halves around the test of m_outter,
   and terminate closes the connection before handle_terminate reports it. *)
EXTENDS Naturals, Sequences, FiniteSets

CONSTANTS
    Conns,      \* connection objects; a destroyed one may be used again
    NoConn

ASSUME ConnectionAssumption == NoConn \notin Conns

VARIABLES
    conn,       \* the objects
    serverUp,   \* whether the peer accepts connections
    outages     \* number of times it went down or closed a connection

NoObject ==
    [alive |-> FALSE, m_isConnected |-> FALSE, m_outter |-> FALSE, opening |-> FALSE,
     m_state |-> "none", m_internal_state |-> "USER_INIT", tstat |-> "unknown",
     link |-> "none", closing |-> FALSE, asked |-> FALSE, told |-> <<>>, deaf |-> {}]

Connection ==
    [alive : BOOLEAN,
     m_isConnected : BOOLEAN,
     m_outter : BOOLEAN,
     opening : BOOLEAN,   \* on_open has set m_isConnected and not yet tested m_outter
     m_state : {"none", "connecting", "open", "closing", "closed"},
     m_internal_state : {"USER_INIT", "WRITE_HTTP_REQUEST", "READ_HTTP_RESPONSE",
                         "PROCESS_CONNECTION"},
     tstat : {"unknown", "failed", "closed"},  \* what handle_terminate is to report
     link : {"none", "up", "reset", "cut"},    \* the TCP link; a cut one loses everything
     closing : BOOLEAN,   \* the owner's close has tested m_state and not yet written it
     asked : BOOLEAN,     \* history: the owner closed an open connection
     told : {<<>>, <<"failure">>, <<"open">>, <<"open", "close">>,
             <<"open", "close", "close">>},    \* history: the callbacks called
     deaf : SUBSET {"open", "end", "message"}] \* history: events that met m_outter = NULL

ConnTypeOK ==
    /\ conn \in [Conns -> Connection]
    /\ serverUp \in BOOLEAN
    /\ outages \in Nat

ConnInit ==
    /\ conn = [c \in Conns |-> NoObject]
    /\ serverUp = TRUE
    /\ outages = 0

-------------------------------------------------------------------------------
Missed(c, event) == conn[c].deaf \cup (IF conn[c].m_outter THEN {} ELSE {event})

\* The end of a connection has been reported.
Ended(c) == conn[c].told \notin {<<>>, <<"open">>}

(* Calls of the owner *)

\* Constructor and init: the asio thread runs, the handlers are registered.
Construct(c) ==
    /\ ~conn[c].alive
    /\ conn' = [conn EXCEPT ![c] = [NoObject EXCEPT !.alive = TRUE]]

Connect(c) == conn' = [conn EXCEPT ![c].m_state = "connecting"]

SetCallback(c) == conn' = [conn EXCEPT ![c].m_outter = TRUE]

\* close and closeByAccident.  The library tests m_state under a lock that
\* terminate does not take; on a connection that is not open it throws, and the
\* exception is swallowed.
CloseTest(c) ==
    /\ ~conn[c].closing
    /\ conn' = IF conn[c].m_isConnected /\ conn[c].m_state = "open"
               THEN [conn EXCEPT ![c].closing = TRUE, ![c].asked = TRUE]
               ELSE [conn EXCEPT ![c].m_isConnected = FALSE]

\* send_close_frame: the closing handshake starts, whatever m_state is by now.
CloseSend(c) ==
    /\ conn[c].closing
    /\ conn' = [conn EXCEPT ![c].closing = FALSE, ![c].m_state = "closing",
                            ![c].m_isConnected = FALSE]

\* Destructor: the asio thread is stopped and joined, so no handler is half done.
Destroy(c) ==
    /\ ~conn[c].opening /\ conn[c].tstat = "unknown" /\ ~conn[c].closing
    /\ conn' = [conn EXCEPT ![c] = NoObject]

\* Send is accepted; nothing else is reported to the caller's caller, nor tried again.
Accepts(c) == conn[c].m_isConnected /\ conn[c].m_state = "open"

\* It reaches the peer while the link is up ...
Sends(c) == Accepts(c) /\ conn[c].link = "up"

\* ... and on a link that was cut it is what reveals the cut.
Revealed(c) == IF Accepts(c) /\ conn[c].link = "cut" THEN "reset" ELSE conn[c].link
Send(c) == conn' = [conn EXCEPT ![c].link = Revealed(c)]
-------------------------------------------------------------------------------
(* Handlers, on the asio thread of c. *)

Idle(c) == conn[c].alive /\ ~conn[c].opening /\ conn[c].tstat = "unknown"

\* Mutant: a connection is terminated as often as a handler asks for it.
TerminateAgain(c) ==
    conn' = [conn EXCEPT ![c].m_state = "closed",
                 ![c].tstat = IF conn[c].m_state = "connecting" THEN "failed" ELSE "closed"]

\* Whichever handler meets an error first terminates the connection; the socket is
\* shut down.
terminate(c) ==
    conn' = IF conn[c].m_state = "closed" THEN conn
            ELSE [conn EXCEPT ![c].m_state = "closed",
                     ![c].tstat = IF conn[c].m_state = "connecting" THEN "failed" ELSE "closed",
                     ![c].link = IF @ = "reset" THEN "reset" ELSE "none"]

\* The address is resolved and the TCP connection made: start writes the request.
handle_connect(c) ==
    /\ Idle(c) /\ conn[c].m_state = "connecting" /\ conn[c].m_internal_state = "USER_INIT"
    /\ IF serverUp
       THEN conn' = [conn EXCEPT ![c].m_internal_state = "WRITE_HTTP_REQUEST", ![c].link = "up"]
       ELSE terminate(c)

handle_send_http_request(c) ==
    /\ Idle(c) /\ conn[c].m_state = "connecting"
    /\ conn[c].m_internal_state = "WRITE_HTTP_REQUEST"
    /\ IF conn[c].link # "reset"
       THEN conn' = [conn EXCEPT ![c].m_internal_state = "READ_HTTP_RESPONSE"]
       ELSE terminate(c)

Reading(c) ==
    /\ Idle(c) /\ conn[c].m_state = "connecting"
    /\ conn[c].m_internal_state = "READ_HTTP_RESPONSE"

\* The response opens the connection: first half of on_open.
on_open(c) ==
    /\ Reading(c) /\ conn[c].link = "up"
    /\ conn' = [conn EXCEPT ![c].m_internal_state = "PROCESS_CONNECTION", ![c].m_state = "open",
                            ![c].m_isConnected = TRUE, ![c].opening = TRUE,
                            ![c].told = Append(@, "open")]

\* An error, a refusal, or nothing for five seconds (handle_open_handshake_timeout).
handle_read_http_response(c) ==
    /\ Reading(c) /\ (conn[c].link # "up" \/ ~serverUp)
    /\ terminate(c)

\* The second half of on_open: ConnectedCallback when heard, which may send.
OpenHeard(c) == conn[c].opening /\ conn[c].m_outter
Opened(c, sends) ==
    /\ conn[c].opening
    /\ conn' = [conn EXCEPT ![c].opening = FALSE, ![c].deaf = Missed(c, "open"),
                            ![c].link = IF sends THEN Revealed(c) ELSE @]

on_message(c) ==
    /\ Idle(c) /\ conn[c].m_state = "open" /\ conn[c].link = "up"
    /\ conn' = [conn EXCEPT ![c].deaf = Missed(c, "message")]

\* The peer's close frame is acknowledged; the connection then waits for the peer
\* to close the socket.
process_control_frame(c, max) ==
    /\ Idle(c) /\ conn[c].m_state = "open" /\ conn[c].link = "up" /\ outages < max
    /\ conn' = [conn EXCEPT ![c].m_state = "closing"]
    /\ outages' = outages + 1

\* A read fails; in the closing handshake the end of the stream is expected.
handle_read_frame(c) ==
    /\ Idle(c) /\ conn[c].m_internal_state = "PROCESS_CONNECTION"
    /\ conn[c].link = "reset" \/ (conn[c].m_state = "closing" /\ conn[c].link = "up")
    /\ terminate(c)

\* A write fails, as it does on a socket that is shut down.
handle_write_frame(c) ==
    /\ Idle(c) /\ conn[c].m_internal_state = "PROCESS_CONNECTION"
    /\ conn[c].link = "reset" \/ (conn[c].m_state = "closing" /\ conn[c].link = "none")
    /\ terminate(c)

\* Five seconds without the peer's answer to a close frame.
handle_close_handshake_timeout(c) ==
    /\ Idle(c) /\ conn[c].m_state = "closing"
    /\ terminate(c)

\* What the library does without a call to the owner.
Library(c) ==
    \/ handle_connect(c) \/ handle_send_http_request(c) \/ handle_read_http_response(c)
    \/ handle_read_frame(c) \/ handle_write_frame(c) \/ handle_close_handshake_timeout(c)

\* handle_terminate: on_failure or on_close; neither resets m_isConnected.
Reported(c, event) ==
    conn' = [conn EXCEPT ![c].tstat = "unknown", ![c].told = Append(@, event),
                         ![c].deaf = Missed(c, "end")]

on_failure(c) == conn[c].tstat = "failed" /\ Reported(c, "failure")

on_close(c) == conn[c].tstat = "closed" /\ Reported(c, "close")

-------------------------------------------------------------------------------
(* The peer and the network go down and come back.  Each link survives, is reset,
   or is cut: then nothing tells the client. *)
Outage(max) ==
    LET linked == {c \in Conns : conn[c].link = "up"} IN
    /\ serverUp /\ outages < max
    /\ serverUp' = FALSE
    /\ outages' = outages + 1
    /\ \E fate \in [linked -> {"up", "reset", "cut"}] :
         conn' = [c \in Conns |->
                    IF c \in linked THEN [conn[c] EXCEPT !.link = fate[c]] ELSE conn[c]]

Restored ==
    /\ ~serverUp
    /\ serverUp' = TRUE
    /\ UNCHANGED <<conn, outages>>

-------------------------------------------------------------------------------
(* What an object tells its owner *)
Life == INSTANCE ConnectionLife WITH
    Objects <- Conns,
    alive <- {c \in Conns : conn[c].alive},
    told <- [c \in Conns |-> conn[c].told],
    asked <- {c \in Conns : conn[c].asked}
ImplementsLife == Life!Spec
===============================================================================
