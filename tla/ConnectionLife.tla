--------------------------- MODULE ConnectionLife ---------------------------
(* What a connection object promises its owner, whatever the network does: it
   reports that it opened at most once and before anything else; it reports its
   end once, and a second time only when the owner closed it itself; a new object
   starts afresh and reports nothing once it is destroyed.  Both links are built
   on it: every end that is reported starts a reconnect. *)
EXTENDS Naturals, Sequences

CONSTANT Objects

VARIABLES alive, told, asked
vars == <<alive, told, asked>>

Init ==
    /\ alive = {}
    /\ told = [o \in Objects |-> <<>>]
    /\ asked = {}

Create(o) ==
    /\ o \notin alive
    /\ alive' = alive \cup {o}
    /\ UNCHANGED <<told, asked>>

Tell(o, event) ==
    /\ o \in alive
    /\ told' = [told EXCEPT ![o] = Append(@, event)]
    /\ UNCHANGED <<alive, asked>>

Open(o) == told[o] = <<>> /\ Tell(o, "open")
Fail(o) == told[o] = <<>> /\ Tell(o, "failure")
Close(o) == told[o] = <<"open">> /\ Tell(o, "close")

\* The owner's close met an end that was on its way, and started the handshake of
\* a connection that was closed already.
CloseAgain(o) == o \in asked /\ told[o] = <<"open", "close">> /\ Tell(o, "close")

Ask(o) ==
    /\ o \in alive /\ told[o] # <<>>
    /\ asked' = asked \cup {o}
    /\ UNCHANGED <<alive, told>>

Destroy(o) ==
    /\ alive' = alive \ {o}
    /\ told' = [told EXCEPT ![o] = <<>>]
    /\ asked' = asked \ {o}

Next ==
    \E o \in Objects :
        Create(o) \/ Open(o) \/ Fail(o) \/ Close(o) \/ CloseAgain(o) \/ Ask(o) \/ Destroy(o)

Spec == Init /\ [][Next]_vars
===============================================================================
