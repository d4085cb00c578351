------------------------------- MODULE KeyInput -------------------------------
(* From a message of the player to the calls on the virtual keyboard
   (HidKeyboard): KeyBoardThread::MessageCallback on the asio thread of the
   keyboard link, KeyValueTransformt, and the consumer thread of
   ConsumerKeyBoardValue with its queue.

   Keyboard and mouse messages call the device at once.  Gamepad messages become a
   list of keys and mouse buttons, or a mouse move, whose calls go through the
   queue.  The session ends while messages are on their way: the device is closed
   first, then the socket, then the consumer is stopped.  Mouse coordinates and
   joystick messages are left out. *)
EXTENDS Naturals, Sequences, FiniteSets, Functions

CONSTANTS
    Keys, Modifiers, Others, Slots, None,   \* as in HidKeyboard
    Buttons,        \* mouse buttons: key codes 1, 2 and 3
    KeyboardKeys,   \* key codes the player's keyboard sends
    FunctionKeys,   \* codes that IsLeftKeyboardNumberLetter refuses
    FullValue,      \* the key a function key stands for in the two ini files
    IniFiles,       \* those of the two files that exist
    m_nameKeyTable,          \* the three ini files of KeyValueTransformt: gamepad
    m_gameKeyBoardPath,      \* button -> name; name -> list of key codes, of the
    m_defaultKeyBoardPath,   \* game and by default (<<>>: not in the file)
    MaxQueue        \* bound on the queue

ASSUME KeyInputAssumption ==
    /\ Slots \subseteq Nat /\ IsFiniteSet(Slots)
    /\ Keys \cap Modifiers = {} /\ Keys \cap Others = {} /\ Modifiers \cap Others = {}
    /\ None \notin Keys \cup Modifiers \cup Others
    /\ Buttons \cap (Keys \cup Modifiers \cup Others \cup {None}) = {}
    /\ KeyboardKeys \cup FunctionKeys \subseteq Keys \cup Modifiers \cup Others
    /\ FullValue \in [FunctionKeys -> Keys \cup Modifiers]
    /\ IniFiles \subseteq {"valueName", "nameValue"}
    /\ \A p \in DOMAIN m_nameKeyTable :
        /\ m_gameKeyBoardPath[m_nameKeyTable[p]] \in Seq(Keys \cup Modifiers \cup Buttons)
        /\ m_defaultKeyBoardPath[m_nameKeyTable[p]] \in Seq(Keys \cup Modifiers \cup Buttons)
    /\ MaxQueue \in Nat

VARIABLES
    keycodelist, Modkeycodelist, report,                  \* of HidKeyboard
    held, crowded, blank, lastModifier,                   \* its history
    mouse,              \* the button of the last mouse report that was accepted
    session,            \* whether the devices are open, how far the destructor is
    gamePid,            \* SetGamePid was called
    foreground,         \* the game's window is the foreground window
    producing,          \* calls KeyDown_C or KeyUP_C has still to push
    pushing,            \* a push is in progress
    clash,              \* a pop came between its beginning and its end
    m_keyboardVector,   \* the queue
    consumer,           \* where the consumer thread is
    died,               \* the process has died
    last                \* history: what the last message said of each input, or what
                        \* went wrong with it

Hid == INSTANCE HidKeyboard

hidVars == <<keycodelist, Modkeycodelist, report, held, crowded, blank, lastModifier>>
deviceVars == <<hidVars, mouse>>
window == <<gamePid, foreground, session>>
pushVars == <<producing, pushing, clash>>
queueVars == <<m_keyboardVector, consumer, died>>
vars == <<deviceVars, window, pushVars, queueVars, last>>

AllKeys == Keys \cup Modifiers \cup Others
Inputs == AllKeys \cup Buttons \cup {None}
Uds == {"down", "up"}    \* the values 1 and 2 of "ud"
Stale == [ud |-> "stale", key |-> None]
Move == [ud |-> "down", key |-> None]    \* MouseMove_C, with no button
Calls == [ud : Uds, key : AllKeys \cup Buttons] \cup {Move}
Reasons == {"unheard", "lost", "overtaken", "replaced", "function", "stopped"}

TypeOK ==
    /\ Hid!TypeOK
    /\ mouse \in Buttons \cup {None}
    /\ session \in {"open", "closed", "stopping"}
    /\ {gamePid, foreground, pushing, clash, died} \subseteq BOOLEAN
    /\ producing \in Seq(Calls) /\ (pushing => producing # <<>>)
    /\ m_keyboardVector \in Seq(Calls \cup {Stale})
    /\ consumer \in {"loop", "redo", "again", "pop", "ended"}
    /\ (consumer \in {"redo", "again", "pop"} => m_keyboardVector # <<>>)
    /\ last \in [Inputs -> Uds \cup Reasons]

\* start goes on when KeyMouseInit has failed.
Init ==
    /\ Hid!Init
    /\ mouse = None /\ session \in {"open", "closed"}
    /\ gamePid = FALSE /\ foreground \in BOOLEAN
    /\ producing = <<>> /\ pushing = FALSE /\ clash = FALSE
    /\ m_keyboardVector = <<>> /\ consumer = "loop" /\ died = FALSE
    /\ last = [k \in Inputs |-> "up"]

-------------------------------------------------------------------------------
(* Helpers *)

\* The three mouse calls of the library are one: the report names one button.
Mouse(b) ==
    /\ mouse' = IF session = "open" THEN b ELSE mouse
    /\ UNCHANGED hidVars

\* A key's press or release, or a mouse report.  KeyUP_C releases a mouse button by
\* a report without one.
Call(c) ==
    IF c.key \in Buttons \cup {None}
    THEN Mouse(IF c.ud = "down" THEN c.key ELSE None)
    ELSE /\ IF c.ud = "down" THEN Hid!KeyDown(c.key) ELSE Hid!KeyUp(c.key)
         /\ UNCHANGED mouse

KeysOf(calls) == {calls[i].key : i \in DOMAIN calls}

\* History: a message that is heard makes up for what went wrong before it.
Says(ks, word) == last' = [k \in Inputs |-> IF k \in ks THEN word ELSE last[k]]

\* A mouse report that names one button replaces those the player holds.
Replaced(ks) ==
    IF ks \cap (Buttons \cup {None}) = {} THEN {}
    ELSE {b \in Buttons \ ks : last[b] = "down"}

\* Of several mouse buttons that one message presses the last report names one.
Overridden(keys) ==
    {b \in Range(keys) \cap Buttons :
        \E j \in DOMAIN keys :
            keys[j] \in Buttons /\ \A i \in DOMAIN keys : keys[i] = b => i < j}

\* The asio thread handles one message at a time, until the socket is closed.
Ready == ~died /\ producing = <<>> /\ session # "stopping"

Bounded == Len(m_keyboardVector) < MaxQueue

-------------------------------------------------------------------------------
(* MessageCallback *)

IsGameWindowActive == gamePid /\ foreground

\* A message that finds another window in the foreground is dropped; the game's
\* window is told to come to the front, when its process is known.
Dropped(ks) ==
    /\ Ready /\ ~IsGameWindowActive
    /\ foreground' \in {foreground, foreground \/ gamePid}
    /\ Says(ks, "unheard")
    /\ UNCHANGED <<deviceVars, gamePid, session, pushVars, queueVars>>

\* A message that is sent while the link is down reaches nobody.
Offline(ks) ==
    /\ Ready
    /\ Says(ks, "unheard")
    /\ UNCHANGED <<deviceVars, window, pushVars, queueVars>>

\* DealTheNormalKeyboardModel in mode 0, and the keys DealTheFullKeyboardModel
\* takes as they are.  The call does not wait for those in the queue.
KeyboardMessage(k, ud) ==
    /\ Ready /\ IsGameWindowActive
    /\ Call([ud |-> ud, key |-> k])
    /\ Says({k}, IF k \in KeysOf(m_keyboardVector) THEN "overtaken" ELSE ud)
    /\ UNCHANGED <<window, pushVars, queueVars>>

\* Mouse messages (4, 6 and 7): one report, which holds the button it names and no
\* other.
MouseMessage(b) ==
    /\ Ready /\ IsGameWindowActive
    /\ Mouse(b)
    /\ IF KeysOf(m_keyboardVector) \cap (Buttons \cup {None}) # {}
       THEN Says(Buttons, "overtaken")
       ELSE last' = [k \in Inputs |-> IF k \notin Buttons THEN last[k]
                                     ELSE IF k = b THEN "down" ELSE "up"]
    /\ UNCHANGED <<window, pushVars, queueVars>>

\* start opens both ini files with m_iniParse1, one after the other.
m_iniParse1 == IF IniFiles = {"valueName", "nameValue"} THEN "nameValue" ELSE "closed"
m_iniParse2 == "closed"

FunctionValue(k) ==
    IF m_iniParse1 = "valueName" /\ m_iniParse2 = "nameValue" THEN FullValue[k] ELSE None

\* A function key is pressed as what it stands for, if it stands for anything, and
\* released as itself.  m_isUpperKey changes in the same place, hence never.
FunctionMessage(k, ud) ==
    /\ Ready /\ IsGameWindowActive
    /\ IF ud = "down" /\ FunctionValue(k) = None
       THEN UNCHANGED deviceVars /\ Says({k}, "function")
       ELSE /\ Call([ud |-> ud, key |-> IF ud = "down" THEN FunctionValue(k) ELSE k])
            /\ Says({k}, IF k \in KeysOf(m_keyboardVector) THEN "overtaken" ELSE ud)
    /\ UNCHANGED <<window, pushVars, queueVars>>

\* The game's list for the name of the button, or else the default one.  (The code
\* keeps what it found in m_keyValueMap; the files do not change.)
GetMapKeyValue(p) ==
    LET keyName1 == m_nameKeyTable[p]
        defaultKeyValue == m_gameKeyBoardPath[keyName1] IN
    IF defaultKeyValue # <<>> THEN defaultKeyValue ELSE m_defaultKeyBoardPath[keyName1]

\* DealTheNormalKeyboardModel in mode 1: KeyDown_C or KeyUP_C makes one call for
\* each key of the list.
GamepadMessage(p, ud) ==
    LET keys == GetMapKeyValue(p)
        named == Range(keys)
        replaced == Replaced(named) \cup IF ud = "down" THEN Overridden(keys) ELSE {} IN
    /\ Ready /\ IsGameWindowActive /\ Bounded
    /\ producing' = [i \in DOMAIN keys |-> [ud |-> ud, key |-> keys[i]]]
    /\ last' = [k \in Inputs |-> IF k \in replaced THEN "replaced"
                                 ELSE IF k \in named THEN ud ELSE last[k]]
    /\ UNCHANGED <<deviceVars, window, pushing, clash, queueVars>>

\* The second stick moves the mouse, with no button whatever is held.
StickMessage ==
    /\ Ready /\ IsGameWindowActive /\ Bounded
    /\ producing' = <<Move>>
    /\ Says(Replaced({None}), "replaced")
    /\ UNCHANGED <<deviceVars, window, pushing, clash, queueVars>>

-------------------------------------------------------------------------------
(* AddKeyValueToThread: the push of a std::queue that no lock protects *)

PushBegin ==
    /\ ~died /\ producing # <<>> /\ ~pushing
    /\ pushing' = TRUE
    /\ UNCHANGED <<deviceVars, window, producing, clash, queueVars, last>>

\* Push and pop both change the number of elements: when they meet, one of the two
\* changes may be lost, and with it the new element, or the end of the queue.
PushEnd ==
    /\ ~died /\ pushing
    /\ pushing' = FALSE
    /\ producing' = Tail(producing)
    /\ LET c == Head(producing) IN
       \/ /\ m_keyboardVector' = Append(m_keyboardVector, c)
          /\ UNCHANGED last
       \/ /\ clash
          /\ m_keyboardVector' = m_keyboardVector \o <<c, Stale>>
          /\ UNCHANGED last
       \/ /\ clash
          /\ Says({c.key}, "lost")
          /\ UNCHANGED m_keyboardVector
    /\ clash' = FALSE
    /\ UNCHANGED <<deviceVars, window, consumer, died>>

Produce == PushBegin \/ PushEnd

-------------------------------------------------------------------------------
(* ConsumerKeyBoardValue::run *)

\* The front element is copied and called; an element that was destroyed before
\* throws, and nobody catches.  A call on a closed device fails.
ConsumerCall ==
    /\ ~died /\ consumer = "loop" /\ m_keyboardVector # <<>>
    /\ \/ /\ Head(m_keyboardVector) # Stale
          /\ Call(Head(m_keyboardVector))
          /\ consumer' = IF session = "open" THEN "pop"
                         ELSE IF Head(m_keyboardVector) \in [ud : {"down"}, key : AllKeys]
                         THEN "redo" ELSE "again"
          /\ UNCHANGED died
       \/ /\ Head(m_keyboardVector) = Stale
          /\ died' = TRUE
          /\ UNCHANGED <<deviceVars, consumer>>
    /\ UNCHANGED <<window, pushVars, m_keyboardVector, last>>

\* The press of a key that failed is made again after a release, ...
ConsumerRedo ==
    /\ ~died /\ consumer = "redo"
    /\ Call([Head(m_keyboardVector) EXCEPT !.ud = "up"])
    /\ consumer' = "again"
    /\ UNCHANGED <<window, pushVars, m_keyboardVector, died, last>>

\* ... and a call that fails twice is given up.
ConsumerAgain ==
    /\ ~died /\ consumer = "again"
    /\ Call(Head(m_keyboardVector))
    /\ consumer' = "pop"
    /\ UNCHANGED <<window, pushVars, m_keyboardVector, died, last>>

\* Mutants of ConsumerPop: the queue is emptied; nothing is removed.
PopsAll ==
    /\ ~died /\ consumer = "pop"
    /\ consumer' = "loop"
    /\ m_keyboardVector' = <<>>
    /\ clash' = pushing
    /\ UNCHANGED <<deviceVars, window, producing, pushing, died, last>>

PopsNothing ==
    /\ ~died /\ consumer = "pop"
    /\ consumer' = "loop"
    /\ clash' = pushing
    /\ UNCHANGED <<deviceVars, window, producing, pushing, m_keyboardVector, died, last>>

ConsumerPop ==
    /\ ~died /\ consumer = "pop"
    /\ consumer' = "loop"
    /\ m_keyboardVector' = Tail(m_keyboardVector)
    /\ clash' = pushing
    /\ UNCHANGED <<deviceVars, window, producing, pushing, died, last>>

\* The flag is read between two calls: what waits in the queue is forgotten.
ConsumerEnd ==
    /\ ~died /\ consumer = "loop" /\ session = "stopping"
    /\ consumer' = "ended"
    /\ Says(KeysOf(m_keyboardVector), "stopped")
    /\ UNCHANGED <<deviceVars, window, pushVars, m_keyboardVector, died>>

Consumer == ConsumerCall \/ ConsumerRedo \/ ConsumerAgain \/ ConsumerPop \/ ConsumerEnd

-------------------------------------------------------------------------------
(* The end of the session, the protector's SetGamePid, and the desktop *)

KeyMouseClose ==
    /\ ~died /\ session = "open"
    /\ session' = "closed"
    /\ UNCHANGED <<deviceVars, gamePid, foreground, pushVars, queueVars, last>>

\* The socket's thread is joined, so that no message is half done; then the
\* consumer's flag is lowered.
Stop ==
    /\ ~died /\ session = "closed" /\ producing = <<>>
    /\ session' = "stopping"
    /\ UNCHANGED <<deviceVars, gamePid, foreground, pushVars, queueVars, last>>

SetGamePid ==
    /\ ~died /\ ~gamePid
    /\ gamePid' = TRUE
    /\ UNCHANGED <<deviceVars, foreground, session, pushVars, queueVars, last>>

Desktop ==
    /\ ~died
    /\ foreground' = ~foreground
    /\ UNCHANGED <<deviceVars, gamePid, session, pushVars, queueVars, last>>

\* A message about inputs ks that is not heard.
Unheard(ks) == Dropped(ks) \/ Offline(ks)

MessageCallback(ud) ==
    \/ \E k \in KeyboardKeys : KeyboardMessage(k, ud) \/ Unheard({k})
    \/ \E k \in FunctionKeys : FunctionMessage(k, ud) \/ Unheard({k})
    \/ \E p \in DOMAIN m_nameKeyTable : GamepadMessage(p, ud) \/ Unheard(Range(GetMapKeyValue(p)))
    \/ Unheard(Buttons)

Next ==
    \/ \E ud \in Uds : MessageCallback(ud)
    \/ \E b \in Buttons \cup {None} : MouseMessage(b)
    \/ StickMessage
    \/ Produce \/ Consumer \/ KeyMouseClose \/ Stop \/ SetGamePid \/ Desktop

Spec == Init /\ [][Next]_vars

\* The two threads are scheduled; the player and the desktop do as they like.
FairSpec == Spec /\ WF_vars(Produce) /\ WF_vars(Consumer)

-------------------------------------------------------------------------------
(* Properties *)

Settled == producing = <<>> /\ (m_keyboardVector = <<>> \/ consumer = "ended")

Excused(k) == last[k] \in Reasons

\* Whatever the interleaving of the asio thread, the consumer and a stop, once the
\* queue is empty or given up, an open device reports a key if and only if the last
\* message about it pressed it, and a mouse button as well.  The exceptions: the
\* message was not heard, was lost by the queue or given up at the stop, overtook a
\* call in the queue or pressed a function key; a later mouse report replaced the
\* button; or KeyDown left the key out of the last report (LeftOut: 385-390 put up
\* every key when a modifier is pressed).  In the slots, which outlive the session,
\* no key stays that was released, whether the device was open or not.
KeysFollowPlayer ==
    Settled =>
        /\ session = "open" =>
            /\ \A k \in AllKeys :
                \/ Excused(k)
                \/ last[k] = "down" /\ (k \in Hid!Reported \/ Hid!LeftOut(k))
                \/ last[k] = "up" /\ k \notin Hid!Reported
            /\ \A b \in Buttons : Excused(b) \/ (mouse = b <=> last[b] = "down")
        /\ \A k \in AllKeys :
            last[k] = "up" => k \notin Hid!Listed \cup {Modkeycodelist}

\* A release is never forgotten, however many messages follow it.
ReleaseTakesEffect ==
    \A k \in AllKeys :
        last[k] = "up" ~> k \notin Hid!Reported \/ last[k] = "down" \/ Excused(k) \/ died

\* DealTheFullKeyboardModel looks a function key up in the first ini file and
\* presses the key that the second file names: no function key is ignored.
FunctionKeysPress == \A k \in FunctionKeys : last[k] # "function"
===============================================================================
