---------------------------- MODULE KeyInputProofs ----------------------------
(* Proofs about KeyInput, for any keys, buttons and tables and a queue of any
   length: the types, and that keys and mouse buttons follow the player.

   KeysFollowPlayer speaks of the moment when nothing is on its way.  The invariant
   says what is on its way: of every input the last call that the queue still has to
   make, or the device if there is none, says what the last message said
   (KeysInv, MouseInv), where a message that is being pushed counts once its calls
   are in the queue, all of which say the same (ProducingInv). *)
EXTENDS KeyInput, SequenceTheorems, WellFoundedInduction, TLAPS

-------------------------------------------------------------------------------
(* The inductive invariant *)

\* The calls the queue has still to make: the one in front is made before it is
\* taken out.  Once the consumer has ended, they are given up.
Pending == IF consumer = "pop" THEN Tail(m_keyboardVector) ELSE m_keyboardVector
Waiting == IF consumer = "ended" THEN <<>> ELSE Pending

\* No call of s is one of C; the last one that is one of C is one of D.
Silent(s, C) == \A j \in 1..Len(s) : s[j] \notin C
LastIn(s, C, D) ==
    \E j \in 1..Len(s) :
        /\ s[j] \in C /\ s[j] \in D
        /\ \A i \in 1..Len(s) : i > j => s[i] \notin C

\* The calls about a key, those that press or release; the mouse reports, and those
\* that leave a button pressed.
About(k) == {c \in Calls : c.key = k}
Saying(ud) == {c \in Calls : c.ud = ud}
Reports == {c \in Calls : c.key \in Buttons \cup {None}}
Button(c) == IF c.ud = "down" THEN c.key ELSE None
Leaving(b) == {c \in Calls : Button(c) = b}

\* The last message about an input was heard and what it said is to come true.
Heard(k) == last[k] \in Uds

\* The consumer calls what it has checked, and ends after the last message.
ConsumerInv ==
    /\ consumer \in {"again", "pop"} => Head(m_keyboardVector) \in Calls
    /\ consumer = "redo" => Head(m_keyboardVector) \in [ud : {"down"}, key : AllKeys]
    /\ consumer = "ended" => session = "stopping"
    /\ session = "stopping" => producing = <<>>

ProducingInv ==
    \A i \in 1..Len(producing) :
        LET c == producing[i] IN c.key # None /\ Heard(c.key) => c.ud = last[c.key]

KeysInv ==
    \A k \in AllKeys :
        Heard(k) /\ Silent(producing, About(k)) =>
            \/ LastIn(Waiting, About(k), Saying(last[k]))
            \/ Silent(Waiting, About(k)) /\ (k \in held <=> last[k] = "down")

\* What the mouse will hold when the queue is through is one button v at most.
Final(v) ==
    \/ LastIn(Pending, Reports, Leaving(v))
    \/ Silent(Pending, Reports) /\ mouse = v

MouseInv ==
    session = "open" =>
        \A b \in Buttons :
            /\ last[b] = "down" => \/ Silent(producing, Reports)
                                   \/ LastIn(producing, Reports, Leaving(b))
            /\ \A v \in Buttons \cup {None} :
                Final(v) =>
                    /\ last[b] = "up" /\ Silent(producing, About(b)) => v # b
                    /\ last[b] = "down" /\ Silent(producing, Reports) => v = b

IInv ==
    /\ TypeOK /\ Hid!NothingStuck
    /\ ConsumerInv /\ ProducingInv /\ KeysInv /\ MouseInv

-------------------------------------------------------------------------------
(* Calls in sequences *)

LEMMA NothingInEmpty ==
    ASSUME NEW C, NEW D
    PROVE  Silent(<<>>, C) /\ ~LastIn(<<>>, C, D)
  BY DEF Silent, LastIn

LEMMA SilentOrLast ==
    ASSUME NEW s, NEW C, NEW D, LastIn(s, C, D)
    PROVE  ~Silent(s, C)
  BY DEF Silent, LastIn

LEMMA AppendOther ==
    ASSUME NEW S, NEW s \in Seq(S), NEW c \in S, NEW C, NEW D, c \notin C
    PROVE  /\ Silent(Append(s, c), C) <=> Silent(s, C)
           /\ LastIn(Append(s, c), C, D) <=> LastIn(s, C, D)
<1>1. /\ Len(s) \in Nat /\ Len(Append(s, c)) = Len(s) + 1
      /\ \A i \in 1..Len(s) : Append(s, c)[i] = s[i]
      /\ Append(s, c)[Len(s) + 1] = c
  BY AppendProperties
<1>2. QED
  BY <1>1 DEF Silent, LastIn

LEMMA AppendLast ==
    ASSUME NEW S, NEW s \in Seq(S), NEW c \in S, NEW C, NEW D, c \in C
    PROVE  /\ ~Silent(Append(s, c), C)
           /\ LastIn(Append(s, c), C, D) <=> c \in D
<1>1. /\ Len(s) \in Nat /\ Len(Append(s, c)) = Len(s) + 1
      /\ \A i \in 1..Len(s) : Append(s, c)[i] = s[i]
      /\ Append(s, c)[Len(s) + 1] = c
  BY AppendProperties
<1>2. QED
  BY <1>1 DEF Silent, LastIn

LEMMA TailCalls ==
    ASSUME NEW S, NEW s \in Seq(S), s # <<>>, NEW C, NEW D
    PROVE  /\ Silent(s, C) <=> Head(s) \notin C /\ Silent(Tail(s), C)
           /\ LastIn(s, C, D) <=> \/ LastIn(Tail(s), C, D)
                                  \/ /\ Silent(Tail(s), C)
                                     /\ Head(s) \in C /\ Head(s) \in D
<1>1. /\ Len(s) \in Nat \ {0} /\ Len(Tail(s)) = Len(s) - 1
      /\ Head(s) = s[1]
      /\ \A i \in 1..Len(Tail(s)) : Tail(s)[i] = s[i + 1]
  BY HeadTailProperties, EmptySeq, LenProperties
<1>2. \A j \in 1..Len(s) : j = 1 \/ (j - 1 \in 1..Len(Tail(s)) /\ s[j] = Tail(s)[j - 1])
  BY <1>1
<1>3. \A i \in 1..Len(Tail(s)) : i + 1 \in 1..Len(s) /\ Tail(s)[i] = s[i + 1]
  BY <1>1
<1>4. Silent(s, C) <=> Head(s) \notin C /\ Silent(Tail(s), C)
  <2>1. ASSUME Silent(s, C) PROVE Head(s) \notin C /\ Silent(Tail(s), C)
    <3>1. s[1] \notin C
      BY <1>1, <2>1 DEF Silent
    <3>2. \A i \in 1..Len(Tail(s)) : Tail(s)[i] \notin C
      BY <1>3, <2>1 DEF Silent
    <3>3. QED
      BY <1>1, <3>1, <3>2 DEF Silent
  <2>2. ASSUME Head(s) \notin C, Silent(Tail(s), C) PROVE Silent(s, C)
    <3>1. \A i \in 1..Len(Tail(s)) : Tail(s)[i] \notin C
      BY <2>2 DEF Silent
    <3>2. \A j \in 1..Len(s) : s[j] \notin C
      BY <1>1, <1>2, <2>2, <3>1
    <3>3. QED
      BY <3>2 DEF Silent
  <2>3. QED
    BY <2>1, <2>2
<1>5. ASSUME LastIn(Tail(s), C, D) PROVE LastIn(s, C, D)
  <2>1. PICK j \in 1..Len(Tail(s)) :
          /\ Tail(s)[j] \in C /\ Tail(s)[j] \in D
          /\ \A i \in 1..Len(Tail(s)) : i > j => Tail(s)[i] \notin C
    BY <1>5 DEF LastIn
  <2>2. j + 1 \in 1..Len(s) /\ s[j + 1] \in C /\ s[j + 1] \in D
    BY <1>3, <2>1
  <2>3. ASSUME NEW i \in 1..Len(s), i > j + 1 PROVE s[i] \notin C
    <3>1. i - 1 \in 1..Len(Tail(s)) /\ s[i] = Tail(s)[i - 1] /\ i - 1 > j
      BY <1>1, <1>2, <2>1, <2>3
    <3>2. QED
      BY <2>1, <3>1
  <2>4. QED
    BY <2>2, <2>3 DEF LastIn
<1>6. ASSUME Silent(Tail(s), C), Head(s) \in C, Head(s) \in D PROVE LastIn(s, C, D)
  <2>1. 1 \in 1..Len(s) /\ s[1] \in C /\ s[1] \in D
    BY <1>1, <1>6
  <2>2. \A i \in 1..Len(s) : i > 1 => s[i] \notin C
    BY <1>2, <1>6 DEF Silent
  <2>3. QED
    BY <2>1, <2>2 DEF LastIn
<1>7. ASSUME LastIn(s, C, D)
      PROVE  \/ LastIn(Tail(s), C, D)
             \/ Silent(Tail(s), C) /\ Head(s) \in C /\ Head(s) \in D
  <2>1. PICK j \in 1..Len(s) :
          /\ s[j] \in C /\ s[j] \in D
          /\ \A i \in 1..Len(s) : i > j => s[i] \notin C
    BY <1>7 DEF LastIn
  <2>2. CASE j = 1
    <3>1. Silent(Tail(s), C)
      BY <1>1, <1>3, <2>1, <2>2 DEF Silent
    <3>2. QED
      BY <1>1, <2>1, <2>2, <3>1
  <2>3. CASE j # 1
    <3>1. j - 1 \in 1..Len(Tail(s)) /\ s[j] = Tail(s)[j - 1]
      BY <1>2, <2>3
    <3>2. \A i \in 1..Len(Tail(s)) : i > j - 1 => Tail(s)[i] \notin C
      BY <1>1, <1>3, <2>1
    <3>3. QED
      BY <2>1, <3>1, <3>2 DEF LastIn
  <2>4. QED
    BY <2>2, <2>3
<1>8. QED
  BY <1>4, <1>5, <1>6, <1>7

-------------------------------------------------------------------------------
(* What an action changes *)

\* A call presses or releases its key in the slots, or is one mouse report, which an
\* open device accepts.
LEMMA CallEffect ==
    ASSUME TypeOK, Hid!NothingStuck, NEW c \in Calls, Call(c)
    PROVE  /\ Hid!TypeOK' /\ Hid!NothingStuck'
           /\ c.key \in AllKeys =>
                /\ mouse' = mouse
                /\ c.ud = "down" => held' = held \cup {c.key}
                /\ c.ud = "up" => held' = held \ {c.key}
           /\ c.key \notin AllKeys =>
                /\ c.key \in Buttons \cup {None}
                /\ held' = held
                /\ mouse' = IF session = "open" THEN Button(c) ELSE mouse
<1>a. AllKeys \cap (Buttons \cup {None}) = {}
  BY KeyInputAssumption DEF KeyInputAssumption, AllKeys
<1>b. c.key \in AllKeys \cup Buttons \cup {None} /\ c.ud \in Uds
  BY DEF Calls, Move, Uds
<1>t. Hid!TypeOK
  BY DEF TypeOK
<1>1. CASE c.key \in Buttons \cup {None}
  <2>1. UNCHANGED hidVars /\ mouse' = IF session = "open" THEN Button(c) ELSE mouse
    BY <1>1 DEF Call, Mouse, Button
  <2>2. Hid!TypeOK' /\ Hid!NothingStuck' /\ held' = held
    BY <2>1, <1>t DEF hidVars, Hid!TypeOK, Hid!NothingStuck, Hid!Listed, Hid!Reported
  <2>3. QED
    BY <1>1, <1>a, <2>1, <2>2
<1>2. CASE c.key \in AllKeys
  <2>k. c.key \notin Buttons \cup {None} /\ c.key \in Hid!AllKeys
    BY <1>2, <1>a DEF AllKeys, Hid!AllKeys
  <2>1. CASE c.ud = "down"
    <3>1. Hid!KeyDown(c.key) /\ mouse' = mouse
      BY <2>1, <2>k DEF Call
    <3>h. blank' \in BOOLEAN /\ lastModifier' \in Modifiers \cup {None}
      BY <3>1, <1>t DEF Hid!KeyDown, Hid!TypeOK
    <3>2. CASE Hid!PressNew(c.key)
      <4>1. PICK i \in Slots : Hid!FirstFree(i)
                               /\ keycodelist' = [keycodelist EXCEPT ![i] = c.key]
        BY <3>2 DEF Hid!PressNew
      <4>2. /\ report' = [modifier |-> Modkeycodelist, keys |-> keycodelist']
            /\ held' = held \cup {c.key} /\ crowded' \in BOOLEAN
            /\ Modkeycodelist' = Modkeycodelist /\ c.key \in Keys
        BY <3>2, <1>t DEF Hid!PressNew, Hid!Hold, Hid!Crowd, Hid!TypeOK
      <4>3. keycodelist' \in [Slots -> Keys \cup {None}]
        BY <4>1, <4>2, <1>t DEF Hid!TypeOK
      <4>4. Hid!TypeOK'
        BY <3>h, <4>2, <4>3, <1>t, <2>k DEF Hid!TypeOK, Hid!Report
      <4>5. \A j \in Slots : keycodelist'[j] = c.key \/ keycodelist'[j] = keycodelist[j]
        BY <4>1, <1>t DEF Hid!TypeOK
      <4>6. Hid!Listed' \subseteq Hid!Listed \cup {c.key}
        BY <4>5 DEF Hid!Listed
      <4>7. Hid!Reported' \subseteq Hid!Listed' \cup ({Modkeycodelist} \ {None})
        BY <4>2 DEF Hid!Reported, Hid!Listed
      <4>8. Hid!NothingStuck'
        BY <4>2, <4>6, <4>7 DEF Hid!NothingStuck
      <4>9. QED
        BY <2>1, <1>2, <3>1, <4>2, <4>4, <4>8
    <3>3. CASE Hid!PressAgain(c.key) \/ Hid!PressFull(c.key)
      <4>1. /\ report' = [modifier |-> Modkeycodelist, keys |-> keycodelist]
            /\ held' = held \cup {c.key} /\ crowded' \in BOOLEAN
            /\ Modkeycodelist' = Modkeycodelist /\ keycodelist' = keycodelist
        BY <3>3, <1>t DEF Hid!PressAgain, Hid!PressFull, Hid!Hold, Hid!Crowd, Hid!TypeOK
      <4>2. Hid!TypeOK' /\ Hid!NothingStuck'
        BY <3>h, <4>1, <1>t, <2>k
           DEF Hid!TypeOK, Hid!Report, Hid!NothingStuck, Hid!Listed, Hid!Reported
      <4>3. QED
        BY <2>1, <1>2, <3>1, <4>1, <4>2
    <3>4. CASE Hid!PressModifier(c.key) \/ Hid!PressOther(c.key)
      <4>1. /\ report' = [modifier |-> Modkeycodelist', keys |-> Hid!NoKeys]
            /\ held' = held \cup {c.key} /\ crowded' \in BOOLEAN
            /\ keycodelist' = keycodelist
        BY <3>4, <1>t DEF Hid!PressModifier, Hid!PressOther, Hid!Hold, Hid!Crowd, Hid!TypeOK
      <4>2. /\ Modkeycodelist' \in {Modkeycodelist, c.key}
            /\ Modkeycodelist' \in Modifiers \cup {None}
        BY <3>4, <1>t DEF Hid!PressModifier, Hid!PressOther, Hid!TypeOK
      <4>3. Hid!TypeOK'
        BY <3>h, <4>1, <4>2, <1>t, <2>k DEF Hid!TypeOK, Hid!Report, Hid!NoKeys
      <4>4. Hid!Listed' = Hid!Listed /\ Hid!Reported' \subseteq {Modkeycodelist'} \ {None}
        BY <4>1 DEF Hid!Listed, Hid!Reported, Hid!NoKeys
      <4>5. Hid!NothingStuck'
        BY <4>1, <4>2, <4>4 DEF Hid!NothingStuck
      <4>6. QED
        BY <2>1, <1>2, <3>1, <4>1, <4>3, <4>5
    <3>5. ~Hid!PressZero(c.key)
      BY <2>k DEF Hid!PressZero
    <3>6. QED
      BY <3>1, <3>2, <3>3, <3>4, <3>5 DEF Hid!KeyDown
  <2>2. CASE c.ud = "up"
    <3>1. Hid!KeyUp(c.key) /\ mouse' = mouse
      BY <2>2, <2>k DEF Call
    <3>2. /\ \A j \in Slots :
                \/ keycodelist'[j] = None
                \/ keycodelist'[j] = keycodelist[j] /\ keycodelist[j] # c.key
          /\ \/ Modkeycodelist' = None
             \/ Modkeycodelist' = Modkeycodelist /\ Modkeycodelist # c.key
          /\ report' = [modifier |-> Modkeycodelist', keys |-> keycodelist']
          /\ held' = held \ {c.key} /\ crowded' \in BOOLEAN
      <4>1. \A j \in Slots :
              keycodelist'[j] = IF keycodelist[j] = c.key THEN None ELSE keycodelist[j]
        BY <3>1 DEF Hid!KeyUp
      <4>2. crowded' \in BOOLEAN
        BY <3>1, <1>t DEF Hid!KeyUp, Hid!Crowd, Hid!TypeOK
      <4>3. QED
        BY <3>1, <4>1, <4>2 DEF Hid!KeyUp
    <3>3. keycodelist' \in [Slots -> Keys \cup {None}]
      BY <3>1, <1>t DEF Hid!KeyUp, Hid!TypeOK
    <3>h. blank' \in BOOLEAN /\ lastModifier' \in Modifiers \cup {None}
      BY <3>1, <1>t DEF Hid!KeyUp, Hid!TypeOK
    <3>4. Hid!TypeOK'
      BY <3>h, <3>2, <3>3, <1>t DEF Hid!TypeOK, Hid!Report
    <3>5. Hid!Listed' \subseteq Hid!Listed \ {c.key}
      BY <3>2 DEF Hid!Listed
    <3>6. Hid!Reported' = Hid!Listed' \cup ({Modkeycodelist'} \ {None})
      BY <3>2 DEF Hid!Reported, Hid!Listed
    <3>7. Hid!NothingStuck'
      BY <3>2, <3>5, <3>6 DEF Hid!NothingStuck
    <3>8. QED
      BY <2>2, <1>2, <3>1, <3>2, <3>4, <3>7
  <2>3. QED
    BY <1>b, <2>1, <2>2 DEF Uds
<1>3. QED
  BY <1>b, <1>1, <1>2

-------------------------------------------------------------------------------
\* The kinds of inputs and of calls are apart.
LEMMA Kinds ==
    /\ AllKeys \cap Buttons = {} /\ None \notin AllKeys \cup Buttons
    /\ Inputs = AllKeys \cup Buttons \cup {None} /\ Uds \cap Reasons = {}
    /\ Stale \notin Calls /\ Move \in Calls /\ Move.key = None
    /\ \A ud \in Uds, k \in AllKeys \cup Buttons : [ud |-> ud, key |-> k] \in Calls
    /\ \A c \in Calls : c.ud \in Uds /\ c.key \in Inputs
<1>1. /\ AllKeys \cap Buttons = {} /\ None \notin AllKeys \cup Buttons
      /\ Inputs = AllKeys \cup Buttons \cup {None} /\ Uds \cap Reasons = {}
  BY KeyInputAssumption DEF KeyInputAssumption, AllKeys, Inputs, Uds, Reasons
<1>2. Stale \notin Calls
  <2>1. Stale.ud = "stale" /\ "stale" \notin Uds /\ Move.ud = "down"
    BY DEF Stale, Uds, Move
  <2>2. QED
    BY <2>1 DEF Calls
<1>3. /\ Move \in Calls /\ Move.key = None
      /\ \A ud \in Uds, k \in AllKeys \cup Buttons : [ud |-> ud, key |-> k] \in Calls
  BY DEF Move, Calls
<1>4. \A c \in Calls : c.ud \in Uds /\ c.key \in Inputs
  BY DEF Calls, Move, Uds, Inputs
<1>5. QED
  BY <1>1, <1>2, <1>3, <1>4

\* The button that the queue will leave stays, as do the messages about it.
LEMMA MouseStays ==
    ASSUME IInv, producing' = producing, session' = "open" => session = "open",
           \A v \in Buttons \cup {None} : Final(v)' => Final(v),
           \A k \in Inputs : last'[k] = last[k] \/ last'[k] \in Reasons
    PROVE  MouseInv'
<1>1. \A b \in Buttons : last'[b] \in Uds => last'[b] = last[b]
  BY Kinds
<1>2. \A b \in Buttons :
        /\ last'[b] = "down" => last[b] = "down"
        /\ last'[b] = "up" => last[b] = "up"
  BY <1>1 DEF Uds
<1>3. QED
  BY <1>2 DEF IInv, MouseInv, Reports, Leaving, About

\* What is on its way stays, and of some inputs what the last message said is no
\* longer to come true.
LEMMA StillToCome ==
    ASSUME IInv, producing' = producing, Pending' = Pending, Waiting' = Waiting,
           held' = held, mouse' = mouse, session' = "open" => session = "open",
           \A k \in Inputs : last'[k] = last[k] \/ last'[k] \in Reasons
    PROVE  ProducingInv' /\ KeysInv' /\ MouseInv'
<1>1. \A k \in Inputs : last'[k] \in Uds => last'[k] = last[k]
  BY Kinds
<1>2. ProducingInv'
  <2>1. producing \in Seq(Calls)
    BY DEF IInv, TypeOK
  <2>2. ASSUME NEW i \in 1..Len(producing), producing[i].key # None,
               last'[producing[i].key] \in Uds
        PROVE  producing[i].ud = last'[producing[i].key]
    <3>1. producing[i] \in Calls
      BY <2>1, <2>2, ElementOfSeq
    <3>2. producing[i].key \in Inputs
      BY <3>1, Kinds
    <3>3. QED
      BY <1>1, <2>2, <3>2 DEF IInv, ProducingInv, Heard
  <2>3. QED
    BY <2>2 DEF ProducingInv, Heard
<1>3. KeysInv'
  <2>1. ASSUME NEW k \in AllKeys, last'[k] \in Uds, Silent(producing, About(k))
        PROVE  \/ LastIn(Waiting, About(k), Saying(last'[k]))
               \/ Silent(Waiting, About(k)) /\ (k \in held <=> last'[k] = "down")
    <3>1. last'[k] = last[k]
      BY <1>1, <2>1, Kinds
    <3>2. QED
      BY <2>1, <3>1 DEF IInv, KeysInv, Heard
  <2>2. QED
    BY <2>1 DEF KeysInv, Heard, About, Saying
<1>4. MouseInv'
  <2>1. \A v : Final(v)' <=> Final(v)
    BY DEF Final, Reports, Leaving
  <2>2. QED
    BY <2>1, MouseStays
<1>5. QED
  BY <1>2, <1>3, <1>4

\* A call of the queue is made on time: it was the next to come.
LEMMA CallIsMade ==
    ASSUME IInv, consumer \in {"loop", "again"}, m_keyboardVector # <<>>,
           Head(m_keyboardVector) \in Calls, Call(Head(m_keyboardVector)),
           consumer' = "pop", UNCHANGED <<m_keyboardVector, producing, session, last>>
    PROVE  KeysInv' /\ MouseInv'
<1> DEFINE q == m_keyboardVector
           c == Head(m_keyboardVector)
<1>q. q \in Seq(Calls \cup {Stale})
  BY DEF IInv, TypeOK
<1>w. /\ Waiting = q /\ Pending = q
      /\ Waiting' = Tail(q) /\ Pending' = Tail(q)
  BY DEF Waiting, Pending
<1>t. \A C, D : /\ Silent(q, C) <=> c \notin C /\ Silent(Tail(q), C)
                /\ LastIn(q, C, D) <=> \/ LastIn(Tail(q), C, D)
                                       \/ Silent(Tail(q), C) /\ c \in C /\ c \in D
  BY <1>q, TailCalls
<1>e. /\ c.key \in AllKeys =>
           /\ mouse' = mouse
           /\ c.ud = "down" => held' = held \cup {c.key}
           /\ c.ud = "up" => held' = held \ {c.key}
      /\ c.key \notin AllKeys =>
           /\ c.key \in Buttons \cup {None}
           /\ held' = held
           /\ mouse' = IF session = "open" THEN Button(c) ELSE mouse
  <2>1. TypeOK /\ Hid!NothingStuck
    BY DEF IInv
  <2>2. QED
    BY <2>1, CallEffect
<1>c. c \in Calls /\ c.ud \in Uds
  BY Kinds
<1> HIDE DEF q, c
<1>1. KeysInv'
  <2>1. ASSUME NEW k \in AllKeys, last[k] \in Uds, Silent(producing, About(k))
        PROVE  \/ LastIn(Tail(q), About(k), Saying(last[k]))
               \/ Silent(Tail(q), About(k)) /\ (k \in held' <=> last[k] = "down")
    <3>1. \/ LastIn(q, About(k), Saying(last[k]))
          \/ Silent(q, About(k)) /\ (k \in held <=> last[k] = "down")
      BY <1>w, <2>1 DEF IInv, KeysInv, Heard
    <3>2. CASE LastIn(Tail(q), About(k), Saying(last[k]))
      BY <3>2
    <3>3. CASE Silent(Tail(q), About(k)) /\ c \in About(k) /\ c \in Saying(last[k])
      <4>1. c.key = k /\ c.ud = last[k]
        BY <3>3 DEF About, Saying
      <4>2. k \in held' <=> last[k] = "down"
        BY <1>c, <1>e, <4>1 DEF Uds
      <4>3. QED
        BY <3>3, <4>2
    <3>4. CASE Silent(q, About(k)) /\ (k \in held <=> last[k] = "down")
      <4>1. c \notin About(k) /\ Silent(Tail(q), About(k))
        BY <1>t, <3>4
      <4>2. c.key # k
        BY <1>c, <4>1 DEF About
      <4>3. k \in held' <=> k \in held
        BY <1>c, <1>e, <4>2 DEF Uds
      <4>4. QED
        BY <3>4, <4>1, <4>3
    <3>5. QED
      BY <1>t, <3>1, <3>2, <3>3, <3>4
  <2>2. QED
    BY <1>w, <2>1 DEF KeysInv, Heard, About, Saying
<1>2. MouseInv'
  <2>1. CASE session = "open"
    <3>1. ASSUME NEW v \in Buttons \cup {None}, Final(v)'
          PROVE  Final(v)
      <4>1. \/ LastIn(Tail(q), Reports, Leaving(v))
            \/ Silent(Tail(q), Reports) /\ mouse' = v
        BY <1>w, <3>1 DEF Final, Reports, Leaving
      <4>2. CASE LastIn(Tail(q), Reports, Leaving(v))
        BY <1>t, <1>w, <4>2 DEF Final
      <4>3. CASE Silent(Tail(q), Reports) /\ mouse' = v /\ c \in Reports
        <5>1. c.key \notin AllKeys
          BY <4>3, Kinds DEF Reports
        <5>2. Button(c) = v
          BY <1>e, <2>1, <4>3, <5>1
        <5>3. c \in Leaving(v)
          BY <1>c, <5>2 DEF Leaving
        <5>4. QED
          BY <1>t, <1>w, <4>3, <5>3 DEF Final
      <4>4. CASE Silent(Tail(q), Reports) /\ mouse' = v /\ c \notin Reports
        <5>1. c.key \in AllKeys
          BY <1>c, <1>e, <4>4 DEF Reports
        <5>2. mouse' = mouse
          BY <1>e, <5>1
        <5>3. QED
          BY <1>t, <1>w, <4>4, <5>2 DEF Final
      <4>5. QED
        BY <4>1, <4>2, <4>3, <4>4
    <3>2. QED
      BY <3>1, MouseStays
  <2>2. CASE session # "open"
    BY <2>2 DEF MouseInv
  <2>3. QED
    BY <2>1, <2>2
<1>3. QED
  BY <1>1, <1>2

\* A call that fails leaves the queue as it is, and concerns its head alone.
LEMMA CallIsRepeated ==
    ASSUME IInv, consumer \in {"loop", "redo"}, consumer' \in {"redo", "again"},
           m_keyboardVector # <<>>, Head(m_keyboardVector) \in Calls,
           NEW c \in Calls, c.key = Head(m_keyboardVector).key, Call(c),
           session = "open" => c.key \in AllKeys,
           UNCHANGED <<m_keyboardVector, producing, session, last>>
    PROVE  KeysInv' /\ MouseInv'
<1> DEFINE q == m_keyboardVector
<1>q. q \in Seq(Calls \cup {Stale})
  BY DEF IInv, TypeOK
<1>w. /\ Waiting = q /\ Pending = q
      /\ Waiting' = q /\ Pending' = q
  BY DEF Waiting, Pending
<1>e. /\ c.key \in AllKeys =>
           /\ mouse' = mouse
           /\ c.ud = "down" => held' = held \cup {c.key}
           /\ c.ud = "up" => held' = held \ {c.key}
      /\ c.key \notin AllKeys => held' = held
  <2>1. TypeOK /\ Hid!NothingStuck
    BY DEF IInv
  <2>2. QED
    BY <2>1, CallEffect
<1>1. KeysInv'
  <2>1. ASSUME NEW k \in AllKeys, last[k] \in Uds, Silent(producing, About(k))
        PROVE  \/ LastIn(q, About(k), Saying(last[k]))
               \/ Silent(q, About(k)) /\ (k \in held' <=> last[k] = "down")
    <3>1. \/ LastIn(q, About(k), Saying(last[k]))
          \/ Silent(q, About(k)) /\ (k \in held <=> last[k] = "down")
      BY <1>w, <2>1 DEF IInv, KeysInv, Heard
    <3>2. Silent(q, About(k)) => c.key # k
      <4>1. Silent(q, About(k)) => Head(q) \notin About(k)
        BY <1>q, TailCalls
      <4>2. QED
        BY <4>1 DEF About
    <3>3. c.key # k => (k \in held' <=> k \in held)
      BY <1>e, Kinds DEF Uds
    <3>4. QED
      BY <3>1, <3>2, <3>3
  <2>2. QED
    BY <1>w, <2>1 DEF KeysInv, Heard, About, Saying
<1>2. MouseInv'
  <2>1. session = "open" => mouse' = mouse
    BY <1>e
  <2>2. session = "open" => \A v : Final(v)' <=> Final(v)
    BY <1>w, <2>1 DEF Final, Reports, Leaving
  <2>3. CASE session = "open"
    BY <2>2, <2>3, MouseStays
  <2>4. CASE session # "open"
    BY <2>4 DEF MouseInv
  <2>5. QED
    BY <2>3, <2>4
<1>3. QED
  BY <1>1, <1>2

-------------------------------------------------------------------------------
(* The push *)

\* A call that arrives is the last of the queue; nothing else of it changes.
LEMMA CallArrives ==
    ASSUME NEW q \in Seq(Calls \cup {Stale}), NEW r, NEW c \in Calls, NEW C, NEW D,
           C \subseteq Calls, \/ r = Append(q, c)
                              \/ r = Append(Append(q, c), Stale)
    PROVE  /\ c \in C => ~Silent(r, C) /\ (LastIn(r, C, D) <=> c \in D)
           /\ c \notin C => /\ Silent(r, C) <=> Silent(q, C)
                            /\ LastIn(r, C, D) <=> LastIn(q, C, D)
<1> DEFINE S == Calls \cup {Stale}
<1>s. Stale \in S /\ c \in S /\ Stale \notin C
  BY Kinds
<1>p. Append(q, c) \in Seq(S)
  BY <1>s, AppendProperties
<1> HIDE DEF S
<1>q. q \in Seq(S)
  BY DEF S
<1>1. CASE c \in C
  <2>1. ~Silent(Append(q, c), C) /\ (LastIn(Append(q, c), C, D) <=> c \in D)
    BY <1>1, <1>q, <1>s, AppendLast
  <2>2. /\ Silent(Append(Append(q, c), Stale), C) <=> Silent(Append(q, c), C)
        /\ LastIn(Append(Append(q, c), Stale), C, D) <=> LastIn(Append(q, c), C, D)
    BY <1>p, <1>s, AppendOther
  <2>3. QED
    BY <1>1, <2>1, <2>2
<1>2. CASE c \notin C
  <2>1. /\ Silent(Append(q, c), C) <=> Silent(q, C)
        /\ LastIn(Append(q, c), C, D) <=> LastIn(q, C, D)
    BY <1>2, <1>q, <1>s, AppendOther
  <2>2. /\ Silent(Append(Append(q, c), Stale), C) <=> Silent(Append(q, c), C)
        /\ LastIn(Append(Append(q, c), Stale), C, D) <=> LastIn(Append(q, c), C, D)
    BY <1>p, <1>s, AppendOther
  <2>3. QED
    BY <1>2, <2>1, <2>2
<1>3. QED
  BY <1>1, <1>2

\* The three ways in which a push ends, as the queue's calls see it.
LEMMA PushOutcome ==
    ASSUME IInv, PushEnd
    PROVE  LET c == Head(producing) IN
           /\ producing # <<>> /\ producing \in Seq(Calls) /\ c \in Calls
           /\ producing' = Tail(producing)
           /\ Waiting = Pending /\ Waiting' = Pending'
           /\ Pending \in Seq(Calls \cup {Stale})
           /\ \/ /\ \/ Pending' = Append(Pending, c)
                    \/ Pending' = Append(Append(Pending, c), Stale)
                 /\ last' = last
              \/ /\ Pending' = Pending
                 /\ Says({c.key}, "lost")
           /\ UNCHANGED <<deviceVars, window, consumer, died>>
           /\ m_keyboardVector' \in Seq(Calls \cup {Stale})
           /\ m_keyboardVector # <<>> =>
                /\ m_keyboardVector' # <<>>
                /\ Head(m_keyboardVector') = Head(m_keyboardVector)
<1> DEFINE S == Calls \cup {Stale}
           q == m_keyboardVector
           c == Head(producing)
<1>1. /\ producing # <<>> /\ producing \in Seq(Calls) /\ q \in Seq(S)
      /\ producing' = Tail(producing)
      /\ UNCHANGED <<deviceVars, window, consumer, died>>
  BY DEF PushEnd, IInv, TypeOK
<1>2. c \in Calls
  BY <1>1, HeadTailProperties
<1>3. consumer # "ended"
  BY <1>1 DEF IInv, ConsumerInv
<1>4. Waiting = Pending /\ Waiting' = Pending'
  BY <1>1, <1>3 DEF Waiting
<1>5. consumer = "pop" => q # <<>>
  BY DEF IInv, TypeOK
<1> HIDE DEF S, c
<1>s. c \in S /\ Stale \in S
  BY <1>2 DEF S
<1>6. ASSUME NEW p \in Seq(S), NEW d \in S
      PROVE  /\ Append(p, d) \in Seq(S) /\ Append(p, d) # <<>>
             /\ p # <<>> => /\ Tail(Append(p, d)) = Append(Tail(p), d)
                            /\ Head(Append(p, d)) = Head(p)
                            /\ Tail(p) \in Seq(S)
  <2>1. Append(p, d) \in Seq(S) /\ Append(p, d) # <<>>
    BY AppendProperties
  <2>2. ASSUME p # <<>>
        PROVE  /\ Tail(Append(p, d)) = Append(Tail(p), d)
               /\ Head(Append(p, d)) = Head(p)
               /\ Tail(p) \in Seq(S)
    <3>1. Tail(p) \in Seq(S)
      BY <2>2, HeadTailProperties
    <3>2. /\ Tail(Append(p, d)) = Append(Tail(p), d)
          /\ Head(Append(p, d)) = Head(p)
      BY <2>2, HeadTailAppend, SMTT(30)
    <3>3. QED
      BY <3>1, <3>2
  <2>3. QED
    BY <2>1, <2>2
<1>7. Pending \in Seq(S)
  BY <1>1, <1>5, <1>6, HeadTailProperties DEF Pending
<1>8. CASE q' = Append(q, c) /\ last' = last
  <2>1. Pending' = Append(Pending, c)
    BY <1>1, <1>5, <1>6, <1>8, <1>s DEF Pending
  <2>2. QED
    BY <1>1, <1>2, <1>4, <1>6, <1>7, <1>8, <1>s, <2>1 DEF c, S
<1>9. CASE q' = q \o <<c, Stale>> /\ last' = last
  <2>1. q' = Append(Append(q, c), Stale)
    <3>1. \A p \in Seq(S), d \in S, e \in S : p \o <<d, e>> = Append(Append(p, d), e)
      OBVIOUS
    <3>2. QED
      BY <1>1, <1>9, <1>s, <3>1
  <2>2. Append(q, c) \in Seq(S) /\ Append(q, c) # <<>>
    BY <1>1, <1>6, <1>s
  <2>3. q' \in Seq(S) /\ q' # <<>> /\ Tail(q') = Append(Tail(Append(q, c)), Stale)
        /\ Head(q') = Head(Append(q, c))
    BY <1>6, <1>s, <2>1, <2>2
  <2>4. Pending' = Append(Append(Pending, c), Stale)
    BY <1>1, <1>5, <1>6, <1>s, <2>1, <2>3 DEF Pending
  <2>5. q # <<>> => Head(q') = Head(q)
    BY <1>1, <1>6, <1>s, <2>3
  <2>6. QED
    BY <1>1, <1>2, <1>4, <1>7, <1>9, <2>3, <2>4, <2>5 DEF c, S
<1>10. CASE q' = q /\ Says({c.key}, "lost")
  <2>1. Pending' = Pending
    BY <1>1, <1>10 DEF Pending
  <2>2. QED
    BY <1>1, <1>2, <1>4, <1>7, <1>10, <2>1 DEF c, S
<1>11. QED
  BY <1>8, <1>9, <1>10 DEF PushEnd, c

LEMMA PushPreserves ==
    ASSUME IInv, PushEnd
    PROVE  ProducingInv' /\ KeysInv' /\ MouseInv'
<1> DEFINE c == Head(producing)
           p == producing
           arrives == \/ Pending' = Append(Pending, c)
                      \/ Pending' = Append(Append(Pending, c), Stale)
<1>1. /\ p # <<>> /\ p \in Seq(Calls) /\ c \in Calls
      /\ producing' = Tail(p)
      /\ Waiting = Pending /\ Waiting' = Pending'
      /\ Pending \in Seq(Calls \cup {Stale})
      /\ \/ arrives /\ last' = last
         \/ Pending' = Pending /\ Says({c.key}, "lost")
      /\ held' = held /\ mouse' = mouse /\ session' = session
  BY PushOutcome DEF deviceVars, hidVars, window
<1>2. \A C, D : /\ Silent(p, C) <=> c \notin C /\ Silent(Tail(p), C)
                /\ LastIn(p, C, D) <=> \/ LastIn(Tail(p), C, D)
                                       \/ Silent(Tail(p), C) /\ c \in C /\ c \in D
  BY <1>1, TailCalls
<1>3. arrives => \A C, D : C \subseteq Calls =>
        /\ c \in C => ~Silent(Pending', C) /\ (LastIn(Pending', C, D) <=> c \in D)
        /\ c \notin C => /\ Silent(Pending', C) <=> Silent(Pending, C)
                         /\ LastIn(Pending', C, D) <=> LastIn(Pending, C, D)
  BY <1>1, CallArrives
<1>4. /\ \A k \in Inputs : last'[k] = last[k] \/ (~arrives /\ k = c.key /\ last'[k] = "lost")
      /\ ~arrives => last'[c.key] = "lost"
  BY <1>1, Kinds DEF Says
<1>5. c.ud \in Uds /\ c.key \in Inputs /\ "lost" \notin Uds /\ "down" \in Uds /\ "up" \in Uds
  BY <1>1, Kinds DEF Uds
<1>6. c.key # None /\ last[c.key] \in Uds => c.ud = last[c.key]
  <2>1. Len(p) \in Nat \ {0} /\ c = p[1]
    BY <1>1, HeadTailProperties, EmptySeq, LenProperties
  <2>2. QED
    BY <2>1 DEF IInv, ProducingInv, Heard
<1>7. \A k : About(k) \subseteq Calls /\ Leaving(k) \subseteq Calls /\ Reports \subseteq Calls
  BY DEF About, Leaving, Reports
<1>8. \A k : (c \in About(k) <=> c.key = k) /\ (c \in Leaving(k) <=> Button(c) = k)
  BY <1>1 DEF About, Leaving
<1>9. ~arrives => Pending' = Pending
  BY <1>1
<1> HIDE DEF c, arrives, p
<1>10. ProducingInv'
  <2>1. ASSUME NEW i \in 1..Len(Tail(p)), Tail(p)[i].key # None, last'[Tail(p)[i].key] \in Uds
        PROVE  Tail(p)[i].ud = last'[Tail(p)[i].key]
    <3>1. /\ i + 1 \in 1..Len(p) /\ Tail(p)[i] = p[i + 1]
      <4>1. Len(p) \in Nat /\ Len(Tail(p)) = Len(p) - 1 /\ Tail(p)[i] = p[i + 1]
        BY <1>1, HeadTailProperties, LenProperties DEF p
      <4>2. QED
        BY <4>1
    <3>2. p[i + 1] \in Calls
      BY <1>1, <3>1, ElementOfSeq
    <3>3. p[i + 1].key \in Inputs
      BY <3>2, Kinds
    <3>4. last'[p[i + 1].key] = last[p[i + 1].key]
      BY <1>4, <1>5, <2>1, <3>1, <3>3
    <3>5. QED
      BY <2>1, <3>1, <3>4 DEF IInv, ProducingInv, Heard, p
  <2>2. QED
    BY <1>1, <2>1 DEF ProducingInv, Heard
<1>11. KeysInv'
  <2>1. ASSUME NEW k \in AllKeys, last'[k] \in Uds, Silent(Tail(p), About(k))
        PROVE  \/ LastIn(Pending', About(k), Saying(last'[k]))
               \/ Silent(Pending', About(k)) /\ (k \in held <=> last'[k] = "down")
    <3>1. k \in Inputs /\ k # None
      BY Kinds
    <3>2. last'[k] = last[k]
      BY <1>4, <1>5, <2>1, <3>1
    <3>3. CASE c.key = k
      <4>1. arrives
        BY <1>4, <1>5, <2>1, <3>3
      <4>2. c \in About(k) /\ c \in Saying(last'[k])
        BY <1>1, <1>6, <1>8, <2>1, <3>1, <3>2, <3>3 DEF Saying
      <4>3. QED
        BY <1>3, <1>7, <4>1, <4>2
    <3>4. CASE c.key # k
      <4>1. c \notin About(k)
        BY <1>8, <3>4
      <4>2. Silent(p, About(k))
        BY <1>2, <2>1, <4>1
      <4>3. \/ LastIn(Pending, About(k), Saying(last[k]))
            \/ Silent(Pending, About(k)) /\ (k \in held <=> last[k] = "down")
        BY <1>1, <2>1, <3>2, <4>2 DEF IInv, KeysInv, Heard, p
      <4>4. /\ Silent(Pending', About(k)) <=> Silent(Pending, About(k))
            /\ LastIn(Pending', About(k), Saying(last[k]))
                    <=> LastIn(Pending, About(k), Saying(last[k]))
        BY <1>3, <1>7, <1>9, <4>1
      <4>5. QED
        BY <3>2, <4>3, <4>4
    <3>5. QED
      BY <3>3, <3>4
  <2>2. QED
    BY <1>1, <2>1 DEF KeysInv, Heard, About, Saying
<1>12. MouseInv'
  <2>1. ASSUME session = "open", NEW b \in Buttons
        PROVE  /\ last'[b] = "down" => \/ Silent(Tail(p), Reports)
                                       \/ LastIn(Tail(p), Reports, Leaving(b))
               /\ \A v \in Buttons \cup {None} :
                    Final(v)' =>
                      /\ last'[b] = "up" /\ Silent(Tail(p), About(b)) => v # b
                      /\ last'[b] = "down" /\ Silent(Tail(p), Reports) => v = b
    <3>1. /\ last[b] = "down" => \/ Silent(p, Reports)
                                 \/ LastIn(p, Reports, Leaving(b))
          /\ \A v \in Buttons \cup {None} :
                Final(v) =>
                    /\ last[b] = "up" /\ Silent(p, About(b)) => v # b
                    /\ last[b] = "down" /\ Silent(p, Reports) => v = b
      BY <2>1 DEF IInv, MouseInv, p
    <3>2. /\ b \in Inputs /\ b # None
          /\ last'[b] \in Uds => last'[b] = last[b]
      BY <1>4, <1>5, Kinds
    <3>3. last'[b] \in Uds => c.key # b \/ arrives
      BY <1>4, <1>5
    <3>4. c \notin Reports => c.key # b
      BY <1>1 DEF Reports
    <3>5. Button(c) = b => c.ud = "down" /\ c.key = b
      BY <3>2 DEF Button
    <3>6. last'[b] = "down" => \/ Silent(Tail(p), Reports)
                               \/ LastIn(Tail(p), Reports, Leaving(b))
      BY <1>2, <1>5, <3>1, <3>2
    <3>7. ASSUME NEW v \in Buttons \cup {None}, Final(v)',
                 last'[b] = "up", Silent(Tail(p), About(b))
          PROVE  v # b
      <4>1. last[b] = "up"
        BY <1>5, <3>2, <3>7
      <4>2. CASE c \in Reports /\ arrives
        <5>1. Button(c) = v
          BY <1>3, <1>7, <1>8, <3>7, <4>2 DEF Final, Reports, Leaving
        <5>2. c.key = b => c.ud = "up"
          BY <1>5, <1>6, <3>2, <4>1
        <5>3. QED
          BY <3>5, <5>1, <5>2
      <4>3. CASE ~(c \in Reports /\ arrives)
        <5>1. Final(v)
          BY <1>3, <1>7, <1>1, <1>9, <3>7, <4>3 DEF Final, Reports, Leaving
        <5>2. c \notin About(b)
          BY <1>5, <1>8, <3>3, <3>4, <3>7, <4>3
        <5>3. QED
          BY <1>2, <3>1, <3>7, <4>1, <5>1, <5>2
      <4>4. QED
        BY <4>2, <4>3
    <3>8. ASSUME NEW v \in Buttons \cup {None}, Final(v)',
                 last'[b] = "down", Silent(Tail(p), Reports)
          PROVE  v = b
      <4>1. last[b] = "down"
        BY <1>5, <3>2, <3>8
      <4>2. CASE c \in Reports
        <5>1. ~Silent(p, Reports) /\ ~LastIn(Tail(p), Reports, Leaving(b))
          BY <1>2, <3>8, <4>2, SilentOrLast
        <5>2. c \in Leaving(b)
          BY <1>2, <3>1, <4>1, <5>1
        <5>3. c.key = b /\ Button(c) = b
          BY <1>8, <3>5, <5>2
        <5>4. arrives
          BY <1>5, <3>3, <3>8, <5>3
        <5>5. Button(c) = v
          BY <1>3, <1>7, <1>8, <3>8, <4>2, <5>4 DEF Final, Reports, Leaving
        <5>6. QED
          BY <5>3, <5>5
      <4>3. CASE c \notin Reports
        <5>1. Final(v)
          BY <1>3, <1>7, <1>1, <1>9, <3>8, <4>3 DEF Final, Reports, Leaving
        <5>2. Silent(p, Reports)
          BY <1>2, <3>8, <4>3
        <5>3. QED
          BY <3>1, <4>1, <5>1, <5>2
      <4>4. QED
        BY <4>2, <4>3
    <3>9. QED
      BY <3>6, <3>7, <3>8
  <2>2. QED
    BY <1>1, <2>1 DEF MouseInv, Reports, Leaving, About
<1>13. QED
  BY <1>10, <1>11, <1>12

-------------------------------------------------------------------------------
(* The messages *)

\* The asio thread is ready when nothing of its last message is left to push.
LEMMA WhenReady ==
    ASSUME IInv, Ready
    PROVE  /\ producing = <<>> /\ Waiting = Pending /\ consumer # "ended"
           /\ \A C : Silent(producing, C)
  BY NothingInEmpty DEF IInv, ConsumerInv, Ready, Waiting

\* What the queue holds about a key that no call of it names.
LEMMA NotInQueue ==
    ASSUME IInv, NEW C, \A c \in C : c \in Calls /\ c.key \notin KeysOf(m_keyboardVector)
    PROVE  Silent(Pending, C)
<1>1. m_keyboardVector \in Seq(Calls \cup {Stale})
  BY DEF IInv, TypeOK
<1>2. Silent(m_keyboardVector, C)
  <2>1. DOMAIN m_keyboardVector = 1..Len(m_keyboardVector)
    BY <1>1, LenProperties
  <2>2. \A j \in 1..Len(m_keyboardVector) : m_keyboardVector[j].key \in KeysOf(m_keyboardVector)
    BY <2>1 DEF KeysOf
  <2>3. QED
    BY <2>2 DEF Silent
<1>3. consumer = "pop" => m_keyboardVector # <<>>
  BY DEF IInv, TypeOK
<1>4. QED
  BY <1>1, <1>2, <1>3, TailCalls DEF Pending

\* A key's press or release at once, past the queue.
LEMMA KeyCallPreserves ==
    ASSUME IInv, Ready, NEW k0 \in AllKeys, NEW ud \in Uds,
           Call([ud |-> ud, key |-> k0]),
           Says({k0}, IF k0 \in KeysOf(m_keyboardVector) THEN "overtaken" ELSE ud),
           UNCHANGED <<window, pushVars, queueVars>>
    PROVE  ProducingInv' /\ KeysInv' /\ MouseInv'
<1> DEFINE c == [ud |-> ud, key |-> k0]
<1>1. /\ producing = <<>> /\ producing' = <<>> /\ Waiting = Pending
      /\ Waiting' = Waiting /\ Pending' = Pending /\ session' = session
  BY WhenReady DEF window, pushVars, queueVars, Waiting, Pending
<1>2. /\ mouse' = mouse
      /\ \A k \in AllKeys : k # k0 => (k \in held' <=> k \in held)
      /\ k0 \in held' <=> ud = "down"
  <2>1. c \in Calls /\ c.key = k0 /\ c.ud = ud
    BY Kinds
  <2>2. TypeOK /\ Hid!NothingStuck
    BY DEF IInv
  <2>3. /\ mouse' = mouse
        /\ ud = "down" => held' = held \cup {k0}
        /\ ud = "up" => held' = held \ {k0}
    BY <2>1, <2>2, CallEffect
  <2>4. QED
    BY <2>3 DEF Uds
<1>3. /\ \A k \in Inputs : k # k0 => last'[k] = last[k]
      /\ last'[k0] \in Uds => last'[k0] = ud /\ k0 \notin KeysOf(m_keyboardVector)
  BY Kinds DEF Says, Uds
<1>4. ProducingInv'
  BY <1>1 DEF ProducingInv
<1>5. KeysInv'
  <2>1. ASSUME NEW k \in AllKeys, last'[k] \in Uds
        PROVE  \/ LastIn(Pending, About(k), Saying(last'[k]))
               \/ Silent(Pending, About(k)) /\ (k \in held' <=> last'[k] = "down")
    <3>1. CASE k = k0
      <4>1. Silent(Pending, About(k))
        BY <1>3, <2>1, <3>1, NotInQueue DEF About
      <4>2. QED
        BY <1>2, <1>3, <2>1, <3>1, <4>1
    <3>2. CASE k # k0
      <4>1. last'[k] = last[k]
        BY <1>3, <3>2, Kinds
      <4>2. Silent(producing, About(k))
        BY WhenReady
      <4>3. QED
        BY <1>1, <1>2, <2>1, <3>2, <4>1, <4>2 DEF IInv, KeysInv, Heard
    <3>3. QED
      BY <3>1, <3>2
  <2>2. QED
    BY <1>1, <2>1 DEF KeysInv, Heard, About, Saying
<1>6. MouseInv'
  <2>1. \A b \in Buttons : last'[b] = last[b]
    BY <1>3, Kinds
  <2>2. \A v : Final(v)' <=> Final(v)
    BY <1>1, <1>2 DEF Final, Reports, Leaving
  <2>3. QED
    BY <1>1, <2>1, <2>2 DEF IInv, MouseInv, Reports, Leaving, About
<1>7. QED
  BY <1>4, <1>5, <1>6

\* A mouse report names the one button that is pressed, unless reports in the queue
\* come after it.
LEMMA MouseMessagePreserves ==
    ASSUME IInv, NEW b0 \in Buttons \cup {None}, MouseMessage(b0)
    PROVE  ProducingInv' /\ KeysInv' /\ MouseInv'
<1>1. /\ producing = <<>> /\ producing' = <<>> /\ Waiting = Pending /\ Ready
      /\ Waiting' = Waiting /\ Pending' = Pending /\ session' = session
      /\ held' = held /\ mouse' = IF session = "open" THEN b0 ELSE mouse
  BY WhenReady DEF MouseMessage, Mouse, hidVars, window, pushVars, queueVars, Waiting, Pending
<1>2. \A k \in AllKeys : last'[k] = last[k]
  BY Kinds DEF MouseMessage, Says
<1>3. ProducingInv'
  BY <1>1 DEF ProducingInv
<1>4. KeysInv'
  BY <1>1, <1>2 DEF IInv, KeysInv, Heard, About, Saying
<1>5. MouseInv'
  <2>1. CASE KeysOf(m_keyboardVector) \cap (Buttons \cup {None}) # {}
    <3>1. \A b \in Buttons : last'[b] = "overtaken"
      BY <2>1, Kinds DEF MouseMessage, Says
    <3>2. QED
      BY <3>1 DEF MouseInv
  <2>2. CASE KeysOf(m_keyboardVector) \cap (Buttons \cup {None}) = {}
    <3>1. \A b \in Buttons : last'[b] = IF b = b0 THEN "down" ELSE "up"
      BY <2>2, Kinds DEF MouseMessage
    <3>2. Silent(Pending, Reports)
      BY <2>2, NotInQueue DEF Reports
    <3>3. ~\E v : LastIn(Pending, Reports, Leaving(v))
      BY <3>2, SilentOrLast
    <3>4. session = "open" => \A v : Final(v)' => v = b0
      BY <1>1, <3>3 DEF Final, Reports, Leaving
    <3>5. Silent(producing, Reports)
      BY <1>1, WhenReady
    <3>6. QED
      BY <1>1, <3>1, <3>4, <3>5 DEF MouseInv, Reports, Leaving, About
  <2>3. QED
    BY <2>1, <2>2
<1>6. QED
  BY <1>3, <1>4, <1>5

\* A move of the stick takes every button away when its turn comes.
LEMMA StickMessagePreserves ==
    ASSUME IInv, StickMessage
    PROVE  ProducingInv' /\ KeysInv' /\ MouseInv'
<1>1. /\ producing = <<>> /\ producing' = <<Move>> /\ Waiting = Pending /\ Ready
      /\ Waiting' = Waiting /\ Pending' = Pending /\ session' = session
      /\ held' = held /\ mouse' = mouse
  BY WhenReady DEF StickMessage, deviceVars, hidVars, window, queueVars, Waiting, Pending
<1>2. /\ \A k \in AllKeys : last'[k] = last[k]
      /\ \A b \in Buttons : last'[b] # "down" /\ (last'[b] = "up" => last[b] = "up")
  BY Kinds DEF StickMessage, Says, Replaced
<1>3. ProducingInv'
  BY <1>1, Kinds DEF ProducingInv
<1>4. KeysInv'
  <2>1. \A k : Silent(producing, About(k))
    BY <1>1, WhenReady
  <2>2. QED
    BY <1>1, <1>2, <2>1 DEF IInv, KeysInv, Heard, About, Saying
<1>5. MouseInv'
  <2>1. \A v : Final(v)' <=> Final(v)
    BY <1>1 DEF Final, Reports, Leaving
  <2>2. \A k : Silent(producing, About(k))
    BY <1>1, WhenReady
  <2>3. QED
    BY <1>1, <1>2, <2>1, <2>2 DEF IInv, MouseInv, About
<1>6. QED
  BY <1>3, <1>4, <1>5

\* A set of positions that is not empty has a last one.
LEMMA LastPosition ==
    ASSUME NEW n \in Nat, NEW T, T \subseteq 1..n, T # {}
    PROVE  \E m \in T : \A j \in T : j <= m
<1> DEFINE U == {n - j : j \in T}
<1>1. U \subseteq Nat /\ U # {}
  <2>1. \A j \in 1..n : n - j \in Nat
    OBVIOUS
  <2>2. \A j \in T : n - j \in Nat
    BY <2>1
  <2>3. QED
    BY <2>2
<1>2. PICK x \in U : \A y \in U : <<y, x>> \notin OpToRel(<, Nat)
  <2> HIDE DEF U
  <2>1. QED
    BY <1>1, NatLessThanWellFounded, WFMin
<1>3. \A y \in U : ~(y < x)
  BY <1>1, <1>2 DEF OpToRel
<1>4. PICK m \in T : x = n - m
  BY <1>2
<1>5. ASSUME NEW j \in T PROVE j <= m
  <2>1. ~(n - j < n - m) /\ j \in Nat /\ m \in Nat
    BY <1>3, <1>4
  <2>2. QED
    BY <2>1
<1>6. QED
  BY <1>5

LEMMA KeysOfButton ==
    ASSUME NEW p \in DOMAIN m_nameKeyTable
    PROVE  /\ GetMapKeyValue(p) \in Seq(Keys \cup Modifiers \cup Buttons)
           /\ Range(GetMapKeyValue(p)) \subseteq AllKeys \cup Buttons
<1>1. GetMapKeyValue(p) \in Seq(Keys \cup Modifiers \cup Buttons)
  BY KeyInputAssumption DEF KeyInputAssumption, GetMapKeyValue
<1>2. \A i \in DOMAIN GetMapKeyValue(p) : GetMapKeyValue(p)[i] \in Keys \cup Modifiers \cup Buttons
  BY <1>1, LenProperties, ElementOfSeq
<1>3. QED
  BY <1>1, <1>2 DEF Range, AllKeys

\* The calls of a list say the same of every input, and the last report of a list
\* that presses buttons leaves the button that is not overridden.
LEMMA GamepadMessagePreserves ==
    ASSUME IInv, NEW p \in DOMAIN m_nameKeyTable, NEW ud \in Uds, GamepadMessage(p, ud)
    PROVE  ProducingInv' /\ KeysInv' /\ MouseInv'
<1> DEFINE keys == GetMapKeyValue(p)
           named == Range(keys)
           n == Len(keys)
           replaced == Replaced(named) \cup IF ud = "down" THEN Overridden(keys) ELSE {}
<1>k. /\ n \in Nat /\ DOMAIN keys = 1..n
      /\ named \subseteq AllKeys \cup Buttons
      /\ \A i \in 1..n : keys[i] \in AllKeys \cup Buttons
      /\ \A k : k \in named <=> \E i \in 1..n : keys[i] = k
  BY KeysOfButton, LenProperties DEF Range
<1>1. /\ producing = <<>> /\ Waiting = Pending /\ Ready
      /\ Waiting' = Waiting /\ Pending' = Pending /\ session' = session
      /\ held' = held /\ mouse' = mouse
  BY WhenReady DEF GamepadMessage, deviceVars, hidVars, window, queueVars, Waiting, Pending
<1>2. /\ producing' = [i \in 1..n |-> [ud |-> ud, key |-> keys[i]]]
      /\ Len(producing') = n
      /\ \A k \in Inputs : last'[k] = IF k \in replaced THEN "replaced"
                                      ELSE IF k \in named THEN ud ELSE last[k]
  <2>1. producing' = [i \in 1..n |-> [ud |-> ud, key |-> keys[i]]]
    BY <1>k DEF GamepadMessage
  <2>2. Len(producing') = n
    BY <1>k, <2>1
  <2>3. QED
    BY <2>1, <2>2 DEF GamepadMessage
<1>3. replaced \subseteq Buttons /\ "replaced" \notin Uds
  BY Kinds DEF Replaced, Overridden, Uds
<1>4. \A k : Silent(producing, About(k)) /\ Silent(producing, Reports)
  BY <1>1, WhenReady
<1>5. ASSUME NEW i \in 1..n
      PROVE  /\ producing'[i] \in Calls
             /\ producing'[i].ud = ud /\ producing'[i].key = keys[i]
  <2>1. producing'[i] = [ud |-> ud, key |-> keys[i]]
    BY <1>2
  <2>2. QED
    BY <1>k, <2>1, Kinds
<1>6. \A k \in named : ~Silent(producing', About(k))
  BY <1>k, <1>2, <1>5 DEF Silent, About
<1> HIDE DEF keys, n, replaced, named
<1>7. ProducingInv'
  <2>1. ASSUME NEW i \in 1..n, last'[keys[i]] \in Uds
        PROVE  last'[keys[i]] = ud
    <3>1. keys[i] \in named /\ keys[i] \in Inputs
      BY <1>k, Kinds
    <3>2. QED
      BY <1>2, <1>3, <2>1, <3>1
  <2>2. QED
    BY <1>2, <1>5, <2>1 DEF ProducingInv, Heard
<1>8. KeysInv'
  <2>1. ASSUME NEW k \in AllKeys, last'[k] \in Uds, Silent(producing', About(k))
        PROVE  \/ LastIn(Waiting, About(k), Saying(last'[k]))
               \/ Silent(Waiting, About(k)) /\ (k \in held <=> last'[k] = "down")
    <3>1. k \notin named /\ k \notin replaced /\ k \in Inputs
      BY <1>3, <1>6, <2>1, Kinds
    <3>2. last'[k] = last[k]
      BY <1>2, <3>1
    <3>3. QED
      BY <1>4, <2>1, <3>2 DEF IInv, KeysInv, Heard
  <2>2. QED
    BY <1>1, <2>1 DEF KeysInv, Heard, About, Saying
<1>9. MouseInv'
  <2>1. \A v : Final(v)' <=> Final(v)
    BY <1>1 DEF Final, Reports, Leaving
  <2>2. ASSUME NEW b \in Buttons, last'[b] = "down"
        PROVE  \/ Silent(producing', Reports)
               \/ LastIn(producing', Reports, Leaving(b))
    <3>1. b \in Inputs /\ b \notin replaced
      BY <1>2, <2>2, Kinds
    <3>2. CASE b \in named
      <4>1. ud = "down" /\ b \notin Overridden(keys)
        BY <1>2, <2>2, <3>1, <3>2 DEF replaced
      <4>2. b \in Range(keys) \cap Buttons
        BY <3>2 DEF named
      <4>3. ASSUME NEW j \in 1..n, keys[j] \in Buttons
            PROVE  \E i \in 1..n : keys[i] = b /\ ~(i < j)
        BY <1>k, <4>1, <4>2, <4>3 DEF Overridden
      <4> DEFINE T == {i \in 1..n : keys[i] = b}
      <4>4. PICK m \in T : \A j \in T : j <= m
        <5>1. T \subseteq 1..n /\ T # {}
          BY <1>k, <3>2
        <5> HIDE DEF T
        <5>2. QED
          BY <1>k, <5>1, LastPosition
      <4>5. m \in 1..n /\ keys[m] = b /\ n \in Nat
        BY <1>k, <4>4
      <4>6. producing'[m] \in Reports /\ producing'[m] \in Leaving(b)
        BY <1>5, <4>1, <4>5 DEF Reports, Leaving, Button
      <4>7. ASSUME NEW j \in 1..n, j > m PROVE producing'[j] \notin Reports
        <5>1. keys[j] \notin Buttons
          <6>1. SUFFICES ASSUME keys[j] \in Buttons PROVE FALSE
            OBVIOUS
          <6>2. PICK i \in 1..n : keys[i] = b /\ ~(i < j)
            BY <4>3, <6>1
          <6>3. i <= m
            BY <4>4, <6>2
          <6>4. QED
            BY <4>5, <4>7, <6>2, <6>3
        <5>2. keys[j] # None
          BY <1>k, Kinds
        <5>3. QED
          BY <1>5, <5>1, <5>2 DEF Reports
      <4>8. QED
        BY <1>2, <4>5, <4>6, <4>7 DEF LastIn
    <3>3. CASE b \notin named
      <4>1. last[b] = "down"
        BY <1>2, <2>2, <3>1, <3>3
      <4>2. named \cap (Buttons \cup {None}) = {}
        BY <3>1, <3>3, <4>1 DEF replaced, Replaced
      <4>3. \A j \in 1..n : producing'[j] \notin Reports
        BY <1>k, <1>5, <4>2 DEF Reports
      <4>4. QED
        BY <1>2, <4>3 DEF Silent
    <3>4. QED
      BY <3>2, <3>3
  <2>3. ASSUME NEW b \in Buttons, last'[b] \in Uds, b \notin named
        PROVE  last'[b] = last[b]
    BY <1>2, <1>3, <2>3, Kinds
  <2>4. \A b \in Buttons : Silent(producing', Reports) => Silent(producing', About(b))
    BY DEF Silent, Reports, About
  <2>5. ASSUME NEW b \in Buttons, NEW v \in Buttons \cup {None}, Final(v)', session = "open"
        PROVE  /\ last'[b] = "up" /\ Silent(producing', About(b)) => v # b
               /\ last'[b] = "down" /\ Silent(producing', Reports) => v = b
    <3>1. Silent(producing', About(b)) /\ last'[b] \in Uds => last'[b] = last[b]
      BY <1>6, <2>3
    <3>2. /\ last[b] = "up" => v # b
          /\ last[b] = "down" => v = b
      BY <1>4, <2>1, <2>5 DEF IInv, MouseInv
    <3>3. QED
      BY <2>4, <3>1, <3>2 DEF Uds
  <2>6. QED
    BY <1>1, <2>2, <2>5 DEF MouseInv, Reports, Leaving, About
<1>10. QED
  BY <1>7, <1>8, <1>9

\* The consumer ends: the inputs whose calls it gives up are no longer promised.
LEMMA EndPreserves ==
    ASSUME IInv, ConsumerEnd
    PROVE  ProducingInv' /\ KeysInv' /\ MouseInv'
<1>1. /\ Waiting = m_keyboardVector /\ Waiting' = <<>> /\ producing' = producing
      /\ producing = <<>> /\ held' = held /\ session' = "stopping"
  BY DEF ConsumerEnd, Waiting, Pending, deviceVars, hidVars, window, pushVars, IInv, ConsumerInv
<1>2. ProducingInv'
  BY <1>1 DEF ProducingInv
<1>3. KeysInv'
  <2>1. ASSUME NEW k \in AllKeys, last'[k] \in Uds
        PROVE  k \in held <=> last'[k] = "down"
    <3>1. k \in Inputs /\ "stopped" \notin Uds
      BY Kinds DEF Uds
    <3>2. last'[k] = last[k] /\ k \notin KeysOf(m_keyboardVector)
      BY <2>1, <3>1 DEF ConsumerEnd, Says
    <3>3. Silent(Waiting, About(k))
      <4>1. consumer = "loop"
        BY DEF ConsumerEnd
      <4>2. Waiting = Pending
        BY <4>1 DEF Waiting
      <4>3. QED
        BY <3>2, <4>2, NotInQueue DEF About
    <3>4. ~LastIn(Waiting, About(k), Saying(last[k]))
      BY <3>3, SilentOrLast
    <3>5. Silent(producing, About(k))
      BY <1>1, NothingInEmpty
    <3>6. QED
      BY <2>1, <3>2, <3>4, <3>5 DEF IInv, KeysInv, Heard
  <2>2. \A C : Silent(<<>>, C)
    BY NothingInEmpty
  <2>3. QED
    BY <1>1, <2>1, <2>2 DEF KeysInv, Heard, About, Saying
<1>4. MouseInv'
  BY <1>1 DEF MouseInv
<1>5. QED
  BY <1>2, <1>3, <1>4

-------------------------------------------------------------------------------
(* The steps that change nothing of what is on its way *)

Quiet ==
    /\ UNCHANGED <<deviceVars, producing, m_keyboardVector, consumer>>
    /\ session' \in {"open", "closed", "stopping"}
    /\ session' = "open" => session = "open"
    /\ session = "stopping" => session' = "stopping"
    /\ session' = "stopping" => session = "stopping" \/ producing = <<>>
    /\ {gamePid', foreground', pushing', clash', died'} \subseteq BOOLEAN
    /\ pushing' => producing # <<>>
    /\ last' \in [Inputs -> Uds \cup Reasons]
    /\ \A k \in Inputs : last'[k] = last[k] \/ last'[k] \in Reasons

LEMMA QuietPreserves ==
    ASSUME IInv, Quiet
    PROVE  IInv'
<1>1. Hid!TypeOK' /\ Hid!NothingStuck' /\ held' = held /\ mouse' = mouse
  <2>1. UNCHANGED hidVars /\ mouse' = mouse
    BY DEF Quiet, deviceVars
  <2>2. Hid!TypeOK /\ Hid!NothingStuck
    BY DEF IInv, TypeOK
  <2>3. QED
    BY <2>1, <2>2 DEF hidVars, Hid!TypeOK, Hid!NothingStuck, Hid!Listed, Hid!Reported
<1>2. TypeOK'
  BY <1>1 DEF IInv, TypeOK, Quiet
<1>3. ConsumerInv'
  BY DEF IInv, ConsumerInv, Quiet
<1>4. ProducingInv' /\ KeysInv' /\ MouseInv'
  <2>1. Waiting' = Waiting /\ Pending' = Pending
    BY DEF Quiet, Waiting, Pending
  <2>2. QED
    BY <1>1, <2>1, StillToCome DEF Quiet
<1>5. QED
  BY <1>1, <1>2, <1>3, <1>4 DEF IInv

LEMMA SaysTyped ==
    ASSUME TypeOK, NEW ks, NEW word \in Uds \cup Reasons, Says(ks, word)
    PROVE  /\ last' \in [Inputs -> Uds \cup Reasons]
           /\ \A k \in Inputs : last'[k] = last[k] \/ last'[k] = word
  BY DEF TypeOK, Says

LEMMA QuietSteps ==
    ASSUME IInv,
           \/ \E ks : Unheard(ks)
           \/ PushBegin \/ KeyMouseClose \/ Stop \/ SetGamePid \/ Desktop
           \/ UNCHANGED vars
    PROVE  Quiet
<1>t. /\ TypeOK /\ session \in {"open", "closed", "stopping"}
      /\ {gamePid, foreground, pushing, clash, died} \subseteq BOOLEAN
      /\ pushing => producing # <<>>
      /\ last \in [Inputs -> Uds \cup Reasons]
  BY DEF IInv, TypeOK
<1>1. ASSUME NEW ks, Unheard(ks) PROVE Quiet
  <2>1. Says(ks, "unheard") /\ "unheard" \in Reasons
    BY <1>1 DEF Unheard, Dropped, Offline, Reasons
  <2>2. /\ last' \in [Inputs -> Uds \cup Reasons]
        /\ \A k \in Inputs : last'[k] = last[k] \/ last'[k] \in Reasons
    BY <1>t, <2>1, SaysTyped
  <2>3. /\ UNCHANGED <<deviceVars, gamePid, session, pushVars, queueVars>>
        /\ foreground' \in BOOLEAN
    BY <1>1, <1>t DEF Unheard, Dropped, Offline, window
  <2>4. QED
    BY <1>t, <2>2, <2>3 DEF Quiet, pushVars, queueVars
<1>2. CASE PushBegin
  BY <1>2, <1>t DEF PushBegin, Quiet, window, queueVars
<1>3. CASE KeyMouseClose
  BY <1>3, <1>t DEF KeyMouseClose, Quiet, pushVars, queueVars
<1>4. CASE Stop
  <2>1. /\ session' = "stopping" /\ producing = <<>>
        /\ UNCHANGED <<deviceVars, gamePid, foreground, producing, pushing, clash>>
        /\ UNCHANGED <<m_keyboardVector, consumer, died, last>>
    BY <1>4 DEF Stop, pushVars, queueVars
  <2>2. /\ {gamePid', foreground', pushing', clash', died'} \subseteq BOOLEAN
        /\ pushing' => producing # <<>>
    BY <1>t, <2>1
  <2>3. QED
    BY <1>t, <2>1, <2>2 DEF Quiet
<1>5. CASE SetGamePid \/ Desktop
  <2>1. /\ UNCHANGED <<deviceVars, session, producing, pushing, clash>>
        /\ UNCHANGED <<m_keyboardVector, consumer, died, last>>
    BY <1>5 DEF SetGamePid, Desktop, pushVars, queueVars
  <2>2. gamePid' \in BOOLEAN /\ foreground' \in BOOLEAN
    BY <1>5, <1>t DEF SetGamePid, Desktop
  <2>3. QED
    BY <1>t, <2>1, <2>2 DEF Quiet
<1>6. CASE UNCHANGED vars
  BY <1>6, <1>t DEF vars, Quiet, window, pushVars, queueVars
<1>7. QED
  BY <1>1, <1>2, <1>3, <1>4, <1>5, <1>6

-------------------------------------------------------------------------------
(* The invariant *)

LEMMA InitEstablishes == Init => IInv
<1> SUFFICES ASSUME Init PROVE IInv
  OBVIOUS
<1>1. Hid!TypeOK /\ Hid!NothingStuck
  <2>1. Hid!Listed = {} /\ Hid!Reported = {}
    BY DEF Init, Hid!Init, Hid!NoKeys, Hid!Listed, Hid!Reported
  <2>2. QED
    BY <2>1 DEF Init, Hid!Init, Hid!TypeOK, Hid!NothingStuck, Hid!Report, Hid!NoKeys
<1>2. TypeOK
  <2>1. producing \in Seq(Calls) /\ m_keyboardVector \in Seq(Calls \cup {Stale})
    BY DEF Init
  <2>2. QED
    BY <1>1, <2>1 DEF Init, TypeOK, Uds
<1>3. ConsumerInv /\ ProducingInv
  BY DEF Init, ConsumerInv, ProducingInv
<1>4. /\ Waiting = <<>> /\ Pending = <<>> /\ held = {} /\ mouse = None
      /\ producing = <<>>
      /\ \A k \in Inputs : last[k] = "up"
  BY DEF Init, Waiting, Pending, Hid!Init
<1>5. KeysInv
  BY <1>4, NothingInEmpty, Kinds DEF KeysInv
<1>6. MouseInv
  <2>1. \A v : Final(v) => v = None
    BY <1>4, NothingInEmpty DEF Final
  <2>2. \A b \in Buttons : last[b] = "up" /\ b # None
    BY <1>4, Kinds
  <2>3. QED
    BY <2>1, <2>2 DEF MouseInv
<1>7. QED
  BY <1>1, <1>2, <1>3, <1>5, <1>6 DEF IInv

\* What a call or a report leaves in the device.
LEMMA DeviceTyped ==
    ASSUME TypeOK, Hid!NothingStuck,
           \/ \E c \in Calls : Call(c)
           \/ \E b \in Buttons \cup {None} : Mouse(b)
           \/ UNCHANGED deviceVars
    PROVE  Hid!TypeOK' /\ Hid!NothingStuck' /\ mouse' \in Buttons \cup {None}
<1>t. Hid!TypeOK /\ mouse \in Buttons \cup {None}
  BY DEF TypeOK
<1>1. ASSUME NEW c \in Calls, Call(c)
      PROVE  Hid!TypeOK' /\ Hid!NothingStuck' /\ mouse' \in Buttons \cup {None}
  <2>1. /\ Hid!TypeOK' /\ Hid!NothingStuck'
        /\ c.key \in AllKeys => mouse' = mouse
        /\ c.key \notin AllKeys =>
                /\ c.key \in Buttons \cup {None}
                /\ mouse' = IF session = "open" THEN Button(c) ELSE mouse
    BY <1>1, CallEffect
  <2>2. QED
    BY <1>t, <2>1 DEF Button
<1>2. CASE UNCHANGED hidVars /\ mouse' \in Buttons \cup {None}
  BY <1>2, <1>t DEF hidVars, Hid!TypeOK, Hid!NothingStuck, Hid!Listed, Hid!Reported
<1>3. CASE \E b \in Buttons \cup {None} : Mouse(b)
  <2>1. UNCHANGED hidVars /\ mouse' \in Buttons \cup {None}
    BY <1>3, <1>t DEF Mouse
  <2>2. QED
    BY <1>2, <2>1
<1>4. CASE UNCHANGED deviceVars
  BY <1>2, <1>4, <1>t DEF deviceVars
<1>5. QED
  BY <1>1, <1>3, <1>4

LEMMA MessagePreserves ==
    ASSUME IInv, NEW ud \in Uds, MessageCallback(ud)
    PROVE  IInv'
<1>t. TypeOK /\ Hid!NothingStuck /\ ConsumerInv
  BY DEF IInv
<1>1. ASSUME NEW ks, Unheard(ks) PROVE IInv'
  BY <1>1, QuietSteps, QuietPreserves
<1>2. ASSUME NEW k \in AllKeys, NEW u \in Uds, Ready, Call([ud |-> u, key |-> k]),
             Says({k}, IF k \in KeysOf(m_keyboardVector) THEN "overtaken" ELSE u),
             UNCHANGED <<window, pushVars, queueVars>>
      PROVE  IInv'
  <2>1. ProducingInv' /\ KeysInv' /\ MouseInv'
    BY <1>2, KeyCallPreserves
  <2>2. Hid!TypeOK' /\ Hid!NothingStuck' /\ mouse' \in Buttons \cup {None}
    BY <1>2, <1>t, Kinds, DeviceTyped
  <2>3. last' \in [Inputs -> Uds \cup Reasons]
    <3>1. (IF k \in KeysOf(m_keyboardVector) THEN "overtaken" ELSE u) \in Uds \cup Reasons
      BY DEF Reasons
    <3>2. QED
      BY <1>2, <1>t, <3>1, SaysTyped
  <2>4. TypeOK' /\ ConsumerInv'
    BY <1>2, <1>t, <2>2, <2>3 DEF TypeOK, ConsumerInv, window, pushVars, queueVars
  <2>5. QED
    BY <2>1, <2>2, <2>4 DEF IInv
<1>3. KeyboardKeys \cup FunctionKeys \subseteq AllKeys
  BY KeyInputAssumption DEF KeyInputAssumption, AllKeys
<1>4. ASSUME NEW k \in KeyboardKeys, KeyboardMessage(k, ud) PROVE IInv'
  BY <1>2, <1>3, <1>4 DEF KeyboardMessage
<1>5. ASSUME NEW k \in FunctionKeys, FunctionMessage(k, ud) PROVE IInv'
  <2>1. FunctionValue(k) = None
    BY DEF FunctionValue, m_iniParse2
  <2>2. CASE ud = "down"
    <3>1. UNCHANGED <<deviceVars, window, pushVars, queueVars>> /\ Says({k}, "function")
      BY <1>5, <2>1, <2>2 DEF FunctionMessage
    <3>2. /\ last' \in [Inputs -> Uds \cup Reasons]
          /\ \A i \in Inputs : last'[i] = last[i] \/ last'[i] \in Reasons
      <4>1. "function" \in Reasons
        BY DEF Reasons
      <4>2. QED
        BY <1>t, <3>1, <4>1, SaysTyped
    <3>3. Quiet
      BY <1>t, <3>1, <3>2 DEF Quiet, TypeOK, window, pushVars, queueVars
    <3>4. QED
      BY <3>3, QuietPreserves
  <2>3. CASE ud = "up"
    <3>1. /\ Ready /\ Call([ud |-> ud, key |-> k])
          /\ Says({k}, IF k \in KeysOf(m_keyboardVector) THEN "overtaken" ELSE ud)
          /\ UNCHANGED <<window, pushVars, queueVars>>
      BY <1>5, <2>3 DEF FunctionMessage
    <3>2. QED
      BY <1>2, <1>3, <3>1
  <2>4. QED
    BY <2>2, <2>3 DEF Uds
<1>6. ASSUME NEW p \in DOMAIN m_nameKeyTable, GamepadMessage(p, ud) PROVE IInv'
  <2> DEFINE keys == GetMapKeyValue(p)
  <2>1. ProducingInv' /\ KeysInv' /\ MouseInv'
    BY <1>6, GamepadMessagePreserves
  <2>2. Hid!TypeOK' /\ Hid!NothingStuck' /\ mouse' \in Buttons \cup {None}
    BY <1>6, <1>t, DeviceTyped DEF GamepadMessage
  <2>3. producing' \in Seq(Calls)
    <3>1. producing' = [i \in DOMAIN keys |-> [ud |-> ud, key |-> keys[i]]]
      BY <1>6 DEF GamepadMessage
    <3>2. Len(keys) \in Nat /\ DOMAIN keys = 1..Len(keys)
      BY KeysOfButton, LenProperties
    <3>3. \A i \in DOMAIN keys : [ud |-> ud, key |-> keys[i]] \in Calls
      BY KeysOfButton, Kinds DEF Range
    <3> HIDE DEF keys
    <3>4. producing' = [i \in 1..Len(keys) |-> [ud |-> ud, key |-> keys[i]]]
      BY <3>1, <3>2
    <3>5. QED
      BY <3>2, <3>3, <3>4, IsASeq
  <2>4. last' \in [Inputs -> Uds \cup Reasons]
    BY <1>6, <1>t DEF GamepadMessage, TypeOK, Reasons
  <2>5. pushing = FALSE
    BY <1>6, <1>t DEF GamepadMessage, Ready, TypeOK
  <2>6. TypeOK' /\ ConsumerInv'
    BY <1>6, <1>t, <2>2, <2>3, <2>4, <2>5
       DEF GamepadMessage, Ready, TypeOK, ConsumerInv, window, queueVars
  <2>7. QED
    BY <2>1, <2>2, <2>6 DEF IInv
<1>7. QED
  BY <1>1, <1>4, <1>5, <1>6 DEF MessageCallback

LEMMA PushKeepsTypes ==
    ASSUME IInv, PushEnd
    PROVE  TypeOK' /\ Hid!NothingStuck' /\ ConsumerInv'
<1> DEFINE c == Head(producing)
<1>t. TypeOK /\ Hid!NothingStuck /\ ConsumerInv
  BY DEF IInv
<1>1. /\ producing # <<>> /\ producing \in Seq(Calls) /\ c \in Calls
      /\ producing' = Tail(producing)
      /\ \/ last' = last
         \/ Says({c.key}, "lost")
      /\ UNCHANGED <<deviceVars, window, consumer, died>>
      /\ m_keyboardVector' \in Seq(Calls \cup {Stale})
      /\ m_keyboardVector # <<>> =>
           /\ m_keyboardVector' # <<>>
           /\ Head(m_keyboardVector') = Head(m_keyboardVector)
  BY PushOutcome
<1>2. Hid!TypeOK' /\ Hid!NothingStuck' /\ mouse' \in Buttons \cup {None}
  BY <1>1, <1>t, DeviceTyped
<1>3. last' \in [Inputs -> Uds \cup Reasons]
  <2>1. "lost" \in Reasons
    BY DEF Reasons
  <2>2. last \in [Inputs -> Uds \cup Reasons]
    BY <1>t DEF TypeOK
  <2>3. QED
    BY <1>1, <1>t, <2>1, <2>2, SaysTyped
<1>4. producing' \in Seq(Calls) /\ pushing' = FALSE /\ clash' = FALSE
  BY <1>1, HeadTailProperties DEF PushEnd
<1>5. TypeOK'
  BY <1>1, <1>2, <1>3, <1>4, <1>t DEF TypeOK, window
<1>6. session # "stopping" /\ session' = session /\ consumer' = consumer
  BY <1>1, <1>t DEF ConsumerInv, window
<1>7. consumer \in {"redo", "again", "pop"} => Head(m_keyboardVector') = Head(m_keyboardVector)
  BY <1>1, <1>t DEF TypeOK
<1>8. ConsumerInv'
  BY <1>6, <1>7, <1>t DEF ConsumerInv
<1>9. QED
  BY <1>2, <1>5, <1>8

LEMMA ConsumerPreserves ==
    ASSUME IInv, Consumer
    PROVE  IInv'
<1> DEFINE q == m_keyboardVector
<1>t. TypeOK /\ Hid!NothingStuck /\ ConsumerInv
  BY DEF IInv
<1>q. q \in Seq(Calls \cup {Stale})
  BY <1>t DEF TypeOK
<1>1. CASE ConsumerCall
  <2>q. q # <<>> /\ Head(q) \in Calls \cup {Stale} /\ consumer = "loop" /\ ~died
    BY <1>1, <1>q, HeadTailProperties DEF ConsumerCall
  <2>u. UNCHANGED <<window, pushVars, q, last>>
    BY <1>1 DEF ConsumerCall
  <2>1. CASE Head(q) = Stale
    <3>1. died' = TRUE /\ UNCHANGED <<deviceVars, consumer>>
      BY <1>1, <2>1 DEF ConsumerCall
    <3>2. Quiet
      BY <1>t, <2>u, <3>1 DEF Quiet, TypeOK, window, pushVars
    <3>3. QED
      BY <3>2, QuietPreserves
  <2>2. CASE Head(q) # Stale
    <3>1. /\ Head(q) \in Calls /\ Call(Head(q)) /\ died' = died
          /\ consumer' = IF session = "open" THEN "pop"
                         ELSE IF Head(q) \in [ud : {"down"}, key : AllKeys]
                         THEN "redo" ELSE "again"
      BY <1>1, <2>q, <2>2 DEF ConsumerCall
    <3>2. Hid!TypeOK' /\ Hid!NothingStuck' /\ mouse' \in Buttons \cup {None}
      BY <1>t, <3>1, DeviceTyped
    <3>3. TypeOK'
      BY <1>t, <2>q, <2>u, <3>1, <3>2 DEF TypeOK, window, pushVars
    <3>4. ConsumerInv'
      BY <1>t, <2>u, <3>1 DEF ConsumerInv, window, pushVars
    <3>5. ProducingInv'
      BY <2>u DEF IInv, ProducingInv, Heard, pushVars
    <3>6. KeysInv' /\ MouseInv'
      <4>u. UNCHANGED <<q, producing, session, last>>
        BY <2>u DEF window, pushVars
      <4>1. CASE session = "open"
        BY <2>q, <3>1, <4>u, <4>1, CallIsMade
      <4>2. CASE session # "open"
        BY <2>q, <3>1, <4>u, <4>2, CallIsRepeated
      <4>3. QED
        BY <4>1, <4>2
    <3>7. QED
      BY <3>2, <3>3, <3>4, <3>5, <3>6 DEF IInv
  <2>3. QED
    BY <2>1, <2>2
<1>2. CASE ConsumerRedo
  <2> DEFINE c == [Head(q) EXCEPT !.ud = "up"]
  <2>1. /\ consumer = "redo" /\ consumer' = "again" /\ Call(c)
        /\ UNCHANGED <<window, pushVars, q, died, last>>
    BY <1>2 DEF ConsumerRedo
  <2>2. q # <<>> /\ Head(q) \in [ud : {"down"}, key : AllKeys]
    BY <1>t, <2>1 DEF TypeOK, ConsumerInv
  <2>3. c \in Calls /\ c.key = Head(q).key /\ c.key \in AllKeys /\ Head(q) \in Calls
    BY <2>2 DEF Calls, Uds
  <2> HIDE DEF c
  <2>4. Hid!TypeOK' /\ Hid!NothingStuck' /\ mouse' \in Buttons \cup {None}
    BY <1>t, <2>1, <2>3, DeviceTyped
  <2>5. TypeOK'
    BY <1>t, <2>1, <2>2, <2>4 DEF TypeOK, window, pushVars
  <2>6. ConsumerInv'
    BY <1>t, <2>1, <2>3 DEF ConsumerInv, window, pushVars
  <2>7. ProducingInv'
    BY <2>1 DEF IInv, ProducingInv, Heard, pushVars
  <2>8. KeysInv' /\ MouseInv'
    <3>1. UNCHANGED <<q, producing, session, last>>
      BY <2>1 DEF window, pushVars
    <3>2. QED
      BY <2>1, <2>2, <2>3, <3>1, CallIsRepeated
  <2>9. QED
    BY <2>4, <2>5, <2>6, <2>7, <2>8 DEF IInv
<1>3. CASE ConsumerAgain
  <2>1. /\ consumer = "again" /\ consumer' = "pop" /\ Call(Head(q))
        /\ UNCHANGED <<window, pushVars, q, died, last>>
    BY <1>3 DEF ConsumerAgain
  <2>2. q # <<>> /\ Head(q) \in Calls
    BY <1>t, <2>1 DEF TypeOK, ConsumerInv
  <2>4. Hid!TypeOK' /\ Hid!NothingStuck' /\ mouse' \in Buttons \cup {None}
    BY <1>t, <2>1, <2>2, DeviceTyped
  <2>5. TypeOK'
    BY <1>t, <2>1, <2>2, <2>4 DEF TypeOK, window, pushVars
  <2>6. ConsumerInv'
    BY <1>t, <2>1, <2>2 DEF ConsumerInv, window, pushVars
  <2>7. ProducingInv'
    BY <2>1 DEF IInv, ProducingInv, Heard, pushVars
  <2>8. KeysInv' /\ MouseInv'
    <3>1. UNCHANGED <<q, producing, session, last>>
      BY <2>1 DEF window, pushVars
    <3>2. QED
      BY <2>1, <2>2, <3>1, CallIsMade
  <2>9. QED
    BY <2>4, <2>5, <2>6, <2>7, <2>8 DEF IInv
<1>4. CASE ConsumerPop
  <2>1. /\ consumer = "pop" /\ consumer' = "loop" /\ q' = Tail(q) /\ clash' = pushing
        /\ UNCHANGED <<deviceVars, window, producing, pushing, died, last>>
    BY <1>4 DEF ConsumerPop
  <2>2. Hid!TypeOK' /\ Hid!NothingStuck' /\ mouse' \in Buttons \cup {None}
    BY <1>t, <2>1, DeviceTyped
  <2>3. q' \in Seq(Calls \cup {Stale})
    <3>1. q # <<>>
      BY <1>t, <2>1 DEF TypeOK
    <3>2. QED
      BY <1>q, <2>1, <3>1, HeadTailProperties
  <2>4. TypeOK'
    BY <1>t, <2>1, <2>2, <2>3 DEF TypeOK, window
  <2>5. ConsumerInv'
    BY <1>t, <2>1 DEF ConsumerInv, window
  <2>6. ProducingInv' /\ KeysInv' /\ MouseInv'
    <3>1. Pending' = Pending /\ Waiting' = Waiting
      BY <2>1 DEF Pending, Waiting
    <3>2. held' = held /\ mouse' = mouse /\ session' = session
      BY <2>1 DEF deviceVars, hidVars, window
    <3>3. QED
      BY <2>1, <3>1, <3>2, StillToCome
  <2>7. QED
    BY <2>2, <2>4, <2>5, <2>6 DEF IInv
<1>5. CASE ConsumerEnd
  <2>1. /\ consumer = "loop" /\ session = "stopping" /\ consumer' = "ended"
        /\ Says(KeysOf(q), "stopped")
        /\ UNCHANGED <<deviceVars, window, pushVars, q, died>>
    BY <1>5 DEF ConsumerEnd
  <2>2. Hid!TypeOK' /\ Hid!NothingStuck' /\ mouse' \in Buttons \cup {None}
    BY <1>t, <2>1, DeviceTyped
  <2>3. last' \in [Inputs -> Uds \cup Reasons]
    <3>1. "stopped" \in Reasons
      BY DEF Reasons
    <3>2. QED
      BY <1>t, <2>1, <3>1, SaysTyped
  <2>4. TypeOK'
    BY <1>t, <2>1, <2>2, <2>3 DEF TypeOK, window, pushVars
  <2>5. ConsumerInv'
    BY <1>t, <2>1 DEF ConsumerInv, window, pushVars
  <2>6. ProducingInv' /\ KeysInv' /\ MouseInv'
    BY <1>5, EndPreserves
  <2>7. QED
    BY <2>2, <2>4, <2>5, <2>6 DEF IInv
<1>6. QED
  BY <1>1, <1>2, <1>3, <1>4, <1>5 DEF Consumer

LEMMA StepPreserves == IInv /\ [Next]_vars => IInv'
<1> SUFFICES ASSUME IInv, [Next]_vars PROVE IInv'
  OBVIOUS
<1>t. TypeOK /\ Hid!NothingStuck /\ ConsumerInv
  BY DEF IInv
<1>1. ASSUME NEW ud \in Uds, MessageCallback(ud) PROVE IInv'
  BY <1>1, MessagePreserves
<1>2. ASSUME NEW b \in Buttons \cup {None}, MouseMessage(b) PROVE IInv'
  <2>1. /\ Mouse(b) /\ UNCHANGED <<window, pushVars, queueVars>>
        /\ last' \in [Inputs -> Uds \cup Reasons]
    BY <1>2, <1>t DEF MouseMessage, Says, TypeOK, Uds, Reasons
  <2>2. Hid!TypeOK' /\ Hid!NothingStuck' /\ mouse' \in Buttons \cup {None}
    BY <1>t, <2>1, DeviceTyped
  <2>3. TypeOK' /\ ConsumerInv'
    BY <1>t, <2>1, <2>2 DEF TypeOK, ConsumerInv, window, pushVars, queueVars
  <2>4. QED
    BY <1>2, <2>2, <2>3, MouseMessagePreserves DEF IInv
<1>3. CASE StickMessage
  <2>1. /\ producing = <<>> /\ producing' = <<Move>> /\ session # "stopping"
        /\ Says(Replaced({None}), "replaced")
        /\ UNCHANGED <<deviceVars, window, pushing, clash, queueVars>>
    BY <1>3 DEF StickMessage, Ready
  <2>2. Hid!TypeOK' /\ Hid!NothingStuck' /\ mouse' \in Buttons \cup {None}
    BY <1>t, <2>1, DeviceTyped
  <2>3. last' \in [Inputs -> Uds \cup Reasons]
    <3>1. "replaced" \in Reasons
      BY DEF Reasons
    <3>2. QED
      BY <1>t, <2>1, <3>1, SaysTyped
  <2>4. producing' \in Seq(Calls) /\ producing' # <<>>
    BY <2>1, Kinds
  <2>5. TypeOK' /\ ConsumerInv'
    BY <1>t, <2>1, <2>2, <2>3, <2>4 DEF TypeOK, ConsumerInv, window, queueVars
  <2>6. QED
    BY <1>3, <2>2, <2>5, StickMessagePreserves DEF IInv
<1>4. CASE PushEnd
  BY <1>4, PushKeepsTypes, PushPreserves DEF IInv
<1>5. CASE Consumer
  BY <1>5, ConsumerPreserves
<1>6. CASE PushBegin \/ KeyMouseClose \/ Stop \/ SetGamePid \/ Desktop \/ UNCHANGED vars
  BY <1>6, QuietSteps, QuietPreserves
<1>7. QED
  BY <1>1, <1>2, <1>3, <1>4, <1>5, <1>6 DEF Next, Produce

\* What is on its way says what the last message said, of every key and button.
THEOREM InputInvariant == Spec => []IInv
  BY InitEstablishes, StepPreserves, PTL DEF Spec

\* To the keyboard, every step of the threads is a press, a release or nothing:
\* what HidKeyboard promises of any sequence of calls holds of these.
THEOREM InputsAreCalls == Spec => Hid!Spec
<1>1. Init => Hid!Init
  BY DEF Init
<1>2. IInv /\ [Next]_vars => [Hid!Next]_(Hid!vars)
  <2> SUFFICES ASSUME IInv, [Next]_vars PROVE [Hid!Next]_(Hid!vars)
    OBVIOUS
  <2>1. ASSUME NEW c, Call(c), c.key \in AllKeys \cup Buttons \cup {None}
        PROVE  [Hid!Next]_(Hid!vars)
    <3>1. CASE c.key \in Buttons \cup {None}
      BY <2>1, <3>1 DEF Call, Mouse, hidVars, Hid!vars
    <3>2. CASE c.key \notin Buttons \cup {None}
      <4>1. Hid!KeyDown(c.key) \/ Hid!KeyUp(c.key)
        BY <2>1, <3>2 DEF Call
      <4>2. c.key \in Hid!AllKeys
        BY <2>1, <3>2 DEF AllKeys, Hid!AllKeys
      <4>3. QED
        BY <4>1, <4>2 DEF Hid!Next
    <3>3. QED
      BY <3>1, <3>2
  <2>2. CASE UNCHANGED hidVars
    BY <2>2 DEF hidVars, Hid!vars
  <2>3. ASSUME NEW ud \in Uds, MessageCallback(ud) PROVE [Hid!Next]_(Hid!vars)
    <3>1. \/ UNCHANGED hidVars
          \/ \E k \in KeyboardKeys : Call([ud |-> ud, key |-> k])
          \/ \E k \in FunctionKeys : ud = "up" /\ Call([ud |-> ud, key |-> k])
      <4>1. \A k : FunctionValue(k) = None
        BY DEF FunctionValue, m_iniParse2
      <4>2. QED
        BY <2>3, <4>1 DEF MessageCallback, KeyboardMessage, FunctionMessage, GamepadMessage,
           Unheard, Dropped, Offline, deviceVars, Uds
    <3>2. KeyboardKeys \cup FunctionKeys \subseteq AllKeys
      BY KeyInputAssumption DEF KeyInputAssumption, AllKeys
    <3>3. QED
      BY <2>1, <2>2, <3>1, <3>2
  <2>4. CASE \E b \in Buttons \cup {None} : MouseMessage(b)
    BY <2>2, <2>4 DEF MouseMessage, Mouse
  <2>5. CASE Consumer
    <3>q. m_keyboardVector \in Seq(Calls \cup {Stale})
      BY DEF IInv, TypeOK
    <3>h. m_keyboardVector # <<>> => Head(m_keyboardVector) \in Calls \cup {Stale}
      BY <3>q, HeadTailProperties
    <3>k. \A d \in Calls : d.key \in AllKeys \cup Buttons \cup {None}
      BY Kinds
    <3>1. CASE ConsumerCall \/ ConsumerAgain
      <4>1. \/ UNCHANGED hidVars
            \/ Head(m_keyboardVector) \in Calls /\ Call(Head(m_keyboardVector))
        BY <3>1, <3>h DEF ConsumerCall, ConsumerAgain, IInv, ConsumerInv, deviceVars
      <4>2. QED
        BY <2>1, <2>2, <3>k, <4>1
    <3>2. CASE ConsumerRedo
      <4>1. Head(m_keyboardVector) \in [ud : {"down"}, key : AllKeys]
        BY <3>2 DEF ConsumerRedo, IInv, ConsumerInv
      <4>2. [Head(m_keyboardVector) EXCEPT !.ud = "up"].key \in AllKeys
        BY <4>1
      <4>3. QED
        BY <2>1, <3>2, <4>2 DEF ConsumerRedo
    <3>3. CASE ConsumerPop \/ ConsumerEnd
      BY <2>2, <3>3 DEF ConsumerPop, ConsumerEnd, deviceVars
    <3>4. QED
      BY <2>5, <3>1, <3>2, <3>3 DEF Consumer
  <2>6. CASE StickMessage \/ Produce \/ KeyMouseClose \/ Stop \/ SetGamePid \/ Desktop
             \/ UNCHANGED vars
    <3>1. UNCHANGED deviceVars
      BY <2>6 DEF StickMessage, Produce, PushBegin, PushEnd, KeyMouseClose, Stop, SetGamePid,
         Desktop, vars
    <3>2. QED
      BY <2>2, <3>1 DEF deviceVars
  <2>7. QED
    BY <2>3, <2>4, <2>5, <2>6 DEF Next
<1>3. QED
  BY <1>1, <1>2, InputInvariant, PTL DEF Spec, Hid!Spec

-------------------------------------------------------------------------------
(* What HidKeyboardProofs shows of any sequence of calls holds of those that the
   threads make. *)
Sequence == INSTANCE HidKeyboardProofs

\* What HidKeyboardProofs assumes of its constants is assumed here too.
LEMMA KeyboardTables == Sequence!KeyboardAssumption
BY KeyInputAssumption
   DEF KeyInputAssumption, Sequence!KeyboardAssumption, IsFiniteSet, Sequence!IsFiniteSet

\* The two instances of HidKeyboard count alike, ...
LEMMA SameCardinality == \A S : Hid!Cardinality(S) = Sequence!Cardinality(S)
BY DEF Hid!Cardinality, Sequence!Cardinality

\* ... and take the same steps.
LEMMA CallsAreASequence == Hid!Spec => Sequence!Spec
<1>1. Hid!Init => Sequence!Init
  BY DEF Hid!Init, Sequence!Init, Hid!NoKeys, Sequence!NoKeys
<1>2. [Hid!Next]_(Hid!vars) => [Sequence!Next]_(Sequence!vars)
  <2>1. ASSUME NEW k, Hid!KeyDown(k) PROVE Sequence!KeyDown(k)
    BY <2>1, SameCardinality DEF Hid!KeyDown, Hid!PressNew, Hid!PressAgain, Hid!PressFull,
       Hid!PressModifier, Hid!PressOther, Hid!PressZero, Hid!FirstFree, Hid!Listed,
       Hid!Hold, Hid!Crowd, Hid!NoKeys,
       Sequence!KeyDown, Sequence!PressNew, Sequence!PressAgain, Sequence!PressFull,
       Sequence!PressModifier, Sequence!PressOther, Sequence!PressZero,
       Sequence!FirstFree, Sequence!Listed, Sequence!Hold, Sequence!Crowd,
       Sequence!NoKeys
  <2>2. ASSUME NEW k, Hid!KeyUp(k) PROVE Sequence!KeyUp(k)
    BY <2>2, SameCardinality DEF Hid!KeyUp, Hid!Crowd, Sequence!KeyUp, Sequence!Crowd
  <2>3. QED
    BY <2>1, <2>2 DEF Hid!Next, Sequence!Next, Hid!vars, Sequence!vars, Hid!AllKeys,
       Sequence!AllKeys
<1>3. QED
  BY <1>1, <1>2, PTL DEF Hid!Spec, Sequence!Spec

\* A held key is in the report of the last call unless KeyDown left it out.
LEMMA HeldKeysReported == Spec => []Hid!HeldIsReported
<1>1. Sequence!Spec => []Sequence!HeldIsReported
  BY KeyboardTables, Sequence!OnlyKeyDownLeavesOut
<1>2. Sequence!HeldIsReported => Hid!HeldIsReported
  BY DEF Hid!HeldIsReported, Sequence!HeldIsReported, Hid!Reported, Sequence!Reported,
     Hid!LeftOut, Sequence!LeftOut, Hid!Listed, Sequence!Listed
<1>3. QED
  BY <1>1, <1>2, InputsAreCalls, CallsAreASequence, PTL

\* Whatever the interleaving of the asio thread, the consumer and a stop, once
\* nothing is on its way an open device reports a key if and only if the last message
\* about it pressed it, and a mouse button as well, with the exceptions that
\* KeysFollowPlayer names - a key that KeyDown left out of the last report among
\* them - and no released key stays in a slot: for any tables, however long the queue.
THEOREM KeysAndButtonsFollow == Spec => []KeysFollowPlayer
<1>1. ASSUME IInv, Hid!HeldIsReported PROVE KeysFollowPlayer
  <2>t. TypeOK /\ Hid!NothingStuck /\ ConsumerInv
    BY <1>1 DEF IInv
  <2>1. SUFFICES ASSUME Settled PROVE
          /\ session = "open" =>
                /\ \A k \in AllKeys :
                    \/ Excused(k)
                    \/ last[k] = "down" /\ (k \in Hid!Reported \/ Hid!LeftOut(k))
                    \/ last[k] = "up" /\ k \notin Hid!Reported
                /\ \A b \in Buttons : Excused(b) \/ (mouse = b <=> last[b] = "down")
          /\ \A k \in AllKeys : last[k] = "up" => k \notin Hid!Listed \cup {Modkeycodelist}
    BY DEF KeysFollowPlayer
  <2>2. producing = <<>> /\ Waiting = <<>>
    BY <2>1, <2>t DEF Settled, Waiting, Pending, TypeOK
  <2>3. \A C, D : Silent(<<>>, C) /\ ~LastIn(<<>>, C, D)
    BY NothingInEmpty
  <2>4. \A k \in Inputs : Excused(k) \/ last[k] \in Uds
    BY <2>t DEF TypeOK, Excused
  <2>5. ASSUME NEW k \in AllKeys, last[k] \in Uds
        PROVE  k \in held <=> last[k] = "down"
    BY <1>1, <2>2, <2>3, <2>5 DEF IInv, KeysInv, Heard
  <2>6. ASSUME NEW k \in AllKeys, last[k] = "up"
        PROVE  k \notin Hid!Reported /\ k \notin Hid!Listed \cup {Modkeycodelist}
    <3>1. k \notin held /\ k # None
      BY <2>5, <2>6, Kinds DEF Uds
    <3>2. QED
      BY <2>t, <3>1 DEF Hid!NothingStuck
  <2>7. ASSUME NEW k \in AllKeys, last[k] = "down"
        PROVE  k \in Hid!Reported \/ Hid!LeftOut(k)
    BY <1>1, <2>5, <2>7 DEF Hid!HeldIsReported, Uds
  <2>8. \A k \in AllKeys : Excused(k) \/ last[k] \in {"up", "down"}
    BY <2>4, Kinds DEF Uds
  <2>9. ASSUME session = "open", NEW b \in Buttons, ~Excused(b)
        PROVE  mouse = b <=> last[b] = "down"
    <3>1. last[b] \in Uds
      BY <2>4, <2>9, Kinds
    <3>2. Pending = <<>>
      BY <2>1, <2>9, <2>t DEF Settled, Pending, TypeOK, ConsumerInv
    <3>3. Final(mouse) /\ mouse \in Buttons \cup {None}
      BY <2>3, <2>t, <3>2 DEF Final, TypeOK
    <3>4. /\ last[b] = "up" => mouse # b
          /\ last[b] = "down" => mouse = b
      BY <1>1, <2>2, <2>3, <2>9, <3>3 DEF IInv, MouseInv
    <3>5. QED
      BY <3>1, <3>4 DEF Uds
  <2>10. QED
    BY <2>6, <2>7, <2>8, <2>9
<1>2. QED
  BY InputInvariant, HeldKeysReported, <1>1, PTL
===============================================================================
