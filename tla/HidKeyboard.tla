----------------------------- MODULE HidKeyboard -----------------------------
(* The keyboard half of libGetrtpcmd: five slots of pressed keys, one slot of a
   pressed modifier, and the report each call hands to the virtual keyboard
   (HidD_SetFeature).  A report is the whole state of the device: a key that is
   not in the last report is up.

   Keys are JavaScript key codes.  The tables KeyCode and ModifiersKeyCodes map
   them one to one to HID usages, so a report names the key codes themselves. *)
EXTENDS Naturals, FiniteSets

CONSTANTS
    Keys,        \* key codes in KeyCode
    Modifiers,   \* key codes in ModifiersKeyCodes
    Others,      \* key codes in neither table
    Slots,       \* indices of keycodelist, 0..4 in the code
    None         \* key code 0: a free slot, no key

ASSUME KeyboardAssumption ==
    /\ Slots \subseteq Nat /\ IsFiniteSet(Slots)
    /\ Keys \cap Modifiers = {}
    /\ Keys \cap Others = {}
    /\ Modifiers \cap Others = {}
    /\ None \notin Keys \cup Modifiers \cup Others

VARIABLES
    keycodelist,     \* the five slots
    Modkeycodelist,  \* the modifier slot (one key code, despite its name)
    report,          \* the last report sent to the device
    held,            \* history: keys whose last call was KeyDown
    crowded,         \* history: more ordinary keys were held than there are slots
    blank,           \* history: the last call pressed a modifier or an unknown key
    lastModifier     \* history: the modifier pressed last, until it is released

vars == <<keycodelist, Modkeycodelist, report, held, crowded, blank, lastModifier>>

AllKeys == Keys \cup Modifiers \cup Others
Report == [modifier : Modifiers \cup {None}, keys : [Slots -> Keys \cup {None}]]
NoKeys == [i \in Slots |-> None]

Listed == {keycodelist[i] : i \in Slots} \ {None}
Reported == ({report.keys[i] : i \in Slots} \cup {report.modifier}) \ {None}

TypeOK ==
    /\ keycodelist \in [Slots -> Keys \cup {None}]
    /\ Modkeycodelist \in Modifiers \cup {None}
    /\ report \in Report
    /\ held \subseteq AllKeys
    /\ crowded \in BOOLEAN
    /\ blank \in BOOLEAN
    /\ lastModifier \in Modifiers \cup {None}

Init ==
    /\ keycodelist = NoKeys
    /\ Modkeycodelist = None
    /\ report = [modifier |-> None, keys |-> NoKeys]
    /\ held = {}
    /\ crowded = FALSE
    /\ blank = FALSE
    /\ lastModifier = None

-------------------------------------------------------------------------------
Crowd == crowded' = (crowded \/ Cardinality(held' \cap Keys) > Cardinality(Slots))

Hold(k) == held' = held \cup {k} /\ Crowd

(* KeyDown *)

FirstFree(i) ==
    /\ keycodelist[i] = None
    /\ \A j \in Slots : keycodelist[j] = None => i <= j

\* Mutant: a key that has a slot is given another one.
PressUnlisted(k) ==
    /\ k \in Keys
    /\ \E i \in Slots : FirstFree(i) /\ keycodelist' = [keycodelist EXCEPT ![i] = k]
    /\ report' = [modifier |-> Modkeycodelist, keys |-> keycodelist']
    /\ Hold(k)
    /\ UNCHANGED Modkeycodelist

\* An ordinary key takes the first free slot, unless it has one already.
PressNew(k) ==
    /\ k \in Keys \ Listed
    /\ \E i \in Slots :
        /\ FirstFree(i)
        /\ keycodelist' = [keycodelist EXCEPT ![i] = k]
    /\ report' = [modifier |-> Modkeycodelist, keys |-> keycodelist']
    /\ Hold(k)
    /\ UNCHANGED Modkeycodelist

\* Mutant: the keys of a report are filled in for a new key only.
PressAgainBlank(k) ==
    /\ k \in Keys \cap Listed
    /\ report' = [modifier |-> Modkeycodelist, keys |-> NoKeys]
    /\ Hold(k)
    /\ UNCHANGED <<keycodelist, Modkeycodelist>>

\* Already in a slot: the same report again.
PressAgain(k) ==
    /\ k \in Keys \cap Listed
    /\ report' = [modifier |-> Modkeycodelist, keys |-> keycodelist]
    /\ Hold(k)
    /\ UNCHANGED <<keycodelist, Modkeycodelist>>

\* Mutant: the search for a free slot stops before the last one.
PressLastSlotUnused(k) ==
    /\ k \in Keys \ Listed
    /\ \A i \in Slots : keycodelist[i] = None => \A j \in Slots : j <= i
    /\ report' = [modifier |-> Modkeycodelist, keys |-> keycodelist]
    /\ Hold(k)
    /\ UNCHANGED <<keycodelist, Modkeycodelist>>

\* No free slot: the key is dropped, the report is sent all the same.
PressFull(k) ==
    /\ k \in Keys \ Listed
    /\ \A i \in Slots : keycodelist[i] # None
    /\ report' = [modifier |-> Modkeycodelist, keys |-> keycodelist]
    /\ Hold(k)
    /\ UNCHANGED <<keycodelist, Modkeycodelist>>

\* Mutant: a modifier is put in a slot like any key.
ModifierTakesSlot(k) ==
    /\ k \in Modifiers
    /\ \E i \in Slots : FirstFree(i) /\ keycodelist' = [keycodelist EXCEPT ![i] = k]
    /\ report' = [modifier |-> Modkeycodelist, keys |-> keycodelist']
    /\ Hold(k)
    /\ UNCHANGED Modkeycodelist

\* A modifier replaces the one before it.  The members key0..key4 of the report
\* are filled in for ordinary keys only: here they keep their initial zeros.
PressModifier(k) ==
    /\ k \in Modifiers
    /\ Modkeycodelist' = k
    /\ report' = [modifier |-> k, keys |-> NoKeys]
    /\ Hold(k)
    /\ UNCHANGED keycodelist

\* A key code in no table changes no slot and still sends a report without keys.
PressOther(k) ==
    /\ k \in Others
    /\ report' = [modifier |-> Modkeycodelist, keys |-> NoKeys]
    /\ Hold(k)
    /\ UNCHANGED <<keycodelist, Modkeycodelist>>

\* Key code 0, which callers pass when a message names no key, is in both
\* tables: no slot changes, and the modifier slot becomes free.
PressZero(k) ==
    /\ k = None
    /\ Modkeycodelist' = None
    /\ report' = [modifier |-> None, keys |-> keycodelist]
    /\ UNCHANGED <<keycodelist, held, crowded>>

KeyDown(k) ==
    /\ \/ PressNew(k) \/ PressAgain(k) \/ PressFull(k)
       \/ PressModifier(k) \/ PressOther(k) \/ PressZero(k)
    /\ blank' = (k \in Modifiers \cup Others)
    /\ lastModifier' = IF k \in Modifiers \cup {None} THEN k ELSE lastModifier

-------------------------------------------------------------------------------
(* KeyUp *)

\* Mutant: the modifier slot is left alone.
KeyUpKeepsModifier(k) ==
    /\ keycodelist' =
        [i \in Slots |-> IF keycodelist[i] = k THEN None ELSE keycodelist[i]]
    /\ report' = [modifier |-> Modkeycodelist, keys |-> keycodelist']
    /\ held' = held \ {k} /\ Crowd
    /\ blank' = FALSE
    /\ lastModifier' = IF lastModifier = k THEN None ELSE lastModifier
    /\ UNCHANGED Modkeycodelist

\* The key leaves every slot it is in; a key that is in none changes nothing,
\* and the report is sent in any case, whole.
KeyUp(k) ==
    /\ keycodelist' =
        [i \in Slots |-> IF keycodelist[i] = k THEN None ELSE keycodelist[i]]
    /\ Modkeycodelist' = IF Modkeycodelist = k THEN None ELSE Modkeycodelist
    /\ report' = [modifier |-> Modkeycodelist', keys |-> keycodelist']
    /\ held' = held \ {k} /\ Crowd
    /\ blank' = FALSE
    /\ lastModifier' = IF lastModifier = k THEN None ELSE lastModifier

Next == \E k \in AllKeys \cup {None} : KeyDown(k) \/ KeyUp(k)

Spec == Init /\ [][Next]_vars

-------------------------------------------------------------------------------
(* Properties *)

\* The slots are a set: KeyUp (392-402) frees every slot of a key, and KeyDown
\* (361-378) must not spend two slots on one key that repeats while it is held.
NoDuplicate ==
    \A i, j \in Slots : keycodelist[i] = keycodelist[j] /\ keycodelist[i] # None => i = j

\* What the device holds down, the client holds down: neither a slot nor the
\* modifier survives its KeyUp, and no report is built from an older state.
NothingStuck ==
    /\ Listed \subseteq held
    /\ Modkeycodelist \in held \cup {None}
    /\ Reported \subseteq held

\* As long as the client never held more ordinary keys than there are slots, each
\* key it holds has a slot, in whatever order keys came and went before: the
\* limit of five is the only reason for which KeyDown drops a key.
NoKeyLost == ~crowded => Listed = held \cap Keys

\* What KeyDown leaves out of a report although the client holds the key: every
\* ordinary key while the last call pressed a modifier or an unknown key (385-390:
\* the slots are filled in for ordinary keys only), a key that found no slot, a
\* modifier that another one or key code 0 replaced, and a key in no table.
LeftOut(k) ==
    \/ k \in Keys /\ blank
    \/ k \in Keys \ Listed /\ crowded
    \/ k \in Modifiers \ {lastModifier}
    \/ k \in Others

\* Any other key that the client holds is in the last report.
HeldIsReported == \A k \in held : k \in Reported \/ LeftOut(k)

IInv == TypeOK /\ NoDuplicate /\ NothingStuck /\ NoKeyLost
===============================================================================
