-------------------------- MODULE HidKeyboardProofs --------------------------
(* The invariants of HidKeyboard for every set of keys and every finite set of
   slots: TLC checks six keys in five slots. *)
EXTENDS HidKeyboard, FiniteSetTheorems, FunctionTheorems, TLAPS

\* A full array without duplicates lists as many keys as it has slots.
LEMMA FullList ==
    ASSUME TypeOK, NoDuplicate, \A i \in Slots : keycodelist[i] # None
    PROVE  IsFiniteSet(Listed) /\ Cardinality(Listed) = Cardinality(Slots)
<1> DEFINE f == [i \in Slots |-> keycodelist[i]]
<1>1. f \in Bijection(Slots, Listed)
  <2>1. f \in [Slots -> Listed]
    BY DEF Listed
  <2>2. \A a, b \in Slots : f[a] = f[b] => a = b
    BY DEF NoDuplicate
  <2>3. \A t \in Listed : \E s \in Slots : f[s] = t
    BY DEF Listed
  <2>4. QED
    BY <2>1, <2>2, <2>3, Fun_IsBij
<1>2. ExistsBijection(Slots, Listed)
  BY <1>1 DEF ExistsBijection
<1>3. IsFiniteSet(Slots)
  BY KeyboardAssumption DEF KeyboardAssumption
<1>4. QED
  BY <1>2, <1>3, FS_Bijection

\* A key that finds all slots taken is one key too many.
LEMMA DroppedKeyCrowds ==
    ASSUME IInv, NEW k, PressFull(k)
    PROVE  crowded'
<1>1. CASE crowded
  BY <1>1 DEF PressFull, Hold, Crowd
<1>2. CASE ~crowded
  <2>1. Listed = held \cap Keys
    BY <1>2 DEF IInv, NoKeyLost
  <2>2. held' \cap Keys = Listed \cup {k} /\ k \notin Listed
    BY <2>1 DEF PressFull, Hold
  <2>3. IsFiniteSet(Listed) /\ Cardinality(Listed) = Cardinality(Slots)
    BY FullList DEF IInv, PressFull
  <2>4. Cardinality(Listed \cup {k}) = Cardinality(Slots) + 1
    BY <2>2, <2>3, FS_AddElement
  <2>5. Cardinality(Slots) \in Nat
    BY KeyboardAssumption, FS_CardinalityType DEF KeyboardAssumption
  <2>6. Cardinality(held' \cap Keys) = Cardinality(Slots) + 1
    BY <2>2, <2>4
  <2>7. QED
    <3>1. Cardinality(held' \cap Keys) > Cardinality(Slots)
      BY <2>5, <2>6
    <3>2. QED BY <3>1 DEF PressFull, Hold, Crowd
<1>3. QED
  BY <1>1, <1>2 DEF IInv, TypeOK

-------------------------------------------------------------------------------
LEMMA InitEstablishes == Init => IInv
<1> SUFFICES ASSUME Init PROVE IInv
  OBVIOUS
<1>1. TypeOK
  BY DEF Init, TypeOK, Report, NoKeys
<1>2. Listed = {} /\ Reported = {}
  BY DEF Init, NoKeys, Listed, Reported
<1>3. NoDuplicate
  BY DEF Init, NoKeys, NoDuplicate
<1>4. NothingStuck /\ NoKeyLost
  BY <1>2 DEF Init, NothingStuck, NoKeyLost
<1>5. QED
  BY <1>1, <1>3, <1>4 DEF IInv

LEMMA TypePreserved == TypeOK /\ [Next]_vars => TypeOK'
<1> SUFFICES ASSUME TypeOK, [Next]_vars PROVE TypeOK'
  OBVIOUS
<1> USE DEF TypeOK, Report, NoKeys, AllKeys
<1>1. ASSUME NEW k \in AllKeys \cup {None}, KeyDown(k) PROVE TypeOK'
  <2>0. blank' \in BOOLEAN /\ lastModifier' \in Modifiers \cup {None}
    BY <1>1 DEF KeyDown
  <2> USE <2>0
  <2>1. CASE PressNew(k)    BY <2>1 DEF PressNew, Hold, Crowd
  <2>2. CASE PressAgain(k)  BY <2>2 DEF PressAgain, Hold, Crowd
  <2>3. CASE PressFull(k)   BY <2>3 DEF PressFull, Hold, Crowd
  <2>4. CASE PressModifier(k) BY <2>4 DEF PressModifier, Hold, Crowd
  <2>5. CASE PressOther(k)  BY <2>5 DEF PressOther, Hold, Crowd
  <2>6. CASE PressZero(k)   BY <2>6 DEF PressZero
  <2>7. QED BY <1>1, <2>1, <2>2, <2>3, <2>4, <2>5, <2>6 DEF KeyDown
<1>2. ASSUME NEW k \in AllKeys \cup {None}, KeyUp(k) PROVE TypeOK'
  <2>1. keycodelist' \in [Slots -> Keys \cup {None}]
    BY <1>2 DEF KeyUp
  <2>2. Modkeycodelist' \in Modifiers \cup {None}
    BY <1>2 DEF KeyUp
  <2>3. QED BY <1>2, <2>1, <2>2 DEF KeyUp, Crowd
<1>3. CASE UNCHANGED vars BY <1>3 DEF vars
<1>4. QED BY <1>1, <1>2, <1>3 DEF Next

\* Each kind of call keeps the slots distinct and inside the held keys, and
\* loses a held key only when the keys are too many.
LEMMA StepPreserves == IInv /\ [Next]_vars => IInv'
<1> SUFFICES ASSUME IInv, [Next]_vars PROVE IInv'
  OBVIOUS
<1>t. TypeOK /\ TypeOK'
  BY TypePreserved DEF IInv
<1> USE KeyboardAssumption DEF KeyboardAssumption
<1>1. ASSUME NEW k \in AllKeys \cup {None}, PressNew(k) PROVE IInv'
  <2>1. PICK i \in Slots : FirstFree(i) /\ keycodelist' = [keycodelist EXCEPT ![i] = k]
    BY <1>1 DEF PressNew
  <2>2. \A j \in Slots : keycodelist'[j] = IF j = i THEN k ELSE keycodelist[j]
    BY <2>1, <1>t DEF TypeOK
  <2>3. k \in Keys /\ k \notin Listed /\ k # None /\ keycodelist[i] = None
    BY <1>1, <2>1 DEF PressNew, FirstFree
  <2>4. Listed' = Listed \cup {k}
    BY <2>2, <2>3 DEF Listed
  <2>5. NoDuplicate'
    BY <2>2, <2>3 DEF NoDuplicate, Listed, IInv
  <2>6. NothingStuck'
    <3>1. held' = held \cup {k} /\ Modkeycodelist' = Modkeycodelist
      BY <1>1 DEF PressNew, Hold
    <3>2. Reported' = Listed' \cup ({Modkeycodelist} \ {None})
      BY <1>1 DEF PressNew, Reported, Listed
    <3>3. QED
      BY <2>4, <3>1, <3>2 DEF IInv, NothingStuck
  <2>7. NoKeyLost'
    BY <1>1, <2>3, <2>4 DEF PressNew, Hold, Crowd, NoKeyLost, IInv
  <2>8. QED BY <1>t, <2>5, <2>6, <2>7 DEF IInv
<1>2. ASSUME NEW k \in AllKeys \cup {None}, PressAgain(k) PROVE IInv'
  <2>1. NoDuplicate' /\ NothingStuck'
    BY <1>2 DEF PressAgain, Hold, IInv, NoDuplicate, NothingStuck, Listed, Reported
  <2>2. NoKeyLost'
    BY <1>2 DEF PressAgain, Hold, Crowd, IInv, NoKeyLost, Listed
  <2>3. QED BY <1>t, <2>1, <2>2 DEF IInv
<1>3. ASSUME NEW k \in AllKeys \cup {None}, PressFull(k) PROVE IInv'
  <2>1. NoDuplicate' /\ NothingStuck'
    BY <1>3 DEF PressFull, Hold, IInv, NoDuplicate, NothingStuck, Listed, Reported
  <2>2. NoKeyLost'
    BY <1>3, DroppedKeyCrowds DEF NoKeyLost
  <2>3. QED BY <1>t, <2>1, <2>2 DEF IInv
<1>4. ASSUME NEW k \in AllKeys \cup {None}, PressModifier(k) PROVE IInv'
  <2>1. NoDuplicate' /\ NothingStuck'
    BY <1>4 DEF PressModifier, Hold, IInv, NoDuplicate, NothingStuck, Listed,
       Reported, NoKeys
  <2>2. NoKeyLost'
    BY <1>4 DEF PressModifier, Hold, Crowd, IInv, NoKeyLost, Listed
  <2>3. QED BY <1>t, <2>1, <2>2 DEF IInv
<1>5. ASSUME NEW k \in AllKeys \cup {None}, PressOther(k) PROVE IInv'
  <2>1. NoDuplicate' /\ NothingStuck'
    BY <1>5 DEF PressOther, Hold, IInv, NoDuplicate, NothingStuck, Listed,
       Reported, NoKeys
  <2>2. NoKeyLost'
    BY <1>5 DEF PressOther, Hold, Crowd, IInv, NoKeyLost, Listed
  <2>3. QED BY <1>t, <2>1, <2>2 DEF IInv
<1>6. ASSUME NEW k \in AllKeys \cup {None}, PressZero(k) PROVE IInv'
  <2>1. NoDuplicate' /\ NothingStuck' /\ NoKeyLost'
    BY <1>6 DEF PressZero, IInv, NoDuplicate, NothingStuck, NoKeyLost, Listed, Reported
  <2>2. QED BY <1>t, <2>1 DEF IInv
<1>7. ASSUME NEW k \in AllKeys \cup {None}, KeyUp(k) PROVE IInv'
  <2>1. \A j \in Slots :
          keycodelist'[j] = IF keycodelist[j] = k THEN None ELSE keycodelist[j]
    BY <1>7 DEF KeyUp
  <2>2. Listed' = Listed \ {k}
    BY <2>1 DEF Listed
  <2>3. NoDuplicate'
    BY <2>1 DEF NoDuplicate, IInv
  <2>4. NothingStuck'
    <3>1. held' = held \ {k}
      BY <1>7 DEF KeyUp
    <3>2. Modkeycodelist' \in held' \cup {None}
      BY <1>7, <3>1 DEF KeyUp, IInv, NothingStuck
    <3>3. Reported' = Listed' \cup ({Modkeycodelist'} \ {None})
      BY <1>7 DEF KeyUp, Reported, Listed
    <3>4. QED
      BY <2>2, <3>1, <3>2, <3>3 DEF IInv, NothingStuck
  <2>5. NoKeyLost'
    BY <1>7, <2>2 DEF KeyUp, Crowd, NoKeyLost, IInv
  <2>6. QED BY <1>t, <2>3, <2>4, <2>5 DEF IInv
<1>8. CASE UNCHANGED vars
  BY <1>8 DEF vars, IInv, TypeOK, NoDuplicate, NothingStuck, NoKeyLost, Listed, Reported
<1>9. QED
  BY <1>1, <1>2, <1>3, <1>4, <1>5, <1>6, <1>7, <1>8 DEF Next, KeyDown

-------------------------------------------------------------------------------
\* What a report says of the slots: the modifier always, the keys unless the call
\* pressed something else than an ordinary key.
ReportSays ==
    /\ report.modifier = Modkeycodelist
    /\ blank \/ report.keys = keycodelist
    /\ lastModifier \in held \cap Modifiers => Modkeycodelist = lastModifier

\* It holds before the first call and after every one, ...
LEMMA ReportInit == Init => ReportSays
BY DEF Init, ReportSays

LEMMA ReportStep == IInv /\ ReportSays /\ [Next]_vars => ReportSays'
<1> SUFFICES ASSUME IInv, ReportSays, [Next]_vars PROVE ReportSays'
  OBVIOUS
<1> USE KeyboardAssumption DEF KeyboardAssumption, AllKeys
<1>1. ASSUME NEW k \in AllKeys \cup {None}, KeyDown(k) PROVE ReportSays'
  <2>1. CASE PressNew(k) \/ PressAgain(k) \/ PressFull(k)
    BY <1>1, <2>1 DEF KeyDown, PressNew, PressAgain, PressFull, Hold, ReportSays
  <2>2. CASE PressModifier(k)
    BY <1>1, <2>2 DEF KeyDown, PressModifier, ReportSays
  <2>3. CASE PressOther(k)
    BY <1>1, <2>3 DEF KeyDown, PressOther, Hold, ReportSays
  <2>4. CASE PressZero(k)
    BY <1>1, <2>4 DEF KeyDown, PressZero, ReportSays
  <2>5. QED
    BY <1>1, <2>1, <2>2, <2>3, <2>4 DEF KeyDown
<1>2. ASSUME NEW k \in AllKeys \cup {None}, KeyUp(k) PROVE ReportSays'
  BY <1>2 DEF KeyUp, ReportSays
<1>3. CASE UNCHANGED vars
  BY <1>3 DEF vars, ReportSays
<1>4. QED
  BY <1>1, <1>2, <1>3 DEF Next

\* ... and with the slots it says which held keys are reported.
LEMMA ReportHolds == IInv /\ ReportSays => HeldIsReported
<1> SUFFICES ASSUME IInv, ReportSays, NEW k \in held PROVE k \in Reported \/ LeftOut(k)
  BY DEF HeldIsReported
<1> USE KeyboardAssumption DEF KeyboardAssumption
<1>1. k \in AllKeys /\ k # None
  BY DEF IInv, TypeOK, AllKeys
<1>2. CASE k \in Keys
  <2>1. CASE k \in Listed /\ ~blank
    BY <2>1 DEF ReportSays, Listed, Reported
  <2>2. CASE k \notin Listed
    BY <1>2, <2>2 DEF IInv, NoKeyLost, LeftOut
  <2>3. QED
    BY <1>2, <2>1, <2>2 DEF LeftOut
<1>3. CASE k \in Modifiers
  BY <1>1, <1>3 DEF ReportSays, Reported, LeftOut
<1>4. CASE k \in Others
  BY <1>4 DEF LeftOut
<1>5. QED
  BY <1>1, <1>2, <1>3, <1>4 DEF AllKeys

\* The inductive invariant of the slots: it is what the three theorems below
\* are read from.
THEOREM KeyboardInvariant == Spec => []IInv
BY InitEstablishes, StepPreserves, PTL DEF Spec

\* KeyUp undoes KeyDown whatever came between: the device holds down no key that
\* the client does not.
THEOREM NothingStaysDown == Spec => []NothingStuck
BY KeyboardInvariant, PTL DEF IInv

\* KeyDown drops a key for want of a slot only, with any number of slots.
THEOREM OnlyCrowdsLoseKeys == Spec => []NoKeyLost
BY KeyboardInvariant, PTL DEF IInv

\* A held key that is not reported was left out by KeyDown for one of the four
\* reasons its code has, whatever calls came before.
THEOREM OnlyKeyDownLeavesOut == Spec => []HeldIsReported
BY KeyboardInvariant, ReportInit, ReportStep, ReportHolds, PTL DEF Spec
===============================================================================
