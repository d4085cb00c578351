---- MODULE MCHidKeyboard ----
(* Two slots and one key more than fits: the theorems of HidKeyboardProofs hold
   for the five slots of the code and any number of keys.  A driver that resets
   sooner than the timer pings, and one that waits longer. *)
EXTENDS KeyboardDevice, TLC

CONSTANTS k1, k2, k3, ctrl, shift

SlotIndices == 0..1
OrdinaryKeys == {k1, k2, k3}
BothResetTimes == {1, 2}

TwoModifiers == {ctrl, shift}

\* Ordinary keys are interchangeable, and so are modifiers: no property here tells
\* one from another.
KeySymmetry ==
    {p @@ q : p \in Permutations(OrdinaryKeys), q \in Permutations(TwoModifiers)}
====
