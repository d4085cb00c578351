---- MODULE MCKeyInput ----
(* A button for one key, a button for a combination that shares it, and one for two
   mouse buttons. *)
EXTENDS KeyInput

CONSTANTS k1, ctrl, left, right

ThreeButtons == [a |-> "fire", b |-> "turn", c |-> "zoom"]

\* The game redefines the second button only.
GameFile == [fire |-> <<>>, turn |-> <<ctrl, k1>>, zoom |-> <<>>]
DefaultFile == [fire |-> <<k1>>, turn |-> <<k1>>, zoom |-> <<left, right>>]
FunctionValues == [k \in {ctrl} |-> k1]
TwoSlots == 0..1
BothFiles == {"valueName", "nameValue"}
====
