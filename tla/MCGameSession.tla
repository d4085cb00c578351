--------------------------- MODULE MCGameSession ---------------------------
(* Instances of GameSession for TLC. *)
EXTENDS GameSession

CONSTANTS g1, g2, r1, r2

Message(g, r, f, v) == [game |-> g, room |-> r, force |-> f, valid |-> v]

\* Two games, with and without force, in two rooms; a forced game; a rejected
\* message.
FewParams == {Message(g1, r1, FALSE, TRUE), Message(g2, r2, TRUE, TRUE)}
ForcedParams == {Message(g1, r1, TRUE, TRUE)}
AllParams == FewParams \cup {Message(g2, r2, FALSE, FALSE)}
=============================================================================
