--------------------------- MODULE SessionRecord ---------------------------
(***************************************************************************)
(* What the record file (recordgameinfo.cpp) promises to the rest of the   *)
(* program: one register that names the session to recover, or none.       *)
(***************************************************************************)
CONSTANTS Accepted,     \* start parameters StartGameCallback accepts
          NoSession     \* the record says that no game is started

VARIABLES session,      \* the session the program would recover now
          saved         \* the one it would recover after a crash

Init == session = NoSession /\ saved = NoSession

Begin(p) == session' = p /\ UNCHANGED saved

End == session' = NoSession /\ UNCHANGED saved

Save == saved' = session /\ UNCHANGED session

\* The program is restarted and reads what was saved.
Fallback == session' = saved /\ UNCHANGED saved

Next == (\E p \in Accepted : Begin(p)) \/ End \/ Save \/ Fallback

Spec == Init /\ [][Next]_<<session, saved>>
=============================================================================
