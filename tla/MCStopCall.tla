----------------------------- MODULE MCStopCall -----------------------------
(***************************************************************************)
(* StopCall for TLC: a typing client and an attachment that may both stall *)
(* while more is printed than the queue holds, stops that race with them,  *)
(* and a peer of another user.                                             *)
(***************************************************************************)
EXTENDS StopCall

Typing == <<"attach", "input">>
LiveScripts == {Typing, <<"attach">>, <<"stop">>, <<"other">>}
LiveForeign == {<<"other">>}

\* Bound: the clients that meet.
Meetings == {<<Typing, <<"stop">>>>, <<<<"attach">>, <<"attach">>>>, <<<<"other">>, <<"stop">>>>,
             <<<<"other">>, <<"attach">>>>, <<<<"stop">>, <<"stop">>>>}
Meet == \E m \in Meetings : script["c1"] \in {<<>>, m[1]} /\ script["c2"] \in {<<>>, m[2]}
MCSpec == StopInit /\ [][StopNext /\ Meet']_stopVars /\ Fairness
=============================================================================
