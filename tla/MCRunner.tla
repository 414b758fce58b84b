------------------------------ MODULE MCRunner ------------------------------
(***************************************************************************)
(* Runner for TLC.  A byte of the model stands for many: the limits keep   *)
(* the order of the real ones (a replay fits the queue, a few reads do     *)
(* not; a read may exceed the tail; a tick empties the PTY).               *)
(***************************************************************************)
EXTENDS Runner, TLC

CONSTANTS c1, c2

\* Clients that attach or stop: what matters is the output they see.
OutputScripts == {<<"attach">>, <<"stop">>}

\* Clients that type, resize, send garbage or break the protocol.
InputScripts ==
    {<<"attach", "input", "input", "input">>, <<"attach", "resize">>, <<"attach", "other">>,
     <<"attach", "bad">>, <<"input">>, <<"stop", "stop">>}

NoForeign == {}

Symmetry == Permutations(Conns)
=============================================================================
