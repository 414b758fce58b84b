------------------------------ MODULE MCLaunch ------------------------------
(***************************************************************************)
(* Launch for TLC: up to five words behind the ID, limits of two arguments *)
(* and eight bytes: "--trace" and "x" meet the second, "--trace" and "sh"  *)
(* exceed it by one.                                                       *)
(***************************************************************************)
EXTENDS Launch, TLC

MCSizes == [session |-> 7, ID |-> 4, bad |-> 3, x |-> 1, sh |-> 2, sessions |-> 8, stop |-> 4]
    @@ ("--" :> 2) @@ ("--trace" :> 7) @@ ("--json" :> 6) @@ ("-h" :> 2) @@ ("" :> 0)
MCWords == {"--", "--trace", "x", "sh", ""}
MCCommandLines ==
    { <<"session", "ID">> \o rest : rest \in UNION { [1..n -> MCWords] : n \in 0..4 } }
        \cup { <<"session", "ID", "--trace", "--">> \o rest : rest \in UNION { [1..n -> MCWords] : n \in 1..3 } }
        \cup { <<>>, <<"-h">>, <<"session">>, <<"session", "bad">>, <<"sessions", "--json">>, <<"stop", "ID">>, <<"x">> }
MCWindows == {<<0, 80>>, <<4096, 1>>, <<24, 4097>>}
=============================================================================
