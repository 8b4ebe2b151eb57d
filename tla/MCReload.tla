------------------------------- MODULE MCReload -------------------------------
(* A small instance of Reload: two paths with one namespace, one of them with *)
(* a service the other has too, and one with a namespace of its own.          *)
EXTENDS Reload

MCPaths == <<"area", "areaMore", "chat">>
MCNamespaceOf == ("area" :> "sys") @@ ("areaMore" :> "sys") @@ ("chat" :> "user")
MCFiles == {<<"area", "s1">>, <<"areaMore", "s2">>, <<"chat", "s1">>, <<"chat", "s2">>}
MCAtFirst == MCFiles \ {<<"chat", "s2">>}

=============================================================================
