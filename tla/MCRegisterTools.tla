--------------------------- MODULE MCRegisterTools ---------------------------
(* Three services whose methods collide within a service, across services and *)
(* through a prefix, with streaming, unannotated and badly templated methods  *)
(* among them.                                                                *)
EXTENDS RegisterTools, TLC

CONSTANTS users, orders, admin,
          u1, u2, u3, u4, o1, o2, o3, a1, a2

MCServices == {users, orders, admin}
MCMethods == {u1, u2, u3, u4, o1, o2, o3, a1, a2}
MCToolPrefix == (users :> <<>>) @@ (orders :> <<"orders">>) @@ (admin :> <<>>)
MCMethodsOf == (users :> <<u1, u2, u3, u4>>) @@ (orders :> <<o1, o2, o3>>) @@ (admin :> <<a1, a2>>)
MCBaseName ==
    (u1 :> <<"get">>) @@ (u2 :> <<"search">>) @@ (u3 :> <<"search">>) @@ (u4 :> <<"get">>)
    @@ (o1 :> <<"search">>) @@ (o2 :> <<"audit">>) @@ (o3 :> <<"get">>)
    @@ (a1 :> <<"search">>) @@ (a2 :> <<"orders", "search">>)
MCNames ==
    {<<"get">>, <<"search">>, <<"orders", "search">>, <<"orders", "audit">>, <<"orders", "get">>}
MCStreaming == {u1}
MCAnnotated == {u2, u3, u4, o1, o2, a1, a2}
MCBadTemplate == {u2, o2}
MCBatches ==
    {<<>>} \cup {<<a>> : a \in MCServices}
    \cup {<<a, b>> : a, b \in MCServices}
    \cup {<<a, b, c>> : a, b, c \in MCServices}
==============================================================================
