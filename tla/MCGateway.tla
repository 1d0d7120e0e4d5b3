------------------------------ MODULE MCGateway ------------------------------
(* A gateway that reflects two deployments: the second drops the service     *)
(* `users` and changes the tools of `orders`.  A request calls a tool that   *)
(* vanishes or one that appears.                                             *)
EXTENDS Gateway, TLC, SequencesExt

CONSTANTS users, orders, getUser, getOrder, listOrders, r1, r2

MCServices == {users, orders}
MCDeployed == <<{users, orders}, {orders}>>
MCSortedNames ==
    [S \in SUBSET MCServices |-> SetToSortSeq(S, LAMBDA a, b : a = orders /\ b = users)]
MCFilters == {<<>>}
MCFilter == <<>>

MCNames == {getUser, getOrder, listOrders}
MCToolsOf ==
    [d \in ServiceAt |->
        CASE d.service = users -> {getUser, getOrder}
          [] d.service = orders /\ d.epoch = 1 -> {getOrder}
          [] OTHER -> {getOrder, listOrders}]
MCCallers == {Main, Loop}
MCLoaders == {Live}
MCReturns == [l \in MCLoaders |-> SeqOf(ServiceAt, 2)]

MCRequests == {r1, r2}
MCAskedFor == (r1 :> getUser) @@ (r2 :> listOrders)
==============================================================================
