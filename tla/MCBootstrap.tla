------------------------------ MODULE MCBootstrap ------------------------------
(***************************************************************************)
(* Three other nodes, two of them behind one address, as separate nodes,   *)
(* one pair, a chain and a full network; seeds alone, in both orders, of   *)
(* one address, and with ourselves.                                        *)
(***************************************************************************)
EXTENDS Bootstrap

MCDist == [n \in {"me", "r1", "r2", "r3"} |->
              CASE n = "me" -> 0 [] n = "r1" -> 1 [] n = "r2" -> 2 [] n = "r3" -> 3]

MCHost == [n \in {"me", "r1", "r2", "r3"} |-> IF n = "r3" THEN "r2" ELSE n]

MCNetworks ==
    {[n \in Remote |-> [m \in Remote |->
        IF {n, m} \notin E THEN "None"
        ELSE IF {n, m} = {"r1", "r2"} THEN "Neighbour" ELSE "Colleague"]] :
     E \in {{}, {{"r1", "r3"}}, {{"r1", "r2"}, {"r2", "r3"}},
           {{"r1", "r2"}, {"r1", "r3"}, {"r2", "r3"}}}}

MCPolicies ==
    {{"r1"} \X {"Colleague"}, {"r2", "r3"} \X {"Neighbour"}, {"r3"} \X {"Colleague"}, Remote \X Relation}

MCSeedLists == {<<"r3">>, <<"r1", "r3">>, <<"r3", "r1">>, <<"r2", "r3">>, <<"me", "r3">>}

=============================================================================
