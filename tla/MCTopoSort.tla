------------------------------ MODULE MCTopoSort -----------------------------
(***************************************************************************)
(* Every document of three nodes and up to three edges: self-loops,        *)
(* parallel edges, edges from and to an id no node has; with unique ids,   *)
(* and with two nodes of one id, on a cycle or off it.                     *)
(***************************************************************************)
EXTENDS TopoSortProps

MCId == {"a", "b", "c", "z"}

MCEdge == [source : MCId, target : MCId]

EdgeLists(E, most) == UNION {[1..k -> E] : k \in 0..most}

MCDocuments ==
  [ids   : {<<"a", "b", "c">>, <<"a", "b", "b">>, <<"b", "a", "b">>,
            <<"b", "b", "a">>, <<"a", "a", "a">>},
   edges : EdgeLists(MCEdge, 3)]

=============================================================================
