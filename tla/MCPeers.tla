-------------------------------- MODULE MCPeers --------------------------------
(***************************************************************************)
(* Two nodes.                                                              *)
(***************************************************************************)
EXTENDS Peers

CONSTANTS n1, n2

TwoNodes == {n1, n2}

=============================================================================
