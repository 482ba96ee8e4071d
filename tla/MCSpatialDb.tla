------------------------------ MODULE MCSpatialDb ------------------------------
(***************************************************************************)
(* A small instance of SpatialDb: one other node, one service type.        *)
(***************************************************************************)
EXTENDS SpatialDb

CONSTANTS me, n1, s1

OneNode == {me, n1}

OneService == {s1}

=============================================================================
