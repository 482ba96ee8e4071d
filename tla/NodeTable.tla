------------------------------- MODULE NodeTable -------------------------------
(***************************************************************************)
(* What the table of nodes promises to everybody who reads it, whichever   *)
(* threads write it (ISpatialDatabase, spatialdb.hpp):                     *)
(*   - our own row is there from the start and nothing ever changes it;    *)
(*   - a row appears once, as a colleague or a neighbour, with its full    *)
(*     time to live, and every later write gives it its full time again;   *)
(*   - a row disappears only after a round of expiration has found it      *)
(*     expired.                                                            *)
(* SpatialDb implements it statement by statement, LocNetNode as the       *)
(* class Node uses it.                                                     *)
(***************************************************************************)
CONSTANTS NodeId, Me

Relation == {"Colleague", "Neighbour"}

VARIABLES
    relation,   \* id -> its relation, "Self" for our own row, "None" without a row
    old,        \* the rows whose expiresAt has passed
    condemned   \* the rows the current round of expiration found expired

tableVars == <<relation, old, condemned>>

Rows == {n \in NodeId : relation[n] \in Relation}

Init ==
    /\ relation = [n \in NodeId |-> IF n = Me THEN "Self" ELSE "None"]
    /\ old = {}
    /\ condemned = {}

Insert(n) ==
    /\ relation[n] = "None"
    /\ \E rel \in Relation : relation' = [relation EXCEPT ![n] = rel]
    /\ UNCHANGED <<old, condemned>>

Overwrite(n) ==
    /\ n \in Rows
    /\ \E rel \in Relation : relation' = [relation EXCEPT ![n] = rel]
    /\ old' = old \ {n}
    /\ UNCHANGED condemned

Condemn ==
    /\ condemned' = old
    /\ UNCHANGED <<relation, old>>

(***************************************************************************)
(* A removal may end its round: ExpireOldNodes is left by an exception.    *)
(***************************************************************************)
Delete(n) ==
    /\ n \in condemned \cap Rows
    /\ relation' = [relation EXCEPT ![n] = "None"]
    /\ old' = old \ {n}
    /\ condemned' \in {condemned \ {n}, {}}

(***************************************************************************)
(* A round that ends early, by an error or with the process.               *)
(***************************************************************************)
Spare ==
    /\ condemned' = {}
    /\ UNCHANGED <<relation, old>>

(***************************************************************************)
(* Time passes: more rows have reached their expiresAt.                    *)
(***************************************************************************)
Age ==
    /\ old \subseteq old' /\ old' \subseteq Rows
    /\ UNCHANGED <<relation, condemned>>

Next ==
    \/ \E n \in NodeId : Insert(n) \/ Overwrite(n) \/ Delete(n)
    \/ Condemn \/ Spare \/ Age

Spec == Init /\ [][Next]_tableVars

=============================================================================
