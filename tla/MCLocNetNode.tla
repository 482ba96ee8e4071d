----------------------------- MODULE MCLocNetNode -----------------------------
(***************************************************************************)
(* Small instances of LocNetNode.  Positions lie on one great circle       *)
(* through our own; lengths are in units of 100 m.                         *)
(***************************************************************************)
EXTENDS LocNetNode, TLC

CONSTANTS me, n1, n2, n3

(***************************************************************************)
(* The distance of each position from ours.                                *)
(***************************************************************************)
Km10 ==
    [home |-> 0, near |-> 100, far |-> 200, west |-> 50000, mid |-> 55000, east |-> 60100]

MCDist(a, b) == IF Km10[a] <= Km10[b] THEN Km10[b] - Km10[a] ELSE Km10[a] - Km10[b]

(***************************************************************************)
(* log10(d + 2500) * 501 - 1700 at these positions.                        *)
(***************************************************************************)
BubbleSize ==
    [home |-> 24, near |-> 32, far |-> 41, west |-> 2414, mid |-> 2554, east |-> 2689]

MCBubble(loc) == BubbleSize[loc]

NeighbourhoodLocations == {"home", "near", "far"}

WorldLocations == {"home", "west", "mid", "east"}

TwoNodes == {me, n1, n2}

ThreeNodes == {me, n1, n2, n3}

(***************************************************************************)
(* n1 moves between the two positions, n2 stays.                           *)
(***************************************************************************)
MovingPlaces == me :> {"home"} @@ n1 :> {"near", "far"} @@ n2 :> {"far"}

FixedPlaces == me :> {"home"} @@ n1 :> {"near"} @@ n2 :> {"far"}

WorldPlaces == me :> {"home"} @@ n1 :> {"west"} @@ n2 :> {"mid"} @@ n3 :> {"east"}

(***************************************************************************)
(* The reactor with one other thread at a time: a round of discovery and   *)
(* a renewal of the neighbours are not under way together, and discovery   *)
(* runs before the restart only.                                           *)
(***************************************************************************)
OneAtATime == pc["discovery"] = "idle" \/ (job["renewer"] = "none" /\ restarts = 0)

(***************************************************************************)
(* No time passes: without the maintenance thread nobody reads expiresAt.  *)
(***************************************************************************)
NoTimePasses == \A n \in Present \ {Me} : nodes[n].ttl = Lifetime

=============================================================================
