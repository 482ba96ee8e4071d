------------------------------ MODULE LocNetNode ------------------------------
(***************************************************************************)
(* One node of the location-based network: the class Node (locnet.cpp) on  *)
(* top of its node table (spatialdb.cpp), with the threads main.cpp and    *)
(* Node start.  Every thread changes the table through SafeStoreNode,      *)
(* which reads the table, perhaps asks the remote node over the network,   *)
(* and writes the table from what it read; no lock spans these steps.      *)
(*                                                                         *)
(* One action is one statement on the table or one remote call.  The       *)
(* remote nodes are the environment: they send any request, answer         *)
(* anything or nothing, and tell stale positions of third nodes.           *)
(***************************************************************************)
EXTENDS Integers, FiniteSets

CONSTANTS
    NodeId,             \* node identities, ours included
    Me,                 \* our own identity
    Location,           \* positions
    MyLocation,         \* our position, from the configuration
    Places,             \* Places[n]: the positions node n may be seen at
    Dist(_, _),         \* GetDistanceKm
    Bubble(_),          \* GetBubbleSize
    TargetSize,         \* neighbourhoodTargetSize
    Lifetime,           \* dbExpirationPeriod, in ticks
    Threads,            \* "reactor", and which others of main.cpp run
    IAmSeed,            \* whether our endpoint is among the configured seeds
    MergeCount,         \* MERGE_RANDOM_NODE_COuNT
    DiscoveryAttempts,  \* PERIODIC_DISCOVERY_ATTEMPT_COUNT
    MaxRestarts,        \* bound on the restarts of the process
    NoRow, NoPlan       \* the null entry, no call under way

ASSUME ThreadsAssumption == "reactor" \in Threads

ASSUME NodesAssumption ==
    /\ Me \in NodeId
    /\ MyLocation \in Location
    /\ Places \in [NodeId -> SUBSET Location]

ASSUME BoundsAssumption ==
    /\ TargetSize \in Nat \ {0}
    /\ Lifetime \in Nat \ {0}
    /\ MergeCount \in Nat
    /\ DiscoveryAttempts \in Nat
    /\ MaxRestarts \in Nat
    /\ IAmSeed \in BOOLEAN

RelationType == {"Colleague", "Neighbour", "Self"}

RoleType == {"Initiator", "Acceptor", "Self"}

(***************************************************************************)
(* A row of the table "nodes": the entry, and the ticks until expiresAt.   *)
(***************************************************************************)
Row == [loc : Location, rel : RelationType, role : RoleType, ttl : 0..Lifetime]

(***************************************************************************)
(* The entry a thread passes to SafeStoreNode.                             *)
(***************************************************************************)
Plan == [id : NodeId, loc : Location, rel : RelationType, role : {"Initiator", "Acceptor"}]

ASSUME NullAssumption == NoRow \notin Row /\ NoPlan \notin Plan

Job == {"none", "request", "renew", "fill", "merge", "discover", "neighbours"}

Label ==
    {"idle",                                              \* between two jobs
     "load", "bubble", "count", "limit", "rank", "ask",   \* in SafeStoreNode
     "write", "ok", "no",
     "next", "expire", "remove", "mapcheck", "fill", "discover"}

VARIABLES
    nodes,      \* the table: id -> Row, or NoRow
    pc,         \* per thread, the step it is at
    job,        \* per thread, the caller of SafeStoreNode
    plan,       \* per thread, the argument plannedEntry
    stored,     \* per thread, the relation found by Load, or "None"
    fresh,      \* per thread, the position to be written
    todo,       \* per thread, the entries its loop has still to handle
    expired,    \* the ids the maintenance thread has still to remove
    left,       \* attempts left to the discovery thread
    restarts,   \* how often the process was restarted
    said        \* history: the positions each node has stated of itself

vars == <<nodes, pc, job, plan, stored, fresh, todo, expired, left, restarts, said>>

-----------------------------------------------------------------------------
(* The queries of the table.                                               *)

Present == {n \in NodeId : nodes[n] # NoRow}

Related(rel) == {n \in Present : nodes[n].rel = rel}

GetNodeCount == Cardinality(Present)

(***************************************************************************)
(* Our own row.  It is stored with expiresAt = max(time_t), which          *)
(* sqlite3_bind_int truncates to -1: by its value it is always expired.    *)
(***************************************************************************)
FromSelfInfo == [loc |-> MyLocation, rel |-> "Self", role |-> "Self", ttl |-> 0]

FromMe(n) == Dist(MyLocation, nodes[n].loc)

(***************************************************************************)
(* GetClosestNodesByDistance(loc, max, 2, Excluded) without the node       *)
(* itself: the closest other colleague.  A tie leaves the choice open.     *)
(***************************************************************************)
ClosestColleagues(id, loc) ==
    LET others == Related("Colleague") \ {id}
    IN {c \in others : \A d \in others : Dist(loc, nodes[c].loc) <= Dist(loc, nodes[d].loc)}

Overlap(loc1, loc2) == Bubble(loc1) + Bubble(loc2) > Dist(loc1, loc2)

(***************************************************************************)
(* The answers BubbleOverlaps may give.                                    *)
(***************************************************************************)
BubbleOverlaps(id, loc) ==
    LET closest == ClosestColleagues(id, loc)
    IN IF closest = {} THEN {FALSE} ELSE {Overlap(nodes[c].loc, loc) : c \in closest}

-----------------------------------------------------------------------------
(* SafeStoreNode.                                                          *)

(***************************************************************************)
(* What follows once the table's rules allow the plan: an initiator asks   *)
(* the remote node for its permission, an acceptor writes at once.         *)
(***************************************************************************)
Allowed(p) == IF p.role = "Initiator" THEN "ask" ELSE "write"

(***************************************************************************)
(* Faulty variant: only the relation of the planned entry is compared with *)
(* the self relation.                                                      *)
(***************************************************************************)
OverwritesSelfByRelation(p) == p.rel = "Self"

OverwritesSelf(p) ==
    \/ p.id = Me
    \/ p.rel = "Self"
    \/ nodes[p.id] # NoRow /\ nodes[p.id].rel = "Self"

(***************************************************************************)
(* Faulty variant: any relation may replace any other.                     *)
(***************************************************************************)
DowngradesNever(p) == FALSE

Downgrades(p) ==
    p.rel = "Colleague" /\ nodes[p.id] # NoRow /\ nodes[p.id].rel = "Neighbour"

StaysInPlace(p) == nodes[p.id] # NoRow /\ nodes[p.id].loc = p.loc

Load(t) ==
    /\ pc[t] = "load"
    /\ LET p == plan[t]
       IN IF OverwritesSelf(p) \/ Downgrades(p)
          THEN /\ pc' = [pc EXCEPT ![t] = "no"]
               /\ UNCHANGED <<stored, fresh>>
          ELSE /\ stored' = [stored EXCEPT ![t] =
                                IF nodes[p.id] = NoRow THEN "None" ELSE nodes[p.id].rel]
               /\ fresh' = [fresh EXCEPT ![t] = p.loc]
               /\ pc' = [pc EXCEPT ![t] = IF p.rel = "Neighbour" THEN "count"
                                          ELSE IF StaysInPlace(p) THEN Allowed(p)
                                          ELSE "bubble"]
    /\ UNCHANGED <<nodes, job, plan, todo, expired, left, restarts, said>>

CheckBubble(t) ==
    /\ pc[t] = "bubble"
    /\ \E overlaps \in BubbleOverlaps(plan[t].id, plan[t].loc) :
          pc' = [pc EXCEPT ![t] = IF overlaps THEN "no" ELSE Allowed(plan[t])]
    /\ UNCHANGED <<nodes, job, plan, stored, fresh, todo, expired, left, restarts, said>>

CountNeighbours(t) ==
    /\ pc[t] = "count"
    /\ LET size == Cardinality(Related("Neighbour"))
       IN pc' = [pc EXCEPT ![t] =
                    IF stored[t] = "Neighbour"
                    THEN IF size > TargetSize THEN "rank" ELSE Allowed(plan[t])
                    ELSE IF size >= TargetSize THEN "limit" ELSE Allowed(plan[t])]
    /\ UNCHANGED <<nodes, job, plan, stored, fresh, todo, expired, left, restarts, said>>

(***************************************************************************)
(* A new neighbour beyond the limit must be closer than the last one       *)
(* within it, neighboursByDistance[TargetSize-1].  When the list has       *)
(* become shorter since it was counted that element does not exist, and    *)
(* the comparison reads whatever is there.                                 *)
(***************************************************************************)
CheckLimit(t) ==
    /\ pc[t] = "limit"
    /\ LET neighbours == Related("Neighbour")
           asClose == {n \in neighbours : FromMe(n) <= Dist(MyLocation, plan[t].loc)}
       IN \E refused \in IF Cardinality(neighbours) < TargetSize
                         THEN BOOLEAN
                         ELSE {Cardinality(asClose) >= TargetSize} :
             pc' = [pc EXCEPT ![t] = IF refused THEN "no" ELSE Allowed(plan[t])]
    /\ UNCHANGED <<nodes, job, plan, stored, fresh, todo, expired, left, restarts, said>>

(***************************************************************************)
(* The indexes a neighbour may have in GetNeighbourNodesByDistance.        *)
(***************************************************************************)
RankOf(id) ==
    LET closer  == {n \in Related("Neighbour") : FromMe(n) < FromMe(id)}
        asClose == {n \in Related("Neighbour") : FromMe(n) <= FromMe(id)}
    IN Cardinality(closer) .. (Cardinality(asClose) - 1)

(***************************************************************************)
(* Faulty variant: the first neighbour beyond the limit is renewed too.    *)
(***************************************************************************)
CheckRankOffByOne(t) ==
    /\ pc[t] = "rank"
    /\ LET id == plan[t].id
       IN IF id \notin Related("Neighbour")
          THEN pc' = [pc EXCEPT ![t] = "no"]
          ELSE \E index \in RankOf(id) :
                  pc' = [pc EXCEPT ![t] =
                            IF index > TargetSize THEN "no" ELSE Allowed(plan[t])]
    /\ UNCHANGED <<nodes, job, plan, stored, fresh, todo, expired, left, restarts, said>>

(***************************************************************************)
(* The renewal of a neighbour beyond the limit is refused, so that it      *)
(* expires.  A neighbour missing from the list is an exception.            *)
(***************************************************************************)
CheckRank(t) ==
    /\ pc[t] = "rank"
    /\ LET id == plan[t].id
       IN IF id \notin Related("Neighbour")
          THEN pc' = [pc EXCEPT ![t] = "no"]
          ELSE \E index \in RankOf(id) :
                  pc' = [pc EXCEPT ![t] =
                            IF index >= TargetSize THEN "no" ELSE Allowed(plan[t])]
    /\ UNCHANGED <<nodes, job, plan, stored, fresh, todo, expired, left, restarts, said>>

(***************************************************************************)
(* An answer carries the address the remote node sees us at, and           *)
(* DetectedExternalAddress updates our row when it is new.  That Update    *)
(* has the default argument expires = true.                                *)
(***************************************************************************)
DetectedExternalAddress ==
    \/ UNCHANGED nodes
    \/ nodes' = [nodes EXCEPT ![Me] = [@ EXCEPT !.ttl = Lifetime]]

(***************************************************************************)
(* Faulty variant: the answer grants the permission and its data are       *)
(* dropped.                                                                *)
(***************************************************************************)
AskAcceptedAsPlanned(t) ==
    /\ pc[t] = "ask"
    /\ \E loc \in Places[plan[t].id] :
          said' = [said EXCEPT ![plan[t].id] = @ \cup {loc}]
    /\ pc' = [pc EXCEPT ![t] = "write"]
    /\ DetectedExternalAddress
    /\ UNCHANGED <<job, plan, stored, fresh, todo, expired, left, restarts>>

(***************************************************************************)
(* The remote node answers Accept*/Renew* with its own current data, which *)
(* replace the planned ones and are not checked again.                     *)
(***************************************************************************)
AskAccepted(t) ==
    /\ pc[t] = "ask"
    /\ \E loc \in Places[plan[t].id] :
          /\ fresh' = [fresh EXCEPT ![t] = loc]
          /\ said' = [said EXCEPT ![plan[t].id] = @ \cup {loc}]
    /\ pc' = [pc EXCEPT ![t] = "write"]
    /\ DetectedExternalAddress
    /\ UNCHANGED <<job, plan, stored, todo, expired, left, restarts>>

(***************************************************************************)
(* No connection, a timeout, a denial, an error or another identity.       *)
(***************************************************************************)
AskFailed(t) ==
    /\ pc[t] = "ask"
    /\ pc' = [pc EXCEPT ![t] = "no"]
    /\ DetectedExternalAddress
    /\ UNCHANGED <<job, plan, stored, fresh, todo, expired, left, restarts, said>>

(***************************************************************************)
(* Faulty variants: a renewal that adds to the time left, and one that     *)
(* keeps expiresAt.                                                        *)
(***************************************************************************)
EntryTimeAdded(t) ==
    LET old == nodes[plan[t].id]
    IN [loc |-> fresh[t], rel |-> plan[t].rel, role |-> plan[t].role,
        ttl |-> Lifetime + IF old = NoRow THEN 0 ELSE old.ttl]

EntryTimeKept(t) ==
    LET old == nodes[plan[t].id]
    IN [loc |-> fresh[t], rel |-> plan[t].rel, role |-> plan[t].role,
        ttl |-> IF old = NoRow THEN Lifetime ELSE old.ttl]

EntryToWrite(t) ==
    [loc |-> fresh[t], rel |-> plan[t].rel, role |-> plan[t].role, ttl |-> Lifetime]

(***************************************************************************)
(* SpatiaLiteDatabase::Store and Update.  Which of them runs depends on    *)
(* what Load found.  Store throws when the row exists by now and Update    *)
(* when it is gone; both may also report a failure after the row is        *)
(* written, and Update a success without a row (module SpatialDb).         *)
(***************************************************************************)
WriteEntry(t) ==
    /\ pc[t] = "write"
    /\ LET id == plan[t].id
       IN \/ /\ stored[t] = "None" /\ nodes[id] = NoRow
             /\ nodes' = [nodes EXCEPT ![id] = EntryToWrite(t)]
             /\ \E result \in {"ok", "no"} : pc' = [pc EXCEPT ![t] = result]
          \/ /\ stored[t] = "None" /\ nodes[id] # NoRow
             /\ pc' = [pc EXCEPT ![t] = "no"]
             /\ UNCHANGED nodes
          \/ /\ stored[t] # "None" /\ nodes[id] # NoRow
             /\ nodes' = [nodes EXCEPT ![id] = EntryToWrite(t)]
             /\ \E result \in {"ok", "no"} : pc' = [pc EXCEPT ![t] = result]
          \/ /\ stored[t] # "None" /\ nodes[id] = NoRow
             /\ \E result \in {"ok", "no"} : pc' = [pc EXCEPT ![t] = result]
             /\ UNCHANGED nodes
    /\ UNCHANGED <<job, plan, stored, fresh, todo, expired, left, restarts, said>>

SafeStoreNode(t) ==
    \/ Load(t)
    \/ CheckBubble(t) \/ CountNeighbours(t) \/ CheckLimit(t) \/ CheckRank(t)
    \/ AskAccepted(t) \/ AskFailed(t)
    \/ WriteEntry(t)

-----------------------------------------------------------------------------
(* The callers of SafeStoreNode.                                           *)

Call(t, caller, p) ==
    /\ pc' = [pc EXCEPT ![t] = "load"]
    /\ job' = [job EXCEPT ![t] = caller]
    /\ plan' = [plan EXCEPT ![t] = p]

(***************************************************************************)
(* A finished call leaves nothing behind in the thread but its loop.       *)
(***************************************************************************)
ReturnTo(t, label, caller) ==
    /\ pc' = [pc EXCEPT ![t] = label]
    /\ job' = [job EXCEPT ![t] = caller]
    /\ plan' = [plan EXCEPT ![t] = NoPlan]
    /\ stored' = [stored EXCEPT ![t] = "None"]
    /\ fresh' = [fresh EXCEPT ![t] = MyLocation]

(***************************************************************************)
(* Faulty variant: the handler passes the entry on as an initiator.        *)
(***************************************************************************)
RequestAsInitiator(n, loc, rel) ==
    /\ pc["reactor"] = "idle"
    /\ Call("reactor", "request", [id |-> n, loc |-> loc, rel |-> rel, role |-> "Initiator"])
    /\ said' = [said EXCEPT ![n] = @ \cup {loc}]
    /\ UNCHANGED <<nodes, stored, fresh, todo, expired, left, restarts>>

(***************************************************************************)
(* AcceptColleague, RenewColleague, AcceptNeighbour and RenewNeighbour.    *)
(***************************************************************************)
Request(n, loc, rel) ==
    /\ pc["reactor"] = "idle"
    /\ Call("reactor", "request", [id |-> n, loc |-> loc, rel |-> rel, role |-> "Acceptor"])
    /\ said' = [said EXCEPT ![n] = @ \cup {loc}]
    /\ UNCHANGED <<nodes, stored, fresh, todo, expired, left, restarts>>

Reply ==
    /\ pc["reactor"] \in {"ok", "no"}
    /\ ReturnTo("reactor", "idle", "none")
    /\ UNCHANGED <<nodes, todo, expired, left, restarts, said>>

(***************************************************************************)
(* main.cpp starts the other threads and the local service interface only  *)
(* after EnsureMapFilled has returned.  Without "main" among Threads the   *)
(* behaviours begin at that point, on the empty map of a first seed.       *)
(***************************************************************************)
Started == "main" \in Threads => pc["main"] = "idle"

(***************************************************************************)
(* Faulty variant: a renewal keeps the role of the stored entry.           *)
(***************************************************************************)
PlanOfStoredRole(n, role) ==
    [id |-> n, loc |-> nodes[n].loc, rel |-> nodes[n].rel, role |-> nodes[n].role]

PlanOf(n, role) == [id |-> n, loc |-> nodes[n].loc, rel |-> nodes[n].rel, role |-> role]

RenewNodeRelations(t) ==
    /\ t = "maintenance" /\ Started
    /\ pc[t] = "idle"
    /\ todo' = [todo EXCEPT ![t] =
                    {PlanOf(n, "Initiator") : n \in {m \in Present : nodes[m].role = "Initiator"}}]
    /\ ReturnTo(t, "next", "renew")
    /\ UNCHANGED <<nodes, expired, left, restarts, said>>

NextEntry(t) ==
    /\ pc[t] = "next"
    /\ \E p \in todo[t] :
          /\ todo' = [todo EXCEPT ![t] = @ \ {p}]
          /\ Call(t, job[t], p)
    /\ UNCHANGED <<nodes, stored, fresh, expired, left, restarts, said>>

(***************************************************************************)
(* The loops of RenewNodeRelations and RenewNeighbours ignore the result.  *)
(***************************************************************************)
EntryDone(t) ==
    /\ job[t] \in {"renew", "neighbours"}
    /\ pc[t] \in {"ok", "no"}
    /\ ReturnTo(t, "next", job[t])
    /\ UNCHANGED <<nodes, todo, expired, left, restarts, said>>

LoopDone(t) ==
    /\ pc[t] = "next"
    /\ todo[t] = {}
    /\ \/ job[t] = "renew" /\ ReturnTo(t, "expire", "none") /\ UNCHANGED left
       \/ job[t] = "neighbours" /\ ReturnTo(t, "idle", "none") /\ UNCHANGED left
       \/ /\ job[t] = "merge"
          /\ ReturnTo(t, "discover", "none")
          /\ left' = DiscoveryAttempts
    /\ UNCHANGED <<nodes, todo, expired, restarts, said>>

(***************************************************************************)
(* Faulty variant: the query does not leave out our own row.               *)
(***************************************************************************)
QueryExpiredAll(t) ==
    /\ pc[t] = "expire"
    /\ expired' = {n \in Present : nodes[n].ttl = 0}
    /\ pc' = [pc EXCEPT ![t] = "remove"]
    /\ UNCHANGED <<nodes, job, plan, stored, fresh, todo, left, restarts, said>>

(***************************************************************************)
(* ExpireOldNodes: one query, then one Remove per row it returned.  Remove *)
(* throws, and the round ends, when the row is gone or our own, or after   *)
(* it has deleted the row (module SpatialDb).                              *)
(***************************************************************************)
QueryExpired(t) ==
    /\ pc[t] = "expire"
    /\ expired' = {n \in Present : nodes[n].ttl = 0 /\ nodes[n].rel # "Self"}
    /\ pc' = [pc EXCEPT ![t] = "remove"]
    /\ UNCHANGED <<nodes, job, plan, stored, fresh, todo, left, restarts, said>>

Remove(t) ==
    /\ pc[t] = "remove"
    /\ \E n \in expired :
          IF nodes[n] # NoRow /\ nodes[n].rel # "Self"
          THEN /\ nodes' = [nodes EXCEPT ![n] = NoRow]
               /\ \/ expired' = expired \ {n} /\ UNCHANGED pc
                  \/ expired' = {} /\ pc' = [pc EXCEPT ![t] = "idle"]
          ELSE /\ pc' = [pc EXCEPT ![t] = "idle"]
               /\ expired' = {}
               /\ UNCHANGED nodes
    /\ UNCHANGED <<job, plan, stored, fresh, todo, left, restarts, said>>

RemoveDone(t) ==
    /\ pc[t] = "remove"
    /\ expired = {}
    /\ pc' = [pc EXCEPT ![t] = IF GetNodeCount <= 1 THEN "mapcheck" ELSE "idle"]
    /\ UNCHANGED <<nodes, job, plan, stored, fresh, todo, expired, left, restarts, said>>

(***************************************************************************)
(* EnsureMapFilled, on the main thread and after an expiration that left   *)
(* us alone.  InitializeWorld and InitializeNeighbourhood appear as the    *)
(* calls of SafeStoreNode they make, for nodes they hear of anywhere.      *)
(***************************************************************************)
EnsureMapFilled(t) ==
    /\ pc[t] = "mapcheck"
    /\ pc' = [pc EXCEPT ![t] = IF GetNodeCount <= 1 THEN "fill" ELSE "idle"]
    /\ UNCHANGED <<nodes, job, plan, stored, fresh, todo, expired, left, restarts, said>>

InitializeMap(t) ==
    /\ pc[t] = "fill"
    /\ \E n \in NodeId, rel \in {"Colleague", "Neighbour"} : \E loc \in Places[n] :
          Call(t, "fill", [id |-> n, loc |-> loc, rel |-> rel, role |-> "Initiator"])
    /\ UNCHANGED <<nodes, stored, fresh, todo, expired, left, restarts, said>>

MapEntryDone(t) ==
    /\ job[t] = "fill"
    /\ pc[t] \in {"ok", "no"}
    /\ ReturnTo(t, "fill", "none")
    /\ UNCHANGED <<nodes, todo, expired, left, restarts, said>>

InitializeDone(t) ==
    /\ pc[t] = "fill"
    /\ pc' = [pc EXCEPT ![t] = IF GetNodeCount > 1 \/ IAmSeed THEN "idle" ELSE "mapcheck"]
    /\ UNCHANGED <<nodes, job, plan, stored, fresh, todo, expired, left, restarts, said>>

(***************************************************************************)
(* MergeSplits: the random nodes of a seed, first as colleagues.  Without  *)
(* a connection to the seed there are none; an error ends the round before *)
(* anything is stored, and the thread stays idle.                          *)
(***************************************************************************)
MergeSplits(t) ==
    /\ t = "discovery" /\ Started
    /\ pc[t] = "idle"
    /\ \E ns \in {s \in SUBSET NodeId : Cardinality(s) <= MergeCount} :
          \E loc \in [ns -> Location] :
             /\ \A n \in ns : loc[n] \in Places[n]
             /\ todo' = [todo EXCEPT ![t] =
                    {[id |-> n, loc |-> loc[n], rel |-> "Colleague", role |-> "Initiator"] : n \in ns}]
    /\ ReturnTo(t, "next", "merge")
    /\ UNCHANGED <<nodes, expired, left, restarts, said>>

(***************************************************************************)
(* The first random node that cannot be connected, we ourselves included,  *)
(* ends MergeSplits.                                                       *)
(***************************************************************************)
MergeStops(t) ==
    /\ pc[t] = "next" /\ job[t] = "merge"
    /\ todo[t] # {}
    /\ todo' = [todo EXCEPT ![t] = {}]
    /\ ReturnTo(t, "discover", "none")
    /\ left' = DiscoveryAttempts
    /\ UNCHANGED <<nodes, expired, restarts, said>>

(***************************************************************************)
(* A stored colleague is tried as a neighbour too, with the entry the seed *)
(* sent.                                                                   *)
(***************************************************************************)
MergeEntryDone(t) ==
    /\ job[t] = "merge"
    /\ \/ /\ pc[t] = "ok" /\ plan[t].rel = "Colleague"
          /\ Call(t, "merge", [plan[t] EXCEPT !.rel = "Neighbour"])
          /\ UNCHANGED <<stored, fresh>>
       \/ /\ pc[t] = "no" \/ (pc[t] = "ok" /\ plan[t].rel = "Neighbour")
          /\ ReturnTo(t, "next", "merge")
    /\ UNCHANGED <<nodes, todo, expired, left, restarts, said>>

(***************************************************************************)
(* DiscoverUnknownAreas: an attempt finds a node not in the table, which   *)
(* is tried as a neighbour and, refused, as a colleague.  The query for a  *)
(* known node to ask and the Load of the one it names are one step.        *)
(***************************************************************************)
DiscoverNode(t) ==
    /\ pc[t] = "discover" /\ left > 0
    /\ Related("Colleague") # {}
    /\ \E n \in NodeId \ (Present \cup {Me}) : \E loc \in Places[n] :
          Call(t, "discover", [id |-> n, loc |-> loc, rel |-> "Neighbour", role |-> "Initiator"])
    /\ left' = left - 1
    /\ UNCHANGED <<nodes, stored, fresh, todo, expired, restarts, said>>

DiscoverNothing(t) ==
    /\ pc[t] = "discover" /\ left > 0
    /\ left' = left - 1
    /\ UNCHANGED <<nodes, pc, job, plan, stored, fresh, todo, expired, restarts, said>>

DiscoverEntryDone(t) ==
    /\ job[t] = "discover"
    /\ \/ /\ pc[t] = "no" /\ plan[t].rel = "Neighbour"
          /\ Call(t, "discover", [plan[t] EXCEPT !.rel = "Colleague"])
          /\ UNCHANGED <<stored, fresh>>
       \/ /\ pc[t] = "ok" \/ (pc[t] = "no" /\ plan[t].rel = "Colleague")
          /\ ReturnTo(t, "discover", "none")
    /\ UNCHANGED <<nodes, todo, expired, left, restarts, said>>

DiscoverDone(t) ==
    /\ pc[t] = "discover" /\ left = 0
    /\ pc' = [pc EXCEPT ![t] = "idle"]
    /\ UNCHANGED <<nodes, job, plan, stored, fresh, todo, expired, left, restarts, said>>

(***************************************************************************)
(* RegisterService and DeregisterService, served by the reactor, update    *)
(* our row and start a detached thread that runs RenewNeighbours, unless   *)
(* the Update reports a failure.                                           *)
(***************************************************************************)
Renewers == Threads \ {"main", "reactor", "maintenance", "discovery"}

RegisterService(t) ==
    /\ Started
    /\ pc["reactor"] = "idle"
    /\ t \in Renewers /\ pc[t] = "idle" /\ job[t] = "none"
    /\ nodes' = [nodes EXCEPT ![Me] = [@ EXCEPT !.ttl = Lifetime]]
    /\ \/ job' = [job EXCEPT ![t] = "neighbours"]
       \/ UNCHANGED job
    /\ UNCHANGED <<pc, plan, stored, fresh, todo, expired, left, restarts, said>>

RenewNeighbours(t) ==
    /\ t \in Renewers /\ pc[t] = "idle" /\ job[t] = "neighbours"
    /\ todo' = [todo EXCEPT ![t] = {PlanOf(n, "Initiator") : n \in Related("Neighbour")}]
    /\ ReturnTo(t, "next", "neighbours")
    /\ UNCHANGED <<nodes, expired, left, restarts, said>>

-----------------------------------------------------------------------------

Tick ==
    /\ \E n \in Present : nodes[n].ttl > 0
    /\ nodes' = [n \in NodeId |->
                    IF nodes[n] # NoRow /\ nodes[n].ttl > 0
                    THEN [nodes[n] EXCEPT !.ttl = @ - 1]
                    ELSE nodes[n]]
    /\ UNCHANGED <<pc, job, plan, stored, fresh, todo, expired, left, restarts, said>>

StartLabel(t) == IF t = "main" THEN "mapcheck" ELSE "idle"

(***************************************************************************)
(* The process ends at any point and starts again on its database file;    *)
(* the constructor of SpatiaLiteDatabase rewrites our own row.             *)
(***************************************************************************)
Restart ==
    /\ restarts < MaxRestarts
    /\ restarts' = restarts + 1
    /\ pc' = [t \in Threads |-> StartLabel(t)]
    /\ job' = [t \in Threads |-> "none"]
    /\ plan' = [t \in Threads |-> NoPlan]
    /\ stored' = [t \in Threads |-> "None"]
    /\ fresh' = [t \in Threads |-> MyLocation]
    /\ todo' = [t \in Threads |-> {}]
    /\ expired' = {}
    /\ left' = 0
    /\ nodes' = [nodes EXCEPT ![Me] = FromSelfInfo]
    /\ UNCHANGED said

Init ==
    /\ nodes = [n \in NodeId |-> IF n = Me THEN FromSelfInfo ELSE NoRow]
    /\ pc = [t \in Threads |-> StartLabel(t)]
    /\ job = [t \in Threads |-> "none"]
    /\ plan = [t \in Threads |-> NoPlan]
    /\ stored = [t \in Threads |-> "None"]
    /\ fresh = [t \in Threads |-> MyLocation]
    /\ todo = [t \in Threads |-> {}]
    /\ expired = {}
    /\ left = 0
    /\ restarts = 0
    /\ said = [n \in NodeId |-> {}]

(***************************************************************************)
(* The steps of a thread that need no message from outside.                *)
(***************************************************************************)
ThreadStep(t) ==
    \/ SafeStoreNode(t)
    \/ RenewNodeRelations(t) \/ NextEntry(t) \/ EntryDone(t) \/ LoopDone(t)
    \/ QueryExpired(t) \/ Remove(t) \/ RemoveDone(t)
    \/ EnsureMapFilled(t) \/ InitializeMap(t) \/ MapEntryDone(t) \/ InitializeDone(t)
    \/ MergeSplits(t) \/ MergeStops(t) \/ MergeEntryDone(t)
    \/ DiscoverNode(t) \/ DiscoverNothing(t) \/ DiscoverEntryDone(t) \/ DiscoverDone(t)
    \/ RenewNeighbours(t)

Next ==
    \/ \E n \in NodeId, rel \in {"Colleague", "Neighbour"} :
          \E loc \in Places[n] : Request(n, loc, rel)
    \/ Reply
    \/ \E t \in Threads : ThreadStep(t) \/ RegisterService(t)
    \/ Tick
    \/ Restart

Spec == Init /\ [][Next]_vars

(***************************************************************************)
(* Every thread keeps running, time passes, and EnsureMapFilled does not   *)
(* stay in one round of exploration for ever: its loops are bounded by the *)
(* nodes of the network.  Requests and answers are the remote nodes'.      *)
(***************************************************************************)
FairSpec ==
    /\ Spec
    /\ WF_vars(Reply)
    /\ WF_vars(Tick)
    /\ \A t \in Threads : WF_vars(ThreadStep(t))
    /\ \A t \in {"main", "maintenance"} \cap Threads : SF_vars(InitializeDone(t))

-----------------------------------------------------------------------------
(* Properties.                                                             *)

(***************************************************************************)
(* The types of the table and of the threads' local variables.             *)
(***************************************************************************)
TypeOK ==
    /\ nodes \in [NodeId -> Row \cup {NoRow}]
    /\ pc \in [Threads -> Label]
    /\ job \in [Threads -> Job]
    /\ plan \in [Threads -> Plan \cup {NoPlan}]
    /\ stored \in [Threads -> RelationType \cup {"None"}]
    /\ fresh \in [Threads -> Location]
    /\ todo \in [Threads -> SUBSET Plan]
    /\ expired \in SUBSET NodeId
    /\ left \in 0..DiscoveryAttempts
    /\ restarts \in 0..MaxRestarts
    /\ said \in [NodeId -> SUBSET Location]

(***************************************************************************)
(* Whatever the threads and the remote nodes do, our own row stays in the  *)
(* table as it is, and no other row is ever marked as our own: the start   *)
(* of the next process would refuse such a database (spatialdb.cpp,        *)
(* constructor), and an own row that vanished would be served to nobody.   *)
(***************************************************************************)
SelfUntouched ==
    /\ nodes[Me] # NoRow
    /\ nodes[Me].rel = "Self" /\ nodes[Me].role = "Self" /\ nodes[Me].loc = MyLocation
    /\ \A n \in Present \ {Me} : nodes[n].rel # "Self" /\ nodes[n].role # "Self"

(***************************************************************************)
(* The position in a row is one the node stated itself, in its request or  *)
(* in its answer to ours; what seeds and other nodes told about it is      *)
(* never stored (SafeStoreNode writes freshInfo, not plannedEntry).        *)
(***************************************************************************)
NoHearsay == \A n \in Present \ {Me} : nodes[n].loc \in said[n]

(***************************************************************************)
(* ExpireOldNodes removes row by row what one query returned.  None of     *)
(* these rows disappears in between and none is our own, so Remove never   *)
(* throws "Node to be removed is not present" or "Attempt to delete self   *)
(* entry" (spatialdb.cpp) in the middle of the round.                      *)
(***************************************************************************)
ExpiredStillStored == \A n \in expired : nodes[n] # NoRow /\ nodes[n].rel # "Self"

(***************************************************************************)
(* The reactor thread delivers every answer from the network, so it must   *)
(* not wait for one while it serves a relation request: the four handlers  *)
(* that store relations never get to the permission request of             *)
(* SafeStoreNode.  (The handler of ExploreNetworkNodesByDistance, which is *)
(* in Peers, does wait for remote nodes on this thread.)                   *)
(***************************************************************************)
ReactorNeverAsks == pc["reactor"] # "ask"

(***************************************************************************)
(* What SafeStoreNode has established at each of its steps.                *)
(***************************************************************************)
CallLabel == {"load", "bubble", "count", "limit", "rank", "ask", "write", "ok", "no"}

CheckedLabel == {"bubble", "count", "limit", "rank", "ask", "write"}

CallHasPlan == \A t \in Threads : pc[t] \in CallLabel => plan[t] \in Plan

CheckedPlan ==
    \A t \in Threads : pc[t] \in CheckedLabel =>
        /\ plan[t].id # Me
        /\ plan[t].rel # "Self"
        /\ stored[t] = "Neighbour" => plan[t].rel = "Neighbour"
        /\ pc[t] = "ask" => plan[t].role = "Initiator"

(***************************************************************************)
(* An acceptor writes what the requesting node said, an initiator what it  *)
(* was answered; loops only hold entries to be asked for.                  *)
(***************************************************************************)
StatedPositions ==
    /\ \A t \in Threads :
          /\ \A p \in todo[t] : p.role = "Initiator"
          /\ pc[t] \in CallLabel /\ plan[t].role = "Acceptor" => plan[t].loc \in said[plan[t].id]
          /\ pc[t] \in CheckedLabel /\ plan[t].role = "Acceptor" => fresh[t] = plan[t].loc
          /\ pc[t] = "write" => fresh[t] \in said[plan[t].id]

ReactorServes ==
    /\ pc["reactor"] \in CallLabel \cup {"idle"}
    /\ job["reactor"] \in {"none", "request"}
    /\ pc["reactor"] \in CallLabel => plan["reactor"].role = "Acceptor"

(***************************************************************************)
(* The inductive invariant: what the theorems of LocNetNodeProofs rest on. *)
(***************************************************************************)
IInv ==
    /\ TypeOK
    /\ CallHasPlan
    /\ CheckedPlan
    /\ SelfUntouched
    /\ StatedPositions
    /\ NoHearsay
    /\ ExpiredStillStored
    /\ ReactorServes

Downgrade(n) ==
    /\ nodes[n] # NoRow /\ nodes[n].rel = "Neighbour"
    /\ nodes'[n] # NoRow /\ nodes'[n].rel = "Colleague"

(***************************************************************************)
(* A neighbour becomes a colleague only if the writing thread read the row *)
(* before it became a neighbour: the check in SafeStoreNode is sound on    *)
(* what Load returned.                                                     *)
(***************************************************************************)
DowngradeNeedsRace ==
    [][\A n \in NodeId : Downgrade(n) =>
          \E t \in Threads : pc[t] = "write" /\ plan[t].id = n /\ stored[t] # "Neighbour"]_vars

(***************************************************************************)
(* The table as its readers see it: the relations, and which have expired. *)
(***************************************************************************)
RelationOf(n) == IF nodes[n] = NoRow THEN "None" ELSE nodes[n].rel

OldRows == {n \in Present : nodes[n].rel # "Self" /\ nodes[n].ttl = 0}

Table == INSTANCE NodeTable WITH
            relation <- [n \in NodeId |-> RelationOf(n)],
            old <- OldRows,
            condemned <- expired

(***************************************************************************)
(* The threads together keep the promises of the node table: our own row   *)
(* is permanent, every write renews, and only what a round of expiration   *)
(* found expired is removed by it.                                         *)
(***************************************************************************)
ImplementsNodeTable == Table!Spec

(***************************************************************************)
(* Neighbours beyond the limit are admitted only temporarily: their        *)
(* renewal is refused until they have expired (locnet.cpp, SafeStoreNode,  *)
(* Neighbour case).  Checked for nodes that stay where they are: whose     *)
(* renewal is refused depends on the distances.                            *)
(***************************************************************************)
ExcessNeighboursExpire ==
    Cardinality(Related("Neighbour")) > TargetSize
        ~> Cardinality(Related("Neighbour")) <= TargetSize

(***************************************************************************)
(* locnet.cpp:395: "New node must not overlap with other colleagues": a    *)
(* plan that passes BubbleOverlaps overlaps no colleague of the table it   *)
(* was checked against.                                                    *)
(***************************************************************************)
NewColleagueOverlapsNone ==
    [][\A t \in Threads :
          pc[t] = "bubble" /\ pc'[t] \in {"ask", "write"} =>
             \A c \in Related("Colleague") \ {plan[t].id} : ~Overlap(nodes[c].loc, plan[t].loc)]_vars

=============================================================================
