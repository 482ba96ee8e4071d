---------------------------- MODULE LocNetNodeProofs ----------------------------
(***************************************************************************)
(* Proofs about LocNetNode, for any number of nodes, positions, threads    *)
(* and any limits.                                                         *)
(***************************************************************************)
EXTENDS LocNetNode, TLAPS

(***************************************************************************)
(* The invariant holds at the start, on the table with our own row only.   *)
(***************************************************************************)
LEMMA InitInv == Init => IInv
<1> SUFFICES ASSUME Init PROVE IInv
  OBVIOUS
<1> USE ThreadsAssumption, NodesAssumption, BoundsAssumption, NullAssumption
<1>1. FromSelfInfo \in Row
  BY DEF FromSelfInfo, Row, RelationType, RoleType
<1>2. TypeOK
  BY <1>1 DEF Init, TypeOK, StartLabel, Label, Job
<1>3. FromSelfInfo # NoRow
  BY <1>1
<1>4. SelfUntouched /\ NoHearsay
  BY <1>3 DEF Init, SelfUntouched, NoHearsay, Present, FromSelfInfo
<1>5. CallHasPlan /\ CheckedPlan /\ StatedPositions /\ ReactorServes
  BY DEF Init, StartLabel, CallHasPlan, CheckedPlan, StatedPositions, ReactorServes,
         CallLabel, CheckedLabel
<1>6. ExpiredStillStored
  BY DEF Init, ExpiredStillStored
<1> QED
  BY <1>2, <1>4, <1>5, <1>6 DEF IInv

(***************************************************************************)
(* SafeStoreNode, step by step.                                            *)
(***************************************************************************)
LEMMA LoadInv == ASSUME IInv, NEW t \in Threads, Load(t) PROVE IInv'
<1> USE ThreadsAssumption, NodesAssumption, BoundsAssumption, NullAssumption
<1>1. plan[t] \in Plan /\ pc[t] = "load"
  BY DEF Load, IInv, CallHasPlan, CallLabel
<1>2. TypeOK'
  BY <1>1 DEF Load, IInv, TypeOK, Label, Allowed, Plan, Row, RelationType
<1>3. CallHasPlan'
  BY <1>1 DEF Load, IInv, TypeOK, CallHasPlan, CallLabel, Allowed
<1>4. CheckedPlan'
  BY <1>1 DEF Load, IInv, TypeOK, CheckedPlan, CallLabel, CheckedLabel, Allowed,
         OverwritesSelf, Downgrades, Plan, RelationType
<1>5. (SelfUntouched /\ NoHearsay /\ ExpiredStillStored)'
  BY DEF Load, IInv, SelfUntouched, NoHearsay, ExpiredStillStored, Present
<1>6. StatedPositions'
  BY <1>1 DEF Load, IInv, TypeOK, StatedPositions, CallLabel, CheckedLabel, Allowed, Plan
<1>7. ReactorServes'
  BY <1>1 DEF Load, IInv, TypeOK, ReactorServes, CallLabel, CheckedLabel, Allowed
<1> QED
  BY <1>2, <1>3, <1>4, <1>5, <1>6, <1>7 DEF IInv

(***************************************************************************)
(* The checks read the table and move the thread on, nothing else.         *)
(***************************************************************************)
LEMMA CheckInv ==
    ASSUME IInv, NEW t \in Threads,
           CheckBubble(t) \/ CountNeighbours(t) \/ CheckLimit(t) \/ CheckRank(t)
    PROVE  IInv'
<1> USE ThreadsAssumption, NodesAssumption, BoundsAssumption, NullAssumption
<1>1. /\ pc[t] \in {"bubble", "count", "limit", "rank"}
      /\ \/ pc' = [pc EXCEPT ![t] = "no"]
         \/ pc' = [pc EXCEPT ![t] = Allowed(plan[t])]
         \/ pc[t] = "count" /\ pc' = [pc EXCEPT ![t] = "rank"]
         \/ pc[t] = "count" /\ pc' = [pc EXCEPT ![t] = "limit"]
      /\ UNCHANGED <<nodes, job, plan, stored, fresh, todo, expired, left, restarts, said>>
  BY DEF CheckBubble, CountNeighbours, CheckLimit, CheckRank
<1>2. plan[t] \in Plan
  BY <1>1 DEF IInv, CallHasPlan, CallLabel
<1>3. TypeOK'
  BY <1>1, <1>2 DEF IInv, TypeOK, Label, Allowed
<1>4. CallHasPlan' /\ CheckedPlan'
  BY <1>1, <1>2 DEF IInv, TypeOK, CallHasPlan, CheckedPlan, CallLabel, CheckedLabel, Allowed
<1>5. (SelfUntouched /\ NoHearsay /\ ExpiredStillStored)'
  BY <1>1 DEF IInv, SelfUntouched, NoHearsay, ExpiredStillStored, Present
<1>6. StatedPositions'
  BY <1>1, <1>2 DEF IInv, TypeOK, StatedPositions, CallLabel, CheckedLabel, Allowed, Plan
<1>7. ReactorServes'
  BY <1>1 DEF IInv, TypeOK, ReactorServes, CallLabel, CheckedLabel, Allowed
<1> QED
  BY <1>3, <1>4, <1>5, <1>6, <1>7 DEF IInv

(***************************************************************************)
(* Updating our own row with the default argument changes its time only.   *)
(***************************************************************************)
LEMMA OwnRowTime ==
    ASSUME IInv, nodes' = nodes \/ nodes' = [nodes EXCEPT ![Me] = [@ EXCEPT !.ttl = Lifetime]]
    PROVE  /\ nodes' \in [NodeId -> Row \cup {NoRow}]
           /\ \A n \in NodeId : n # Me => nodes'[n] = nodes[n]
           /\ SelfUntouched'
           /\ expired' = expired => ExpiredStillStored'
<1> USE NodesAssumption, BoundsAssumption, NullAssumption
<1>1. nodes[Me] \in Row /\ [nodes[Me] EXCEPT !.ttl = Lifetime] \in Row
  BY DEF IInv, TypeOK, SelfUntouched, Row
<1>2. nodes' \in [NodeId -> Row \cup {NoRow}] /\ \A n \in NodeId : n # Me => nodes'[n] = nodes[n]
  BY <1>1 DEF IInv, TypeOK
<1>3. SelfUntouched'
  BY <1>1, <1>2 DEF IInv, TypeOK, SelfUntouched, Present, Row
<1>4. expired' = expired => ExpiredStillStored'
  BY <1>2 DEF IInv, TypeOK, SelfUntouched, ExpiredStillStored
<1> QED
  BY <1>2, <1>3, <1>4

(***************************************************************************)
(* The remote node's answer, or none.                                      *)
(***************************************************************************)
LEMMA AskInv == ASSUME IInv, NEW t \in Threads, AskAccepted(t) \/ AskFailed(t) PROVE IInv'
<1> USE ThreadsAssumption, NodesAssumption, BoundsAssumption, NullAssumption
<1>1. plan[t] \in Plan /\ pc[t] = "ask" /\ plan[t].role = "Initiator" /\ t # "reactor"
  BY DEF AskAccepted, AskFailed, IInv, CallHasPlan, CheckedPlan, ReactorServes, CallLabel,
         CheckedLabel
<1>2. /\ nodes' \in [NodeId -> Row \cup {NoRow}]
      /\ \A n \in NodeId : n # Me => nodes'[n] = nodes[n]
      /\ SelfUntouched'
      /\ ExpiredStillStored'
  BY OwnRowTime DEF AskAccepted, AskFailed, DetectedExternalAddress
<1>3. TypeOK'
  BY <1>1, <1>2 DEF AskAccepted, AskFailed, IInv, TypeOK, Label, Plan
<1>4. CallHasPlan' /\ CheckedPlan' /\ ReactorServes'
  BY <1>1 DEF AskAccepted, AskFailed, IInv, TypeOK, CallHasPlan, CheckedPlan, ReactorServes,
              CallLabel, CheckedLabel
<1>5. \A n \in NodeId : said[n] \subseteq said'[n]
  BY <1>1 DEF AskAccepted, AskFailed, IInv, TypeOK, Plan
<1>6. NoHearsay'
  BY <1>2, <1>5 DEF IInv, TypeOK, NoHearsay, Present
<1>7. StatedPositions'
  BY <1>1, <1>5 DEF AskAccepted, AskFailed, IInv, TypeOK, CallHasPlan, StatedPositions,
                    CallLabel, CheckedLabel, Plan
<1> QED
  BY <1>2, <1>3, <1>4, <1>6, <1>7 DEF IInv

LEMMA WriteInv == ASSUME IInv, NEW t \in Threads, WriteEntry(t) PROVE IInv'
<1> USE ThreadsAssumption, NodesAssumption, BoundsAssumption, NullAssumption
<1>1. /\ plan[t] \in Plan /\ pc[t] = "write"
      /\ plan[t].id # Me /\ plan[t].rel # "Self"
      /\ fresh[t] \in Location /\ fresh[t] \in said[plan[t].id]
  BY DEF WriteEntry, IInv, TypeOK, CallHasPlan, CheckedPlan, StatedPositions, CallLabel, CheckedLabel
<1>2. EntryToWrite(t) \in Row
  BY <1>1 DEF EntryToWrite, Row, Plan, RelationType, RoleType
<1>3. /\ nodes' = nodes \/ nodes' = [nodes EXCEPT ![plan[t].id] = EntryToWrite(t)]
      /\ pc' = [pc EXCEPT ![t] = "ok"] \/ pc' = [pc EXCEPT ![t] = "no"]
      /\ UNCHANGED <<job, plan, stored, fresh, todo, expired, left, restarts, said>>
  BY DEF WriteEntry
<1>4. TypeOK'
  BY <1>1, <1>2, <1>3 DEF IInv, TypeOK, Label, Plan
<1>5. CallHasPlan' /\ CheckedPlan' /\ StatedPositions' /\ ReactorServes'
  BY <1>1, <1>3 DEF IInv, TypeOK, CallHasPlan, CheckedPlan, StatedPositions, ReactorServes,
                    CallLabel, CheckedLabel
<1>6. SelfUntouched' /\ NoHearsay' /\ ExpiredStillStored'
  BY <1>1, <1>2, <1>3 DEF IInv, TypeOK, SelfUntouched, NoHearsay, ExpiredStillStored, Present,
                          EntryToWrite, Plan
<1> QED
  BY <1>4, <1>5, <1>6 DEF IInv

(***************************************************************************)
(* A step of a thread's own loop: it leaves the table alone, and either    *)
(* is outside SafeStoreNode afterwards or calls it for an entry to be      *)
(* asked for.                                                              *)
(***************************************************************************)
LEMMA LoopInv ==
    ASSUME IInv, NEW t \in Threads,
           TypeOK',
           UNCHANGED <<nodes, said>>,
           \A u \in Threads \ {t} : /\ pc'[u] = pc[u] /\ job'[u] = job[u]
                                    /\ plan'[u] = plan[u] /\ stored'[u] = stored[u]
                                    /\ fresh'[u] = fresh[u] /\ todo'[u] = todo[u],
           ExpiredStillStored',
           \/ pc'[t] \notin CallLabel
           \/ /\ pc'[t] = "load" /\ plan'[t] \in Plan
              /\ plan'[t].role = "Initiator" \/ plan'[t].loc \in said[plan'[t].id],
           \A p \in todo'[t] : p.role = "Initiator",
           t = "reactor" => pc'[t] = "idle" /\ job'[t] \in {"none", "request"}
    PROVE  IInv'
<1> USE ThreadsAssumption, NodesAssumption
<1>1. CallHasPlan' /\ CheckedPlan'
  BY DEF IInv, CallHasPlan, CheckedPlan, CallLabel, CheckedLabel
<1>2. SelfUntouched' /\ NoHearsay'
  BY DEF IInv, SelfUntouched, NoHearsay, Present
<1>3. StatedPositions'
  BY DEF IInv, StatedPositions, CallLabel, CheckedLabel, Plan
<1>4. ReactorServes'
  BY DEF IInv, ReactorServes, CallLabel
<1> QED
  BY <1>1, <1>2, <1>3, <1>4 DEF IInv

(***************************************************************************)
(* The steps of the loops that end outside SafeStoreNode.                  *)
(***************************************************************************)
LEMMA OutsideInv ==
    ASSUME IInv, NEW t \in Threads,
           \/ EntryDone(t) \/ LoopDone(t) \/ MapEntryDone(t) \/ MergeStops(t) \/ RemoveDone(t)
           \/ EnsureMapFilled(t) \/ InitializeDone(t) \/ DiscoverNothing(t) \/ DiscoverDone(t)
    PROVE  IInv'
<1> USE ThreadsAssumption, NodesAssumption, BoundsAssumption, NullAssumption
<1> USE DEF EntryDone, LoopDone, MapEntryDone, MergeStops, RemoveDone, EnsureMapFilled,
            InitializeDone, DiscoverNothing, DiscoverDone, ReturnTo
<1>1. t # "reactor"
  BY DEF IInv, ReactorServes, CallLabel
<1>2. TypeOK'
  BY DEF IInv, TypeOK, Label, Job
<1>3. pc'[t] \notin CallLabel
  BY DEF IInv, TypeOK, CallLabel
<1>4. UNCHANGED <<nodes, said, expired>> /\ (todo' = todo \/ todo' = [todo EXCEPT ![t] = {}])
  OBVIOUS
<1>5. ExpiredStillStored' /\ \A p \in todo'[t] : p.role = "Initiator"
  BY <1>4 DEF IInv, TypeOK, ExpiredStillStored, StatedPositions
<1>6. \A u \in Threads \ {t} : /\ pc'[u] = pc[u] /\ job'[u] = job[u]
                               /\ plan'[u] = plan[u] /\ stored'[u] = stored[u]
                               /\ fresh'[u] = fresh[u] /\ todo'[u] = todo[u]
  BY DEF IInv, TypeOK
<1> HIDE DEF EntryDone, LoopDone, MapEntryDone, MergeStops, RemoveDone, EnsureMapFilled,
             InitializeDone, DiscoverNothing, DiscoverDone, ReturnTo
<1> QED
  BY <1>1, <1>2, <1>3, <1>4, <1>5, <1>6, LoopInv

(***************************************************************************)
(* The start of a loop over entries: all of them are to be asked for.      *)
(***************************************************************************)
LEMMA FillInv ==
    ASSUME IInv, NEW t \in Threads,
           RenewNodeRelations(t) \/ RenewNeighbours(t) \/ MergeSplits(t)
    PROVE  IInv'
<1> USE ThreadsAssumption, NodesAssumption, BoundsAssumption, NullAssumption
<1>1. /\ t # "reactor"
      /\ UNCHANGED <<nodes, said, expired, left, restarts>>
      /\ \E j \in Job : ReturnTo(t, "next", j)
  BY DEF RenewNodeRelations, RenewNeighbours, MergeSplits, Renewers, Job
<1>2. \A n \in Present : PlanOf(n, "Initiator") \in Plan /\ PlanOf(n, "Initiator").role = "Initiator"
  BY DEF IInv, TypeOK, Present, PlanOf, Plan, Row
<1>3. \E ps \in SUBSET Plan : /\ todo' = [todo EXCEPT ![t] = ps]
                              /\ \A p \in ps : p.role = "Initiator"
  <2>1. CASE RenewNodeRelations(t)
    <3> DEFINE ps == {PlanOf(n, "Initiator") : n \in {m \in Present : nodes[m].role = "Initiator"}}
    <3>1. ps \in SUBSET Plan /\ \A p \in ps : p.role = "Initiator"
      BY <1>2
    <3>2. todo' = [todo EXCEPT ![t] = ps]
      BY <2>1 DEF RenewNodeRelations
    <3> HIDE DEF ps
    <3> QED
      BY <3>1, <3>2
  <2>2. CASE RenewNeighbours(t)
    <3> DEFINE ps == {PlanOf(n, "Initiator") : n \in Related("Neighbour")}
    <3>1. ps \in SUBSET Plan /\ \A p \in ps : p.role = "Initiator"
      BY <1>2 DEF Related
    <3>2. todo' = [todo EXCEPT ![t] = ps]
      BY <2>2 DEF RenewNeighbours
    <3> HIDE DEF ps
    <3> QED
      BY <3>1, <3>2
  <2>3. CASE MergeSplits(t)
    <3>1. PICK ns \in SUBSET NodeId : \E loc \in [ns -> Location] :
             todo' = [todo EXCEPT ![t] =
                {[id |-> n, loc |-> loc[n], rel |-> "Colleague", role |-> "Initiator"] : n \in ns}]
      BY <2>3 DEF MergeSplits
    <3>2. PICK loc \in [ns -> Location] :
             todo' = [todo EXCEPT ![t] =
                {[id |-> n, loc |-> loc[n], rel |-> "Colleague", role |-> "Initiator"] : n \in ns}]
      BY <3>1
    <3> DEFINE ps == {[id |-> n, loc |-> loc[n], rel |-> "Colleague", role |-> "Initiator"] : n \in ns}
    <3>3. ps \in SUBSET Plan /\ \A p \in ps : p.role = "Initiator"
      BY <3>1, <3>2 DEF Plan, RelationType
    <3> HIDE DEF ps
    <3>4. todo' = [todo EXCEPT ![t] = ps]
      BY <3>2 DEF ps
    <3> QED
      BY <3>3, <3>4
  <2> QED
    BY <2>1, <2>2, <2>3
<1>4. TypeOK'
  BY <1>1, <1>3 DEF ReturnTo, IInv, TypeOK, Label
<1>5. ExpiredStillStored' /\ pc'[t] \notin CallLabel /\ \A p \in todo'[t] : p.role = "Initiator"
  BY <1>1, <1>3 DEF ReturnTo, IInv, TypeOK, ExpiredStillStored, CallLabel
<1>6. \A u \in Threads \ {t} : /\ pc'[u] = pc[u] /\ job'[u] = job[u]
                               /\ plan'[u] = plan[u] /\ stored'[u] = stored[u]
                               /\ fresh'[u] = fresh[u] /\ todo'[u] = todo[u]
  BY <1>1, <1>3 DEF ReturnTo, IInv, TypeOK
<1> QED
  BY <1>1, <1>4, <1>5, <1>6, LoopInv

(***************************************************************************)
(* The calls of SafeStoreNode by a thread other than the reactor.          *)
(***************************************************************************)
LEMMA CallInv ==
    ASSUME IInv, NEW t \in Threads,
           t # "reactor",
           NEW j \in Job, NEW p \in Plan, p.role = "Initiator",
           Call(t, j, p),
           todo' = todo \/ todo' = [todo EXCEPT ![t] = @ \ {p}],
           left' \in 0..DiscoveryAttempts,
           UNCHANGED <<nodes, stored, fresh, expired, restarts, said>>
    PROVE  IInv'
<1> USE ThreadsAssumption, NodesAssumption, BoundsAssumption
<1>1. TypeOK'
  BY DEF Call, IInv, TypeOK, Label
<1>2. ExpiredStillStored' /\ \A q \in todo'[t] : q.role = "Initiator"
  BY DEF IInv, TypeOK, ExpiredStillStored, StatedPositions
<1>3. /\ pc'[t] = "load" /\ plan'[t] \in Plan /\ plan'[t].role = "Initiator"
      /\ \A u \in Threads \ {t} : /\ pc'[u] = pc[u] /\ job'[u] = job[u]
                                  /\ plan'[u] = plan[u] /\ stored'[u] = stored[u]
                                  /\ fresh'[u] = fresh[u] /\ todo'[u] = todo[u]
  BY DEF Call, IInv, TypeOK
<1> QED
  BY <1>1, <1>2, <1>3, LoopInv

LEMMA StartCallInv ==
    ASSUME IInv, NEW t \in Threads, NextEntry(t) \/ InitializeMap(t) \/ DiscoverNode(t)
    PROVE  IInv'
<1> USE ThreadsAssumption, NodesAssumption, BoundsAssumption, NullAssumption
<1>1. t # "reactor"
  BY DEF NextEntry, InitializeMap, DiscoverNode, IInv, ReactorServes, CallLabel
<1>2. CASE NextEntry(t)
  <2>1. PICK p \in todo[t] : Call(t, job[t], p) /\ todo' = [todo EXCEPT ![t] = @ \ {p}]
    BY <1>2 DEF NextEntry
  <2>2. p \in Plan /\ p.role = "Initiator" /\ job[t] \in Job
    BY <2>1 DEF IInv, TypeOK, StatedPositions
  <2>3. UNCHANGED <<nodes, stored, fresh, expired, restarts, said>> /\ left' \in 0..DiscoveryAttempts
    BY <1>2 DEF NextEntry, IInv, TypeOK
  <2> QED
    BY <1>1, <2>1, <2>2, <2>3, CallInv
<1>3. CASE InitializeMap(t)
  <2>1. PICK n \in NodeId, rel \in {"Colleague", "Neighbour"} : \E loc \in Places[n] :
           Call(t, "fill", [id |-> n, loc |-> loc, rel |-> rel, role |-> "Initiator"])
    BY <1>3 DEF InitializeMap
  <2>2. PICK loc \in Places[n] :
           Call(t, "fill", [id |-> n, loc |-> loc, rel |-> rel, role |-> "Initiator"])
    BY <2>1
  <2>3. [id |-> n, loc |-> loc, rel |-> rel, role |-> "Initiator"] \in Plan
    BY <2>1, <2>2 DEF Plan, RelationType
  <2>4. UNCHANGED <<nodes, stored, fresh, todo, expired, restarts, said>> /\ left' \in 0..DiscoveryAttempts
    BY <1>3 DEF InitializeMap, IInv, TypeOK
  <2> QED
    BY <1>1, <2>2, <2>3, <2>4, CallInv DEF Job
<1>4. CASE DiscoverNode(t)
  <2>1. PICK n \in NodeId : \E loc \in Places[n] :
           Call(t, "discover", [id |-> n, loc |-> loc, rel |-> "Neighbour", role |-> "Initiator"])
    BY <1>4 DEF DiscoverNode
  <2>2. PICK loc \in Places[n] :
           Call(t, "discover", [id |-> n, loc |-> loc, rel |-> "Neighbour", role |-> "Initiator"])
    BY <2>1
  <2>3. [id |-> n, loc |-> loc, rel |-> "Neighbour", role |-> "Initiator"] \in Plan
    BY <2>1, <2>2 DEF Plan, RelationType
  <2>4. UNCHANGED <<nodes, stored, fresh, todo, expired, restarts, said>> /\ left' \in 0..DiscoveryAttempts
    BY <1>4 DEF DiscoverNode, IInv, TypeOK
  <2> QED
    BY <1>1, <2>2, <2>3, <2>4, CallInv DEF Job
<1> QED
  BY <1>2, <1>3, <1>4

(***************************************************************************)
(* The same entry tried with the other relation, or the end of the try.    *)
(***************************************************************************)
LEMMA RetryInv ==
    ASSUME IInv, NEW t \in Threads, MergeEntryDone(t) \/ DiscoverEntryDone(t)
    PROVE  IInv'
<1> USE ThreadsAssumption, NodesAssumption, BoundsAssumption, NullAssumption
<1>1. /\ t # "reactor" /\ pc[t] \in CallLabel /\ plan[t] \in Plan
      /\ UNCHANGED <<nodes, todo, expired, left, restarts, said>>
  BY DEF MergeEntryDone, DiscoverEntryDone, IInv, ReactorServes, CallHasPlan, CallLabel
<1>2. CASE \E j \in Job, rel \in RelationType :
              Call(t, j, [plan[t] EXCEPT !.rel = rel]) /\ UNCHANGED <<stored, fresh>>
  <2>1. PICK j \in Job, rel \in RelationType :
           Call(t, j, [plan[t] EXCEPT !.rel = rel]) /\ UNCHANGED <<stored, fresh>>
    BY <1>2
  <2> DEFINE p == [plan[t] EXCEPT !.rel = rel]
  <2>2. p \in Plan /\ p.role = plan[t].role /\ p.id = plan[t].id /\ p.loc = plan[t].loc
    BY <1>1 DEF Plan
  <2>3. p.role = "Initiator" \/ p.loc \in said[p.id]
    BY <1>1, <2>2 DEF IInv, StatedPositions, Plan
  <2>4. TypeOK'
    BY <1>1, <2>1, <2>2 DEF Call, IInv, TypeOK, Label
  <2>5. /\ pc'[t] = "load" /\ plan'[t] = p
        /\ \A u \in Threads \ {t} : /\ pc'[u] = pc[u] /\ job'[u] = job[u]
                                    /\ plan'[u] = plan[u] /\ stored'[u] = stored[u]
                                    /\ fresh'[u] = fresh[u] /\ todo'[u] = todo[u]
    BY <1>1, <2>1 DEF Call, IInv, TypeOK
  <2>6. ExpiredStillStored' /\ \A q \in todo'[t] : q.role = "Initiator"
    BY <1>1 DEF IInv, TypeOK, ExpiredStillStored, StatedPositions
  <2> HIDE DEF p
  <2> QED
    BY <1>1, <2>2, <2>3, <2>4, <2>5, <2>6, LoopInv
<1>3. CASE \E j \in Job, label \in {"next", "discover"} : ReturnTo(t, label, j)
  <2>1. TypeOK' /\ pc'[t] \notin CallLabel
    BY <1>1, <1>3 DEF ReturnTo, IInv, TypeOK, Label, CallLabel
  <2>2. \A u \in Threads \ {t} : /\ pc'[u] = pc[u] /\ job'[u] = job[u]
                                 /\ plan'[u] = plan[u] /\ stored'[u] = stored[u]
                                 /\ fresh'[u] = fresh[u] /\ todo'[u] = todo[u]
    BY <1>1, <1>3 DEF ReturnTo, IInv, TypeOK
  <2>3. ExpiredStillStored' /\ \A q \in todo'[t] : q.role = "Initiator"
    BY <1>1 DEF IInv, TypeOK, ExpiredStillStored, StatedPositions
  <2> QED
    BY <1>1, <2>1, <2>2, <2>3, LoopInv
<1>4. \/ \E j \in Job, rel \in RelationType :
            Call(t, j, [plan[t] EXCEPT !.rel = rel]) /\ UNCHANGED <<stored, fresh>>
      \/ \E j \in Job, label \in {"next", "discover"} : ReturnTo(t, label, j)
  BY DEF MergeEntryDone, DiscoverEntryDone, Job, RelationType
<1> QED
  BY <1>2, <1>3, <1>4

(***************************************************************************)
(* The round of expiration: the query leaves our own row out, and no other *)
(* step makes a row it returned disappear.                                 *)
(***************************************************************************)
LEMMA ExpireInv ==
    ASSUME IInv, NEW t \in Threads, QueryExpired(t) \/ Remove(t)
    PROVE  IInv'
<1> USE ThreadsAssumption, NodesAssumption, BoundsAssumption, NullAssumption
<1>1. t # "reactor"
  BY DEF QueryExpired, Remove, IInv, ReactorServes, CallLabel
<1>2. CASE QueryExpired(t)
  <2>1. TypeOK' /\ ExpiredStillStored' /\ pc'[t] \notin CallLabel
    BY <1>2 DEF QueryExpired, IInv, TypeOK, Label, CallLabel, ExpiredStillStored, Present
  <2>2. /\ UNCHANGED <<nodes, said>>
        /\ \A q \in todo'[t] : q.role = "Initiator"
        /\ \A u \in Threads \ {t} : /\ pc'[u] = pc[u] /\ job'[u] = job[u]
                                    /\ plan'[u] = plan[u] /\ stored'[u] = stored[u]
                                    /\ fresh'[u] = fresh[u] /\ todo'[u] = todo[u]
    BY <1>2 DEF QueryExpired, IInv, TypeOK, StatedPositions
  <2> QED
    BY <1>1, <2>1, <2>2, LoopInv
<1>3. CASE Remove(t)
  <2>1. PICK n \in expired :
           /\ nodes' = [nodes EXCEPT ![n] = NoRow]
           /\ \/ expired' = expired \ {n} /\ pc' = pc
              \/ expired' = {} /\ pc' = [pc EXCEPT ![t] = "idle"]
    BY <1>3 DEF Remove, IInv, ExpiredStillStored
  <2>2. /\ n \in NodeId /\ n # Me
        /\ UNCHANGED <<job, plan, stored, fresh, todo, left, restarts, said>>
    BY <1>3, <2>1 DEF Remove, IInv, TypeOK, ExpiredStillStored, SelfUntouched
  <2>3. TypeOK'
    BY <2>1, <2>2 DEF IInv, TypeOK, Label
  <2>4. CallHasPlan' /\ CheckedPlan' /\ StatedPositions' /\ ReactorServes'
    BY <1>1, <2>1, <2>2 DEF IInv, TypeOK, CallHasPlan, CheckedPlan, StatedPositions, ReactorServes,
                            CallLabel, CheckedLabel
  <2>5. SelfUntouched' /\ NoHearsay' /\ ExpiredStillStored'
    BY <2>1, <2>2 DEF IInv, TypeOK, SelfUntouched, NoHearsay, ExpiredStillStored, Present
  <2> QED
    BY <2>3, <2>4, <2>5 DEF IInv
<1> QED
  BY <1>2, <1>3

(***************************************************************************)
(* A remote node's request, with its own entry, and the reply to it.       *)
(***************************************************************************)
LEMMA RequestInv ==
    ASSUME IInv, NEW n \in NodeId, NEW rel \in {"Colleague", "Neighbour"}, NEW loc \in Places[n],
           Request(n, loc, rel)
    PROVE  IInv'
<1> USE ThreadsAssumption, NodesAssumption, BoundsAssumption, NullAssumption
<1> DEFINE p == [id |-> n, loc |-> loc, rel |-> rel, role |-> "Acceptor"]
<1>1. p \in Plan /\ p.role = "Acceptor" /\ p.loc = loc /\ p.id = n /\ loc \in Location
  BY DEF Plan, RelationType
<1>2. /\ pc' = [pc EXCEPT !["reactor"] = "load"]
      /\ job' = [job EXCEPT !["reactor"] = "request"]
      /\ plan' = [plan EXCEPT !["reactor"] = p]
      /\ said' = [said EXCEPT ![n] = @ \cup {loc}]
      /\ UNCHANGED <<nodes, stored, fresh, todo, expired, left, restarts>>
  BY DEF Request, Call
<1> HIDE DEF p
<1>3. TypeOK'
  BY <1>1, <1>2 DEF IInv, TypeOK, Label, Job
<1>4. \A m \in NodeId : said[m] \subseteq said'[m]
  BY <1>2 DEF IInv, TypeOK
<1>5. loc \in said'[n]
  BY <1>2 DEF IInv, TypeOK
<1>6. CallHasPlan' /\ CheckedPlan' /\ ReactorServes'
  BY <1>1, <1>2 DEF IInv, TypeOK, CallHasPlan, CheckedPlan, ReactorServes, CallLabel, CheckedLabel
<1>7. SelfUntouched' /\ NoHearsay' /\ ExpiredStillStored'
  BY <1>2, <1>4 DEF IInv, TypeOK, SelfUntouched, NoHearsay, ExpiredStillStored, Present
<1>8. StatedPositions'
  BY <1>1, <1>2, <1>4, <1>5 DEF IInv, TypeOK, CallHasPlan, StatedPositions, CallLabel,
                                CheckedLabel, Plan
<1> QED
  BY <1>3, <1>6, <1>7, <1>8 DEF IInv

LEMMA ReplyInv == ASSUME IInv, Reply PROVE IInv'
<1> USE ThreadsAssumption, NodesAssumption, BoundsAssumption, NullAssumption
<1>1. /\ ReturnTo("reactor", "idle", "none")
      /\ UNCHANGED <<nodes, todo, expired, left, restarts, said>>
  BY DEF Reply
<1>2. TypeOK' /\ pc'["reactor"] = "idle" /\ job'["reactor"] = "none"
  BY <1>1 DEF ReturnTo, IInv, TypeOK, Label, Job
<1>3. \A u \in Threads \ {"reactor"} : /\ pc'[u] = pc[u] /\ job'[u] = job[u]
                                       /\ plan'[u] = plan[u] /\ stored'[u] = stored[u]
                                       /\ fresh'[u] = fresh[u] /\ todo'[u] = todo[u]
  BY <1>1 DEF ReturnTo, IInv, TypeOK
<1>4. ExpiredStillStored' /\ \A q \in todo'["reactor"] : q.role = "Initiator"
  BY <1>1 DEF IInv, TypeOK, ExpiredStillStored, StatedPositions
<1> QED
  BY <1>1, <1>2, <1>3, <1>4, LoopInv DEF CallLabel

(***************************************************************************)
(* Registering a service, the passage of time and a restart.               *)
(***************************************************************************)
LEMMA EnvironmentInv ==
    ASSUME IInv, (\E t \in Threads : RegisterService(t)) \/ Tick \/ Restart
    PROVE  IInv'
<1> USE ThreadsAssumption, NodesAssumption, BoundsAssumption, NullAssumption
<1>1. CASE \E t \in Threads : RegisterService(t)
  <2>1. PICK t \in Threads : RegisterService(t)
    BY <1>1
  <2>2. /\ nodes' \in [NodeId -> Row \cup {NoRow}]
        /\ \A n \in NodeId : n # Me => nodes'[n] = nodes[n]
        /\ SelfUntouched' /\ ExpiredStillStored'
    BY <2>1, OwnRowTime DEF RegisterService
  <2>3. /\ t # "reactor"
        /\ job' = [job EXCEPT ![t] = "neighbours"] \/ job' = job
        /\ UNCHANGED <<pc, plan, stored, fresh, todo, expired, left, restarts, said>>
    BY <2>1 DEF RegisterService, Renewers
  <2>4. TypeOK' /\ NoHearsay'
    BY <2>2, <2>3 DEF IInv, TypeOK, NoHearsay, Present, Job
  <2>5. CallHasPlan' /\ CheckedPlan' /\ StatedPositions' /\ ReactorServes'
    BY <2>3 DEF IInv, TypeOK, CallHasPlan, CheckedPlan, StatedPositions, ReactorServes
  <2> QED
    BY <2>2, <2>4, <2>5 DEF IInv
<1>2. CASE Tick
  <2>1. UNCHANGED <<pc, job, plan, stored, fresh, todo, expired, left, restarts, said>>
    BY <1>2 DEF Tick
  <2>2. \A n \in NodeId :
           /\ nodes[n] = NoRow => nodes'[n] = NoRow
           /\ nodes[n] # NoRow => /\ nodes'[n] \in Row /\ nodes'[n] # NoRow
                                  /\ nodes'[n].loc = nodes[n].loc
                                  /\ nodes'[n].rel = nodes[n].rel
                                  /\ nodes'[n].role = nodes[n].role
    BY <1>2 DEF Tick, IInv, TypeOK, Row
  <2>3. nodes' \in [NodeId -> Row \cup {NoRow}]
    <3>1. DOMAIN nodes' = NodeId /\ nodes' = [n \in NodeId |-> nodes'[n]]
      BY <1>2 DEF Tick
    <3> QED
      BY <2>2, <3>1
  <2>4. TypeOK'
    BY <2>1, <2>3 DEF IInv, TypeOK
  <2>5. CallHasPlan' /\ CheckedPlan' /\ StatedPositions' /\ ReactorServes'
    BY <2>1 DEF IInv, CallHasPlan, CheckedPlan, StatedPositions, ReactorServes
  <2>6. SelfUntouched' /\ NoHearsay' /\ ExpiredStillStored'
    BY <2>1, <2>2 DEF IInv, TypeOK, SelfUntouched, NoHearsay, ExpiredStillStored, Present
  <2> QED
    BY <2>4, <2>5, <2>6 DEF IInv
<1>3. CASE Restart
  <2>1. FromSelfInfo \in Row /\ FromSelfInfo # NoRow
    BY DEF FromSelfInfo, Row, RelationType, RoleType
  <2>2. TypeOK'
    BY <1>3, <2>1 DEF Restart, IInv, TypeOK, StartLabel, Label, Job
  <2>3. SelfUntouched' /\ NoHearsay' /\ ExpiredStillStored'
    BY <1>3, <2>1 DEF Restart, IInv, TypeOK, SelfUntouched, NoHearsay, ExpiredStillStored, Present,
                      FromSelfInfo
  <2>4. CallHasPlan' /\ CheckedPlan' /\ StatedPositions' /\ ReactorServes'
    BY <1>3 DEF Restart, StartLabel, CallHasPlan, CheckedPlan, StatedPositions, ReactorServes,
                CallLabel, CheckedLabel
  <2> QED
    BY <2>2, <2>3, <2>4 DEF IInv
<1> QED
  BY <1>1, <1>2, <1>3

LEMMA StutterInv == ASSUME IInv, UNCHANGED vars PROVE IInv'
  BY DEF vars, IInv, TypeOK, CallHasPlan, CheckedPlan, SelfUntouched, StatedPositions, NoHearsay,
         ExpiredStillStored, ReactorServes, Present

LEMMA StepInv == IInv /\ [Next]_vars => IInv'
<1> SUFFICES ASSUME IInv, [Next]_vars PROVE IInv'
  OBVIOUS
<1>1. ASSUME NEW n \in NodeId, NEW rel \in {"Colleague", "Neighbour"}, NEW loc \in Places[n],
             Request(n, loc, rel)
      PROVE  IInv'
  BY <1>1, RequestInv
<1>2. ASSUME NEW t \in Threads, SafeStoreNode(t) PROVE IInv'
  BY <1>2, LoadInv, CheckInv, AskInv, WriteInv DEF SafeStoreNode
<1>3. ASSUME NEW t \in Threads, ThreadStep(t) PROVE IInv'
  BY <1>2, <1>3, FillInv, StartCallInv, OutsideInv, ExpireInv, RetryInv DEF ThreadStep
<1> QED
  BY <1>1, <1>3, ReplyInv, EnvironmentInv, StutterInv DEF Next

(***************************************************************************)
(* The inductive invariant holds throughout.                               *)
(***************************************************************************)
THEOREM Invariance == Spec => []IInv
  BY InitInv, StepInv, PTL DEF Spec

(***************************************************************************)
(* Table and local variables always have their types.                      *)
(***************************************************************************)
THEOREM TypeCorrect == Spec => []TypeOK
<1>1. IInv => TypeOK
  BY DEF IInv
<1> QED
  BY <1>1, Invariance, PTL

(***************************************************************************)
(* No request, answer, expiration or restart changes or removes our own    *)
(* row, or marks another row as ours (SafeStoreNode's checks of the self   *)
(* relation, the filter of ExpireOldNodes).                                *)
(***************************************************************************)
THEOREM SelfRowSafe == Spec => []SelfUntouched
<1>1. IInv => SelfUntouched
  BY DEF IInv
<1> QED
  BY <1>1, Invariance, PTL

(***************************************************************************)
(* Every stored position was stated by its own node, whatever seeds and    *)
(* other nodes tell (SafeStoreNode's freshInfo).                           *)
(***************************************************************************)
THEOREM OnlyFirstHand == Spec => []NoHearsay
<1>1. IInv => NoHearsay
  BY DEF IInv
<1> QED
  BY <1>1, Invariance, PTL

(***************************************************************************)
(* A round of ExpireOldNodes always finds the rows it is to remove.        *)
(***************************************************************************)
THEOREM ExpirationCompletes == Spec => []ExpiredStillStored
<1>1. IInv => ExpiredStillStored
  BY DEF IInv
<1> QED
  BY <1>1, Invariance, PTL

(***************************************************************************)
(* The thread that delivers the answers never waits for one inside         *)
(* SafeStoreNode.                                                          *)
(***************************************************************************)
THEOREM ReactorFree == Spec => []ReactorNeverAsks
<1>1. IInv => ReactorNeverAsks
  BY ThreadsAssumption DEF IInv, ReactorServes, CheckedPlan, ReactorNeverAsks, CallLabel, CheckedLabel
<1> QED
  BY <1>1, Invariance, PTL

(***************************************************************************)
(* What a step may do to the table and to the round of expiration.         *)
(***************************************************************************)
LEMMA TableSteps ==
    ASSUME IInv, [Next]_vars
    PROVE  \/ \E t \in Threads : WriteEntry(t) \/ QueryExpired(t) \/ Remove(t)
           \/ Tick
           \/ Restart
           \/ /\ nodes' = nodes \/ nodes' = [nodes EXCEPT ![Me] = [@ EXCEPT !.ttl = Lifetime]]
              /\ expired' = expired
<1> DEFINE Quiet == /\ nodes' = nodes \/ nodes' = [nodes EXCEPT ![Me] = [@ EXCEPT !.ttl = Lifetime]]
                    /\ expired' = expired
<1>1. ASSUME NEW n \in NodeId, NEW rel \in {"Colleague", "Neighbour"}, NEW loc \in Places[n],
             Request(n, loc, rel)
      PROVE  Quiet
  BY <1>1 DEF Request
<1>2. Reply => Quiet
  BY DEF Reply
<1>3. ASSUME NEW t \in Threads, RegisterService(t) PROVE Quiet
  BY <1>3 DEF RegisterService
<1>4. ASSUME NEW t \in Threads, SafeStoreNode(t) PROVE Quiet \/ WriteEntry(t)
  BY <1>4 DEF SafeStoreNode, Load, CheckBubble, CountNeighbours, CheckLimit, CheckRank,
              AskAccepted, AskFailed, DetectedExternalAddress
<1>5. ASSUME NEW t \in Threads, ThreadStep(t)
      PROVE  Quiet \/ WriteEntry(t) \/ QueryExpired(t) \/ Remove(t)
  BY <1>4, <1>5 DEF ThreadStep, RenewNodeRelations, NextEntry, EntryDone, LoopDone, RemoveDone,
              EnsureMapFilled, InitializeMap, MapEntryDone, InitializeDone, MergeSplits, MergeStops,
              MergeEntryDone, DiscoverNode, DiscoverNothing, DiscoverEntryDone, DiscoverDone,
              RenewNeighbours
<1>6. UNCHANGED vars => Quiet
  BY DEF vars
<1> QED
  BY <1>1, <1>2, <1>3, <1>5, <1>6 DEF Next

(***************************************************************************)
(* The effect of a write, whatever its outcome.                            *)
(***************************************************************************)
LEMMA WriteEffect ==
    ASSUME IInv, NEW t \in Threads, WriteEntry(t)
    PROVE  /\ plan[t].id \in NodeId /\ plan[t].id # Me
           /\ plan[t].rel \in {"Colleague", "Neighbour"}
           /\ EntryToWrite(t) \in Row /\ EntryToWrite(t) # NoRow
           /\ nodes' = nodes \/ nodes' = [nodes EXCEPT ![plan[t].id] = EntryToWrite(t)]
           /\ expired' = expired
           /\ stored[t] = "Neighbour" => plan[t].rel = "Neighbour"
           /\ pc[t] = "write"
<1> USE NodesAssumption, BoundsAssumption, NullAssumption
<1>1. /\ plan[t] \in Plan /\ plan[t].id # Me /\ plan[t].rel # "Self" /\ fresh[t] \in Location
      /\ stored[t] = "Neighbour" => plan[t].rel = "Neighbour"
      /\ pc[t] = "write"
  BY DEF WriteEntry, IInv, TypeOK, CallHasPlan, CheckedPlan, CallLabel, CheckedLabel
<1>2. EntryToWrite(t) \in Row
  BY <1>1 DEF EntryToWrite, Row, Plan, RelationType, RoleType
<1>3. /\ nodes' = nodes \/ nodes' = [nodes EXCEPT ![plan[t].id] = EntryToWrite(t)]
      /\ expired' = expired
  BY DEF WriteEntry
<1> QED
  BY <1>1, <1>2, <1>3 DEF Plan, RelationType

(***************************************************************************)
(* A neighbour is overwritten as a colleague only by a thread whose Load   *)
(* did not see it as a neighbour (SafeStoreNode, Colleague case).          *)
(***************************************************************************)
THEOREM DowngradeOnlyByRace == Spec => DowngradeNeedsRace
<1> DEFINE Raced == \A n \in NodeId : Downgrade(n) =>
              \E t \in Threads : pc[t] = "write" /\ plan[t].id = n /\ stored[t] # "Neighbour"
<1>1. ASSUME IInv, [Next]_vars PROVE Raced
  <2> USE NodesAssumption, BoundsAssumption, NullAssumption
  <2> SUFFICES ASSUME NEW n \in NodeId, Downgrade(n)
               PROVE  \E t \in Threads : pc[t] = "write" /\ plan[t].id = n /\ stored[t] # "Neighbour"
    OBVIOUS
  <2>1. n # Me
    BY <1>1 DEF Downgrade, IInv, SelfUntouched
  <2>2. nodes'[n] # NoRow /\ nodes[n] # NoRow /\ nodes'[n].rel # nodes[n].rel /\ nodes'[n].rel = "Colleague"
    BY DEF Downgrade
  <2>3. ASSUME NEW t \in Threads, WriteEntry(t)
        PROVE  pc[t] = "write" /\ plan[t].id = n /\ stored[t] # "Neighbour"
    <3>1. nodes' = nodes \/ nodes' = [nodes EXCEPT ![plan[t].id] = EntryToWrite(t)]
      BY <1>1, <2>3, WriteEffect
    <3>2. plan[t].id = n /\ nodes'[n] = EntryToWrite(t)
      BY <1>1, <2>2, <3>1 DEF IInv, TypeOK
    <3>3. plan[t].rel = "Colleague"
      BY <2>2, <3>2 DEF EntryToWrite
    <3>4. pc[t] = "write" /\ (stored[t] = "Neighbour" => plan[t].rel = "Neighbour")
      BY <1>1, <2>3, WriteEffect
    <3> QED
      BY <3>2, <3>3, <3>4
  <2>4. ASSUME NEW t \in Threads, QueryExpired(t) \/ Remove(t) PROVE FALSE
    BY <1>1, <2>2, <2>4 DEF QueryExpired, Remove, IInv, TypeOK
  <2>5. ~Tick
    <3>1. Tick => nodes'[n] = nodes[n] \/ nodes'[n] = [nodes[n] EXCEPT !.ttl = @ - 1]
      BY DEF Tick
    <3>2. nodes[n] \in Row
      BY <1>1, <2>2 DEF IInv, TypeOK
    <3> QED
      BY <2>2, <3>1, <3>2 DEF Row
  <2>6. ~Restart
    BY <1>1, <2>1, <2>2 DEF Restart, IInv, TypeOK
  <2>7. ~(nodes' = nodes \/ nodes' = [nodes EXCEPT ![Me] = [@ EXCEPT !.ttl = Lifetime]])
    BY <1>1, <2>1, <2>2 DEF IInv, TypeOK
  <2> QED
    BY <1>1, <2>3, <2>4, <2>5, <2>6, <2>7, TableSteps
<1>2. IInv /\ [Next]_vars => [Raced]_vars
  BY <1>1
<1> QED
  BY <1>2, Invariance, PTL DEF Spec, DowngradeNeedsRace

(***************************************************************************)
(* A step that keeps the relations and the expiration times above zero.    *)
(***************************************************************************)
LEMMA SameView ==
    ASSUME \A n \in NodeId : RelationOf(n)' = RelationOf(n),
           OldRows' = OldRows,
           expired' = expired
    PROVE  UNCHANGED Table!tableVars
  BY DEF Table!tableVars

LEMMA OwnRowInvisible ==
    ASSUME IInv, IInv',
           \A n \in NodeId \ {Me} : nodes'[n] = nodes[n]
    PROVE  (\A n \in NodeId : RelationOf(n)' = RelationOf(n)) /\ OldRows' = OldRows
  BY NodesAssumption DEF IInv, SelfUntouched, RelationOf, OldRows, Present

LEMMA TableWrite ==
    ASSUME IInv, NEW t \in Threads, WriteEntry(t)
    PROVE  [Table!Next]_(Table!tableVars)
<1> USE NodesAssumption, BoundsAssumption, NullAssumption
<1> DEFINE id == plan[t].id
           e == EntryToWrite(t)
<1>1. /\ id \in NodeId /\ id # Me /\ e \in Row /\ e # NoRow /\ expired' = expired
      /\ nodes' = nodes \/ nodes' = [nodes EXCEPT ![id] = e]
      /\ e.rel \in {"Colleague", "Neighbour"} /\ e.ttl # 0
  BY WriteEffect DEF EntryToWrite
<1> HIDE DEF id, e
<1>2. CASE nodes' = nodes
  BY <1>1, <1>2, SameView DEF RelationOf, OldRows, Present
<1>3. CASE nodes' = [nodes EXCEPT ![id] = e]
  <2>1. nodes'[id] = e /\ \A n \in NodeId \ {id} : nodes'[n] = nodes[n]
    BY <1>1, <1>3 DEF IInv, TypeOK
  <2>2. [n \in NodeId |-> RelationOf(n)]' = [[n \in NodeId |-> RelationOf(n)] EXCEPT ![id] = e.rel]
    BY <1>1, <2>1 DEF RelationOf
  <2>3. OldRows' = OldRows \ {id}
    BY <1>1, <2>1 DEF OldRows, Present
  <2>4. CASE nodes[id] = NoRow
    <3>1. id \notin OldRows /\ RelationOf(id) = "None"
      BY <2>4 DEF OldRows, Present, RelationOf
    <3>2. Table!Insert(id)
      BY <1>1, <2>2, <2>3, <3>1 DEF Table!Insert, Table!Relation
    <3> QED
      BY <1>1, <3>2 DEF Table!Next
  <2>5. CASE nodes[id] # NoRow
    <3>1. RelationOf(id) \in {"Colleague", "Neighbour"}
      BY <1>1, <2>5 DEF IInv, TypeOK, SelfUntouched, Present, RelationOf, Row, RelationType
    <3>2. Table!Overwrite(id)
      BY <1>1, <2>2, <2>3, <3>1 DEF Table!Overwrite, Table!Relation, Table!Rows
    <3> QED
      BY <1>1, <3>2 DEF Table!Next
  <2> QED
    BY <2>4, <2>5
<1> QED
  BY <1>1, <1>2, <1>3

LEMMA TableRemove ==
    ASSUME IInv, NEW t \in Threads, Remove(t)
    PROVE  [Table!Next]_(Table!tableVars)
<1> USE NodesAssumption, NullAssumption
<1>1. PICK n \in expired :
         nodes' = [nodes EXCEPT ![n] = NoRow] /\ expired' \in {expired \ {n}, {}}
  BY DEF Remove, IInv, ExpiredStillStored
<1>2. n \in NodeId /\ nodes'[n] = NoRow /\ \A m \in NodeId \ {n} : nodes'[m] = nodes[m]
  BY <1>1 DEF IInv, TypeOK
<1>3. [m \in NodeId |-> RelationOf(m)]' = [[m \in NodeId |-> RelationOf(m)] EXCEPT ![n] = "None"]
  BY <1>2 DEF RelationOf
<1>4. OldRows' = OldRows \ {n}
  BY <1>2 DEF OldRows, Present
<1>5. RelationOf(n) \in {"Colleague", "Neighbour"}
  BY <1>1, <1>2 DEF IInv, TypeOK, ExpiredStillStored, RelationOf, Row, RelationType
<1>6. Table!Delete(n)
  BY <1>1, <1>2, <1>3, <1>4, <1>5 DEF Table!Delete, Table!Rows, Table!Relation
<1> QED
  BY <1>2, <1>6 DEF Table!Next

LEMMA TableAge == ASSUME IInv, Tick PROVE [Table!Next]_(Table!tableVars)
<1> USE NodesAssumption, BoundsAssumption, NullAssumption
<1>1. expired' = expired
  BY DEF Tick
<1>2. \A n \in NodeId :
         /\ nodes[n] = NoRow => nodes'[n] = NoRow
         /\ nodes[n] # NoRow => /\ nodes[n] \in Row /\ nodes'[n] \in Row /\ nodes'[n] # NoRow
                                /\ nodes'[n].rel = nodes[n].rel
                                /\ nodes[n].ttl = 0 => nodes'[n].ttl = 0
  BY DEF Tick, IInv, TypeOK, Row
<1>3. \A n \in NodeId : RelationOf(n)' = RelationOf(n)
  BY <1>2 DEF RelationOf
<1>4. OldRows \subseteq OldRows'
  BY <1>2 DEF OldRows, Present
<1>5. \A n \in OldRows' : n \in NodeId /\ RelationOf(n) \in {"Colleague", "Neighbour"}
  BY <1>2 DEF OldRows, Present, RelationOf, Row, RelationType
<1>6. Table!Age
  BY <1>1, <1>3, <1>4, <1>5 DEF Table!Age, Table!Rows, Table!Relation
<1> QED
  BY <1>6 DEF Table!Next

(***************************************************************************)
(* The class Node, its threads and restarts keep the promises of the node  *)
(* table: every step is a step of NodeTable or none.                       *)
(***************************************************************************)
THEOREM Refinement == Spec => ImplementsNodeTable
<1>1. Init => Table!Init
  <2> SUFFICES ASSUME Init PROVE Table!Init
    OBVIOUS
  <2>1. FromSelfInfo # NoRow
    BY NodesAssumption, BoundsAssumption, NullAssumption DEF FromSelfInfo, Row, RelationType, RoleType
  <2>2. \A n \in NodeId : RelationOf(n) = IF n = Me THEN "Self" ELSE "None"
    BY <2>1 DEF Init, RelationOf, FromSelfInfo
  <2>3. OldRows = {} /\ expired = {}
    BY <2>1 DEF Init, OldRows, Present, FromSelfInfo
  <2> QED
    BY <2>2, <2>3 DEF Table!Init
<1>2. ASSUME IInv, IInv', [Next]_vars PROVE [Table!Next]_(Table!tableVars)
  <2>1. ASSUME NEW t \in Threads, QueryExpired(t) PROVE [Table!Next]_(Table!tableVars)
    <3>1. nodes' = nodes /\ expired' = OldRows
      BY <2>1 DEF QueryExpired, OldRows
    <3>2. Table!Condemn
      BY <3>1 DEF Table!Condemn, RelationOf, OldRows, Present
    <3> QED
      BY <3>2 DEF Table!Next
  <2>2. ASSUME Restart PROVE [Table!Next]_(Table!tableVars)
    <3>1. expired' = {} /\ \A n \in NodeId \ {Me} : nodes'[n] = nodes[n]
      BY <1>2, <2>2 DEF Restart, IInv, TypeOK
    <3>2. Table!Spare
      BY <1>2, <3>1, OwnRowInvisible DEF Table!Spare
    <3> QED
      BY <3>2 DEF Table!Next
  <2>3. ASSUME nodes' = nodes \/ nodes' = [nodes EXCEPT ![Me] = [@ EXCEPT !.ttl = Lifetime]],
               expired' = expired
        PROVE  UNCHANGED Table!tableVars
    <3>1. \A n \in NodeId \ {Me} : nodes'[n] = nodes[n]
      BY <1>2, <2>3 DEF IInv, TypeOK
    <3> QED
      BY <1>2, <2>3, <3>1, OwnRowInvisible, SameView
  <2> QED
    BY <1>2, <2>1, <2>2, <2>3, TableSteps, TableWrite, TableRemove, TableAge
<1>3. IInv /\ IInv' /\ [Next]_vars => [Table!Next]_(Table!tableVars)
  BY <1>2
<1> QED
  BY <1>1, <1>3, Invariance, PTL DEF Spec, ImplementsNodeTable, Table!Spec

=============================================================================
