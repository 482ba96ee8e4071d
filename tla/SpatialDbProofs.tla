--------------------------- MODULE SpatialDbProofs ---------------------------
(***************************************************************************)
(* Proofs about SpatialDb, for any number of nodes, services and threads.  *)
(***************************************************************************)
EXTENDS SpatialDb, FiniteSetTheorems, TLAPS

LEMMA CountType == ASSUME NEW S \in SUBSET Service PROVE Cardinality(S) \in Nat
  BY DbAssumption, FS_Subset, FS_CardinalityType

LEMMA DbInit == Init => DbInv
<1> SUFFICES ASSUME Init PROVE DbInv
  OBVIOUS
<1> USE DbAssumption
<1>1. TypeOK
  <2>1. /\ relation \in [NodeId -> Relation \cup {"Self", "None"}]
        /\ old \in SUBSET NodeId /\ services \in [NodeId -> SUBSET Service]
        /\ changes \in Nat /\ self \in SUBSET Service
    BY DEF Init
  <2>2. /\ pc \in [Threads -> Label] /\ call \in [Threads -> Calls \cup {NoCall}]
        /\ pending \in [Threads -> SUBSET Service]
    BY DEF Init, Label
  <2>3. expired \in SUBSET [id : NodeId, rel : Relation] /\ view \in SUBSET NodeId
    BY DEF Init
  <2>5. listening \in BOOLEAN
    BY DEF Init
  <2>6. restarts \in 0..MaxRestarts
    BY DEF Init
  <2>4. /\ alone \in [Threads -> BOOLEAN] /\ hit \in [Threads -> BOOLEAN]
        /\ registered \in SUBSET Service
    BY DEF Init
  <2> QED
    BY <2>1, <2>2, <2>3, <2>4, <2>5, <2>6 DEF TypeOK
<1>2. /\ CallsWellFormed /\ SelfRowOnly /\ old \subseteq Rows /\ RemovalsFindTheirRow
      /\ RemovesOfRound
  BY DEF Init, CallsWellFormed, SelfRowOnly, Rows, RemovalsFindTheirRow, RemovesOfRound, CallLabel,
         RoundLabel
<1> QED
  BY <1>1, <1>2 DEF DbInv

(***************************************************************************)
(* The start of a call: its argument is well formed.                       *)
(***************************************************************************)
LEMMA BeginInv ==
    ASSUME DbInv, NEW t \in Threads, NEW c \in Calls, NEW label \in {"insert", "update"},
           c.rel = "Self" <=> c.id = Me,
           Begin(t, c, label)
    PROVE  DbInv'
<1> USE DbAssumption
<1> USE DEF Begin, Goto, tables, listener, history
<1>1. TypeOK'
  BY DEF DbInv, TypeOK, Label
<1>2. CallsWellFormed'
  BY DEF DbInv, TypeOK, CallsWellFormed, CallLabel, RoundLabel
<1>3. SelfRowOnly' /\ (old \subseteq Rows)'
  BY DEF DbInv, SelfRowOnly, Rows
<1>4. RemovalsFindTheirRow' /\ RemovesOfRound'
  BY DEF DbInv, TypeOK, RemovalsFindTheirRow, RemovesOfRound
<1> QED
  BY <1>1, <1>2, <1>3, <1>4 DEF DbInv

LEMMA StartInv ==
    ASSUME DbInv,
           \/ \E t \in Threads : Start(t)
           \/ \E s \in Service : RegisterService(s) \/ DeregisterService(s)
    PROVE  DbInv'
<1> USE DbAssumption
<1>1. ASSUME NEW t \in Threads, NEW n \in NodeId \ {Me}, NEW rel \in Relation,
             NEW ss \in SUBSET Service, CallStore(t, n, rel, ss) \/ CallUpdate(t, n, rel, ss)
      PROVE  DbInv'
  <2>1. /\ [op |-> "store", id |-> n, rel |-> rel, services |-> ss, svc |-> {}, was |-> "None"] \in Calls
        /\ [op |-> "update", id |-> n, rel |-> rel, services |-> ss, svc |-> {}, was |-> "None"] \in Calls
    BY DEF Calls
  <2> QED
    BY <1>1, <2>1, BeginInv DEF CallStore, CallUpdate, Relation
<1>2. ASSUME NEW t \in Threads, NEW op \in {"register", "deregister", "address"},
             NEW ss \in SUBSET Service, NEW svc \in SUBSET Service, UpdateSelf(t, op, ss, svc)
      PROVE  DbInv'
  <2>1. [op |-> op, id |-> Me, rel |-> "Self", services |-> ss, svc |-> svc, was |-> "None"] \in Calls
    BY DEF Calls
  <2> QED
    BY <1>2, <2>1, BeginInv DEF UpdateSelf
<1>3. self \in SUBSET Service /\ "reactor" \in Threads
  BY DEF DbInv, TypeOK
<1>4. ASSUME NEW t \in Threads, Start(t) PROVE DbInv'
  BY <1>1, <1>2, <1>3, <1>4 DEF Start, DetectedExternalAddress
<1>5. ASSUME NEW s \in Service, RegisterService(s) \/ DeregisterService(s) PROVE DbInv'
  <2>1. self \cup {s} \in SUBSET Service /\ self \ {s} \in SUBSET Service /\ {s} \in SUBSET Service
    BY <1>3
  <2> QED
    BY <1>2, <1>3, <1>5, <2>1 DEF RegisterService, DeregisterService
<1> QED
  BY <1>4, <1>5

(***************************************************************************)
(* INSERT and UPDATE of a row.                                             *)
(***************************************************************************)
LEMMA WriteRowInv == ASSUME DbInv, NEW t \in Threads, Insert(t) \/ Update(t) PROVE DbInv'
<1> USE DbAssumption
<1> USE DEF Insert, Update, Goto, Disturb, listener, history
<1>1. /\ pc[t] \in {"insert", "update"} /\ call[t] \in Calls
      /\ call[t].id \in NodeId /\ call[t].rel \in Relation \cup {"Self"}
      /\ call[t].rel = "Self" <=> call[t].id = Me
  BY DEF DbInv, CallsWellFormed, CallLabel, Label, Calls
<1>2. /\ \/ relation' = relation /\ old' = old
         \/ relation' = [relation EXCEPT ![call[t].id] = call[t].rel] /\ old' = old \ {call[t].id}
      /\ pc' = [pc EXCEPT ![t] = "clear"] \/ pc' = [pc EXCEPT ![t] = "threw"]
                                          \/ pc' = [pc EXCEPT ![t] = "check"]
      /\ hit' = hit \/ (pc[t] = "update" /\ \E b \in BOOLEAN : hit' = [hit EXCEPT ![t] = b])
      /\ changes' \in {changes, 0, 1}
      /\ UNCHANGED <<services, self, call, pending, expired, listening, view, restarts, registered>>
  OBVIOUS
<1>3. alone' \in [Threads -> BOOLEAN]
  OBVIOUS
<1> HIDE DEF Insert, Update, Goto, Disturb, listener, history
<1>4. TypeOK'
  BY <1>1, <1>2, <1>3 DEF DbInv, TypeOK, Label
<1>5. CallsWellFormed'
  BY <1>1, <1>2 DEF DbInv, TypeOK, CallsWellFormed, CallLabel, RoundLabel, Label
<1>6. SelfRowOnly' /\ (old \subseteq Rows)'
  BY <1>1, <1>2 DEF DbInv, TypeOK, SelfRowOnly, Rows, Relation
<1>7. \A n \in NodeId : relation[n] \in Relation => relation'[n] \in Relation
  BY <1>1, <1>2 DEF DbInv, TypeOK, SelfRowOnly, Relation
<1>8. \A u \in Threads : pc'[u] \in RoundLabel => u # t /\ pc'[u] = pc[u] /\ hit'[u] = hit[u]
                                                 /\ call[u] = call'[u]
  BY <1>1, <1>2 DEF DbInv, TypeOK, RoundLabel
<1>9. RemovalsFindTheirRow'
  BY <1>2, <1>7, <1>8 DEF DbInv, TypeOK, CallsWellFormed, RemovalsFindTheirRow, CallLabel, RoundLabel,
                          Label, Calls
<1>10. RemovesOfRound'
  BY <1>2, <1>8 DEF DbInv, RemovesOfRound, RoundLabel
<1> QED
  BY <1>4, <1>5, <1>6, <1>9, <1>10 DEF DbInv

(***************************************************************************)
(* The steps of a call that leave the table nodes alone.                   *)
(***************************************************************************)
LEMMA ServiceStepInv ==
    ASSUME DbInv, NEW t \in Threads,
           \/ CheckUpdated(t) \/ ClearServices(t) \/ InsertService(t) \/ ServicesStored(t)
           \/ NotifyStored(t) \/ Return(t)
    PROVE  DbInv'
<1> USE DbAssumption
<1> DEFINE Busy == {"check", "clear", "services", "notify", "ok", "threw"}
<1>1. pc[t] \in Busy
  BY DEF CheckUpdated, ClearServices, InsertService, ServicesStored, NotifyStored, Return
<1>2. call[t] \in Calls \/ pc[t] \in {"ok", "threw"}
  BY <1>1 DEF DbInv, CallsWellFormed, CallLabel, Label
<1>3. /\ UNCHANGED <<relation, old, expired, restarts, listening>>
      /\ pc' = pc \/ \E l \in {"idle"} \cup Busy : pc' = [pc EXCEPT ![t] = l]
      /\ call' = call \/ (call' = [call EXCEPT ![t] = NoCall] /\ pc' = [pc EXCEPT ![t] = "idle"])
      /\ hit' = hit \/ (hit' = [hit EXCEPT ![t] = FALSE] /\ pc[t] = "check")
  BY DEF CheckUpdated, ClearServices, InsertService, ServicesStored, NotifyStored, Return,
         Goto, tables, listener, history
<1>4. services' \in [NodeId -> SUBSET Service] /\ pending' \in [Threads -> SUBSET Service]
  BY <1>1, <1>2 DEF CheckUpdated, ClearServices, InsertService, ServicesStored, NotifyStored, Return,
         Goto, tables, listener, history, DbInv, TypeOK, Calls
<1>5. changes' \in Nat
  <2>1. CASE ClearServices(t)
    <3>1. services[call[t].id] \in SUBSET Service
      BY <1>2, <2>1 DEF ClearServices, DbInv, TypeOK, Calls
    <3> QED
      BY <2>1, <3>1, CountType DEF ClearServices
  <2> QED
    BY <2>1 DEF CheckUpdated, InsertService, ServicesStored, NotifyStored, Return, tables,
                DbInv, TypeOK
<1>6. self' \in SUBSET Service /\ view' \in SUBSET NodeId
  BY <1>2 DEF CheckUpdated, ClearServices, InsertService, ServicesStored, NotifyStored, Return,
         listener, DbInv, TypeOK, Calls
<1>7. registered' \in SUBSET Service
  <2>1. CASE Return(t)
    <3>1. call[t] \in Calls
      BY <2>1 DEF Return, DbInv, CallsWellFormed, CallLabel, Label
    <3> QED
      BY <2>1, <3>1 DEF Return, DbInv, TypeOK, Calls
  <2> QED
    BY <2>1 DEF CheckUpdated, ClearServices, InsertService, ServicesStored, NotifyStored, history,
                DbInv, TypeOK
<1>8. alone' \in [Threads -> BOOLEAN]
  BY DEF CheckUpdated, ClearServices, InsertService, ServicesStored, NotifyStored, Return, Disturb,
         EndCall
<1>9. TypeOK'
  <2>1. pc' \in [Threads -> Label] /\ call' \in [Threads -> Calls \cup {NoCall}]
    BY <1>3 DEF DbInv, TypeOK, Label
  <2>2. hit' \in [Threads -> BOOLEAN]
    BY <1>3 DEF DbInv, TypeOK
  <2>3. /\ relation' \in [NodeId -> Relation \cup {"Self", "None"}] /\ old' \in SUBSET NodeId
        /\ expired' \in SUBSET [id : NodeId, rel : Relation]
        /\ restarts' \in 0..MaxRestarts
    BY <1>3 DEF DbInv, TypeOK
  <2>4. listening' \in BOOLEAN
    BY <1>3 DEF DbInv, TypeOK
  <2> QED
    BY <1>4, <1>5, <1>6, <1>7, <1>8, <2>1, <2>2, <2>3, <2>4 DEF TypeOK
<1>10. CallsWellFormed'
  BY <1>1, <1>3 DEF DbInv, TypeOK, CallsWellFormed, CallLabel, RoundLabel, Label
<1>11. SelfRowOnly' /\ (old \subseteq Rows)'
  BY <1>3 DEF DbInv, SelfRowOnly, Rows
<1>12. \A u \in Threads : pc'[u] \in RoundLabel => u # t /\ pc'[u] = pc[u] /\ hit'[u] = hit[u]
                                                  /\ call'[u] = call[u]
  BY <1>1, <1>3 DEF DbInv, TypeOK, RoundLabel
<1>13. RemovalsFindTheirRow'
  BY <1>3, <1>12 DEF DbInv, RemovalsFindTheirRow, RoundLabel
<1>14. RemovesOfRound'
  BY <1>3, <1>12 DEF DbInv, RemovesOfRound, RoundLabel
<1> QED
  BY <1>9, <1>10, <1>11, <1>13, <1>14 DEF DbInv

(***************************************************************************)
(* The round of expiration, on the maintenance thread only.                *)
(***************************************************************************)
LEMMA QueryInv == ASSUME DbInv, ExpireOldNodes PROVE DbInv'
<1> USE DbAssumption
<1>1. /\ pc["maintenance"] = "idle" /\ pc' = [pc EXCEPT !["maintenance"] = "expire"]
      /\ expired' = {[id |-> n, rel |-> relation[n]] :
                        n \in {m \in Rows : m \in old /\ relation[m] # "Self"}}
      /\ alone' = [u \in Threads |-> FALSE]
      /\ UNCHANGED <<relation, old, services, changes, self, call, pending, listening, view, restarts,
                     hit, registered>>
  BY DEF ExpireOldNodes, Goto, EndCall, tables, listener, history
<1>2. \A m \in Rows : relation[m] # "Self" => m \in NodeId /\ relation[m] \in Relation
  BY DEF DbInv, TypeOK, Rows
<1>3. \A e \in expired' : e \in [id : NodeId, rel : Relation] /\ relation[e.id] \in Relation
  BY <1>1, <1>2
<1>4. TypeOK'
  BY <1>1, <1>3 DEF DbInv, TypeOK, Label
<1>5. CallsWellFormed'
  BY <1>1 DEF DbInv, TypeOK, CallsWellFormed, CallLabel, RoundLabel, Label
<1>6. SelfRowOnly' /\ (old \subseteq Rows)'
  BY <1>1 DEF DbInv, SelfRowOnly, Rows
<1>7. RemovalsFindTheirRow'
  BY <1>1, <1>3 DEF DbInv, TypeOK, RemovalsFindTheirRow
<1>8. RemovesOfRound'
  BY <1>1 DEF DbInv, TypeOK, CallsWellFormed, RemovesOfRound, RoundLabel
<1> QED
  BY <1>4, <1>5, <1>6, <1>7, <1>8 DEF DbInv

LEMMA RemoveInv ==
    ASSUME DbInv, NEW t \in Threads,
           \/ Remove(t) \/ RemoveServices(t) \/ CheckDeleted(t) \/ NotifyRemoved(t)
           \/ NotifyExpired(t) \/ ExpireDone(t)
    PROVE  DbInv'
<1> USE DbAssumption
<1>1. pc[t] \in RoundLabel /\ t = "maintenance" /\ \A u \in Threads \ {t} : pc[u] \notin RoundLabel
  BY DEF Remove, RemoveServices, CheckDeleted, NotifyRemoved, NotifyExpired, ExpireDone,
         DbInv, CallsWellFormed, RoundLabel
<1>2. /\ UNCHANGED <<relation, old, self, pending, listening, restarts, registered>>
      /\ hit' = hit \/ hit' = [hit EXCEPT ![t] = FALSE]
      /\ expired' = expired \/ expired' = {}
      /\ alone' \in [Threads -> BOOLEAN]
  BY DEF Remove, RemoveServices, CheckDeleted, NotifyRemoved, NotifyExpired, ExpireDone, AbortRound,
         Disturb, EndCall, tables, listener, history
<1>3. \/ /\ \E l \in {"idle", "expire"} : pc' = [pc EXCEPT ![t] = l]
         /\ call' = call \/ call' = [call EXCEPT ![t] = NoCall]
      \/ /\ \E l \in {"notifyRemoved", "notifyExpired"} : pc' = [pc EXCEPT ![t] = l]
         /\ call' = call /\ call[t] \in Calls
      \/ /\ pc' = [pc EXCEPT ![t] = "delete"] /\ pc[t] = "drop"
         /\ call' = call /\ call[t] \in Calls /\ expired' = expired
      \/ /\ pc' = [pc EXCEPT ![t] = "drop"] /\ expired' = expired
         /\ \E c \in Calls : /\ call' = [call EXCEPT ![t] = c] /\ relation[c.id] \in Relation
                            /\ \E e \in expired : e.id = c.id
  <2>1. CASE Remove(t)
    <3>1. PICK e \in expired :
             /\ call' = [call EXCEPT ![t] = [op |-> "remove", id |-> e.id, rel |-> relation[e.id],
                                             services |-> {}, svc |-> {}, was |-> e.rel]]
             /\ pc' = [pc EXCEPT ![t] = "drop"] /\ expired' = expired
      BY <2>1 DEF Remove, Goto, DbInv, RemovalsFindTheirRow, Relation
    <3>2. relation[e.id] \in Relation /\ e \in [id : NodeId, rel : Relation]
      BY <3>1 DEF DbInv, TypeOK, RemovalsFindTheirRow
    <3> DEFINE c == [op |-> "remove", id |-> e.id, rel |-> relation[e.id],
                     services |-> {}, svc |-> {}, was |-> e.rel]
    <3>3. c \in Calls /\ c.id = e.id
      BY <3>2 DEF Calls
    <3> HIDE DEF c
    <3>4. call' = [call EXCEPT ![t] = c]
      BY <3>1 DEF c
    <3> QED
      BY <3>1, <3>2, <3>3, <3>4
  <2>2. CASE RemoveServices(t) \/ CheckDeleted(t) \/ NotifyRemoved(t) \/ NotifyExpired(t) \/ ExpireDone(t)
    BY <1>1, <2>2 DEF RemoveServices, CheckDeleted, NotifyRemoved, NotifyExpired, ExpireDone, AbortRound,
           Goto, DbInv, CallsWellFormed, CallLabel, RoundLabel, Label
  <2> QED
    BY <2>1, <2>2
<1>4. services' \in [NodeId -> SUBSET Service] /\ view' \in SUBSET NodeId
  BY DEF Remove, RemoveServices, CheckDeleted, NotifyRemoved, NotifyExpired, ExpireDone, tables,
         listener, DbInv, TypeOK
<1>5. changes' \in Nat
  <2>1. CASE RemoveServices(t)
    <3>1. call[t] \in Calls
      BY <2>1 DEF RemoveServices, DbInv, CallsWellFormed, CallLabel, Label
    <3>2. services[call[t].id] \in SUBSET Service
      BY <3>1 DEF DbInv, TypeOK, Calls
    <3> QED
      BY <2>1, <3>2, CountType DEF RemoveServices
  <2> QED
    BY <2>1 DEF Remove, CheckDeleted, NotifyRemoved, NotifyExpired, ExpireDone, tables, DbInv, TypeOK
<1>6. TypeOK'
  <2>1. pc' \in [Threads -> Label] /\ call' \in [Threads -> Calls \cup {NoCall}]
    BY <1>3 DEF DbInv, TypeOK, Label
  <2>2. hit' \in [Threads -> BOOLEAN]
    BY <1>2 DEF DbInv, TypeOK
  <2>3. /\ relation' \in [NodeId -> Relation \cup {"Self", "None"}] /\ old' \in SUBSET NodeId
        /\ expired' \in SUBSET [id : NodeId, rel : Relation]
        /\ self' \in SUBSET Service /\ registered' \in SUBSET Service
        /\ pending' \in [Threads -> SUBSET Service]
        /\ restarts' \in 0..MaxRestarts
    BY <1>2 DEF DbInv, TypeOK
  <2>4. listening' \in BOOLEAN /\ alone' \in [Threads -> BOOLEAN]
    BY <1>2 DEF DbInv, TypeOK
  <2> QED
    BY <1>4, <1>5, <2>1, <2>2, <2>3, <2>4 DEF TypeOK
<1>7. CallsWellFormed'
  BY <1>1, <1>3 DEF DbInv, TypeOK, CallsWellFormed, CallLabel, RoundLabel, Label
<1>8. SelfRowOnly' /\ (old \subseteq Rows)'
  BY <1>2 DEF DbInv, SelfRowOnly, Rows
<1>9. \A u \in Threads \ {t} : pc'[u] \notin RoundLabel
  BY <1>1, <1>3 DEF DbInv, TypeOK
<1>10. pc'[t] \in {"drop", "delete"} => relation[call'[t].id] \in Relation
  BY <1>3 DEF DbInv, TypeOK, RemovalsFindTheirRow
<1>11. pc'[t] # "checkDelete"
  BY <1>3 DEF DbInv, TypeOK
<1>12. RemovalsFindTheirRow'
  BY <1>2, <1>9, <1>10, <1>11 DEF DbInv, RemovalsFindTheirRow, RoundLabel
<1>13. pc'[t] \in {"drop", "delete"} => \E e \in expired' : e.id = call'[t].id
  BY <1>3 DEF DbInv, TypeOK, RemovesOfRound
<1>14. RemovesOfRound'
  BY <1>9, <1>13 DEF RemovesOfRound, RoundLabel
<1> QED
  BY <1>6, <1>7, <1>8, <1>12, <1>14 DEF DbInv

LEMMA DeleteInv == ASSUME DbInv, NEW t \in Threads, Delete(t) PROVE DbInv'
<1> USE DbAssumption
<1> DEFINE id == call[t].id
<1>1. /\ pc[t] = "delete" /\ call[t] \in Calls /\ id \in NodeId /\ relation[id] \in Relation
      /\ t = "maintenance" /\ \A u \in Threads \ {t} : pc[u] \notin RoundLabel
  BY DEF Delete, DbInv, CallsWellFormed, RemovalsFindTheirRow, CallLabel, RoundLabel, Label, Calls
<1>2. /\ relation' = [relation EXCEPT ![id] = "None"] /\ old' = old \ {id}
      /\ expired' = {e \in expired : e.id # id}
      /\ hit' = [hit EXCEPT ![t] = TRUE]
      /\ changes' \in Nat
      /\ pc' = [pc EXCEPT ![t] = "checkDelete"]
      /\ alone' \in [Threads -> BOOLEAN]
      /\ UNCHANGED <<services, self, call, pending, listening, view, restarts, registered>>
  BY <1>1 DEF Delete, Goto, Disturb, listener, Relation
<1> HIDE DEF id
<1>3. TypeOK'
  <2>1. /\ relation' \in [NodeId -> Relation \cup {"Self", "None"}] /\ old' \in SUBSET NodeId
        /\ expired' \in SUBSET [id : NodeId, rel : Relation]
        /\ pc' \in [Threads -> Label]
    BY <1>1, <1>2 DEF DbInv, TypeOK, Label
  <2>2. hit' \in [Threads -> BOOLEAN]
    BY <1>2 DEF DbInv, TypeOK
  <2> QED
    BY <1>2, <2>1, <2>2 DEF DbInv, TypeOK
<1>4. CallsWellFormed'
  BY <1>1, <1>2 DEF DbInv, TypeOK, CallsWellFormed, CallLabel, RoundLabel, Label
<1>5. SelfRowOnly' /\ (old \subseteq Rows)'
  BY <1>1, <1>2 DEF DbInv, TypeOK, SelfRowOnly, Rows, Relation
<1>6. \A e \in expired' : relation'[e.id] \in Relation
  BY <1>1, <1>2 DEF DbInv, TypeOK, RemovalsFindTheirRow
<1>7. \A u \in Threads \ {t} : pc'[u] \notin RoundLabel
  BY <1>1, <1>2 DEF DbInv, TypeOK
<1>8. pc'[t] = "checkDelete" /\ hit'[t]
  BY <1>2 DEF DbInv, TypeOK
<1>9. RemovalsFindTheirRow'
  BY <1>6, <1>7, <1>8 DEF RemovalsFindTheirRow, RoundLabel
<1>10. RemovesOfRound'
  BY <1>7, <1>8 DEF RemovesOfRound, RoundLabel
<1> QED
  BY <1>3, <1>4, <1>5, <1>9, <1>10 DEF DbInv

(***************************************************************************)
(* The listener, the clock and the restart.                                *)
(***************************************************************************)
LEMMA SubscribeInv == ASSUME DbInv, GetNeighbourNodes \/ AddListener PROVE DbInv'
<1> USE DbAssumption
<1>1. /\ \E l \in {"idle", "subscribe"} : pc' = [pc EXCEPT !["reactor"] = l]
      /\ view' \in SUBSET NodeId
      /\ UNCHANGED <<relation, old, services, changes, self, call, pending, expired, restarts, hit,
                     registered>>
  BY DEF GetNeighbourNodes, AddListener, Goto, Neighbours, tables, history, DbInv, TypeOK
<1>2. listening' \in BOOLEAN /\ alone' \in [Threads -> BOOLEAN]
  BY DEF GetNeighbourNodes, AddListener, EndCall, DbInv, TypeOK
<1>3. TypeOK'
  BY <1>1, <1>2 DEF DbInv, TypeOK, Label
<1>4. CallsWellFormed'
  BY <1>1 DEF DbInv, TypeOK, CallsWellFormed, CallLabel, RoundLabel, Label
<1>5. SelfRowOnly' /\ (old \subseteq Rows)'
  BY <1>1 DEF DbInv, SelfRowOnly, Rows
<1>6. RemovalsFindTheirRow' /\ RemovesOfRound'
  BY <1>1 DEF DbInv, TypeOK, RemovalsFindTheirRow, RemovesOfRound
<1> QED
  BY <1>3, <1>4, <1>5, <1>6 DEF DbInv

LEMMA TickInv == ASSUME DbInv, Tick \/ UNCHANGED vars PROVE DbInv'
<1>1. /\ UNCHANGED <<relation, services, changes, self, pc, call, pending, expired, listening, view,
                     restarts, alone, hit, registered>>
      /\ old' = old \/ \E n \in Rows : old' = old \cup {n}
  BY DEF Tick, vars, local, listener, history
<1>2. old' \in SUBSET NodeId /\ (old \subseteq Rows)'
  BY <1>1 DEF DbInv, Rows, TypeOK
<1>3. TypeOK'
  BY <1>1, <1>2 DEF DbInv, TypeOK
<1>4. CallsWellFormed' /\ SelfRowOnly' /\ RemovalsFindTheirRow' /\ RemovesOfRound'
  BY <1>1 DEF DbInv, CallsWellFormed, SelfRowOnly, RemovalsFindTheirRow, RemovesOfRound
<1> QED
  BY <1>2, <1>3, <1>4 DEF DbInv

LEMMA RestartInv == ASSUME DbInv, Restart PROVE DbInv'
<1> USE DbAssumption
<1>1. TypeOK'
  <2>1. /\ relation' \in [NodeId -> Relation \cup {"Self", "None"}]
        /\ old' \in SUBSET NodeId /\ services' \in [NodeId -> SUBSET Service]
        /\ self' \in SUBSET Service /\ registered' \in SUBSET Service
        /\ view' \in SUBSET NodeId
    BY DEF Restart, DbInv, TypeOK
  <2>2. changes' \in Nat
    BY CountType DEF Restart, DbInv, TypeOK
  <2>3. /\ pc' \in [Threads -> Label] /\ call' \in [Threads -> Calls \cup {NoCall}]
        /\ pending' \in [Threads -> SUBSET Service]
        /\ expired' \in SUBSET [id : NodeId, rel : Relation]
    BY DEF Restart, Label
  <2>4. restarts' \in 0..MaxRestarts
    BY DEF Restart, DbInv, TypeOK
  <2>5. listening' \in BOOLEAN
    BY DEF Restart
  <2>6. alone' \in [Threads -> BOOLEAN] /\ hit' \in [Threads -> BOOLEAN]
    BY DEF Restart
  <2> QED
    BY <2>1, <2>2, <2>3, <2>4, <2>5, <2>6 DEF TypeOK
<1>2. CallsWellFormed' /\ RemovalsFindTheirRow' /\ RemovesOfRound'
  BY DEF Restart, CallsWellFormed, RemovalsFindTheirRow, RemovesOfRound, CallLabel, RoundLabel
<1>3. SelfRowOnly' /\ (old \subseteq Rows)'
  BY DEF Restart, DbInv, SelfRowOnly, Rows
<1> QED
  BY <1>1, <1>2, <1>3 DEF DbInv

LEMMA DbStep == DbInv /\ [Next]_vars => DbInv'
<1> SUFFICES ASSUME DbInv, [Next]_vars PROVE DbInv'
  OBVIOUS
<1>1. ASSUME NEW t \in Threads, Step(t) PROVE DbInv'
  BY <1>1, WriteRowInv, ServiceStepInv, RemoveInv, DeleteInv DEF Step
<1> QED
  BY <1>1, StartInv, QueryInv, SubscribeInv, TickInv, RestartInv DEF Next

-----------------------------------------------------------------------------

(***************************************************************************)
(* DbInv holds in every state, whatever statements the threads interleave. *)
(***************************************************************************)
THEOREM DbInvariance == Spec => []DbInv
  BY DbInit, DbStep, PTL DEF Spec

(***************************************************************************)
(* The tables and the threads' variables keep their types.                 *)
(***************************************************************************)
THEOREM DbTypeCorrect == Spec => []TypeOK
<1>1. DbInv => TypeOK
  BY DEF DbInv
<1> QED
  BY <1>1, DbInvariance, PTL

(***************************************************************************)
(* A round of ExpireOldNodes never meets a missing row or our own, with    *)
(* any number of other threads storing and updating between its steps.     *)
(***************************************************************************)
THEOREM RoundFindsItsRows == Spec => []RemovalsFindTheirRow
<1>1. DbInv => RemovalsFindTheirRow
  BY DEF DbInv
<1> QED
  BY <1>1, DbInvariance, PTL

-----------------------------------------------------------------------------
(* Refinement: what each statement is in NodeTable.                        *)

LEMMA TableWriteRow ==
    ASSUME DbInv, NEW t \in Threads, Insert(t) \/ Update(t)
    PROVE  [Table!Next]_(Table!tableVars)
<1> USE DbAssumption
<1> DEFINE id == call[t].id
<1>1. /\ id \in NodeId /\ call[t].rel \in Relation \cup {"Self"}
      /\ call[t].rel = "Self" <=> id = Me
  BY DEF Insert, Update, DbInv, CallsWellFormed, CallLabel, Label, Calls
<1>2. expired' = expired
  BY DEF Insert, Update
<1>3. CASE relation' = relation /\ old' = old
  BY <1>2, <1>3 DEF Table!tableVars
<1>4. CASE /\ relation[id] = "None" /\ id # Me
           /\ relation' = [relation EXCEPT ![id] = call[t].rel] /\ old' = old \ {id}
  <2>1. old' = old
    BY <1>4 DEF DbInv, Rows
  <2>2. Table!Insert(id)
    BY <1>1, <1>2, <1>4, <2>1 DEF Table!Insert, Table!Relation, Relation
  <2> QED
    BY <1>1, <2>2 DEF Table!Next
<1>5. CASE /\ relation[id] # "None" /\ id # Me
           /\ relation' = [relation EXCEPT ![id] = call[t].rel] /\ old' = old \ {id}
  <2>1. id \in Table!Rows /\ (old \ {Me})' = (old \ {Me}) \ {id}
    BY <1>1, <1>5 DEF DbInv, TypeOK, SelfRowOnly, Table!Rows, Table!Relation, Relation
  <2>2. Table!Overwrite(id)
    BY <1>1, <1>2, <1>5, <2>1 DEF Table!Overwrite, Table!Relation, Relation
  <2> QED
    BY <1>1, <2>2 DEF Table!Next
<1>6. CASE id = Me /\ relation' = [relation EXCEPT ![id] = call[t].rel] /\ old' = old \ {id}
  <2>1. relation' = relation
    BY <1>1, <1>6 DEF DbInv, TypeOK, SelfRowOnly
  <2>2. (old \ {Me})' = old \ {Me}
    BY <1>6
  <2> QED
    BY <1>2, <2>1, <2>2 DEF Table!tableVars
<1>7. \/ relation' = relation /\ old' = old
      \/ relation' = [relation EXCEPT ![id] = call[t].rel] /\ old' = old \ {id}
  BY DEF Insert, Update
<1> QED
  BY <1>3, <1>4, <1>5, <1>6, <1>7

LEMMA TableDelete ==
    ASSUME DbInv, NEW t \in Threads, Delete(t) PROVE [Table!Next]_(Table!tableVars)
<1> USE DbAssumption
<1>1. PICK n \in NodeId : n = call[t].id /\ relation[n] \in Relation /\ n # Me
  BY DEF Delete, DbInv, CallsWellFormed, RemovalsFindTheirRow, SelfRowOnly, CallLabel, Label, Calls,
         Relation
<1>2. /\ relation' = [relation EXCEPT ![n] = "None"] /\ old' = old \ {n}
      /\ expired' = {e \in expired : e.id # n}
  BY <1>1 DEF Delete
<1>3. {e.id : e \in expired'} = {e.id : e \in expired} \ {n}
  BY <1>2
<1>4. (old \ {Me})' = (old \ {Me}) \ {n}
  BY <1>2
<1>5. n \in {e.id : e \in expired}
  <2>1. \E e \in expired : e.id = n
    BY <1>1 DEF Delete, DbInv, RemovesOfRound
  <2> QED
    BY <2>1
<1>6. Table!Delete(n)
  BY <1>1, <1>2, <1>3, <1>4, <1>5 DEF Table!Delete, Table!Rows, Table!Relation, Relation
<1> QED
  BY <1>6 DEF Table!Next

LEMMA TableCondemn == ASSUME DbInv, ExpireOldNodes PROVE Table!Condemn
<1>1. relation' = relation /\ old' = old
  BY DEF ExpireOldNodes, tables
<1>2. expired' = {[id |-> n, rel |-> relation[n]] : n \in {m \in Rows : m \in old /\ relation[m] # "Self"}}
  BY DEF ExpireOldNodes
<1>3. {m \in Rows : m \in old /\ relation[m] # "Self"} = old \ {Me}
  BY DEF DbInv, TypeOK, SelfRowOnly, Rows
<1> DEFINE Entry(n) == [id |-> n, rel |-> relation[n]]
<1>4. \A n : Entry(n).id = n
  OBVIOUS
<1>5. expired' = {Entry(n) : n \in old \ {Me}}
  BY <1>2, <1>3
<1>6. {e.id : e \in expired'} = old \ {Me}
  <2> HIDE DEF Entry
  <2> QED
    BY <1>4, <1>5
<1> QED
  BY <1>1, <1>6 DEF Table!Condemn

(***************************************************************************)
(* The other statements leave the table nodes alone; an aborted round and  *)
(* a restart spare what was condemned.                                     *)
(***************************************************************************)
LEMMA TableOther ==
    ASSUME relation' = relation, (old \ {Me})' = old \ {Me}, expired' = expired \/ expired' = {}
    PROVE  [Table!Next]_(Table!tableVars)
<1>1. CASE expired' = expired
  BY <1>1 DEF Table!tableVars
<1>2. CASE expired' = {}
  <2>1. {e.id : e \in expired'} = {}
    BY <1>2
  <2>2. Table!Spare
    BY <2>1 DEF Table!Spare
  <2> QED
    BY <2>2 DEF Table!Next
<1> QED
  BY <1>1, <1>2

LEMMA TableTick == ASSUME DbInv, Tick PROVE [Table!Next]_(Table!tableVars)
<1>1. PICK n \in Rows \ old : old' = old \cup {n}
  BY DEF Tick
<1>2. relation' = relation /\ expired' = expired
  BY DEF Tick
<1>3. (old \ {Me})' \subseteq Table!Rows /\ old \ {Me} \subseteq (old \ {Me})'
  BY <1>1, <1>2 DEF DbInv, TypeOK, SelfRowOnly, Rows, Table!Rows, Table!Relation, Relation
<1>4. Table!Age
  BY <1>2, <1>3 DEF Table!Age
<1> QED
  BY <1>4 DEF Table!Next

(***************************************************************************)
(* The tables of SQLite, written by statements of any number of threads    *)
(* and in any order, implement the node table: our own row is permanent,   *)
(* a row appears once and is renewed by every write, and only a row that a *)
(* round found expired is deleted.                                         *)
(***************************************************************************)
THEOREM DbRefinement == Spec => ImplementsNodeTable
<1>1. Init => Table!Init
  BY DEF Init, Table!Init
<1>2. ASSUME DbInv, [Next]_vars PROVE [Table!Next]_(Table!tableVars)
  <2>1. ASSUME NEW t \in Threads, Step(t) PROVE [Table!Next]_(Table!tableVars)
    <3>1. CASE Insert(t) \/ Update(t)
      BY <1>2, <3>1, TableWriteRow
    <3>2. CASE Delete(t)
      BY <1>2, <3>2, TableDelete
    <3>3. CASE \/ CheckUpdated(t) \/ ClearServices(t) \/ InsertService(t) \/ ServicesStored(t)
               \/ NotifyStored(t) \/ Return(t) \/ Remove(t) \/ RemoveServices(t) \/ CheckDeleted(t)
               \/ NotifyRemoved(t) \/ NotifyExpired(t) \/ ExpireDone(t)
      <4>1. relation' = relation /\ old' = old /\ (expired' = expired \/ expired' = {})
        BY <3>3 DEF CheckUpdated, ClearServices, InsertService, ServicesStored, NotifyStored, Return,
               Remove, RemoveServices, CheckDeleted, NotifyRemoved, NotifyExpired, ExpireDone,
               AbortRound, tables
      <4> QED
        BY <4>1, TableOther
    <3> QED
      BY <2>1, <3>1, <3>2, <3>3 DEF Step
  <2>2. ASSUME \/ \E t \in Threads : Start(t)
               \/ \E s \in Service : RegisterService(s) \/ DeregisterService(s)
               \/ GetNeighbourNodes \/ AddListener \/ Restart \/ UNCHANGED vars
        PROVE  [Table!Next]_(Table!tableVars)
    <3>1. /\ relation' = relation /\ (old' = old \/ old' = old \cup {Me})
          /\ expired' = expired \/ expired' = {}
      BY <2>2 DEF Start, CallStore, CallUpdate, DetectedExternalAddress, RegisterService,
             DeregisterService, UpdateSelf, Begin, GetNeighbourNodes, AddListener, Restart, tables, vars
    <3> QED
      BY <3>1, TableOther
  <2>3. ASSUME ExpireOldNodes PROVE [Table!Next]_(Table!tableVars)
    BY <1>2, <2>3, TableCondemn DEF Table!Next
  <2> QED
    BY <1>2, <2>1, <2>2, <2>3, TableTick DEF Next
<1>3. DbInv /\ [Next]_vars => [Table!Next]_(Table!tableVars)
  BY <1>2
<1> QED
  BY <1>1, <1>3, DbInvariance, PTL DEF Spec, ImplementsNodeTable, Table!Spec

-----------------------------------------------------------------------------
(* Calls that are alone.                                                   *)

LEMMA AloneInit == Init => AloneInv
BY DEF Init, AloneInv

(***************************************************************************)
(* A step of a thread leaves only its own call alone.                      *)
(***************************************************************************)
LEMMA OwnStep ==
    ASSUME AloneInv, NEW t \in Threads, Disturb(t) \/ EndCall,
           alone[t] => CallProgress(t)' /\ CallResult(t)'
    PROVE  AloneInv'
<1>1. ASSUME NEW u \in Threads, alone'[u] PROVE u = t /\ alone[t]
  BY <1>1 DEF Disturb, EndCall
<1> QED
  BY <1>1 DEF AloneInv

(***************************************************************************)
(* A new call starts from the tables as they are.                          *)
(***************************************************************************)
LEMMA AloneBegin ==
    ASSUME DbInv, AloneInv, NEW t \in Threads, NEW c \in Calls, NEW label \in {"insert", "update"},
           Begin(t, c, label),
           IF label = "insert" THEN c.op = "store" ELSE c.op # "store",
           c.rel = "Self" => self \ c.services \subseteq c.svc
    PROVE  AloneInv'
<1>1. /\ pc' = [pc EXCEPT ![t] = label] /\ call' = [call EXCEPT ![t] = c]
      /\ alone' = [u \in Threads |-> u = t /\ \A w \in Threads \ {t} : pc[w] = "idle"]
      /\ self' = self
  BY DEF Begin, Goto
<1>2. ASSUME NEW u \in Threads, alone'[u] PROVE u = t /\ \A w \in Threads \ {t} : pc[w] = "idle"
  BY <1>1, <1>2
<1>3. ASSUME \A w \in Threads \ {t} : pc[w] = "idle" PROVE CallProgress(t)' /\ CallResult(t)'
  <2>1. pc'[t] = label /\ call'[t] = c /\ \A w \in Threads \ {t} : pc'[w] = "idle"
    BY <1>1, <1>3 DEF DbInv, TypeOK
  <2> QED
    BY <1>1, <2>1 DEF CallProgress, CallResult, CallLabel, Label
<1> QED
  BY <1>2, <1>3 DEF AloneInv

LEMMA AloneStart ==
    ASSUME DbInv, AloneInv,
           \/ \E t \in Threads : Start(t)
           \/ \E s \in Service : RegisterService(s) \/ DeregisterService(s)
    PROVE  AloneInv'
<1> USE DbAssumption
<1>1. ASSUME NEW t \in Threads, NEW n \in NodeId \ {Me}, NEW rel \in Relation,
             NEW ss \in SUBSET Service, CallStore(t, n, rel, ss) \/ CallUpdate(t, n, rel, ss)
      PROVE  AloneInv'
  <2> DEFINE c(op) == [op |-> op, id |-> n, rel |-> rel, services |-> ss, svc |-> {}, was |-> "None"]
  <2>1. c("store") \in Calls /\ c("update") \in Calls
    BY DEF Calls
  <2>2. /\ c("store").op = "store" /\ c("update").op # "store"
        /\ c("store").rel # "Self" /\ c("update").rel # "Self"
    BY DEF Relation
  <2>3. Begin(t, c("store"), "insert") \/ Begin(t, c("update"), "update")
    BY <1>1 DEF CallStore, CallUpdate
  <2> HIDE DEF c
  <2> QED
    BY <2>1, <2>2, <2>3, AloneBegin
<1>2. ASSUME NEW t \in Threads, NEW op \in {"register", "deregister", "address"},
             NEW ss \in SUBSET Service, NEW svc \in SUBSET Service, UpdateSelf(t, op, ss, svc),
             self \ ss \subseteq svc
      PROVE  AloneInv'
  <2> DEFINE c == [op |-> op, id |-> Me, rel |-> "Self", services |-> ss, svc |-> svc, was |-> "None"]
  <2>1. c \in Calls
    BY DEF Calls
  <2>2. c.op # "store" /\ self \ c.services \subseteq c.svc
    BY <1>2
  <2>3. Begin(t, c, "update")
    BY <1>2 DEF UpdateSelf
  <2> HIDE DEF c
  <2> QED
    BY <2>1, <2>2, <2>3, AloneBegin
<1>3. self \in SUBSET Service /\ "reactor" \in Threads
  BY DEF DbInv, TypeOK
<1>4. ASSUME NEW t \in Threads, Start(t) PROVE AloneInv'
  BY <1>1, <1>2, <1>3, <1>4 DEF Start, DetectedExternalAddress
<1>5. ASSUME NEW s \in Service, RegisterService(s) \/ DeregisterService(s) PROVE AloneInv'
  <2>1. /\ self \cup {s} \in SUBSET Service /\ self \ {s} \in SUBSET Service /\ {s} \in SUBSET Service
        /\ self \ (self \cup {s}) \subseteq {s} /\ self \ (self \ {s}) \subseteq {s}
    BY <1>3
  <2> QED
    BY <1>2, <1>3, <1>5, <2>1 DEF RegisterService, DeregisterService
<1> QED
  BY <1>4, <1>5

(***************************************************************************)
(* The facts about a call that is alone, before its next step.             *)
(***************************************************************************)
LEMMA AloneCall ==
    ASSUME DbInv, AloneInv, NEW t \in Threads, alone[t]
    PROVE  /\ CallProgress(t) /\ CallResult(t) /\ call[t] \in Calls /\ call[t].id \in NodeId
           /\ call[t].rel \in Relation \cup {"Self"} /\ call[t].services \in SUBSET Service
<1>1. CallProgress(t) /\ CallResult(t)
  BY DEF AloneInv
<1>2. call[t] \in Calls
  BY <1>1 DEF CallProgress, DbInv, CallsWellFormed
<1> QED
  BY <1>1, <1>2 DEF Calls

(***************************************************************************)
(* The other threads stay idle while the thread goes to another step.      *)
(***************************************************************************)
LEMMA AloneGoto ==
    ASSUME DbInv, NEW t \in Threads, CallProgress(t), NEW l \in CallLabel, Goto(t, l)
    PROVE  /\ pc'[t] = l /\ pc'[t] \in CallLabel
           /\ \A w \in Threads \ {t} : pc'[w] = "idle"
BY DEF DbInv, TypeOK, CallProgress, Goto

LEMMA AloneInsert ==
    ASSUME DbInv, AloneInv, NEW t \in Threads, Insert(t) PROVE AloneInv'
<1>1. ASSUME alone[t] PROVE CallProgress(t)' /\ CallResult(t)'
  <2>1. /\ CallProgress(t) /\ call[t].id \in NodeId /\ pc[t] = "insert"
        /\ call'[t] = call[t] /\ services' = services /\ self' = self
    BY <1>1, AloneCall DEF Insert
  <2>2. CASE relation[call[t].id] = "None"
    <3>1. relation'[call[t].id] = call[t].rel
      BY <2>1, <2>2 DEF Insert, DbInv, TypeOK
    <3>2. call[t].rel # "Self"
      BY <2>1, <2>2 DEF DbInv, CallsWellFormed, SelfRowOnly
    <3>3. "clear" \in CallLabel /\ Goto(t, "clear")
      BY <2>2 DEF Insert, CallLabel, Label
    <3>4. pc'[t] = "clear" /\ pc'[t] \in CallLabel /\ \A w \in Threads \ {t} : pc'[w] = "idle"
      BY <2>1, <3>3, AloneGoto
    <3> QED
      BY <2>1, <3>1, <3>2, <3>4 DEF CallProgress, CallResult
  <2>3. CASE relation[call[t].id] # "None"
    <3>1. relation' = relation /\ "threw" \in CallLabel /\ Goto(t, "threw")
      BY <2>3 DEF Insert, CallLabel, Label
    <3>2. pc'[t] = "threw" /\ pc'[t] \in CallLabel /\ \A w \in Threads \ {t} : pc'[w] = "idle"
      BY <2>1, <3>1, AloneGoto
    <3> QED
      BY <2>1, <2>3, <3>1, <3>2 DEF CallProgress, CallResult
  <2> QED
    BY <2>2, <2>3
<1> QED
  BY <1>1, OwnStep DEF Insert

LEMMA AloneUpdate ==
    ASSUME DbInv, AloneInv, NEW t \in Threads, Update(t) PROVE AloneInv'
<1>1. ASSUME alone[t] PROVE CallProgress(t)' /\ CallResult(t)'
  <2>1. /\ CallProgress(t) /\ call[t].id \in NodeId /\ call[t].rel \in Relation \cup {"Self"}
        /\ pc[t] = "update" /\ call'[t] = call[t] /\ services' = services /\ self' = self
    BY <1>1, AloneCall DEF Update
  <2>2. "check" \in CallLabel /\ Goto(t, "check")
    BY DEF Update, CallLabel, Label
  <2>3. pc'[t] = "check" /\ pc'[t] \in CallLabel /\ \A w \in Threads \ {t} : pc'[w] = "idle"
    BY <2>1, <2>2, AloneGoto
  <2>4. /\ changes' = 1 <=> relation'[call[t].id] # "None"
        /\ relation'[call[t].id] \in {call[t].rel, "None"}
    <3>1. CASE relation[call[t].id] # "None"
      <4>1. changes' = 1 /\ relation'[call[t].id] = call[t].rel
        BY <2>1, <3>1 DEF Update, DbInv, TypeOK
      <4> QED
        BY <2>1, <4>1 DEF Relation
    <3>2. CASE relation[call[t].id] = "None"
      BY <3>2 DEF Update
    <3> QED
      BY <3>1, <3>2
  <2> QED
    BY <2>1, <2>3, <2>4 DEF CallProgress, CallResult
<1> QED
  BY <1>1, OwnStep DEF Update

LEMMA AloneCheckUpdated ==
    ASSUME DbInv, AloneInv, NEW t \in Threads, CheckUpdated(t) PROVE AloneInv'
<1>1. ASSUME alone[t] PROVE CallProgress(t)' /\ CallResult(t)'
  <2>1. /\ CallProgress(t) /\ pc[t] = "check"
        /\ call'[t] = call[t] /\ relation' = relation /\ services' = services /\ self' = self
    BY <1>1, AloneCall DEF CheckUpdated, tables
  <2>2. /\ changes = 1 => relation[call[t].id] = call[t].rel
        /\ changes # 1 => relation[call[t].id] = "None" /\ call[t].op # "store"
    BY <2>1 DEF CallProgress
  <2>3. "threw" \in CallLabel /\ "clear" \in CallLabel
    BY DEF CallLabel, Label
  <2>4. CASE changes # 1
    <3>1. pc'[t] = "threw" /\ pc'[t] \in CallLabel /\ \A w \in Threads \ {t} : pc'[w] = "idle"
      BY <2>1, <2>3, <2>4, AloneGoto DEF CheckUpdated
    <3> QED
      BY <2>1, <2>2, <2>4, <3>1 DEF CallProgress, CallResult
  <2>5. CASE changes = 1
    <3>1. pc'[t] = "clear" /\ pc'[t] \in CallLabel /\ \A w \in Threads \ {t} : pc'[w] = "idle"
      BY <2>1, <2>3, <2>5, AloneGoto DEF CheckUpdated
    <3> QED
      BY <2>1, <2>2, <2>5, <3>1 DEF CallProgress, CallResult
  <2> QED
    BY <2>4, <2>5
<1> QED
  BY <1>1, OwnStep DEF CheckUpdated

LEMMA AloneClearServices ==
    ASSUME DbInv, AloneInv, NEW t \in Threads, ClearServices(t) PROVE AloneInv'
<1>1. ASSUME alone[t] PROVE CallProgress(t)' /\ CallResult(t)'
  <2>1. /\ CallProgress(t) /\ call[t].id \in NodeId /\ pc[t] = "clear"
        /\ call'[t] = call[t] /\ relation' = relation /\ self' = self
    BY <1>1, AloneCall DEF ClearServices
  <2>2. "services" \in CallLabel /\ Goto(t, "services")
    BY DEF ClearServices, CallLabel, Label
  <2>3. pc'[t] = "services" /\ pc'[t] \in CallLabel /\ \A w \in Threads \ {t} : pc'[w] = "idle"
    BY <2>1, <2>2, AloneGoto
  <2>4. services'[call[t].id] = {} /\ pending'[t] = call[t].services
    BY <2>1 DEF ClearServices, DbInv, TypeOK
  <2> QED
    BY <2>1, <2>3, <2>4 DEF CallProgress, CallResult
<1> QED
  BY <1>1, OwnStep DEF ClearServices

LEMMA AloneInsertService ==
    ASSUME DbInv, AloneInv, NEW t \in Threads, InsertService(t) PROVE AloneInv'
<1>1. ASSUME alone[t] PROVE CallProgress(t)' /\ CallResult(t)'
  <2>1. /\ CallProgress(t) /\ call[t].id \in NodeId /\ pc[t] = "services"
        /\ call'[t] = call[t] /\ relation' = relation /\ self' = self
    BY <1>1, AloneCall DEF InsertService
  <2>2. services[call[t].id] \cap pending[t] = {}
    BY <2>1 DEF CallProgress
  <2>3. PICK s \in pending[t] :
           /\ services' = [services EXCEPT ![call[t].id] = @ \cup {s}]
           /\ pending' = [pending EXCEPT ![t] = @ \ {s}]
           /\ UNCHANGED pc
    BY <2>2 DEF InsertService
  <2>4. /\ services'[call[t].id] = services[call[t].id] \cup {s}
        /\ pending'[t] = pending[t] \ {s}
    BY <2>1, <2>3 DEF DbInv, TypeOK
  <2>5. /\ services'[call[t].id] \cup pending'[t] = services[call[t].id] \cup pending[t]
        /\ services'[call[t].id] \cap pending'[t] = {}
    BY <2>2, <2>4
  <2> QED
    BY <2>1, <2>3, <2>5 DEF CallProgress, CallResult
<1> QED
  BY <1>1, OwnStep DEF InsertService

LEMMA AloneServicesStored ==
    ASSUME DbInv, AloneInv, NEW t \in Threads, ServicesStored(t) PROVE AloneInv'
<1>1. ASSUME alone[t] PROVE CallProgress(t)' /\ CallResult(t)'
  <2>1. /\ CallProgress(t) /\ pc[t] = "services" /\ pending[t] = {}
        /\ call'[t] = call[t] /\ relation' = relation /\ services' = services
        /\ call[t].rel = "Self" => self' = call[t].services
    BY <1>1, AloneCall DEF ServicesStored, tables
  <2>2. "notify" \in CallLabel /\ Goto(t, "notify")
    BY DEF ServicesStored, CallLabel, Label
  <2>3. pc'[t] = "notify" /\ pc'[t] \in CallLabel /\ \A w \in Threads \ {t} : pc'[w] = "idle"
    BY <2>1, <2>2, AloneGoto
  <2>4. services[call[t].id] = call[t].services /\ relation[call[t].id] = call[t].rel
    BY <2>1 DEF CallProgress
  <2> QED
    BY <2>1, <2>3, <2>4 DEF CallProgress, CallResult
<1> QED
  BY <1>1, OwnStep DEF ServicesStored

LEMMA AloneNotifyStored ==
    ASSUME DbInv, AloneInv, NEW t \in Threads, NotifyStored(t) PROVE AloneInv'
<1>1. ASSUME alone[t] PROVE CallProgress(t)' /\ CallResult(t)'
  <2>1. /\ CallProgress(t) /\ pc[t] = "notify"
        /\ call'[t] = call[t] /\ relation' = relation /\ services' = services /\ self' = self
        /\ listening /\ call[t].rel = "Neighbour" => call[t].id \in view'
    BY <1>1, AloneCall DEF NotifyStored, tables
  <2>2. listening' = listening
    BY DEF NotifyStored
  <2>3. "ok" \in CallLabel /\ Goto(t, "ok")
    BY DEF NotifyStored, CallLabel, Label
  <2>4. pc'[t] = "ok" /\ pc'[t] \in CallLabel /\ \A w \in Threads \ {t} : pc'[w] = "idle"
    BY <2>1, <2>3, AloneGoto
  <2> QED
    BY <2>1, <2>2, <2>4 DEF CallProgress, CallResult
<1> QED
  BY <1>1, OwnStep DEF NotifyStored

(***************************************************************************)
(* The removals of a round.                                                *)
(***************************************************************************)
LEMMA AloneRemove ==
    ASSUME DbInv, AloneInv, NEW t \in Threads, Remove(t) PROVE AloneInv'
<1>1. ASSUME NEW u \in Threads, alone'[u] PROVE u = t /\ \A w \in Threads \ {t} : pc[w] = "idle"
  BY <1>1 DEF Remove
<1>2. Goto(t, "drop")
  <2>1. \A e \in expired : relation[e.id] \notin {"None", "Self"}
    BY DEF DbInv, RemovalsFindTheirRow, Relation
  <2> QED
    BY <2>1 DEF Remove
<1>3. ASSUME \A w \in Threads \ {t} : pc[w] = "idle" PROVE CallProgress(t)' /\ CallResult(t)'
  <2>1. pc'[t] = "drop" /\ \A w \in Threads \ {t} : pc'[w] = "idle"
    BY <1>2, <1>3 DEF Goto, DbInv, TypeOK
  <2> QED
    BY <2>1 DEF CallProgress, CallResult, CallLabel, Label
<1> QED
  BY <1>1, <1>3 DEF AloneInv

LEMMA AloneRemoveServices ==
    ASSUME DbInv, AloneInv, NEW t \in Threads, RemoveServices(t) PROVE AloneInv'
<1>1. ASSUME alone[t] PROVE CallProgress(t)' /\ CallResult(t)'
  <2>1. CallProgress(t) /\ call[t].id \in NodeId /\ call'[t] = call[t]
    BY <1>1, AloneCall DEF RemoveServices
  <2>2. "delete" \in CallLabel /\ Goto(t, "delete")
    BY DEF RemoveServices, CallLabel, Label
  <2>3. pc'[t] = "delete" /\ pc'[t] \in CallLabel /\ \A w \in Threads \ {t} : pc'[w] = "idle"
    BY <2>1, <2>2, AloneGoto
  <2>4. services'[call[t].id] = {}
    BY <2>1 DEF RemoveServices, DbInv, TypeOK
  <2> QED
    BY <2>1, <2>3, <2>4 DEF CallProgress, CallResult
<1> QED
  BY <1>1, OwnStep DEF RemoveServices

LEMMA AloneDelete ==
    ASSUME DbInv, AloneInv, NEW t \in Threads, Delete(t) PROVE AloneInv'
<1>1. ASSUME alone[t] PROVE CallProgress(t)' /\ CallResult(t)'
  <2>1. /\ CallProgress(t) /\ call[t].id \in NodeId /\ pc[t] = "delete"
        /\ call'[t] = call[t] /\ services' = services
    BY <1>1, AloneCall DEF Delete
  <2>2. "checkDelete" \in CallLabel /\ Goto(t, "checkDelete")
    BY DEF Delete, CallLabel, Label
  <2>3. pc'[t] = "checkDelete" /\ pc'[t] \in CallLabel /\ \A w \in Threads \ {t} : pc'[w] = "idle"
    BY <2>1, <2>2, AloneGoto
  <2>4. relation[call[t].id] # "None"
    BY <2>1 DEF DbInv, RemovalsFindTheirRow, Relation
  <2>5. changes' = 1 /\ relation'[call[t].id] = "None"
    BY <2>1, <2>4 DEF Delete, DbInv, TypeOK
  <2>6. services[call[t].id] = {}
    BY <2>1 DEF CallProgress
  <2> QED
    BY <2>1, <2>3, <2>5, <2>6 DEF CallProgress, CallResult
<1> QED
  BY <1>1, OwnStep DEF Delete

LEMMA AloneCheckDeleted ==
    ASSUME DbInv, AloneInv, NEW t \in Threads, CheckDeleted(t) PROVE AloneInv'
<1>1. ASSUME alone[t] PROVE CallProgress(t)' /\ CallResult(t)'
  <2>1. /\ CallProgress(t) /\ pc[t] = "checkDelete" /\ relation' = relation /\ services' = services
    BY <1>1, AloneCall DEF CheckDeleted, tables
  <2>2. changes = 1
    BY <2>1 DEF CallProgress
  <2>3. "notifyRemoved" \in CallLabel /\ Goto(t, "notifyRemoved") /\ call'[t] = call[t]
    BY <2>2 DEF CheckDeleted, CallLabel, Label
  <2>4. pc'[t] = "notifyRemoved" /\ pc'[t] \in CallLabel /\ \A w \in Threads \ {t} : pc'[w] = "idle"
    BY <2>1, <2>3, AloneGoto
  <2> QED
    BY <2>1, <2>3, <2>4 DEF CallProgress, CallResult
<1> QED
  BY <1>1, OwnStep DEF CheckDeleted

LEMMA AloneNotifyRemoved ==
    ASSUME DbInv, AloneInv, NEW t \in Threads, NotifyRemoved(t) PROVE AloneInv'
<1>1. ASSUME alone[t] PROVE CallProgress(t)' /\ CallResult(t)'
  <2>1. /\ CallProgress(t) /\ pc[t] = "notifyRemoved" /\ relation' = relation /\ services' = services
        /\ call'[t] = call[t]
        /\ listening /\ call[t].rel = "Neighbour" => call[t].id \notin view'
    BY <1>1, AloneCall DEF NotifyRemoved, tables
  <2>2. listening' = listening
    BY DEF NotifyRemoved
  <2>3. "notifyExpired" \in CallLabel /\ Goto(t, "notifyExpired")
    BY DEF NotifyRemoved, CallLabel, Label
  <2>4. pc'[t] = "notifyExpired" /\ pc'[t] \in CallLabel /\ \A w \in Threads \ {t} : pc'[w] = "idle"
    BY <2>1, <2>3, AloneGoto
  <2> QED
    BY <2>1, <2>2, <2>4 DEF CallProgress, CallResult
<1> QED
  BY <1>1, OwnStep DEF NotifyRemoved

(***************************************************************************)
(* The steps after which no call is alone, and those that are no step of a *)
(* thread.                                                                 *)
(***************************************************************************)
LEMMA AloneEnds == ASSUME alone' = [u \in Threads |-> FALSE] PROVE AloneInv'
BY DEF AloneInv

LEMMA AloneOther == ASSUME AloneInv, Tick \/ UNCHANGED vars PROVE AloneInv'
<1>1. UNCHANGED <<relation, services, changes, self, pc, call, pending, view>>
  BY DEF Tick, vars, local, listener
<1>2. listening' = listening /\ alone' = alone
  BY DEF Tick, vars, listener
<1>3. ASSUME NEW t \in Threads PROVE CallProgress(t)' = CallProgress(t) /\ CallResult(t)' = CallResult(t)
  BY <1>1, <1>2 DEF CallProgress, CallResult
<1> QED
  BY <1>2, <1>3 DEF AloneInv

LEMMA AloneStep == DbInv /\ AloneInv /\ [Next]_vars => AloneInv'
<1> SUFFICES ASSUME DbInv, AloneInv, [Next]_vars PROVE AloneInv'
  OBVIOUS
<1>1. ASSUME NEW t \in Threads, Step(t) PROVE AloneInv'
  <2>1. CASE Return(t) \/ NotifyExpired(t) \/ ExpireDone(t)
    BY <2>1, AloneEnds DEF Return, NotifyExpired, ExpireDone, EndCall
  <2> QED
    BY <1>1, <2>1, AloneInsert, AloneUpdate, AloneCheckUpdated, AloneClearServices, AloneInsertService,
       AloneServicesStored, AloneNotifyStored, AloneRemove, AloneRemoveServices, AloneDelete,
       AloneCheckDeleted, AloneNotifyRemoved DEF Step
<1>2. CASE ExpireOldNodes \/ GetNeighbourNodes \/ AddListener \/ Restart
  BY <1>2, AloneEnds DEF ExpireOldNodes, GetNeighbourNodes, AddListener, Restart, EndCall
<1> QED
  BY <1>1, <1>2, AloneStart, AloneOther DEF Next

-----------------------------------------------------------------------------

(***************************************************************************)
(* What a call that runs alone has done at each of its steps, with any     *)
(* number of nodes, services and threads.                                  *)
(***************************************************************************)
THEOREM AloneInvariance == Spec => []AloneInv
  BY DbInvariance, AloneInit, AloneStep, PTL DEF Spec

(***************************************************************************)
(* Store, Update and Remove keep their contract for a caller whose call no *)
(* other thread overlaps, whatever calls, rounds and restarts went before. *)
(***************************************************************************)
THEOREM UncontendedCalls == Spec => []UncontendedCall
<1>1. AloneInv => UncontendedCall
  BY DEF AloneInv, UncontendedCall
<1> QED
  BY <1>1, AloneInvariance, PTL

(***************************************************************************)
(* Which steps write the cached entry of this node.                        *)
(***************************************************************************)
LEMMA SelfWritten ==
    ASSUME DbInv, [Next]_vars
    PROVE  \/ self' = self
           \/ restarts' # restarts
           \/ \E t \in Threads : /\ pc[t] = "services" /\ call[t].rel = "Self"
                                  /\ self' = call[t].services
<1>1. ASSUME NEW t \in Threads, Step(t)
      PROVE  self' = self \/ (pc[t] = "services" /\ call[t].rel = "Self" /\ self' = call[t].services)
  BY <1>1 DEF Step, Insert, Update, CheckUpdated, ClearServices, InsertService, ServicesStored, NotifyStored,
              Return, Remove, RemoveServices, Delete, CheckDeleted, NotifyRemoved, NotifyExpired, ExpireDone
<1>2. Restart => restarts' # restarts
  BY DbAssumption DEF Restart, DbInv, TypeOK
<1> QED
  BY <1>1, <1>2 DEF Next, Start, CallStore, CallUpdate, DetectedExternalAddress, RegisterService,
                    DeregisterService, UpdateSelf, Begin, ExpireOldNodes, GetNeighbourNodes, AddListener,
                    Tick, vars

(***************************************************************************)
(* A write of our own entry that nothing overlapped takes away only what   *)
(* it was asked to: a registered service gets lost only in a race.         *)
(***************************************************************************)
THEOREM ServicesLostOnlyByRace == Spec => ServiceLostByRace
<1> DEFINE Lost == \A s \in registered : s \in self /\ s \notin self' =>
                      \/ restarts' # restarts
                      \/ \E t \in Threads : pc[t] = "services" /\ call[t].rel = "Self"
                                             /\ (~alone[t] \/ s \in call[t].svc)
<1>1. ASSUME DbInv, AloneInv, [Next]_vars PROVE Lost
  <2>1. ASSUME NEW t \in Threads, pc[t] = "services", call[t].rel = "Self", alone[t]
        PROVE  self \ call[t].services \subseteq call[t].svc
    BY <1>1, <2>1 DEF AloneInv, CallProgress
  <2> QED
    BY <1>1, <2>1, SelfWritten
<1>2. DbInv /\ AloneInv /\ [Next]_vars => [Lost]_vars
  BY <1>1
<1> HIDE DEF Lost
<1>3. Spec => [][Lost]_vars
  BY <1>2, DbInvariance, AloneInvariance, PTL DEF Spec
<1> QED
  BY <1>3 DEF Lost, ServiceLostByRace

=============================================================================
