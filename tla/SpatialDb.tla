------------------------------- MODULE SpatialDb -------------------------------
(***************************************************************************)
(* The class SpatiaLiteDatabase (spatialdb.cpp), statement by statement.   *)
(* All threads share one SQLite connection, opened with a full mutex: a    *)
(* single statement is atomic, the methods made of several statements are  *)
(* not, and sqlite3_changes belongs to the connection, not to the thread.  *)
(*                                                                         *)
(* An entry is reduced to its relation and its services.  One local        *)
(* service that has asked for the neighbours, and for their changes,       *)
(* stands for the listeners.                                               *)
(***************************************************************************)
EXTENDS Integers, FiniteSets

CONSTANTS
    NodeId,         \* node identities, ours included
    Me,             \* our own identity
    Service,        \* service types
    Threads,        \* "reactor", "maintenance" and the other writers
    MaxRestarts     \* bound on the restarts of the process

ASSUME DbAssumption ==
    /\ Me \in NodeId
    /\ IsFiniteSet(Service)
    /\ {"reactor", "maintenance"} \subseteq Threads
    /\ MaxRestarts \in Nat

Relation == {"Colleague", "Neighbour"}

(***************************************************************************)
(* The call a thread has under way; svc is the service being registered or *)
(* deregistered, was the relation ExpireOldNodes had read of the row it    *)
(* removes.                                                                *)
(***************************************************************************)
Calls == [op       : {"store", "update", "register", "deregister", "address", "remove"},
          id       : NodeId,
          rel      : Relation \cup {"Self"},
          services : SUBSET Service,
          svc      : SUBSET Service,
          was      : Relation \cup {"None"}]

NoCall == [op |-> "none"]

Label == {"idle", "insert", "update", "check", "clear", "services", "notify", "subscribe",
          "expire", "drop", "delete", "checkDelete", "notifyRemoved", "notifyExpired",
          "ok", "threw"}

VARIABLES
    relation,   \* table nodes: id -> relationType, "None" without a row
    old,        \* the rows whose expiresAt has passed
    services,   \* table services: id -> the service types stored for it
    changes,    \* sqlite3_changes of the connection
    self,       \* the services of the cached _myNodeInfo
    pc, call,   \* per thread, its step and its call
    pending,    \* per thread, the services it has still to insert
    expired,    \* the entries ExpireOldNodes has still to remove
    listening,  \* whether the local service's listener is registered
    view,       \* the neighbours the local service has been told of
    restarts,
    alone,      \* history: no other thread was active during the thread's call
    hit,        \* history: the thread's last UPDATE or DELETE met its row
    registered  \* history: the services registered and not deregistered since

tables == <<relation, old, services, changes>>
local == <<pc, call, pending>>
listener == <<listening, view>>
history == <<hit, registered>>
vars == <<relation, old, services, changes, self, pc, call, pending, expired, listening, view,
          restarts, alone, hit, registered>>

Rows == {n \in NodeId : relation[n] # "None"}

Neighbours == {n \in NodeId : relation[n] = "Neighbour"}

-----------------------------------------------------------------------------

Goto(t, label) == pc' = [pc EXCEPT ![t] = label]

(***************************************************************************)
(* Every step of a thread ends the solitude of the other threads' calls.   *)
(***************************************************************************)
Disturb(t) == alone' = [u \in Threads |-> u = t /\ alone[t]]

EndCall == alone' = [u \in Threads |-> FALSE]

Begin(t, c, label) ==
    /\ pc[t] = "idle"
    /\ Goto(t, label)
    /\ call' = [call EXCEPT ![t] = c]
    /\ alone' = [u \in Threads |-> u = t /\ \A w \in Threads \ {t} : pc[w] = "idle"]
    /\ UNCHANGED <<tables, self, pending, expired, listener, restarts, history>>

(***************************************************************************)
(* SafeStoreNode's calls.  It chose between them by an earlier Load, so    *)
(* either may meet a row or none.                                          *)
(***************************************************************************)
CallStore(t, n, rel, ss) ==
    Begin(t, [op |-> "store", id |-> n, rel |-> rel, services |-> ss, svc |-> {}, was |-> "None"],
          "insert")

CallUpdate(t, n, rel, ss) ==
    Begin(t, [op |-> "update", id |-> n, rel |-> rel, services |-> ss, svc |-> {}, was |-> "None"],
          "update")

(***************************************************************************)
(* Updates of our own entry start from the cached one: the reactor serves  *)
(* RegisterService and DeregisterService, the threads that ask other nodes *)
(* call DetectedExternalAddress.                                           *)
(***************************************************************************)
UpdateSelf(t, op, ss, changed) ==
    Begin(t, [op |-> op, id |-> Me, rel |-> "Self", services |-> ss, svc |-> changed, was |-> "None"],
          "update")

RegisterService(s) == UpdateSelf("reactor", "register", self \cup {s}, {s})

DeregisterService(s) == UpdateSelf("reactor", "deregister", self \ {s}, {s})

(***************************************************************************)
(* Faulty variant: the entry is taken from the configuration, without      *)
(* services.                                                               *)
(***************************************************************************)
DetectedExternalAddressOfConfig(t) == t # "reactor" /\ UpdateSelf(t, "address", {}, {})

DetectedExternalAddress(t) == t # "reactor" /\ UpdateSelf(t, "address", self, {})

Insert(t) ==
    /\ pc[t] = "insert"
    /\ LET c == call[t]
       IN IF relation[c.id] = "None"
          THEN /\ relation' = [relation EXCEPT ![c.id] = c.rel]
               /\ old' = old \ {c.id}
               /\ changes' = 1
               /\ Goto(t, "clear")
          ELSE /\ Goto(t, "threw")
               /\ UNCHANGED <<relation, old, changes>>
    /\ Disturb(t)
    /\ UNCHANGED <<services, self, call, pending, expired, listener, restarts, history>>

(***************************************************************************)
(* Faulty variant: the UPDATE leaves expiresAt as it was.                  *)
(***************************************************************************)
UpdateWithoutExpiry(t) ==
    /\ pc[t] = "update"
    /\ LET c == call[t]
       IN IF relation[c.id] # "None"
          THEN /\ relation' = [relation EXCEPT ![c.id] = c.rel]
               /\ changes' = 1
               /\ hit' = [hit EXCEPT ![t] = TRUE]
          ELSE /\ changes' = 0
               /\ hit' = [hit EXCEPT ![t] = FALSE]
               /\ UNCHANGED relation
    /\ Goto(t, "check")
    /\ Disturb(t)
    /\ UNCHANGED <<old, services, self, call, pending, expired, listener, restarts, registered>>

Update(t) ==
    /\ pc[t] = "update"
    /\ LET c == call[t]
       IN IF relation[c.id] # "None"
          THEN /\ relation' = [relation EXCEPT ![c.id] = c.rel]
               /\ old' = old \ {c.id}
               /\ changes' = 1
               /\ hit' = [hit EXCEPT ![t] = TRUE]
          ELSE /\ changes' = 0
               /\ hit' = [hit EXCEPT ![t] = FALSE]
               /\ UNCHANGED <<relation, old>>
    /\ Goto(t, "check")
    /\ Disturb(t)
    /\ UNCHANGED <<services, self, call, pending, expired, listener, restarts, registered>>

CheckUpdated(t) ==
    /\ pc[t] = "check"
    /\ Goto(t, IF changes # 1 THEN "threw" ELSE "clear")
    /\ hit' = [hit EXCEPT ![t] = FALSE]
    /\ Disturb(t)
    /\ UNCHANGED <<tables, self, call, pending, expired, listener, restarts, registered>>

(***************************************************************************)
(* Faulty variant: the services are inserted without removing the old.     *)
(***************************************************************************)
ClearServicesNot(t) ==
    /\ pc[t] = "clear"
    /\ pending' = [pending EXCEPT ![t] = call[t].services]
    /\ Goto(t, "services")
    /\ Disturb(t)
    /\ UNCHANGED <<tables, self, call, expired, listener, restarts, history>>

(***************************************************************************)
(* StoreServices: RemoveServices, then one INSERT per service.             *)
(***************************************************************************)
ClearServices(t) ==
    /\ pc[t] = "clear"
    /\ LET id == call[t].id
       IN /\ changes' = Cardinality(services[id])
          /\ services' = [services EXCEPT ![id] = {}]
    /\ pending' = [pending EXCEPT ![t] = call[t].services]
    /\ Goto(t, "services")
    /\ Disturb(t)
    /\ UNCHANGED <<relation, old, self, call, expired, listener, restarts, history>>

InsertService(t) ==
    /\ pc[t] = "services"
    /\ \E s \in pending[t] :
          IF s \in services[call[t].id]
          THEN /\ Goto(t, "threw")
               /\ UNCHANGED <<services, changes, pending>>
          ELSE /\ services' = [services EXCEPT ![call[t].id] = @ \cup {s}]
               /\ changes' = 1
               /\ pending' = [pending EXCEPT ![t] = @ \ {s}]
               /\ UNCHANGED pc
    /\ Disturb(t)
    /\ UNCHANGED <<relation, old, self, call, expired, listener, restarts, history>>

ServicesStored(t) ==
    /\ pc[t] = "services" /\ pending[t] = {}
    /\ self' = IF call[t].rel = "Self" THEN call[t].services ELSE self
    /\ Goto(t, "notify")
    /\ Disturb(t)
    /\ UNCHANGED <<tables, call, pending, expired, listener, restarts, history>>

(***************************************************************************)
(* AddedNode and UpdatedNode tell the local service of neighbours only.    *)
(***************************************************************************)
NotifyStored(t) ==
    /\ pc[t] = "notify"
    /\ view' = IF listening /\ call[t].rel = "Neighbour" THEN view \cup {call[t].id} ELSE view
    /\ Goto(t, "ok")
    /\ Disturb(t)
    /\ UNCHANGED <<tables, self, call, pending, expired, listening, restarts, history>>

Return(t) ==
    /\ pc[t] \in {"ok", "threw"}
    /\ registered' = CASE pc[t] = "ok" /\ call[t].op = "register" -> registered \cup call[t].svc
                       [] pc[t] = "ok" /\ call[t].op = "deregister" -> registered \ call[t].svc
                       [] OTHER -> registered
    /\ Goto(t, "idle")
    /\ call' = [call EXCEPT ![t] = NoCall]
    /\ pending' = [pending EXCEPT ![t] = {}]
    /\ EndCall
    /\ UNCHANGED <<tables, self, expired, listener, restarts, hit>>

-----------------------------------------------------------------------------
(* ExpireOldNodes and Remove.                                              *)

(***************************************************************************)
(* Faulty variant: the query does not leave out our own row.               *)
(***************************************************************************)
ExpireOldNodesAll ==
    /\ pc["maintenance"] = "idle"
    /\ expired' = {[id |-> n, rel |-> relation[n]] : n \in Rows \cap old}
    /\ Goto("maintenance", "expire")
    /\ EndCall
    /\ UNCHANGED <<tables, self, call, pending, listener, restarts, history>>

ExpireOldNodes ==
    /\ pc["maintenance"] = "idle"
    /\ expired' = {[id |-> n, rel |-> relation[n]] :
                      n \in {m \in Rows : m \in old /\ relation[m] # "Self"}}
    /\ Goto("maintenance", "expire")
    /\ EndCall
    /\ UNCHANGED <<tables, self, call, pending, listener, restarts, history>>

(***************************************************************************)
(* An exception in Remove leaves the loop of ExpireOldNodes.               *)
(***************************************************************************)
AbortRound(t) ==
    /\ Goto(t, "idle")
    /\ expired' = {}
    /\ call' = [call EXCEPT ![t] = NoCall]

Remove(t) ==
    /\ pc[t] = "expire"
    /\ \E e \in expired :
          IF relation[e.id] \in {"None", "Self"}
          THEN AbortRound(t)
          ELSE /\ call' = [call EXCEPT ![t] = [op |-> "remove", id |-> e.id, rel |-> relation[e.id],
                                               services |-> {}, svc |-> {}, was |-> e.rel]]
               /\ Goto(t, "drop")
               /\ UNCHANGED expired
    /\ alone' = [u \in Threads |-> u = t /\ \A w \in Threads \ {t} : pc[w] = "idle"]
    /\ UNCHANGED <<tables, self, pending, listener, restarts, history>>

RemoveServices(t) ==
    /\ pc[t] = "drop"
    /\ changes' = Cardinality(services[call[t].id])
    /\ services' = [services EXCEPT ![call[t].id] = {}]
    /\ Goto(t, "delete")
    /\ Disturb(t)
    /\ UNCHANGED <<relation, old, self, call, pending, expired, listener, restarts, history>>

(***************************************************************************)
(* Faulty variant: the loop comes back to the entry it has removed.        *)
(***************************************************************************)
DeleteAgain(t) ==
    /\ pc[t] = "delete"
    /\ LET id == call[t].id
       IN /\ changes' = IF relation[id] = "None" THEN 0 ELSE 1
          /\ hit' = [hit EXCEPT ![t] = relation[id] # "None"]
          /\ relation' = [relation EXCEPT ![id] = "None"]
          /\ old' = old \ {id}
    /\ Goto(t, "checkDelete")
    /\ Disturb(t)
    /\ UNCHANGED <<services, self, call, pending, expired, listener, restarts, registered>>

Delete(t) ==
    /\ pc[t] = "delete"
    /\ LET id == call[t].id
       IN /\ changes' = IF relation[id] = "None" THEN 0 ELSE 1
          /\ hit' = [hit EXCEPT ![t] = relation[id] # "None"]
          /\ relation' = [relation EXCEPT ![id] = "None"]
          /\ old' = old \ {id}
          /\ expired' = {e \in expired : e.id # id}
    /\ Goto(t, "checkDelete")
    /\ Disturb(t)
    /\ UNCHANGED <<services, self, call, pending, listener, restarts, registered>>

CheckDeleted(t) ==
    /\ pc[t] = "checkDelete"
    /\ \/ changes # 1 /\ AbortRound(t)
       \/ changes = 1 /\ Goto(t, "notifyRemoved") /\ UNCHANGED <<call, expired>>
    /\ hit' = [hit EXCEPT ![t] = FALSE]
    /\ Disturb(t)
    /\ UNCHANGED <<tables, self, pending, listener, restarts, registered>>

(***************************************************************************)
(* RemovedNode is called twice: by Remove with the entry it had loaded and *)
(* by ExpireOldNodes with the entry of its query.                          *)
(***************************************************************************)
NotifyRemoved(t) ==
    /\ pc[t] = "notifyRemoved"
    /\ view' = IF listening /\ call[t].rel = "Neighbour" THEN view \ {call[t].id} ELSE view
    /\ Goto(t, "notifyExpired")
    /\ Disturb(t)
    /\ UNCHANGED <<tables, self, call, pending, expired, listening, restarts, history>>

NotifyExpired(t) ==
    /\ pc[t] = "notifyExpired"
    /\ view' = IF listening /\ call[t].was = "Neighbour" THEN view \ {call[t].id} ELSE view
    /\ Goto(t, "expire")
    /\ call' = [call EXCEPT ![t] = NoCall]
    /\ EndCall
    /\ UNCHANGED <<tables, self, pending, expired, listening, restarts, history>>

ExpireDone(t) ==
    /\ pc[t] = "expire" /\ expired = {}
    /\ Goto(t, "idle")
    /\ EndCall
    /\ UNCHANGED <<tables, self, call, pending, expired, listener, restarts, history>>

-----------------------------------------------------------------------------
(* GetNeighbourNodes with the keep-alive flag: the dispatcher queries the  *)
(* neighbours first and registers the listener then.                       *)

GetNeighbourNodes ==
    /\ pc["reactor"] = "idle" /\ ~listening
    /\ view' = Neighbours
    /\ Goto("reactor", "subscribe")
    /\ EndCall
    /\ UNCHANGED <<tables, self, call, pending, expired, listening, restarts, history>>

AddListener ==
    /\ pc["reactor"] = "subscribe"
    /\ listening' = TRUE
    /\ Goto("reactor", "idle")
    /\ EndCall
    /\ UNCHANGED <<tables, self, call, pending, expired, view, restarts, history>>

-----------------------------------------------------------------------------

(***************************************************************************)
(* Another row reaches its expiresAt, our own included.                    *)
(***************************************************************************)
Tick ==
    /\ \E n \in Rows \ old : old' = old \cup {n}
    /\ UNCHANGED <<relation, services, changes, self, local, expired, listener, restarts, alone, history>>

(***************************************************************************)
(* The process ends between any two statements and starts again: the       *)
(* constructor rewrites our entry from the configuration, which holds no   *)
(* services, with an expiresAt that reads as long past.                    *)
(***************************************************************************)
Restart ==
    /\ restarts < MaxRestarts
    /\ restarts' = restarts + 1
    /\ old' = old \cup {Me}
    /\ services' = [services EXCEPT ![Me] = {}]
    /\ changes' = Cardinality(services[Me])
    /\ self' = {}
    /\ pc' = [t \in Threads |-> "idle"]
    /\ call' = [t \in Threads |-> NoCall]
    /\ pending' = [t \in Threads |-> {}]
    /\ expired' = {}
    /\ listening' = FALSE
    /\ view' = {}
    /\ alone' = [t \in Threads |-> FALSE]
    /\ hit' = [t \in Threads |-> FALSE]
    /\ registered' = {}
    /\ UNCHANGED relation

Init ==
    /\ relation = [n \in NodeId |-> IF n = Me THEN "Self" ELSE "None"]
    /\ old = {Me}
    /\ services = [n \in NodeId |-> {}]
    /\ changes = 0
    /\ self = {}
    /\ pc = [t \in Threads |-> "idle"]
    /\ call = [t \in Threads |-> NoCall]
    /\ pending = [t \in Threads |-> {}]
    /\ expired = {}
    /\ listening = FALSE
    /\ view = {}
    /\ restarts = 0
    /\ alone = [t \in Threads |-> FALSE]
    /\ hit = [t \in Threads |-> FALSE]
    /\ registered = {}

Start(t) ==
    \/ \E n \in NodeId \ {Me}, rel \in Relation, ss \in SUBSET Service :
          CallStore(t, n, rel, ss) \/ CallUpdate(t, n, rel, ss)
    \/ DetectedExternalAddress(t)

Step(t) ==
    \/ Insert(t) \/ Update(t) \/ CheckUpdated(t)
    \/ ClearServices(t) \/ InsertService(t) \/ ServicesStored(t) \/ NotifyStored(t) \/ Return(t)
    \/ Remove(t) \/ RemoveServices(t) \/ Delete(t) \/ CheckDeleted(t)
    \/ NotifyRemoved(t) \/ NotifyExpired(t) \/ ExpireDone(t)

Next ==
    \/ \E t \in Threads : Start(t) \/ Step(t)
    \/ \E s \in Service : RegisterService(s) \/ DeregisterService(s)
    \/ ExpireOldNodes
    \/ GetNeighbourNodes \/ AddListener
    \/ Tick
    \/ Restart

Spec == Init /\ [][Next]_vars

-----------------------------------------------------------------------------
(* Properties.                                                             *)

(***************************************************************************)
(* The types of the tables, the connection and the threads.                *)
(***************************************************************************)
TypeOK ==
    /\ relation \in [NodeId -> Relation \cup {"Self", "None"}]
    /\ old \in SUBSET NodeId
    /\ services \in [NodeId -> SUBSET Service]
    /\ changes \in Nat
    /\ self \in SUBSET Service
    /\ pc \in [Threads -> Label]
    /\ call \in [Threads -> Calls \cup {NoCall}]
    /\ pending \in [Threads -> SUBSET Service]
    /\ expired \in SUBSET [id : NodeId, rel : Relation]
    /\ listening \in BOOLEAN
    /\ view \in SUBSET NodeId
    /\ restarts \in 0..MaxRestarts
    /\ alone \in [Threads -> BOOLEAN]
    /\ hit \in [Threads -> BOOLEAN]
    /\ registered \in SUBSET Service

(***************************************************************************)
(* The outcomes of a call, at the steps where it is over.                  *)
(***************************************************************************)
CallResult(t) ==
    LET c == call[t]
    IN /\ pc[t] = "threw" => \/ c.op = "store" /\ relation[c.id] # "None"
                             \/ c.op # "store" /\ relation[c.id] = "None"
       /\ pc[t] = "ok" => /\ relation[c.id] = c.rel
                          /\ services[c.id] = c.services
                          /\ c.rel = "Self" => self = c.services
                          /\ listening /\ c.rel = "Neighbour" => c.id \in view
       /\ pc[t] = "notifyExpired" => /\ relation[c.id] = "None"
                                     /\ services[c.id] = {}
                                     /\ listening /\ c.rel = "Neighbour" => c.id \notin view

(***************************************************************************)
(* What the methods of ISpatialDatabase do for one caller at a time, the   *)
(* contract their tests check: Store throws on a row that exists, Update   *)
(* on one that does not, and otherwise the row, its services, our cached   *)
(* entry and the listener's view are what the caller gave.  A removal      *)
(* leaves nothing of the node behind and no neighbour in the view.         *)
(***************************************************************************)
UncontendedCall == \A t \in Threads : alone[t] => CallResult(t)

(***************************************************************************)
(* A round of expiration never stops at a row that is missing or our own:  *)
(* whatever the other threads do between its query and its statements, the *)
(* only removals are its own, and each finds its row.                      *)
(***************************************************************************)
RemovalsFindTheirRow ==
    /\ \A e \in expired : relation[e.id] \in Relation
    /\ \A t \in Threads : pc[t] \in {"drop", "delete"} => relation[call[t].id] \in Relation
    /\ \A t \in Threads : pc[t] = "checkDelete" => hit[t]

CallLabel == Label \ {"idle", "subscribe", "expire"}

RoundLabel == {"expire", "drop", "delete", "checkDelete", "notifyRemoved", "notifyExpired"}

(***************************************************************************)
(* Only ExpireOldNodes removes, on one thread, and only updates of our own *)
(* entry carry the self relation.                                          *)
(***************************************************************************)
CallsWellFormed ==
    \A t \in Threads :
        /\ pc[t] \in CallLabel => call[t] \in Calls
        /\ pc[t] \in {"insert", "update"} => (call[t].rel = "Self" <=> call[t].id = Me)
        /\ pc[t] \in RoundLabel => t = "maintenance"

SelfRowOnly == \A n \in NodeId : relation[n] = "Self" <=> n = Me

(***************************************************************************)
(* What is removed is one of the entries of the current round.             *)
(***************************************************************************)
RemovesOfRound ==
    \A t \in Threads : pc[t] \in {"drop", "delete"} => \E e \in expired : e.id = call[t].id

(***************************************************************************)
(* The inductive invariant: what the theorems of SpatialDbProofs rest on.  *)
(***************************************************************************)
DbInv ==
    /\ TypeOK
    /\ CallsWellFormed
    /\ SelfRowOnly
    /\ old \subseteq Rows
    /\ RemovalsFindTheirRow
    /\ RemovesOfRound

(***************************************************************************)
(* How far a call has come that no other thread disturbs: what its checks  *)
(* will find, what it has written, and for a write of our own entry what   *)
(* the copy it carries may leave out of the cached one.                    *)
(***************************************************************************)
CallProgress(t) ==
    LET c == call[t]
    IN /\ pc[t] \in CallLabel
       /\ \A w \in Threads \ {t} : pc[w] = "idle"
       /\ pc[t] = "insert" => c.op = "store"
       /\ pc[t] \in {"update", "check"} => c.op # "store"
       /\ pc[t] = "check" => /\ changes = 1 <=> relation[c.id] # "None"
                             /\ relation[c.id] \in {c.rel, "None"}
       /\ pc[t] \in {"clear", "services", "notify", "ok"} => relation[c.id] = c.rel
       /\ pc[t] = "services" => /\ services[c.id] \cup pending[t] = c.services
                                /\ services[c.id] \cap pending[t] = {}
       /\ pc[t] \in {"notify", "ok"} => /\ services[c.id] = c.services
                                        /\ c.rel = "Self" => self = c.services
       /\ pc[t] \in {"delete", "checkDelete", "notifyRemoved", "notifyExpired"} => services[c.id] = {}
       /\ pc[t] \in {"checkDelete", "notifyRemoved", "notifyExpired"} => relation[c.id] = "None"
       /\ pc[t] = "checkDelete" => changes = 1
       /\ pc[t] \in {"update", "check", "clear", "services"} /\ c.rel = "Self" =>
             self \ c.services \subseteq c.svc

(***************************************************************************)
(* The inductive invariant of the calls that are alone.                    *)
(***************************************************************************)
AloneInv == \A t \in Threads : alone[t] => CallProgress(t) /\ CallResult(t)

Table == INSTANCE NodeTable WITH
            relation <- relation,
            old <- old \ {Me},
            condemned <- {e.id : e \in expired}

(***************************************************************************)
(* The statements of all threads, interleaved, keep the promises of the    *)
(* node table.                                                             *)
(***************************************************************************)
ImplementsNodeTable == Table!Spec

(***************************************************************************)
(* IopLocNet.proto:181-182: a service is registered "so as clients can     *)
(* detect its existence".  It leaves the entry served to them only when it *)
(* is deregistered, with the process, or through a write of the self entry *)
(* that overlapped another call: RegisterService, DeregisterService and    *)
(* DetectedExternalAddress each write back the copy they began with, so    *)
(* the service is lost if it was registered meanwhile.                     *)
(***************************************************************************)
ServiceLostByRace ==
    [][\A s \in registered : s \in self /\ s \notin self' =>
          \/ restarts' # restarts
          \/ \E t \in Threads : pc[t] = "services" /\ call[t].rel = "Self"
                                /\ (~alone[t] \/ s \in call[t].svc)]_vars

=============================================================================
