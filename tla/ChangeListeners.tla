---------------------------- MODULE ChangeListeners ----------------------------
(***************************************************************************)
(* ThreadSafeChangeListenerRegistry (spatialdb.cpp) and the listeners      *)
(* registered there, NeighbourChangeProtoBufNotifier (server.cpp): one per *)
(* local service that asked to be notified of neighbourhood changes.  The  *)
(* registry is locked, its users are not: every thread that changes the    *)
(* node table copies the listeners and then calls them one by one.         *)
(***************************************************************************)
EXTENDS Integers

CONSTANTS
    Session,        \* the ids of the connections, none of them empty
    Threads,        \* the threads that change the node table
    MaxListeners    \* bound on the subscriptions

(***************************************************************************)
(* The SessionId of a listener that was not registered: the empty string.  *)
(***************************************************************************)
NoId == ""

ASSUME ListenersAssumption ==
    /\ NoId \notin Session
    /\ MaxListeners \in Nat

Listener == 1..MaxListeners

Key == Session \cup {NoId}

VARIABLES
    made,           \* the number of listeners created
    session,        \* per listener, the connection it sends to
    sessionId,      \* per listener, _sessionId: empty until OnRegistered
    listeners,      \* the registry: key -> listener, or 0
    toNotify,       \* per thread, the listeners it has still to call
    connected,      \* the connections that are open
    subscribed,     \* history: the connections whose subscription was answered
    left            \* history: the listeners that deregistered

vars == <<made, session, sessionId, listeners, toNotify, connected, subscribed, left>>

Registered == {l \in Listener : \E k \in Key : listeners[k] = l}

-----------------------------------------------------------------------------

(***************************************************************************)
(* Faulty variant: also a listener that was never registered removes       *)
(* itself.                                                                 *)
(***************************************************************************)
DeregisterAlways(l, id) == listeners' = [listeners EXCEPT ![id] = 0]

(***************************************************************************)
(* Deregister, and RemoveListener with the id it passes.                   *)
(***************************************************************************)
Deregister(l, id) ==
    IF id # NoId THEN listeners' = [listeners EXCEPT ![id] = 0] ELSE UNCHANGED listeners

(***************************************************************************)
(* GetNeighbourNodes with the keep-alive flag creates a listener for its   *)
(* connection.  AddListener looks its sessionId up, which is still empty.  *)
(* A listener that is ignored is destroyed, and its destructor calls       *)
(* Deregister.                                                             *)
(***************************************************************************)
AddListener(s) ==
    /\ s \in connected
    /\ made < MaxListeners
    /\ LET l   == made + 1
           key == sessionId[l]
       IN /\ made' = l
          /\ session' = [session EXCEPT ![l] = s]
          /\ \/ /\ listeners[key] # 0
                /\ Deregister(l, key)
                /\ UNCHANGED sessionId
             \/ /\ listeners[key] = 0
                /\ listeners' = [listeners EXCEPT ![key] = l]
                /\ sessionId' = [sessionId EXCEPT ![l] = s]
    /\ subscribed' = subscribed \cup {s}
    /\ UNCHANGED <<toNotify, connected, left>>

(***************************************************************************)
(* A change of the node table: listeners() copies the registry.            *)
(***************************************************************************)
Change(t) ==
    /\ toNotify[t] = {}
    /\ toNotify' = [toNotify EXCEPT ![t] = Registered]
    /\ UNCHANGED <<made, session, sessionId, listeners, connected, subscribed, left>>

(***************************************************************************)
(* AddedNode, UpdatedNode or RemovedNode of one listener.  Sending on a    *)
(* broken connection is not an error: it is only logged, later.            *)
(***************************************************************************)
Notify(t, l) ==
    /\ l \in toNotify[t]
    /\ toNotify' = [toNotify EXCEPT ![t] = @ \ {l}]
    /\ UNCHANGED <<made, session, sessionId, listeners, connected, subscribed, left>>

(***************************************************************************)
(* The catch of AddedNode and its like: building or sending the message    *)
(* throws (a socket closed on our side, no memory), and the listener       *)
(* deregisters.                                                            *)
(***************************************************************************)
NotifyFailed(t, l) ==
    /\ l \in toNotify[t]
    /\ toNotify' = [toNotify EXCEPT ![t] = @ \ {l}]
    /\ Deregister(l, sessionId[l])
    /\ left' = IF sessionId[l] # NoId THEN left \cup {l} ELSE left
    /\ sessionId' = [sessionId EXCEPT ![l] = NoId]
    /\ UNCHANGED <<made, session, connected, subscribed>>

Connect(s) ==
    /\ s \notin connected \cup subscribed
    /\ connected' = connected \cup {s}
    /\ UNCHANGED <<made, session, sessionId, listeners, toNotify, subscribed, left>>

Disconnect(s) ==
    /\ s \in connected
    /\ connected' = connected \ {s}
    /\ UNCHANGED <<made, session, sessionId, listeners, toNotify, subscribed, left>>

Init ==
    /\ made = 0
    /\ session = [l \in Listener |-> NoId]
    /\ sessionId = [l \in Listener |-> NoId]
    /\ listeners = [k \in Key |-> 0]
    /\ toNotify = [t \in Threads |-> {}]
    /\ connected = {}
    /\ subscribed = {}
    /\ left = {}

Next ==
    \/ \E s \in Session : AddListener(s) \/ Connect(s) \/ Disconnect(s)
    \/ \E t \in Threads : Change(t) \/ \E l \in Listener : Notify(t, l) \/ NotifyFailed(t, l)

Spec == Init /\ [][Next]_vars

-----------------------------------------------------------------------------
(* Properties.                                                             *)

(***************************************************************************)
(* The types of the registry and of its users.                             *)
(***************************************************************************)
TypeOK ==
    /\ made \in 0..MaxListeners
    /\ session \in [Listener -> Key]
    /\ sessionId \in [Listener -> Key]
    /\ listeners \in [Key -> 0..MaxListeners]
    /\ toNotify \in [Threads -> SUBSET Listener]
    /\ connected \in SUBSET Session
    /\ subscribed \in SUBSET Session
    /\ left \in SUBSET Listener

(***************************************************************************)
(* A new listener has no id yet when AddListener looks its id up, so that  *)
(* the empty key is the only one under which a listener is ever held,      *)
(* while RemoveListener erases the id of a connection: nobody ever leaves  *)
(* the registry.  A listener that has deregistered stays in it and is      *)
(* called again (LeftIsGone does not hold), and so does whatever a         *)
(* notifying thread has copied.  This invariant is inductive.              *)
(***************************************************************************)
RegistryInv ==
    /\ TypeOK
    /\ \A l \in Listener : l > made => sessionId[l] = NoId
    /\ \A s \in Session : listeners[s] = 0
    /\ \A t \in Threads : toNotify[t] \subseteq Registered
    /\ left \subseteq Registered

(***************************************************************************)
(* server.cpp:663-664: a listener is protected "from deregistering another *)
(* instance after failed (e.g. repeated) addlistener request": a listener  *)
(* leaves the registry only by its own Deregister.                         *)
(***************************************************************************)
NotDisplaced == [][\A l \in Registered : l \in Registered' \/ l \in left']_vars

(***************************************************************************)
(* spatialdb.cpp:109: "Deregistered ChangeListener for session": a         *)
(* listener whose notification failed and that deregistered is no longer   *)
(* in the registry, so that no later change calls it.                      *)
(***************************************************************************)
LeftIsGone == left \cap Registered = {}

(***************************************************************************)
(* IopLocNet.proto:201-202: "the server must keep the connection alive and *)
(* notify the client": a local service that was answered and is still      *)
(* connected has a listener in the registry.                               *)
(***************************************************************************)
SubscriberRegistered ==
    \A s \in subscribed \cap connected :
        (\E l \in Listener : session[l] = s /\ l \in left)
            \/ \E l \in Registered : session[l] = s

=============================================================================
