------------------------- MODULE ChangeListenersProofs -------------------------
(***************************************************************************)
(* Proofs about ChangeListeners, for any number of connections, threads    *)
(* and subscriptions.                                                      *)
(***************************************************************************)
EXTENDS ChangeListeners, TLAPS

LEMMA RegistryInit == Init => RegistryInv
<1> SUFFICES ASSUME Init PROVE RegistryInv
  OBVIOUS
<1>1. 0 \in 0..MaxListeners
  BY ListenersAssumption
<1>2. TypeOK
  BY <1>1 DEF Init, TypeOK, Key
<1>3. \A s \in Session : listeners[s] = 0
  BY DEF Init, Key
<1>4. \A l \in Listener : sessionId[l] = NoId
  BY DEF Init
<1> QED
  BY <1>2, <1>3, <1>4 DEF Init, RegistryInv

(***************************************************************************)
(* Only the empty key ever holds a listener, so that Deregister, which     *)
(* takes a key that is not empty, clears nothing.                          *)
(***************************************************************************)
LEMMA DeregisterKeeps ==
    ASSUME RegistryInv, NEW l \in Listener, NEW id \in Key, Deregister(l, id)
    PROVE  listeners' = listeners
<1>1. CASE id = NoId
  BY <1>1 DEF Deregister
<1>2. CASE id # NoId
  <2>1. listeners[id] = 0 /\ listeners' = [listeners EXCEPT ![id] = 0]
    BY <1>2 DEF Deregister, RegistryInv, Key
  <2> QED
    BY <2>1 DEF RegistryInv, TypeOK
<1> QED
  BY <1>1, <1>2

LEMMA AddListenerInv ==
    ASSUME RegistryInv, NEW s \in Session, AddListener(s)
    PROVE  RegistryInv' /\ Registered \subseteq Registered'
<1> USE ListenersAssumption
<1> DEFINE l == made + 1
<1>1. l \in Listener /\ l > made
  BY DEF AddListener, RegistryInv, TypeOK, Listener
<1>2. /\ l \in Listener /\ l > made /\ made' = l /\ sessionId[l] = NoId /\ NoId \in Key
      /\ made \in Nat /\ l = made + 1
  BY <1>1 DEF AddListener, RegistryInv, TypeOK, Key
<1>3. /\ session' = [session EXCEPT ![l] = s] /\ subscribed' = subscribed \cup {s}
      /\ UNCHANGED <<toNotify, connected, left>>
  BY DEF AddListener
<1>4. \/ listeners' = listeners /\ sessionId' = sessionId
      \/ /\ listeners[NoId] = 0 /\ listeners' = [listeners EXCEPT ![NoId] = l]
         /\ sessionId' = [sessionId EXCEPT ![l] = s]
  BY <1>2, DeregisterKeeps DEF AddListener
<1> HIDE DEF l
<1>5. TypeOK'
  <2>1. made' \in 0..MaxListeners /\ l \in 0..MaxListeners
    BY <1>2 DEF Listener
  <2>2. session' \in [Listener -> Key] /\ sessionId' \in [Listener -> Key]
    BY <1>2, <1>3, <1>4 DEF RegistryInv, TypeOK, Key
  <2>3. listeners' \in [Key -> 0..MaxListeners]
    BY <1>4, <2>1 DEF RegistryInv, TypeOK
  <2> QED
    BY <1>3, <2>1, <2>2, <2>3 DEF RegistryInv, TypeOK
<1>6. Registered \subseteq Registered'
  <2>1. \A k \in Key : listeners[k] # 0 => listeners'[k] = listeners[k]
    BY <1>4 DEF RegistryInv, TypeOK
  <2>2. 0 \notin Listener
    BY DEF Listener
  <2> QED
    BY <2>1, <2>2 DEF Registered
<1>7. \A m \in Listener : m > made' => sessionId'[m] = NoId
  <2>1. \A m \in Listener : m > made' => m > made /\ m # l
    BY <1>2 DEF Listener
  <2> QED
    BY <1>2, <1>4, <2>1 DEF RegistryInv, TypeOK
<1>8. \A k \in Session : listeners'[k] = 0
  BY <1>4 DEF RegistryInv, TypeOK, Key
<1> QED
  BY <1>3, <1>5, <1>6, <1>7, <1>8 DEF RegistryInv

(***************************************************************************)
(* Who deregisters was called from a copy of the registry, and Deregister  *)
(* leaves it there.                                                        *)
(***************************************************************************)
LEMMA LeftRegistered ==
    ASSUME RegistryInv, left' = left \/ \E t \in Threads : \E l \in toNotify[t] : left' = left \cup {l}
    PROVE  left' \subseteq Registered
  BY DEF RegistryInv

(***************************************************************************)
(* The other steps leave the registry as it is.                            *)
(***************************************************************************)
LEMMA OtherStepInv ==
    ASSUME RegistryInv,
           \/ \E s \in Session : Connect(s) \/ Disconnect(s)
           \/ \E t \in Threads : Change(t) \/ \E l \in Listener : Notify(t, l) \/ NotifyFailed(t, l)
           \/ UNCHANGED vars
    PROVE  RegistryInv' /\ Registered \subseteq Registered'
<1> USE ListenersAssumption
<1>1. UNCHANGED <<made, session, listeners, subscribed>>
  <2>1. ASSUME NEW t \in Threads, NEW l \in Listener, NotifyFailed(t, l) PROVE listeners' = listeners
    BY <2>1, DeregisterKeeps DEF NotifyFailed, RegistryInv, TypeOK
  <2> QED
    BY <2>1 DEF Connect, Disconnect, Change, Notify, NotifyFailed, vars
<1>2. connected' \in SUBSET Session /\ left' \in SUBSET Listener
  <2>1. left' = left \/ \E l \in Listener : left' = left \cup {l}
    BY DEF Connect, Disconnect, Change, Notify, NotifyFailed, vars
  <2>2. connected' = connected \/ \E s \in Session : connected' \in {connected \cup {s}, connected \ {s}}
    BY DEF Connect, Disconnect, Change, Notify, NotifyFailed, vars
  <2> QED
    BY <2>1, <2>2 DEF RegistryInv, TypeOK
<1>3. sessionId' = sessionId \/ \E l \in Listener : sessionId' = [sessionId EXCEPT ![l] = NoId]
  BY DEF Connect, Disconnect, Change, Notify, NotifyFailed, vars
<1>4. sessionId' \in [Listener -> Key] /\ \A l \in Listener : l > made => sessionId'[l] = NoId
  BY <1>3 DEF RegistryInv, TypeOK, Key
<1>5. Registered' = Registered /\ Registered \subseteq Listener
  BY <1>1 DEF Registered
<1>6. /\ toNotify' \in [Threads -> SUBSET Listener]
      /\ \A t \in Threads : toNotify'[t] \subseteq Registered
  BY <1>5 DEF Connect, Disconnect, Change, Notify, NotifyFailed, vars, RegistryInv, TypeOK
<1>7. left' \subseteq Registered
  <2>1. left' = left \/ \E t \in Threads : \E l \in toNotify[t] : left' = left \cup {l}
    BY DEF Connect, Disconnect, Change, Notify, NotifyFailed, vars
  <2> QED
    BY <2>1, LeftRegistered
<1> QED
  BY <1>1, <1>2, <1>4, <1>5, <1>6, <1>7 DEF RegistryInv, TypeOK

LEMMA RegistryStep ==
    ASSUME RegistryInv, [Next]_vars PROVE RegistryInv' /\ Registered \subseteq Registered'
BY AddListenerInv, OtherStepInv DEF Next

-----------------------------------------------------------------------------

(***************************************************************************)
(* The registry only ever uses the empty key, and nobody leaves it: a      *)
(* listener that has deregistered is still there.                          *)
(***************************************************************************)
THEOREM RegistryInvariance == Spec => []RegistryInv
<1>1. RegistryInv /\ [Next]_vars => RegistryInv'
  BY RegistryStep
<1> QED
  BY <1>1, RegistryInit, PTL DEF Spec

(***************************************************************************)
(* No listener is displaced by another subscription or by the failure of   *)
(* another listener.                                                       *)
(***************************************************************************)
THEOREM ListenerNotDisplaced == Spec => NotDisplaced
<1>1. RegistryInv /\ [Next]_vars => [\A l \in Registered : l \in Registered' \/ l \in left']_vars
  BY RegistryStep
<1> QED
  BY <1>1, RegistryInvariance, PTL DEF Spec, NotDisplaced

(***************************************************************************)
(* For all connections together the registry never holds more than one     *)
(* listener, because AddListener looks up the id of a listener that has    *)
(* none yet: only the first local service can be notified.                 *)
(***************************************************************************)
THEOREM OneListenerOnly == Spec => [](\A l, m \in Registered : l = m)
<1>1. RegistryInv => \A l, m \in Registered : l = m
  <2>1. 0 \notin Listener
    BY DEF Listener
  <2> QED
    BY <2>1 DEF RegistryInv, Registered, Key
<1> QED
  BY <1>1, RegistryInvariance, PTL

=============================================================================
