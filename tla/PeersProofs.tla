------------------------------ MODULE PeersProofs ------------------------------
(***************************************************************************)
(* Proofs about Peers, for any number of nodes.                            *)
(***************************************************************************)
EXTENDS Peers, TLAPS

-----------------------------------------------------------------------------
(* What the parts of an action write.                                      *)

LEMMA RowType ==
    ASSUME TypeOK, NEW a \in Node, NEW b \in Node, NEW rel \in Relation,
           NEW role \in {"Initiator", "Acceptor"}, NEW info \in Info,
           row' = [row EXCEPT ![a][b] = Written(rel, role, info)]
    PROVE  row' \in [Node -> [Node -> Row \cup {NoRow}]]
<1>1. Written(rel, role, info) \in Row
  BY PeriodsAssumption DEF Written, Row
<1> QED
  BY <1>1 DEF TypeOK

LEMMA CallType ==
    ASSUME TypeOK, NEW a \in Node, NEW t \in Callers, NEW c \in Call \cup {NoCall},
           c # NoCall => /\ t # "reactor" => c.rel \in Relation
                         /\ c.state = "answered" => c.reply # "none",
           call' = [call EXCEPT ![a][t] = c]
    PROVE  CallsTyped'
<1>1. call' \in [Node -> [Callers -> Call \cup {NoCall}]]
  BY DEF TypeOK, CallsTyped
<1> SUFFICES ASSUME NEW b \in Node, NEW u \in Callers, call'[b][u] # NoCall
             PROVE  /\ u # "reactor" => call'[b][u].rel \in Relation
                    /\ call'[b][u].state = "answered" => call'[b][u].reply # "none"
  BY <1>1 DEF CallsTyped
<1>2. CASE b = a /\ u = t
  BY <1>2 DEF TypeOK, CallsTyped
<1>3. CASE ~(b = a /\ u = t)
  <2>1. call'[b][u] = call[b][u]
    BY <1>3 DEF TypeOK, CallsTyped
  <2> QED
    BY <2>1 DEF TypeOK, CallsTyped
<1> QED
  BY <1>2, <1>3

LEMMA AskType ==
    ASSUME TypeOK, NEW a \in Node, NEW t \in Callers, NEW b \in Node,
           NEW rel \in Relation \cup {"Explore"}, t # "reactor" => rel \in Relation,
           Ask(a, t, b, rel)
    PROVE  CallsTyped'
<1> DEFINE c == [to |-> b, rel |-> rel, known |-> RelationOf(a, b), state |-> "asked", reply |-> "none"]
<1>1. RelationOf(a, b) \in Relation \cup {"None"}
  BY DEF RelationOf, TypeOK, Row
<1>2. c \in Call
  BY <1>1 DEF Call
<1>3. call' = [call EXCEPT ![a][t] = c]
  BY DEF Ask
<1>4. (t # "reactor" => c.rel \in Relation) /\ c.state # "answered"
  OBVIOUS
<1> HIDE DEF c
<1> QED
  BY <1>2, <1>3, <1>4, CallType

LEMMA AnswerType ==
    ASSUME TypeOK, NEW a \in Node, NEW t \in Callers, Asked(a, t),
           NEW reply \in Info \cup {"denied"}, Answer(a, t, reply)
    PROVE  CallsTyped'
<1> DEFINE c == [call[a][t] EXCEPT !.state = "answered", !.reply = reply]
<1>1. call[a][t] \in Call
  BY DEF Asked, TypeOK, CallsTyped
<1>2. c \in Call
  BY <1>1 DEF Call
<1>3. call' = [call EXCEPT ![a][t] = c]
  BY DEF Answer
<1>4. t # "reactor" => c.rel \in Relation
  BY <1>1 DEF Asked, TypeOK, CallsTyped, Call
<1>5. c.reply # "none"
  BY <1>1, InfoAssumption DEF Call
<1> HIDE DEF c
<1> QED
  BY <1>2, <1>3, <1>4, <1>5, CallType

LEMMA TroubleType ==
    ASSUME TypeOK, NEW a \in Node, NEW b \in Node, Trouble(a, b)
    PROVE  broken' \in SUBSET SUBSET Node /\ sound' \in SUBSET (Node \X Callers)
BY DEF Trouble, TypeOK

LEMMA EventType ==
    ASSUME TypeOK, Event
    PROVE  events' \in 0..EventsPerPeriod
BY PeriodsAssumption DEF TypeOK, Event

LEMMA StoreType ==
    ASSUME TypeOK, NEW a \in Node, NEW t \in Callers, NEW b \in Node, NEW rel \in Relation,
           SafeStoreNode(a, t, b, rel)
    PROVE  /\ CallsTyped'
           /\ broken' \in SUBSET SUBSET Node /\ sound' \in SUBSET (Node \X Callers)
<1>1. CASE UNCHANGED <<call, broken, sound>>
  BY <1>1 DEF TypeOK, CallsTyped
<1>2. CASE Trouble(a, b) /\ UNCHANGED call
  BY <1>2, TroubleType DEF TypeOK, CallsTyped
<1>3. CASE Ask(a, t, b, rel) /\ sound' \in {sound, sound \cup {<<a, t>>}} /\ UNCHANGED broken
  <2>1. CallsTyped'
    BY <1>3, AskType
  <2> QED
    BY <1>3, <2>1 DEF TypeOK
<1> QED
  BY <1>1, <1>2, <1>3 DEF SafeStoreNode

-----------------------------------------------------------------------------
(* One lemma for each group of actions.                                    *)

LEMMA TypeInit == Init => TypeOK
<1> SUFFICES ASSUME Init PROVE TypeOK
  OBVIOUS
<1>1. calm \in BOOLEAN /\ up \in [Node -> BOOLEAN]
  BY DEF Init
<1>2. row \in [Node -> [Node -> Row \cup {NoRow}]] /\ CallsTyped
  BY DEF Init, CallsTyped
<1>3. events \in 0..EventsPerPeriod
  BY PeriodsAssumption DEF Init
<1>4. self \in [Node -> Info]
  BY InfoAssumption DEF Init
<1> QED
  BY <1>1, <1>2, <1>3, <1>4 DEF Init, TypeOK

LEMMA AcceptType ==
    ASSUME TypeOK, NEW a \in Node, NEW t \in Callers, Accept(a, t)
    PROVE  TypeOK'
<1> DEFINE c == call[a][t]
<1>1. /\ Asked(a, t) /\ c.rel \in Relation
      /\ UNCHANGED <<self, late, round, todo, up, events, calm, broken, sound>>
  BY DEF Accept
<1>2. c \in Call
  BY <1>1 DEF Asked, TypeOK, CallsTyped
<1>3. c.to \in Node
  BY <1>2 DEF Call
<1>4. CASE Answer(a, t, "denied") /\ UNCHANGED row
  <2>1. CallsTyped'
    BY <1>1, <1>4, AnswerType
  <2> QED
    BY <1>1, <1>4, <2>1 DEF TypeOK
<1>5. CASE AcceptorWrites(c.to, a, c.rel) /\ Answer(a, t, self[c.to])
  <2>1. self[c.to] \in Info
    BY <1>3 DEF TypeOK
  <2>2. CallsTyped'
    BY <1>1, <1>5, <2>1, AnswerType
  <2>3. row' \in [Node -> [Node -> Row \cup {NoRow}]]
    BY <1>1, <1>3, <1>5, RowType, InfoAssumption DEF AcceptorWrites
  <2> QED
    BY <1>1, <2>2, <2>3 DEF TypeOK
<1> QED
  BY <1>4, <1>5 DEF Accept

LEMMA AcceptLateType ==
    ASSUME TypeOK, NEW m \in late, AcceptLate(m)
    PROVE  TypeOK'
<1>1. m.from \in Node /\ m.to \in Node /\ m.rel \in Relation
  BY DEF TypeOK
<1>2. late' = late \ {m} /\ UNCHANGED <<self, call, round, todo, up, events, calm>>
  BY DEF AcceptLate
<1>3. CASE UNCHANGED <<row, broken, sound>>
  BY <1>2, <1>3 DEF TypeOK, CallsTyped
<1>4. CASE AcceptorWrites(m.to, m.from, m.rel) /\ Trouble(m.from, m.to)
  <2>1. row' \in [Node -> [Node -> Row \cup {NoRow}]]
    BY <1>1, <1>4, RowType, InfoAssumption DEF AcceptorWrites
  <2>2. broken' \in SUBSET SUBSET Node /\ sound' \in SUBSET (Node \X Callers)
    BY <1>1, <1>4, TroubleType
  <2> QED
    BY <1>2, <2>1, <2>2 DEF TypeOK, CallsTyped
<1> QED
  BY <1>3, <1>4 DEF AcceptLate

LEMMA FinishType ==
    ASSUME TypeOK, NEW a \in Node, NEW t \in Callers, Finish(a, t)
    PROVE  TypeOK'
<1> DEFINE c == call[a][t]
<1>1. /\ c # NoCall /\ c.state = "answered" /\ t # "reactor"
      /\ call' = [call EXCEPT ![a][t] = NoCall]
      /\ UNCHANGED <<self, late, round, todo, up, events, calm>>
  BY DEF Finish, ReactorFree
<1>2. c \in Call /\ c.rel \in Relation /\ c.reply # "none"
  BY <1>1 DEF TypeOK, CallsTyped
<1>3. c.to \in Node /\ c.reply \in Info \cup {"denied"}
  BY <1>2 DEF Call
<1>4. CallsTyped'
  BY <1>1, CallType
<1>5. CASE sound' = sound \ {<<a, t>>} /\ UNCHANGED <<row, broken>>
  BY <1>1, <1>4, <1>5 DEF TypeOK
<1>6. CASE Trouble(a, c.to) /\ UNCHANGED row
  <2>1. broken' \in SUBSET SUBSET Node /\ sound' \in SUBSET (Node \X Callers)
    BY <1>3, <1>6, TroubleType
  <2> QED
    BY <1>1, <1>4, <1>6, <2>1 DEF TypeOK
<1>7. CASE /\ c.reply # "denied"
           /\ row' = [row EXCEPT ![a][c.to] = Written(c.rel, "Initiator", c.reply)]
           /\ IF Downgrades(a, c.to, c.rel)
              THEN Trouble(a, c.to)
              ELSE /\ broken' = IF <<a, t>> \in sound THEN broken \ {{a, c.to}} ELSE broken
                   /\ sound' = sound \ {<<a, t>>}
  <2>1. row' \in [Node -> [Node -> Row \cup {NoRow}]]
    BY <1>2, <1>3, <1>7, RowType
  <2>2. broken' \in SUBSET SUBSET Node /\ sound' \in SUBSET (Node \X Callers)
    <3>1. CASE Trouble(a, c.to)
      BY <1>3, <3>1, TroubleType
    <3>2. CASE broken' \in {broken, broken \ {{a, c.to}}} /\ sound' = sound \ {<<a, t>>}
      BY <3>2 DEF TypeOK
    <3> QED
      BY <1>7, <3>1, <3>2
  <2> QED
    BY <1>1, <1>4, <2>1, <2>2 DEF TypeOK
<1> QED
  BY <1>5, <1>6, <1>7 DEF Finish

LEMMA TimeoutType ==
    ASSUME TypeOK, NEW a \in Node, NEW t \in Callers, Timeout(a, t)
    PROVE  TypeOK'
<1> DEFINE c == call[a][t]
           m == [from |-> a, to |-> c.to, rel |-> c.rel]
<1>1. /\ c # NoCall /\ call' = [call EXCEPT ![a][t] = NoCall]
      /\ UNCHANGED <<row, self, round, todo, up, events, calm>>
  BY DEF Timeout
<1>2. c \in Call /\ c.to \in Node
  BY <1>1 DEF TypeOK, CallsTyped, Call
<1>3. CallsTyped'
  BY <1>1, CallType
<1>4. CASE UNCHANGED <<late, broken, sound>>
  BY <1>1, <1>3, <1>4 DEF TypeOK
<1>5. CASE t # "reactor" /\ late' \in {late, late \cup {m}} /\ Trouble(a, c.to)
  <2>1. m \in [from : Node, to : Node, rel : Relation]
    BY <1>1, <1>2, <1>5 DEF TypeOK, CallsTyped
  <2>2. broken' \in SUBSET SUBSET Node /\ sound' \in SUBSET (Node \X Callers)
    BY <1>2, <1>5, TroubleType
  <2>3. late' \in SUBSET [from : Node, to : Node, rel : Relation]
    BY <1>5, <2>1 DEF TypeOK
  <2> QED
    BY <1>1, <1>3, <2>2, <2>3 DEF TypeOK
<1> QED
  BY <1>4, <1>5 DEF Timeout

LEMMA ExploreType ==
    ASSUME TypeOK, NEW a \in Node,
           GetClosestNodesByDistance(a) \/ \E b \in Node : Explore(a, b)
    PROVE  TypeOK'
<1>1. UNCHANGED <<row, self, late, round, todo, up, calm, broken, sound>>
  BY DEF GetClosestNodesByDistance, Explore
<1>2. CASE GetClosestNodesByDistance(a)
  <2>1. CallsTyped'
    BY <1>2, AnswerType, InfoAssumption DEF GetClosestNodesByDistance, Callers
  <2> QED
    BY <1>1, <1>2, <2>1 DEF TypeOK, GetClosestNodesByDistance
<1>3. CASE \E b \in Node : Explore(a, b)
  <2>1. CallsTyped'
    BY <1>3, AskType DEF Explore, Callers
  <2>2. events' \in 0..EventsPerPeriod
    BY <1>3, EventType DEF Explore
  <2> QED
    BY <1>1, <2>1, <2>2 DEF TypeOK
<1> QED
  BY <1>2, <1>3

LEMMA ContactType ==
    ASSUME TypeOK, NEW a \in Node, NEW b \in Node, NEW rel \in Relation, Contact(a, b, rel)
    PROVE  TypeOK'
<1>1. /\ SafeStoreNode(a, "contact", b, rel)
      /\ UNCHANGED <<row, self, late, round, todo, up, calm>>
  BY DEF Contact
<1>2. CallsTyped' /\ broken' \in SUBSET SUBSET Node /\ sound' \in SUBSET (Node \X Callers)
  BY <1>1, StoreType DEF Callers
<1>3. events' \in 0..EventsPerPeriod
  BY EventType DEF Contact
<1> QED
  BY <1>1, <1>2, <1>3 DEF TypeOK

LEMMA NextEntryType ==
    ASSUME TypeOK, NEW a \in Node, NEW t \in Loops, NextEntry(a, t)
    PROVE  TypeOK'
<1>1. PICK e \in todo[a][t] : /\ todo' = [todo EXCEPT ![a][t] = @ \ {e}]
                              /\ SafeStoreNode(a, t, e.to, e.rel)
  BY DEF NextEntry
<1>2. e \in Entry /\ t \in Callers
  BY DEF TypeOK, Loops, Callers
<1>3. e.to \in Node /\ e.rel \in Relation /\ t # "reactor"
  BY <1>2 DEF Entry, Loops
<1>4. CallsTyped' /\ broken' \in SUBSET SUBSET Node /\ sound' \in SUBSET (Node \X Callers)
  BY <1>1, <1>2, <1>3, StoreType
<1>5. todo' \in [Node -> [Loops -> SUBSET Entry]]
  BY <1>1 DEF TypeOK
<1>6. UNCHANGED <<row, self, late, round, up, events, calm>>
  BY DEF NextEntry
<1> QED
  BY <1>4, <1>5, <1>6 DEF TypeOK

LEMMA LoopType ==
    ASSUME TypeOK, NEW a \in Node, RegisterService(a) \/ RenewNodeRelations(a) \/ ExpireOldNodes(a)
    PROVE  TypeOK'
<1>1. CallsTyped' /\ UNCHANGED <<late, up, calm, broken, sound>>
  BY DEF RegisterService, RenewNodeRelations, ExpireOldNodes, TypeOK, CallsTyped
<1>2. CASE RegisterService(a)
  <2>1. events' \in 0..EventsPerPeriod
    BY <1>2, EventType DEF RegisterService
  <2>2. self' \in [Node -> Info]
    BY <1>2 DEF RegisterService, TypeOK
  <2>3. todo' \in [Node -> [Loops -> SUBSET Entry]]
    BY <1>2 DEF RegisterService, TypeOK, Loops, Entry, Relation
  <2> QED
    BY <1>1, <1>2, <2>1, <2>2, <2>3 DEF TypeOK, RegisterService
<1>3. CASE RenewNodeRelations(a)
  <2>1. \A b \in Node : row[a][b] # NoRow => row[a][b].rel \in Relation
    BY DEF TypeOK, Row
  <2>2. todo' \in [Node -> [Loops -> SUBSET Entry]]
    BY <1>3, <2>1 DEF RenewNodeRelations, TypeOK, Loops, Entry
  <2>3. round' \in [Node -> {"due", "renewing", "done"}]
    BY <1>3 DEF RenewNodeRelations, TypeOK
  <2> QED
    BY <1>1, <1>3, <2>2, <2>3 DEF TypeOK, RenewNodeRelations
<1>4. CASE ExpireOldNodes(a)
  <2>1. row' \in [Node -> [Node -> Row \cup {NoRow}]]
    BY <1>4 DEF ExpireOldNodes, TypeOK
  <2>2. round' \in [Node -> {"due", "renewing", "done"}]
    BY <1>4 DEF ExpireOldNodes, TypeOK
  <2> QED
    BY <1>1, <1>4, <2>1, <2>2 DEF TypeOK, ExpireOldNodes
<1> QED
  BY <1>2, <1>3, <1>4

LEMMA CrashType == ASSUME TypeOK, NEW a \in Node, Crash(a) PROVE TypeOK'
<1>1. CallsTyped'
  <2> DEFINE c(b, t) == IF b = a THEN NoCall
                        ELSE IF Asked(b, t) /\ call[b][t].to = a
                             THEN [call[b][t] EXCEPT !.state = "lost"]
                             ELSE call[b][t]
  <2>1. call' = [b \in Node |-> [t \in Callers |-> c(b, t)]]
    BY DEF Crash
  <2>2. \A b \in Node, t \in Callers :
           /\ c(b, t) \in Call \cup {NoCall}
           /\ c(b, t) # NoCall => /\ t # "reactor" => c(b, t).rel \in Relation
                                  /\ c(b, t).state = "answered" => c(b, t).reply # "none"
    <3> SUFFICES ASSUME NEW b \in Node, NEW t \in Callers
                 PROVE  /\ c(b, t) \in Call \cup {NoCall}
                        /\ c(b, t) # NoCall => /\ t # "reactor" => c(b, t).rel \in Relation
                                               /\ c(b, t).state = "answered" => c(b, t).reply # "none"
      OBVIOUS
    <3>1. CASE c(b, t) = NoCall
      BY <3>1
    <3>2. CASE c(b, t) = call[b][t]
      BY <3>2 DEF TypeOK, CallsTyped
    <3>3. CASE Asked(b, t) /\ c(b, t) = [call[b][t] EXCEPT !.state = "lost"]
      <4>1. call[b][t] \in Call /\ (t # "reactor" => call[b][t].rel \in Relation)
        BY <3>3 DEF Asked, TypeOK, CallsTyped
      <4> QED
        BY <3>3, <4>1 DEF Call
    <3> QED
      BY <3>1, <3>2, <3>3
  <2> HIDE DEF c
  <2> QED
    BY <2>1, <2>2 DEF CallsTyped
<1>2. late' \in SUBSET [from : Node, to : Node, rel : Relation]
  <2>1. \A t \in Callers : t # "reactor" /\ Asked(a, t) =>
           [from |-> a, to |-> call[a][t].to, rel |-> call[a][t].rel] \in [from : Node, to : Node, rel : Relation]
    <3> SUFFICES ASSUME NEW t \in Callers, t # "reactor", Asked(a, t)
                 PROVE  call[a][t].to \in Node /\ call[a][t].rel \in Relation
      OBVIOUS
    <3>1. call[a][t] \in Call /\ call[a][t].rel \in Relation
      BY DEF Asked, TypeOK, CallsTyped
    <3> QED
      BY <3>1 DEF Call
  <2> QED
    BY <2>1 DEF Crash, TypeOK
<1>3. broken' \in SUBSET SUBSET Node /\ sound' \in SUBSET (Node \X Callers)
  <2>1. broken' = broken \cup {{a, b} : b \in Node \ {a}} /\ sound' \subseteq sound
    BY DEF Crash
  <2>2. \A p \in broken' : p \in broken \/ \E b \in Node : p = {a, b}
    BY <2>1
  <2>3. broken \in SUBSET SUBSET Node /\ sound \in SUBSET (Node \X Callers)
    BY DEF TypeOK
  <2>4. \A p \in broken' : p \subseteq Node
    BY <2>2, <2>3
  <2>5. sound' \in SUBSET (Node \X Callers)
    BY <2>1, <2>3
  <2> QED
    BY <2>4, <2>5
<1>4. self' \in [Node -> Info] /\ events' \in 0..EventsPerPeriod
  BY EventType, InfoAssumption DEF Crash, TypeOK
<1>5. todo' \in [Node -> [Loops -> SUBSET Entry]] /\ round' \in [Node -> {"due", "renewing", "done"}]
  BY DEF Crash, TypeOK
<1>6. up' \in [Node -> BOOLEAN]
  BY DEF Crash, TypeOK
<1>7. UNCHANGED <<row, calm>>
  BY DEF Crash
<1> QED
  BY <1>1, <1>2, <1>3, <1>4, <1>5, <1>6, <1>7 DEF TypeOK

LEMMA RestartType == ASSUME TypeOK, NEW a \in Node, Restart(a) PROVE TypeOK'
<1>1. up' \in [Node -> BOOLEAN]
  BY DEF Restart, TypeOK
<1>2. CallsTyped' /\ UNCHANGED <<row, self, late, round, todo, events, calm, broken, sound>>
  BY DEF Restart, TypeOK, CallsTyped
<1> QED
  BY <1>1, <1>2 DEF TypeOK

LEMMA TickType == ASSUME TypeOK, Tick PROVE TypeOK'
<1>1. row' \in [Node -> [Node -> Row \cup {NoRow}]]
  <2>1. \A r \in Row : r.ttl > 0 => [r EXCEPT !.ttl = @ - 1] \in Row
    BY PeriodsAssumption DEF Row
  <2> QED
    BY <2>1 DEF Tick, TypeOK
<1>2. round' \in [Node -> {"due", "renewing", "done"}]
  BY DEF Tick
<1>3. events' \in 0..EventsPerPeriod
  BY PeriodsAssumption DEF Tick
<1>4. CallsTyped' /\ UNCHANGED <<self, late, todo, up, calm, broken, sound>>
  BY DEF Tick, TypeOK, CallsTyped
<1> QED
  BY <1>1, <1>2, <1>3, <1>4 DEF TypeOK

LEMMA QuietType == ASSUME TypeOK, CalmDown \/ UNCHANGED vars PROVE TypeOK'
<1>1. CallsTyped' /\ UNCHANGED <<row, self, late, round, todo, up, broken, sound>>
  BY DEF CalmDown, vars, TypeOK, CallsTyped
<1>2. calm' \in BOOLEAN
  BY DEF CalmDown, vars, TypeOK
<1>3. events' \in 0..EventsPerPeriod
  BY PeriodsAssumption DEF CalmDown, vars, TypeOK
<1> QED
  BY <1>1, <1>2, <1>3 DEF TypeOK

LEMMA TypeNext == TypeOK /\ [Next]_vars => TypeOK'
<1> SUFFICES ASSUME TypeOK, [Next]_vars PROVE TypeOK'
  OBVIOUS
<1>1. CASE ThreadStep
  <2>1. CASE \E a \in Node, t \in Callers : CallStep(a, t)
    BY <2>1, AcceptType, FinishType, TimeoutType DEF CallStep
  <2>2. CASE \E a \in Node, t \in Loops : NextEntry(a, t)
    BY <2>2, NextEntryType
  <2>3. CASE \E a \in Node : GetClosestNodesByDistance(a) \/ RenewNodeRelations(a) \/ ExpireOldNodes(a)
    BY <2>3, ExploreType, LoopType
  <2>4. CASE \E m \in late : AcceptLate(m)
    BY <2>4, AcceptLateType
  <2> QED
    BY <1>1, <2>1, <2>2, <2>3, <2>4 DEF ThreadStep
<1>2. CASE Tick
  BY <1>2, TickType
<1>3. CASE \E a \in Node, b \in Node : a # b /\ Explore(a, b)
  BY <1>3, ExploreType
<1>4. CASE \E a \in Node, b \in Node, rel \in Relation : a # b /\ Contact(a, b, rel)
  BY <1>4, ContactType
<1>5. CASE \E a \in Node : RegisterService(a) \/ Crash(a) \/ Restart(a)
  BY <1>5, LoopType, CrashType, RestartType
<1>6. CASE CalmDown \/ UNCHANGED vars
  BY <1>6, QuietType
<1> QED
  BY <1>1, <1>2, <1>3, <1>4, <1>5, <1>6 DEF Next

-----------------------------------------------------------------------------

(***************************************************************************)
(* Type correctness of the relation protocol, for any number of nodes: in  *)
(* particular whatever is served late was a relation request, and only the *)
(* reactor waits for explorations.                                         *)
(***************************************************************************)
THEOREM PeersTypeCorrect == Spec => []TypeOK
<1> QED
  BY TypeInit, TypeNext, PTL DEF Spec

=============================================================================
