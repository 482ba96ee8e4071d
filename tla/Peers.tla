--------------------------------- MODULE Peers ---------------------------------
(***************************************************************************)
(* The relation protocol between nodes (locnet.cpp): how a relation is     *)
(* made by one remote call, renewed by whoever counts as its initiator,    *)
(* and forgotten; with the one reactor thread of each node, which serves   *)
(* requests and delivers answers, and may itself be blocked by a client's  *)
(* ExploreNetworkNodesByDistance.                                          *)
(*                                                                         *)
(* LocNetNode has one node in detail and any environment; here every node  *)
(* runs the code, and the checks of the table are reduced to those that    *)
(* depend on the relation: the nodes are few and far enough from each      *)
(* other for the neighbourhood limit and the bubbles never to refuse.  A   *)
(* handler is one step.                                                    *)
(*                                                                         *)
(* A remote call takes seconds, its timeout is ten, and the maintenance    *)
(* period is hours: time is counted in maintenance periods, and no call    *)
(* spans two of them.                                                      *)
(***************************************************************************)
EXTENDS Integers

CONSTANTS
    Node,               \* the nodes
    Lifetime,           \* dbExpirationPeriod, in maintenance periods
    Info,               \* what a node info may tell; "plain": as in the configuration
    EventsPerPeriod,    \* bound on the outside events of one period
    NoRow, NoCall       \* no entry in the table, no call under way

ASSUME PeriodsAssumption == Lifetime \in Nat /\ Lifetime > 1 /\ EventsPerPeriod \in Nat

ASSUME InfoAssumption == "plain" \in Info /\ {"none", "denied"} \cap Info = {}

Relation == {"Colleague", "Neighbour"}

Row == [rel : Relation, role : {"Initiator", "Acceptor"}, info : Info, ttl : 0..Lifetime]

Entry == [to : Node, rel : Relation]

(***************************************************************************)
(* Who waits for answers in a node: the reactor thread while it explores   *)
(* for a client, the threads of RenewNodeRelations and RenewNeighbours,    *)
(* and the one that contacts new nodes (bootstrap, merging, discovery).    *)
(***************************************************************************)
Callers == {"reactor", "maintenance", "renewer", "contact"}

Loops == {"maintenance", "renewer"}

(***************************************************************************)
(* A call: known is the relation SafeStoreNode loaded before it asked,     *)
(* reply what the remote node answered.                                    *)
(***************************************************************************)
Call == [to : Node, rel : Relation \cup {"Explore"}, known : Relation \cup {"None"},
         state : {"asked", "answered", "lost"}, reply : Info \cup {"none", "denied"}]

ASSUME NullAssumption == NoRow \notin Row /\ NoCall \notin Call

VARIABLES
    row,        \* row[a][b]: what a's table holds about b
    self,       \* self[a]: a's own entry, as ThisNode() returns it
    call,       \* call[a][t]: the remote call the caller t of a waits for
    late,       \* requests whose sender has given up, not yet read
    round,      \* round[a]: where a's maintenance of this period is
    todo,       \* todo[a][t]: the entries a loop has still to renew
    up,         \* whether the process runs
    events,     \* outside events left in this period
    calm,       \* no further event, delay or failure happens
    broken,     \* history: pairs in trouble since their last sound call
    sound       \* history: the calls since whose begin nothing went wrong

vars == <<row, self, call, late, round, todo, up, events, calm, broken, sound>>

-----------------------------------------------------------------------------

RelationOf(a, b) == IF row[a][b] = NoRow THEN "None" ELSE row[a][b].rel

(***************************************************************************)
(* The reactor thread can run a handler.                                   *)
(***************************************************************************)
ReactorFree(a) == up[a] /\ call[a]["reactor"] = NoCall

Idle(a, t) == up[a] /\ call[a][t] = NoCall

Downgrades(a, b, rel) == rel = "Colleague" /\ RelationOf(a, b) = "Neighbour"

(***************************************************************************)
(* Faulty variant: the entry lives one period longer than configured.      *)
(***************************************************************************)
WrittenLonger(rel, role, info) ==
    [rel |-> rel, role |-> role, info |-> info, ttl |-> Lifetime + 1]

(***************************************************************************)
(* An entry as it is written, with its full time to live.                  *)
(***************************************************************************)
Written(rel, role, info) == [rel |-> rel, role |-> role, info |-> info, ttl |-> Lifetime]

(***************************************************************************)
(* The relation calls under way between two nodes.                         *)
(***************************************************************************)
CallsBetween(a, b) ==
    {c \in Node \X (Callers \ {"reactor"}) :
        call[c[1]][c[2]] # NoCall /\ {c[1], call[c[1]][c[2]].to} = {a, b}}

(***************************************************************************)
(* Something went wrong between two nodes.                                 *)
(***************************************************************************)
Trouble(a, b) ==
    /\ broken' = broken \cup {{a, b}}
    /\ sound' = sound \ CallsBetween(a, b)

Event == ~calm /\ events > 0 /\ events' = events - 1

-----------------------------------------------------------------------------
(* A remote call.                                                          *)

Ask(a, t, b, rel) ==
    call' = [call EXCEPT ![a][t] = [to |-> b, rel |-> rel, known |-> RelationOf(a, b),
                                    state |-> "asked", reply |-> "none"]]

(***************************************************************************)
(* SafeStoreNode as initiator: the table is consulted, then the remote     *)
(* node asked, unless it cannot be connected to.                           *)
(***************************************************************************)
SafeStoreNode(a, t, b, rel) ==
    \/ /\ Downgrades(a, b, rel)
       /\ UNCHANGED <<call, broken, sound>>
    \/ /\ ~Downgrades(a, b, rel) /\ ~up[b]
       /\ Trouble(a, b)
       /\ UNCHANGED call
    \/ /\ ~Downgrades(a, b, rel) /\ up[b]
       /\ Ask(a, t, b, rel)
       /\ sound' = IF CallsBetween(a, b) \subseteq sound THEN sound \cup {<<a, t>>} ELSE sound
       /\ UNCHANGED broken

(***************************************************************************)
(* AcceptColleague, RenewColleague, AcceptNeighbour and RenewNeighbour on  *)
(* b's reactor.  The request of a carries the node info of a's             *)
(* configuration, and b writes it as the acceptor.  The handler's Load and *)
(* its write are one step here, although another thread of b may write the *)
(* row in between; LocNetNode has these steps one by one.                  *)
(***************************************************************************)
AcceptorWrites(b, a, rel) ==
    row' = [row EXCEPT ![b][a] = Written(rel, "Acceptor", "plain")]

Answer(a, t, reply) ==
    call' = [call EXCEPT ![a][t] = [@ EXCEPT !.state = "answered", !.reply = reply]]

Asked(a, t) == call[a][t] # NoCall /\ call[a][t].state = "asked"

(***************************************************************************)
(* Faulty variant: a neighbour may be taken as a colleague.                *)
(***************************************************************************)
AcceptDowngrade(a, t) ==
    LET c == call[a][t]
    IN /\ Asked(a, t) /\ c.rel \in Relation
       /\ ReactorFree(c.to)
       /\ AcceptorWrites(c.to, a, c.rel)
       /\ Answer(a, t, self[c.to])
       /\ UNCHANGED <<self, late, round, todo, up, events, calm, broken, sound>>

Accept(a, t) ==
    LET c == call[a][t]
    IN /\ Asked(a, t) /\ c.rel \in Relation
       /\ ReactorFree(c.to)
       /\ \/ /\ Downgrades(c.to, a, c.rel)
             /\ Answer(a, t, "denied")
             /\ UNCHANGED row
          \/ /\ ~Downgrades(c.to, a, c.rel)
             /\ AcceptorWrites(c.to, a, c.rel)
             /\ Answer(a, t, self[c.to])
       /\ UNCHANGED <<self, late, round, todo, up, events, calm, broken, sound>>

(***************************************************************************)
(* A request is served although its sender does not wait any more.         *)
(***************************************************************************)
AcceptLate(m) ==
    /\ ReactorFree(m.to)
    /\ late' = late \ {m}
    /\ \/ /\ Downgrades(m.to, m.from, m.rel)
          /\ UNCHANGED <<row, broken, sound>>
       \/ /\ ~Downgrades(m.to, m.from, m.rel)
          /\ AcceptorWrites(m.to, m.from, m.rel)
          /\ Trouble(m.from, m.to)
    /\ UNCHANGED <<self, call, round, todo, up, events, calm>>

(***************************************************************************)
(* Store fails on a row that appeared since Load, Update on one that has   *)
(* disappeared.                                                            *)
(***************************************************************************)
WriteFails(a, c) == (c.known = "None") # (row[a][c.to] = NoRow)

(***************************************************************************)
(* The answer is delivered by a's reactor, and the waiting thread writes   *)
(* it as the initiator.                                                    *)
(***************************************************************************)
Finish(a, t) ==
    LET c == call[a][t]
    IN /\ c # NoCall /\ c.state = "answered"
       /\ ReactorFree(a)
       /\ call' = [call EXCEPT ![a][t] = NoCall]
       /\ \/ /\ c.reply = "denied"
             /\ sound' = sound \ {<<a, t>>}
             /\ UNCHANGED <<row, broken>>
          \/ /\ c.reply # "denied" /\ WriteFails(a, c)
             /\ Trouble(a, c.to)
             /\ UNCHANGED row
          \/ /\ c.reply # "denied" /\ ~WriteFails(a, c)
             /\ row' = [row EXCEPT ![a][c.to] = Written(c.rel, "Initiator", c.reply)]
             /\ IF Downgrades(a, c.to, c.rel)
                THEN Trouble(a, c.to)
                ELSE /\ broken' = IF <<a, t>> \in sound THEN broken \ {{a, c.to}} ELSE broken
                     /\ sound' = sound \ {<<a, t>>}
       /\ UNCHANGED <<self, late, round, todo, up, events, calm>>

(***************************************************************************)
(* Faulty variant: only a lost connection ends the wait.                   *)
(***************************************************************************)
TimeoutOnLossOnly(a, t) ==
    LET c == call[a][t]
    IN /\ c # NoCall /\ c.state = "lost"
       /\ call' = [call EXCEPT ![a][t] = NoCall]
       /\ IF t = "reactor" THEN UNCHANGED <<broken, sound>> ELSE Trouble(a, c.to)
       /\ UNCHANGED <<row, self, late, round, todo, up, events, calm>>

(***************************************************************************)
(* Dispatch gives up after requestExpirationPeriod.  A request the remote  *)
(* node has not read may be read later or be lost.  Once the network is    *)
(* calm only hopeless calls time out: those nobody will answer, and those  *)
(* of a reactor thread, which only that thread could deliver.              *)
(***************************************************************************)
Timeout(a, t) ==
    LET c == call[a][t]
        m == [from |-> a, to |-> c.to, rel |-> c.rel]
    IN /\ c # NoCall
       /\ calm => c.state = "lost" \/ t = "reactor"
       /\ call' = [call EXCEPT ![a][t] = NoCall]
       /\ IF t = "reactor"
          THEN UNCHANGED <<late, broken, sound>>
          ELSE /\ late' \in IF c.state = "asked" THEN {late, late \cup {m}} ELSE {late}
               /\ Trouble(a, c.to)
       /\ UNCHANGED <<row, self, round, todo, up, events, calm>>

-----------------------------------------------------------------------------
(* ExploreNetworkNodesByDistance, on the reactor thread: the closest known *)
(* node is asked for nodes closer still.  While the thread waits it        *)
(* neither serves nor delivers, its own answer included, so that it gets   *)
(* no further than its first hop.                                          *)

Explore(a, b) ==
    /\ Event
    /\ ReactorFree(a) /\ row[a][b] # NoRow /\ up[b]
    /\ Ask(a, "reactor", b, "Explore")
    /\ UNCHANGED <<row, self, late, round, todo, up, calm, broken, sound>>

GetClosestNodesByDistance(a) ==
    /\ Asked(a, "reactor")
    /\ ReactorFree(call[a]["reactor"].to)
    /\ Answer(a, "reactor", "plain")
    /\ UNCHANGED <<row, self, late, round, todo, up, events, calm, broken, sound>>

-----------------------------------------------------------------------------
(* Who makes the calls.                                                    *)

(***************************************************************************)
(* EnsureMapFilled, MergeSplits and DiscoverUnknownAreas contact nodes     *)
(* they heard of.                                                          *)
(***************************************************************************)
Contact(a, b, rel) ==
    /\ Event
    /\ Idle(a, "contact")
    /\ SafeStoreNode(a, "contact", b, rel)
    /\ UNCHANGED <<row, self, late, round, todo, up, calm>>

(***************************************************************************)
(* RegisterService and DeregisterService change the own entry and start    *)
(* the thread of RenewNeighbours, which takes every neighbour, of either   *)
(* role, as one to be asked.                                               *)
(***************************************************************************)
RegisterService(a) ==
    /\ Event
    /\ ReactorFree(a)
    /\ Idle(a, "renewer") /\ todo[a]["renewer"] = {}
    /\ \E info \in Info : self' = [self EXCEPT ![a] = info]
    /\ todo' = [todo EXCEPT ![a]["renewer"] =
                   {[to |-> b, rel |-> "Neighbour"] :
                       b \in {n \in Node : RelationOf(a, n) = "Neighbour"}}]
    /\ UNCHANGED <<row, call, late, round, up, calm, broken, sound>>

(***************************************************************************)
(* Faulty variant: only neighbours are renewed.                            *)
(***************************************************************************)
RenewNodeRelationsNeighbours(a) ==
    /\ up[a] /\ round[a] = "due"
    /\ round' = [round EXCEPT ![a] = "renewing"]
    /\ todo' = [todo EXCEPT ![a]["maintenance"] =
                   {[to |-> b, rel |-> "Neighbour"] :
                       b \in {n \in Node : RelationOf(a, n) = "Neighbour" /\ row[a][n].role = "Initiator"}}]
    /\ UNCHANGED <<row, self, call, late, up, events, calm, broken, sound>>

RenewNodeRelations(a) ==
    /\ up[a] /\ round[a] = "due"
    /\ round' = [round EXCEPT ![a] = "renewing"]
    /\ todo' = [todo EXCEPT ![a]["maintenance"] =
                   {[to |-> b, rel |-> row[a][b].rel] :
                       b \in {n \in Node : row[a][n] # NoRow /\ row[a][n].role = "Initiator"}}]
    /\ UNCHANGED <<row, self, call, late, up, events, calm, broken, sound>>

NextEntry(a, t) ==
    /\ Idle(a, t)
    /\ \E e \in todo[a][t] :
          /\ todo' = [todo EXCEPT ![a][t] = @ \ {e}]
          /\ SafeStoreNode(a, t, e.to, e.rel)
    /\ UNCHANGED <<row, self, late, round, up, events, calm>>

(***************************************************************************)
(* Faulty variant: only what is renewed expires.                           *)
(***************************************************************************)
ExpireOldNodesInitiated(a) ==
    /\ round[a] = "renewing"
    /\ Idle(a, "maintenance") /\ todo[a]["maintenance"] = {}
    /\ round' = [round EXCEPT ![a] = "done"]
    /\ row' = [row EXCEPT ![a] =
                  [b \in Node |-> IF row[a][b] # NoRow /\ row[a][b].ttl = 0 /\ row[a][b].role = "Initiator"
                                  THEN NoRow ELSE row[a][b]]]
    /\ UNCHANGED <<self, call, late, todo, up, events, calm, broken, sound>>

ExpireOldNodes(a) ==
    /\ round[a] = "renewing"
    /\ Idle(a, "maintenance") /\ todo[a]["maintenance"] = {}
    /\ round' = [round EXCEPT ![a] = "done"]
    /\ row' = [row EXCEPT ![a] =
                  [b \in Node |-> IF row[a][b] # NoRow /\ row[a][b].ttl = 0
                                  THEN NoRow ELSE row[a][b]]]
    /\ UNCHANGED <<self, call, late, todo, up, events, calm, broken, sound>>

-----------------------------------------------------------------------------
(* Processes and time.                                                     *)

(***************************************************************************)
(* A process ends.  What it had asked may still be read; what it had not   *)
(* read is gone, and its senders wait in vain.  The table stays in the     *)
(* file, the registered services were in the process.                      *)
(***************************************************************************)
Crash(a) ==
    /\ Event
    /\ up[a]
    /\ up' = [up EXCEPT ![a] = FALSE]
    /\ self' = [self EXCEPT ![a] = "plain"]
    /\ round' = [round EXCEPT ![a] = "done"]
    /\ todo' = [todo EXCEPT ![a] = [t \in Loops |-> {}]]
    /\ call' = [b \in Node |-> [t \in Callers |->
                   IF b = a THEN NoCall
                   ELSE IF Asked(b, t) /\ call[b][t].to = a
                        THEN [call[b][t] EXCEPT !.state = "lost"]
                        ELSE call[b][t]]]
    /\ \E read \in SUBSET {t \in Callers \ {"reactor"} : Asked(a, t)} :
          late' = {m \in late : m.to # a}
                  \cup {[from |-> a, to |-> call[a][t].to, rel |-> call[a][t].rel] : t \in read}
    /\ broken' = broken \cup {{a, b} : b \in Node \ {a}}
    /\ sound' = sound \ UNION {CallsBetween(a, b) : b \in Node}
    /\ UNCHANGED <<row, calm>>

Restart(a) ==
    /\ ~up[a] /\ ~calm
    /\ up' = [up EXCEPT ![a] = TRUE]
    /\ UNCHANGED <<row, self, call, late, round, todo, events, calm, broken, sound>>

(***************************************************************************)
(* A maintenance period passes: every call of the last one has ended.      *)
(***************************************************************************)
Tick ==
    /\ \A a \in Node : round[a] = "done" /\ todo[a]["renewer"] = {}
    /\ \A a \in Node, t \in Callers : call[a][t] = NoCall
    /\ late = {}
    /\ row' = [a \in Node |-> [b \in Node |->
                  IF row[a][b] # NoRow /\ row[a][b].ttl > 0
                  THEN [row[a][b] EXCEPT !.ttl = @ - 1] ELSE row[a][b]]]
    /\ round' = [a \in Node |-> IF up[a] THEN "due" ELSE "done"]
    /\ events' = IF calm THEN 0 ELSE EventsPerPeriod
    /\ UNCHANGED <<self, call, late, todo, up, calm, broken, sound>>

CalmDown ==
    /\ ~calm
    /\ calm' = TRUE
    /\ events' = 0
    /\ UNCHANGED <<row, self, call, late, round, todo, up, broken, sound>>

Init ==
    /\ row = [a \in Node |-> [b \in Node |-> NoRow]]
    /\ self = [a \in Node |-> "plain"]
    /\ call = [a \in Node |-> [t \in Callers |-> NoCall]]
    /\ late = {}
    /\ round = [a \in Node |-> "done"]
    /\ todo = [a \in Node |-> [t \in Loops |-> {}]]
    /\ up = [a \in Node |-> TRUE]
    /\ events = EventsPerPeriod
    /\ calm = FALSE
    /\ broken = {}
    /\ sound = {}

CallStep(a, t) == Accept(a, t) \/ Finish(a, t) \/ Timeout(a, t)

(***************************************************************************)
(* What the threads do by themselves.                                      *)
(***************************************************************************)
ThreadStep ==
    \/ \E a \in Node, t \in Callers : CallStep(a, t)
    \/ \E a \in Node, t \in Loops : NextEntry(a, t)
    \/ \E a \in Node :
          GetClosestNodesByDistance(a) \/ RenewNodeRelations(a) \/ ExpireOldNodes(a)
    \/ \E m \in late : AcceptLate(m)

Next ==
    \/ ThreadStep
    \/ Tick
    \/ \E a \in Node, b \in Node : a # b /\ Explore(a, b)
    \/ \E a \in Node, b \in Node, rel \in Relation : a # b /\ Contact(a, b, rel)
    \/ \E a \in Node : RegisterService(a) \/ Crash(a) \/ Restart(a)
    \/ CalmDown

Spec == Init /\ [][Next]_vars

(***************************************************************************)
(* The threads go on and time passes.  A period has finitely many steps    *)
(* and ends only when all its calls have ended, so that none of them       *)
(* starves.  Nothing outside has to happen.                                *)
(***************************************************************************)
FairSpec == Spec /\ WF_vars(ThreadStep \/ Tick)

-----------------------------------------------------------------------------
(* Properties.                                                             *)

(***************************************************************************)
(* Only the reactor explores, and an answered call has its answer.         *)
(***************************************************************************)
CallsTyped ==
    /\ call \in [Node -> [Callers -> Call \cup {NoCall}]]
    /\ \A a \in Node, t \in Callers : call[a][t] # NoCall =>
          /\ t # "reactor" => call[a][t].rel \in Relation
          /\ call[a][t].state = "answered" => call[a][t].reply # "none"

(***************************************************************************)
(* The types of the tables, the calls and the processes.                   *)
(***************************************************************************)
TypeOK ==
    /\ row \in [Node -> [Node -> Row \cup {NoRow}]]
    /\ self \in [Node -> Info]
    /\ CallsTyped
    /\ late \in SUBSET [from : Node, to : Node, rel : Relation]
    /\ round \in [Node -> {"due", "renewing", "done"}]
    /\ todo \in [Node -> [Loops -> SUBSET Entry]]
    /\ up \in [Node -> BOOLEAN]
    /\ events \in 0..EventsPerPeriod
    /\ calm \in BOOLEAN
    /\ broken \in SUBSET SUBSET Node
    /\ sound \in SUBSET (Node \X Callers)

(***************************************************************************)
(* No relation call between the two nodes is under way.                    *)
(***************************************************************************)
Quiescent(a, b) ==
    /\ CallsBetween(a, b) = {}
    /\ \A m \in late : {m.from, m.to} # {a, b}

(***************************************************************************)
(* Both know each other as the same, and at least one of them renews.      *)
(***************************************************************************)
Mutual(a, b) ==
    \/ row[a][b] = NoRow /\ row[b][a] = NoRow
    \/ /\ row[a][b] # NoRow /\ row[b][a] # NoRow
       /\ row[a][b].rel = row[b][a].rel
       /\ "Initiator" \in {row[a][b].role, row[b][a].role}

(***************************************************************************)
(* However the calls of two nodes to each other cross, they end with the   *)
(* same relation on both sides and somebody to renew it, unless a call     *)
(* timed out, was overtaken by another write of its row, or a process      *)
(* ended (SafeStoreNode writes the two sides at different times).          *)
(***************************************************************************)
CrossingCallsAgree ==
    \A a, b \in Node : a # b /\ Quiescent(a, b) /\ {a, b} \notin broken => Mutual(a, b)

(***************************************************************************)
(* Renewals keep a relation alive: as long as no call between two running  *)
(* nodes goes wrong, neither of them expires its row (RenewNodeRelations,  *)
(* ExpireOldNodes, and the roles they go by).                              *)
(***************************************************************************)
ExpiresOnlyBroken ==
    [][\A a, b \in Node : row[a][b] # NoRow /\ row'[a][b] = NoRow => {a, b} \in broken]_vars

(***************************************************************************)
(* Once nothing goes wrong any more, whatever happened before, two running *)
(* nodes come to agree on their relation, or both forget it, and dead      *)
(* nodes are forgotten.                                                    *)
(***************************************************************************)
RelationsSettle ==
    <>[](calm => \A a, b \in Node : a # b /\ up[a] /\ Quiescent(a, b) =>
                    IF up[b] THEN Mutual(a, b) ELSE row[a][b] = NoRow)

(***************************************************************************)
(* Reactor threads that wait for other nodes, perhaps for each other, get  *)
(* free again: at no time do the nodes stop serving for ever.              *)
(***************************************************************************)
NodesKeepServing == []<>(\A a \in Node : up[a] => ReactorFree(a))

(***************************************************************************)
(* locnet.cpp:807: RenewNeighbours is there for "Updating changed node     *)
(* details on" the neighbours: a service that stays registered becomes     *)
(* known to a neighbour whose relation stays intact.                       *)
(***************************************************************************)
ServiceReachesNeighbours ==
    \A a, b \in Node : a # b =>
        (<>[](/\ self[a] = "service" /\ up[b]
              /\ RelationOf(b, a) = "Neighbour" /\ {a, b} \notin broken)
            => <>[](row[b][a] # NoRow /\ row[b][a].info = "service"))

(***************************************************************************)
(* IopLocNet.proto:341: exploring "requests the node to contact also other *)
(* nodes which might know the location better": a contacted node that      *)
(* answers is not given up.  This is asked of a calm network only, in      *)
(* which no other caller gives up a call that was answered: an ordinary    *)
(* timeout just before the answer is no violation.                         *)
(***************************************************************************)
ExploreHearsAnswers ==
    [][\A a \in Node : calm /\ Timeout(a, "reactor") => call[a]["reactor"].state # "answered"]_vars

-----------------------------------------------------------------------------
(* The inductive invariant, about the calls under way between two nodes    *)
(* and their two rows.                                                     *)

Askers == Callers \ {"reactor"}

Calling(a, t, b) == call[a][t] # NoCall /\ call[a][t].to = b

(***************************************************************************)
(* The call was accepted by b and a has not yet been told.                 *)
(***************************************************************************)
Accepted(a, t, b) ==
    Calling(a, t, b) /\ call[a][t].state = "answered" /\ call[a][t].reply # "denied"

(***************************************************************************)
(* The row was written in this period.                                     *)
(***************************************************************************)
Fresh(a, b) == row[a][b] # NoRow /\ row[a][b].ttl = Lifetime

(***************************************************************************)
(* The maintenance of a has still to renew its relation to b.              *)
(***************************************************************************)
Renews(a, b) ==
    /\ row[a][b] # NoRow /\ row[a][b].role = "Initiator"
    /\ \/ round[a] = "due"
       \/ /\ round[a] = "renewing"
          /\ \/ [to |-> b, rel |-> row[a][b].rel] \in todo[a]["maintenance"]
             \/ /\ Calling(a, "maintenance", b)
                /\ call[a]["maintenance"].state = "asked"
                /\ call[a]["maintenance"].rel = row[a][b].rel

(***************************************************************************)
(* Nobody relates to itself, the reactor only explores, and only relation  *)
(* calls under way are sound.                                              *)
(***************************************************************************)
WellAddressed ==
    /\ \A a \in Node : row[a][a] = NoRow
    /\ \A a \in Node, t \in Callers : call[a][t] # NoCall =>
          call[a][t].to # a /\ (t = "reactor" => call[a][t].rel = "Explore")
    /\ \A a \in Node, t \in Loops : \A e \in todo[a][t] : e.to # a
    /\ \A m \in late : m.from # m.to
    /\ \A a \in Node, t \in Callers : <<a, t>> \in sound => t \in Askers /\ call[a][t] # NoCall

(***************************************************************************)
(* Of the calls between two nodes either all are sound or none is, and all *)
(* are as long as the pair is not in trouble.                              *)
(***************************************************************************)
SoundTogether(a, b) ==
    /\ \A t \in Askers : <<a, t>> \in sound /\ Calling(a, t, b) =>
          /\ up[a] /\ up[b]
          /\ \A u \in Askers : /\ Calling(a, u, b) => <<a, u>> \in sound
                               /\ Calling(b, u, a) => <<b, u>> \in sound
    /\ {a, b} \notin broken => up[a] /\ \A t \in Askers : Calling(a, t, b) => <<a, t>> \in sound

(***************************************************************************)
(* What b accepted stays in its table at least until a has been told.      *)
(***************************************************************************)
AcceptedStays(a, b) ==
    \A t \in Askers : Accepted(a, t, b) /\ <<a, t>> \in sound =>
        Fresh(b, a) /\ (call[a][t].rel = "Neighbour" => row[b][a].rel = "Neighbour")

(***************************************************************************)
(* If b holds a as a neighbour then so does a, or it has still to be told. *)
(***************************************************************************)
UpgradeFollows(a, b) ==
    (\/ {a, b} \notin broken
     \/ \E t \in Askers : Accepted(a, t, b) /\ <<a, t>> \in sound)
    /\ RelationOf(b, a) = "Neighbour"
    => \/ RelationOf(a, b) = "Neighbour" /\ row[a][b].ttl > 0
       \/ \E t \in Askers : Accepted(a, t, b) /\ call[a][t].rel = "Neighbour"

(***************************************************************************)
(* The two rows of an unbroken pair: a row that only the other side has    *)
(* renewed in this period will be renewed by a call already accepted; rows *)
(* that neither side has renewed are as the last period left them, and one *)
(* side has still to renew them.                                           *)
(***************************************************************************)
RenewedInTime(a, b) ==
    {a, b} \notin broken =>
        /\ row[a][b] # NoRow => row[a][b].ttl >= Lifetime - 1
        /\ Fresh(b, a) /\ ~Fresh(a, b) => \E t \in Askers : Accepted(a, t, b)
        /\ ~Fresh(b, a) /\ ~Fresh(a, b) =>
              \/ row[a][b] = NoRow /\ row[b][a] = NoRow
              \/ row[a][b] # NoRow /\ row[b][a] # NoRow /\ (Renews(a, b) \/ Renews(b, a))
        /\ row[a][b] # NoRow /\ row[b][a] # NoRow =>
              \/ "Initiator" \in {row[a][b].role, row[b][a].role}
              \/ \E t \in Askers : Accepted(a, t, b) \/ Accepted(b, t, a)

PairInv(a, b) ==
    /\ SoundTogether(a, b)
    /\ AcceptedStays(a, b)
    /\ UpgradeFollows(a, b)
    /\ RenewedInTime(a, b)

(***************************************************************************)
(* The inductive invariant of the relations SafeStoreNode, the handlers    *)
(* and the maintenance make: nobody relates to itself, and every pair of   *)
(* nodes is on its way to agreement or known to be in trouble.             *)
(***************************************************************************)
PeersInv ==
    /\ TypeOK
    /\ WellAddressed
    /\ \A a, b \in Node : a # b => PairInv(a, b)

=============================================================================
