-------------------------- MODULE PeersRelationProofs --------------------------
(***************************************************************************)
(* Proofs about the relations of Peers, for any number of nodes: whatever  *)
(* calls cross, two nodes end with the same relation, and renewals keep it *)
(* alive.  The invariant is about one pair of nodes at a time: a step is   *)
(* followed for the pair it is about, and the other pairs do not see it.   *)
(***************************************************************************)
EXTENDS PeersProofs

-----------------------------------------------------------------------------
(* Pairs of nodes and the calls between them.                              *)

LEMMA SamePair ==
    ASSUME NEW a, NEW b, NEW x, NEW y, a # b, x # y
    PROVE  {a, b} = {x, y} <=> (a = x /\ b = y) \/ (a = y /\ b = x)
OBVIOUS

LEMMA BetweenPair ==
    ASSUME NEW x \in Node, NEW y \in Node, x # y, NEW z \in Node, NEW t \in Askers
    PROVE  <<z, t>> \in CallsBetween(x, y) <=>
              (z = x /\ Calling(x, t, y)) \/ (z = y /\ Calling(y, t, x))
<1>1. <<z, t>> \in CallsBetween(x, y) <=> call[z][t] # NoCall /\ {z, call[z][t].to} = {x, y}
  BY DEF CallsBetween, Askers
<1>2. ASSUME NEW w PROVE {z, w} = {x, y} <=> (z = x /\ w = y) \/ (z = y /\ w = x)
  OBVIOUS
<1> QED
  BY <1>1, <1>2 DEF Calling

LEMMA BetweenAskers ==
    ASSUME NEW x, NEW y, NEW c \in CallsBetween(x, y)
    PROVE  \E z \in Node, t \in Askers : c = <<z, t>>
BY DEF CallsBetween, Askers

(***************************************************************************)
(* What Trouble does, to its pair and to the others.                       *)
(***************************************************************************)
LEMMA TroubleEffect ==
    ASSUME NEW x \in Node, NEW y \in Node, x # y, Trouble(x, y)
    PROVE  /\ {x, y} \in broken'
           /\ \A a, b \in Node : a # b /\ ~(a = x /\ b = y) /\ ~(a = y /\ b = x) =>
                 ({a, b} \in broken' <=> {a, b} \in broken)
           /\ \A z \in Node, t \in Askers : <<z, t>> \in sound' <=>
                 /\ <<z, t>> \in sound
                 /\ ~(z = x /\ Calling(x, t, y)) /\ ~(z = y /\ Calling(y, t, x))
           /\ sound' \subseteq sound
<1>1. broken' = broken \cup {{x, y}} /\ sound' = sound \ CallsBetween(x, y)
  BY DEF Trouble
<1>2. ASSUME NEW a \in Node, NEW b \in Node, a # b, ~(a = x /\ b = y), ~(a = y /\ b = x)
      PROVE  {a, b} # {x, y}
  BY <1>2, SamePair
<1>3. ASSUME NEW z \in Node, NEW t \in Askers
      PROVE  <<z, t>> \in CallsBetween(x, y) <=>
                (z = x /\ Calling(x, t, y)) \/ (z = y /\ Calling(y, t, x))
  BY BetweenPair
<1>4. {x, y} \in broken' /\ sound' \subseteq sound
  BY <1>1
<1>5. \A a, b \in Node : a # b /\ ~(a = x /\ b = y) /\ ~(a = y /\ b = x) =>
         ({a, b} \in broken' <=> {a, b} \in broken)
  BY <1>1, <1>2
<1>6. \A z \in Node, t \in Askers : <<z, t>> \in sound' <=>
         /\ <<z, t>> \in sound
         /\ ~(z = x /\ Calling(x, t, y)) /\ ~(z = y /\ Calling(y, t, x))
  BY <1>1, <1>3
<1> QED
  BY <1>4, <1>5, <1>6

(***************************************************************************)
(* A pair in trouble, none of whose calls is sound, has nothing to keep.   *)
(***************************************************************************)
LEMMA PairInTrouble ==
    ASSUME NEW a \in Node, NEW b \in Node, {a, b} \in broken',
           \A t \in Askers : Calling(a, t, b)' => <<a, t>> \notin sound'
    PROVE  PairInv(a, b)'
BY DEF PairInv, SoundTogether, AcceptedStays, UpgradeFollows, RenewedInTime, Accepted

-----------------------------------------------------------------------------
(* What a step leaves alone.                                               *)

SameCall(a, t, b) ==
    /\ Calling(a, t, b)' <=> Calling(a, t, b)
    /\ Calling(a, t, b) => call'[a][t] = call[a][t] /\ (<<a, t>> \in sound' <=> <<a, t>> \in sound)

(***************************************************************************)
(* A pair whose rows and calls a step leaves alone keeps its invariant.    *)
(***************************************************************************)
LEMMA PairFrame ==
    ASSUME NEW a \in Node, NEW b \in Node, a # b, PairInv(a, b),
           row'[a][b] = row[a][b], row'[b][a] = row[b][a],
           \A t \in Askers : SameCall(a, t, b) /\ SameCall(b, t, a),
           {a, b} \in broken' <=> {a, b} \in broken,
           up[a] => up'[a], up[b] => up'[b],
           Renews(a, b) => Renews(a, b)', Renews(b, a) => Renews(b, a)'
    PROVE  PairInv(a, b)'
<1>1. ASSUME NEW t \in Askers
      PROVE  /\ Accepted(a, t, b)' <=> Accepted(a, t, b)
             /\ Accepted(b, t, a)' <=> Accepted(b, t, a)
             /\ Accepted(a, t, b) => /\ call'[a][t] = call[a][t]
                                     /\ <<a, t>> \in sound' <=> <<a, t>> \in sound
  BY DEF Accepted, SameCall
<1>2. /\ Fresh(a, b)' <=> Fresh(a, b)
      /\ Fresh(b, a)' <=> Fresh(b, a)
      /\ RelationOf(a, b)' = RelationOf(a, b) /\ RelationOf(b, a)' = RelationOf(b, a)
  BY DEF Fresh, RelationOf
<1>3. SoundTogether(a, b)'
  BY DEF PairInv, SoundTogether, SameCall
<1>4. AcceptedStays(a, b)'
  BY <1>1, <1>2 DEF PairInv, AcceptedStays
<1>5. UpgradeFollows(a, b)'
  BY <1>1, <1>2 DEF PairInv, UpgradeFollows
<1>6. RenewedInTime(a, b)'
  BY <1>1, <1>2 DEF PairInv, RenewedInTime
<1> QED
  BY <1>3, <1>4, <1>5, <1>6 DEF PairInv

(***************************************************************************)
(* A step that is about x and y, and about no call but that of the caller  *)
(* t of x, leaves the other pairs alone.                                   *)
(***************************************************************************)
AboutPair(x, t, y) ==
    /\ \A a, b \in Node : ~(a = x /\ b = y) /\ ~(a = y /\ b = x) => row'[a][b] = row[a][b]
    /\ \A z \in Node, u \in Askers : ~(z = x /\ u = t) => call'[z][u] = call[z][u]
    /\ t \in Askers => /\ call[x][t] # NoCall => call[x][t].to = y
                       /\ call'[x][t] # NoCall => call'[x][t].to = y
    /\ \A z \in Node, u \in Askers :
          ~(z = x /\ u = t) /\ ~(z = x /\ Calling(x, u, y)) /\ ~(z = y /\ Calling(y, u, x)) =>
              (<<z, u>> \in sound' <=> <<z, u>> \in sound)
    /\ \A a, b \in Node : a # b /\ ~(a = x /\ b = y) /\ ~(a = y /\ b = x) =>
          ({a, b} \in broken' <=> {a, b} \in broken)
    /\ up' = up /\ round' = round
    /\ \A z, b \in Node, rel \in Relation :
          ~(z = x /\ b = y) /\ [to |-> b, rel |-> rel] \in todo[z]["maintenance"] =>
              [to |-> b, rel |-> rel] \in todo'[z]["maintenance"]

LEMMA OtherPairs ==
    ASSUME PeersInv, NEW x \in Node, NEW y \in Node, x # y, NEW t, AboutPair(x, t, y),
           NEW a \in Node, NEW b \in Node, a # b, ~(a = x /\ b = y), ~(a = y /\ b = x)
    PROVE  PairInv(a, b)'
<1>1. row'[a][b] = row[a][b] /\ row'[b][a] = row[b][a]
  BY DEF AboutPair
<1>2. ASSUME NEW c \in Node, NEW d \in Node, c # d, ~(c = x /\ d = y), ~(c = y /\ d = x), NEW u \in Askers
      PROVE  SameCall(c, u, d)
  <2>1. CASE c = x /\ u = t
    BY <1>2, <2>1 DEF AboutPair, SameCall, Calling
  <2>2. CASE ~(c = x /\ u = t)
    <3>1. call'[c][u] = call[c][u]
      BY <2>2 DEF AboutPair
    <3>2. Calling(c, u, d) => (<<c, u>> \in sound' <=> <<c, u>> \in sound)
      BY <1>2, <2>2 DEF AboutPair, Calling
    <3> QED
      BY <3>1, <3>2 DEF SameCall, Calling
  <2> QED
    BY <2>1, <2>2
<1>3. ASSUME NEW c \in Node, NEW d \in Node, c # d, ~(c = x /\ d = y), ~(c = y /\ d = x), Renews(c, d),
             row'[c][d] = row[c][d], PairInv(c, d)
      PROVE  Renews(c, d)'
  <2>1. row[c][d].rel \in Relation
    BY <1>3 DEF Renews, PeersInv, TypeOK, Row
  <2>2. "maintenance" \in Askers
    BY DEF Askers, Callers
  <2>3. Calling(c, "maintenance", d) =>
           Calling(c, "maintenance", d)' /\ call'[c]["maintenance"] = call[c]["maintenance"]
    BY <1>2, <1>3, <2>2 DEF SameCall
  <2> QED
    BY <1>3, <2>1, <2>3 DEF Renews, AboutPair
<1>4. PairInv(a, b) /\ PairInv(b, a)
  BY DEF PeersInv
<1>5. up' = up /\ ({a, b} \in broken' <=> {a, b} \in broken)
  BY DEF AboutPair
<1>6. /\ \A u \in Askers : SameCall(a, u, b) /\ SameCall(b, u, a)
      /\ Renews(a, b) => Renews(a, b)'
      /\ Renews(b, a) => Renews(b, a)'
  BY <1>1, <1>2, <1>3, <1>4
<1> QED
  BY <1>1, <1>4, <1>5, <1>6, PairFrame

LEMMA StepOfPair ==
    ASSUME PeersInv, NEW x \in Node, NEW y \in Node, x # y, NEW t, AboutPair(x, t, y),
           PairInv(x, y)', PairInv(y, x)'
    PROVE  \A a, b \in Node : a # b => PairInv(a, b)'
<1> SUFFICES ASSUME NEW a \in Node, NEW b \in Node, a # b PROVE PairInv(a, b)'
  OBVIOUS
<1>1. CASE (a = x /\ b = y) \/ (a = y /\ b = x)
  BY <1>1
<1>2. CASE ~(a = x /\ b = y) /\ ~(a = y /\ b = x)
  BY <1>2, OtherPairs
<1> QED
  BY <1>1, <1>2

-----------------------------------------------------------------------------
(* Consequences of the invariant.                                          *)

LEMMA RowTyped ==
    ASSUME PeersInv, NEW a \in Node, NEW b \in Node, row[a][b] # NoRow
    PROVE  /\ row[a][b].rel \in Relation /\ row[a][b].ttl \in 0..Lifetime
           /\ row[a][b].role \in {"Initiator", "Acceptor"}
BY DEF PeersInv, TypeOK, Row

LEMMA CallTyped ==
    ASSUME PeersInv, NEW a \in Node, NEW t \in Callers, call[a][t] # NoCall
    PROVE  /\ call[a][t] \in Call /\ call[a][t].to \in Node \ {a}
           /\ t \in Askers => call[a][t].rel \in Relation
           /\ t \notin Askers => t = "reactor" /\ call[a][t].rel = "Explore"
<1>1. call[a][t] \in Call
  BY DEF PeersInv, TypeOK, CallsTyped
<1> QED
  BY <1>1 DEF PeersInv, TypeOK, CallsTyped, WellAddressed, Call, Askers

(***************************************************************************)
(* The calls of an unbroken pair are sound.                                *)
(***************************************************************************)
LEMMA UnbrokenSound ==
    ASSUME PeersInv, NEW a \in Node, NEW b \in Node, a # b, {a, b} \notin broken
    PROVE  /\ up[a] /\ up[b]
           /\ \A t \in Askers : /\ Calling(a, t, b) => <<a, t>> \in sound
                                /\ Calling(b, t, a) => <<b, t>> \in sound
<1>1. PairInv(a, b) /\ PairInv(b, a) /\ {a, b} = {b, a}
  BY DEF PeersInv
<1> QED
  BY <1>1 DEF PairInv, SoundTogether

(***************************************************************************)
(* Rows of an unbroken pair that neither side has renewed in this period   *)
(* agree, and no call between the two has been accepted.                   *)
(***************************************************************************)
LEMMA UnrenewedAgree ==
    ASSUME PeersInv, NEW a \in Node, NEW b \in Node, a # b, {a, b} \notin broken,
           ~Fresh(a, b), ~Fresh(b, a)
    PROVE  /\ \A t \in Askers : ~Accepted(a, t, b) /\ ~Accepted(b, t, a)
           /\ RelationOf(a, b) = RelationOf(b, a)
           /\ row[a][b] # NoRow /\ row[b][a] # NoRow => row[a][b].rel = row[b][a].rel
<1>1. PairInv(a, b) /\ PairInv(b, a) /\ {a, b} = {b, a}
  BY DEF PeersInv
<1>2. \A t \in Askers : ~Accepted(a, t, b) /\ ~Accepted(b, t, a)
  BY <1>1, UnbrokenSound DEF PairInv, AcceptedStays, Accepted
<1>3. (row[a][b] = NoRow <=> row[b][a] = NoRow)
  BY <1>1 DEF PairInv, RenewedInTime
<1>4. RelationOf(a, b) = "Neighbour" <=> RelationOf(b, a) = "Neighbour"
  BY <1>1, <1>2 DEF PairInv, UpgradeFollows
<1>5. CASE row[a][b] = NoRow
  BY <1>2, <1>3, <1>5 DEF RelationOf
<1>6. CASE row[a][b] # NoRow
  <2>1. row[a][b].rel \in Relation /\ row[b][a].rel \in Relation
    BY <1>3, <1>6, RowTyped
  <2> QED
    BY <1>2, <1>3, <1>4, <1>6, <2>1 DEF RelationOf, Relation
<1> QED
  BY <1>5, <1>6

LEMMA WrittenRow ==
    ASSUME NEW rel \in Relation, NEW role \in {"Initiator", "Acceptor"}, NEW info \in Info
    PROVE  /\ Written(rel, role, info) \in Row /\ Written(rel, role, info) # NoRow
           /\ Written(rel, role, info).rel = rel /\ Written(rel, role, info).role = role
           /\ Written(rel, role, info).ttl = Lifetime
<1>1. Written(rel, role, info) \in Row
  BY PeriodsAssumption DEF Written, Row
<1> QED
  BY <1>1, NullAssumption DEF Written

-----------------------------------------------------------------------------
(* b's answer to a call.                                                   *)

(***************************************************************************)
(* The answer is now in the call, and nothing else about calls changes.    *)
(***************************************************************************)
LEMMA AnswerEffect ==
    ASSUME PeersInv, NEW x \in Node, NEW t \in Callers, Asked(x, t), NEW reply \in Info \cup {"denied"},
           Answer(x, t, reply)
    PROVE  /\ \A z \in Node, u \in Callers : ~(z = x /\ u = t) => call'[z][u] = call[z][u]
           /\ call'[x][t] # NoCall /\ call'[x][t].to = call[x][t].to /\ call'[x][t].rel = call[x][t].rel
           /\ call'[x][t].state = "answered" /\ call'[x][t].reply = reply
<1> DEFINE d == [call[x][t] EXCEPT !.state = "answered", !.reply = reply]
<1>1. call[x][t] \in Call /\ call \in [Node -> [Callers -> Call \cup {NoCall}]]
  BY DEF Asked, PeersInv, TypeOK, CallsTyped
<1>2. /\ d \in Call /\ d.to = call[x][t].to /\ d.rel = call[x][t].rel /\ d.state = "answered"
      /\ d.reply = reply
  BY <1>1 DEF Call
<1>3. call' = [call EXCEPT ![x][t] = d]
  BY DEF Answer
<1> HIDE DEF d
<1>4. call'[x][t] = d /\ \A z \in Node, u \in Callers : ~(z = x /\ u = t) => call'[z][u] = call[z][u]
  BY <1>1, <1>3
<1> QED
  BY <1>2, <1>4, NullAssumption

LEMMA AcceptPairs ==
    ASSUME PeersInv, NEW x \in Node, NEW t \in Callers, Accept(x, t)
    PROVE  \A a, b \in Node : a # b => PairInv(a, b)'
<1>1. /\ Asked(x, t) /\ call[x][t].rel \in Relation
      /\ UNCHANGED <<late, round, todo, up, broken, sound>>
  BY DEF Accept
<1>2. PICK y \in Node, rel \in Relation : y = call[x][t].to /\ rel = call[x][t].rel /\ x # y /\ t \in Askers
  BY <1>1, CallTyped DEF Asked, Relation
<1>3. /\ self[y] \in Info /\ self[y] # "denied"
      /\ row \in [Node -> [Node -> Row \cup {NoRow}]]
  BY <1>2, InfoAssumption DEF PeersInv, TypeOK
<1>4. PairInv(x, y) /\ PairInv(y, x) /\ {x, y} = {y, x}
  BY <1>2 DEF PeersInv
<1>5. \E reply \in Info \cup {"denied"} : Answer(x, t, reply)
  BY <1>2, <1>3 DEF Accept
<1>6. /\ \A z \in Node, u \in Callers : ~(z = x /\ u = t) => call'[z][u] = call[z][u]
      /\ call'[x][t] # NoCall /\ call'[x][t].to = y /\ call'[x][t].rel = rel
      /\ call'[x][t].state = "answered"
  BY <1>1, <1>2, <1>5, AnswerEffect
<1>7. \A z \in Node, u \in Askers, w \in Node : Calling(z, u, w)' <=> Calling(z, u, w)
  BY <1>1, <1>2, <1>6 DEF Calling, Asked, Askers
<1>8. SoundTogether(x, y)' /\ SoundTogether(y, x)'
  BY <1>1, <1>2, <1>4, <1>7 DEF PairInv, SoundTogether
<1>9. /\ ~Accepted(x, t, y)
      /\ \A u \in Askers : /\ Accepted(y, u, x)' <=> Accepted(y, u, x)
                           /\ call'[y][u] = call[y][u]
                           /\ u # t => /\ Accepted(x, u, y)' <=> Accepted(x, u, y)
                                       /\ call'[x][u] = call[x][u]
  <2>1. \A u \in Askers : u \in Callers
    BY DEF Askers
  <2>2. \A u \in Askers : call'[y][u] = call[y][u] /\ (u # t => call'[x][u] = call[x][u])
    BY <1>2, <1>6, <2>1
  <2>3. ~Accepted(x, t, y)
    BY <1>1 DEF Accepted, Asked
  <2> QED
    BY <1>2, <1>7, <2>2, <2>3 DEF Accepted
<1>10. ASSUME \A a, b \in Node : ~(a = x /\ b = y) /\ ~(a = y /\ b = x) => row'[a][b] = row[a][b]
       PROVE  AboutPair(x, t, y)
  BY <1>1, <1>2, <1>6, <1>10 DEF AboutPair, Askers
<1>11. CASE Downgrades(y, x, rel) /\ Answer(x, t, "denied") /\ UNCHANGED row
  <2>1. ~Accepted(x, t, y)'
    <3>1. call'[x][t].reply = "denied"
      BY <1>1, <1>11, AnswerEffect
    <3> QED
      BY <3>1 DEF Accepted
  <2>2. \A u \in Askers : Accepted(x, u, y)' <=> Accepted(x, u, y)
    BY <1>9, <2>1
  <2>3. /\ \A a, b \in Node : (Fresh(a, b)' <=> Fresh(a, b)) /\ RelationOf(a, b)' = RelationOf(a, b)
        /\ \A a, b \in Node : row'[a][b] = row[a][b]
    BY <1>11 DEF Fresh, RelationOf
  <2>4. AcceptedStays(x, y)' /\ AcceptedStays(y, x)'
    BY <1>1, <1>2, <1>4, <1>9, <2>2, <2>3 DEF PairInv, AcceptedStays
  <2>5. UpgradeFollows(x, y)' /\ UpgradeFollows(y, x)'
    BY <1>1, <1>2, <1>4, <1>9, <2>2, <2>3 DEF PairInv, UpgradeFollows
  <2>6. ASSUME {x, y} \notin broken, ~Fresh(x, y), ~Fresh(y, x), Renews(x, y), row[y][x] # NoRow
        PROVE  Renews(x, y)'
    <3>1. row[x][y] # NoRow /\ row[x][y].rel = row[y][x].rel
      BY <1>2, <2>6, UnrenewedAgree DEF Renews
    <3>2. row[x][y].rel # rel
      BY <1>11, <3>1 DEF Downgrades, RelationOf
    <3>3. ~(t = "maintenance" /\ call[x][t].rel = row[x][y].rel)
      BY <1>2, <3>2
    <3>4. "maintenance" \in Askers
      BY DEF Askers, Callers
    <3>5. call[x]["maintenance"].rel = row[x][y].rel => call'[x]["maintenance"] = call[x]["maintenance"]
      BY <1>9, <3>3, <3>4
    <3> QED
      BY <1>1, <1>2, <1>7, <2>3, <2>6, <3>4, <3>5 DEF Renews
  <2>7. ASSUME Renews(y, x) PROVE Renews(y, x)'
    <3>1. "maintenance" \in Askers
      BY DEF Askers, Callers
    <3> QED
      BY <1>1, <1>2, <1>7, <1>9, <2>3, <2>7, <3>1 DEF Renews
  <2>8. RenewedInTime(x, y)' /\ RenewedInTime(y, x)'
    BY <1>1, <1>2, <1>4, <1>9, <2>2, <2>3, <2>6, <2>7 DEF PairInv, RenewedInTime
  <2>9. AboutPair(x, t, y)
    BY <1>10, <2>3
  <2> QED
    BY <1>2, <1>8, <2>4, <2>5, <2>8, <2>9, StepOfPair DEF PairInv
<1>12. CASE ~Downgrades(y, x, rel) /\ AcceptorWrites(y, x, rel) /\ Answer(x, t, self[y])
  <2>1. Accepted(x, t, y)'
    <3>1. call'[x][t].reply = self[y]
      BY <1>1, <1>3, <1>12, AnswerEffect
    <3> QED
      BY <1>3, <1>6, <3>1 DEF Accepted, Calling
  <2>2. /\ row'[y][x] # NoRow /\ row'[y][x].rel = rel /\ row'[y][x].ttl = Lifetime
        /\ \A a, b \in Node : ~(a = y /\ b = x) => row'[a][b] = row[a][b]
    <3>1. Written(rel, "Acceptor", "plain") # NoRow /\ Written(rel, "Acceptor", "plain").rel = rel
             /\ Written(rel, "Acceptor", "plain").ttl = Lifetime
      BY <1>1, WrittenRow, InfoAssumption
    <3>2. row' = [row EXCEPT ![y][x] = Written(rel, "Acceptor", "plain")]
      BY <1>12 DEF AcceptorWrites
    <3> QED
      BY <1>2, <1>3, <3>1, <3>2
  <2>3. /\ Fresh(y, x)' /\ (Fresh(x, y)' <=> Fresh(x, y))
        /\ RelationOf(y, x)' = rel /\ RelationOf(x, y)' = RelationOf(x, y)
        /\ row'[x][y] = row[x][y]
    BY <1>2, <2>2 DEF Fresh, RelationOf
  <2>4. RelationOf(y, x) = "Neighbour" => rel = "Neighbour"
    BY <1>1, <1>12 DEF Downgrades, Relation
  <2>5. AcceptedStays(x, y)'
    <3> SUFFICES ASSUME NEW u \in Askers, Accepted(x, u, y)', <<x, u>> \in sound',
                        call'[x][u].rel = "Neighbour"
                 PROVE  row'[y][x].rel = "Neighbour"
      BY <2>3 DEF AcceptedStays
    <3>1. CASE u = t
      BY <1>6, <2>2, <3>1
    <3>2. CASE u # t
      <4>1. row[y][x].rel = "Neighbour" /\ row[y][x] # NoRow
        BY <1>1, <1>4, <1>9, <3>2 DEF PairInv, AcceptedStays, Fresh
      <4> QED
        BY <2>2, <2>4, <4>1 DEF RelationOf
    <3> QED
      BY <3>1, <3>2
  <2>6. AcceptedStays(y, x)'
    BY <1>1, <1>4, <1>9, <2>3 DEF PairInv, AcceptedStays
  <2>7. UpgradeFollows(x, y)'
    BY <1>2, <1>6, <2>1, <2>3 DEF UpgradeFollows
  <2>8. UpgradeFollows(y, x)'
    <3>1. row'[y][x].ttl > 0
      BY <2>2, PeriodsAssumption
    <3> QED
      BY <1>1, <1>4, <1>9, <2>3, <2>4, <3>1 DEF PairInv, UpgradeFollows
  <2>9. RenewedInTime(x, y)'
    BY <1>1, <1>2, <1>4, <2>1, <2>3 DEF PairInv, RenewedInTime
  <2>10. RenewedInTime(y, x)'
    <3>1. row'[y][x].ttl >= Lifetime - 1
      BY <2>2, PeriodsAssumption
    <3> QED
      BY <1>1, <1>2, <1>4, <2>1, <2>3, <3>1 DEF PairInv, RenewedInTime
  <2>11. AboutPair(x, t, y)
    BY <1>10, <2>2
  <2> QED
    BY <1>2, <1>8, <2>5, <2>6, <2>7, <2>8, <2>9, <2>10, <2>11, StepOfPair DEF PairInv
<1> QED
  BY <1>2, <1>11, <1>12 DEF Accept

-----------------------------------------------------------------------------
(* The end of a call.                                                      *)

(***************************************************************************)
(* When the call of x ends, the other calls stay as they are.              *)
(***************************************************************************)
LEMMA EndEffect ==
    ASSUME PeersInv, NEW x \in Node, NEW t \in Callers, call' = [call EXCEPT ![x][t] = NoCall]
    PROVE  /\ call'[x][t] = NoCall
           /\ \A z \in Node, u \in Askers : ~(z = x /\ u = t) => call'[z][u] = call[z][u]
           /\ \A z \in Node, u \in Askers, w \in Node :
                 /\ Calling(z, u, w)' <=> Calling(z, u, w) /\ ~(z = x /\ u = t)
                 /\ Accepted(z, u, w)' <=> Accepted(z, u, w) /\ ~(z = x /\ u = t)
<1>1. call \in [Node -> [Callers -> Call \cup {NoCall}]]
  BY DEF PeersInv, TypeOK, CallsTyped
<1>2. /\ call'[x][t] = NoCall
      /\ \A z \in Node, u \in Askers : ~(z = x /\ u = t) => call'[z][u] = call[z][u]
  BY <1>1 DEF Askers
<1> QED
  BY <1>2 DEF Calling, Accepted

(***************************************************************************)
(* Trouble between x and y, at the end of the call of x or without one.    *)
(***************************************************************************)
LEMMA TroublePairs ==
    ASSUME PeersInv, NEW x \in Node, NEW y \in Node, x # y, NEW t, Trouble(x, y),
           \/ call' = call /\ t \notin Askers
           \/ t \in Askers /\ Calling(x, t, y) /\ call' = [call EXCEPT ![x][t] = NoCall],
           \A a, b \in Node : ~(a = x /\ b = y) /\ ~(a = y /\ b = x) => row'[a][b] = row[a][b],
           UNCHANGED <<round, up>>,
           \A z, b \in Node, rel \in Relation :
              ~(z = x /\ b = y) /\ [to |-> b, rel |-> rel] \in todo[z]["maintenance"] =>
                  [to |-> b, rel |-> rel] \in todo'[z]["maintenance"]
    PROVE  \A a, b \in Node : a # b => PairInv(a, b)'
<1>1. /\ \A z \in Node, u \in Askers : ~(z = x /\ u = t) => call'[z][u] = call[z][u]
      /\ \A z \in Node, u \in Askers, w \in Node : Calling(z, u, w)' => Calling(z, u, w)
      /\ t \in Askers => call'[x][t] = NoCall
  <2>1. CASE call' = call /\ t \notin Askers
    BY <2>1 DEF Calling
  <2>2. CASE t \in Askers /\ call' = [call EXCEPT ![x][t] = NoCall]
    <3>1. t \in Callers
      BY <2>2 DEF Askers
    <3> QED
      BY <2>2, <3>1, EndEffect
  <2> QED
    BY <2>1, <2>2
<1>2. \A u \in Askers : /\ Calling(x, u, y)' => <<x, u>> \notin sound'
                        /\ Calling(y, u, x)' => <<y, u>> \notin sound'
  BY <1>1, TroubleEffect
<1>3. {x, y} \in broken' /\ {y, x} \in broken'
  BY TroubleEffect
<1>4. PairInv(x, y)' /\ PairInv(y, x)'
  BY <1>2, <1>3, PairInTrouble
<1>5. /\ \A z \in Node, u \in Askers :
            ~(z = x /\ u = t) /\ ~(z = x /\ Calling(x, u, y)) /\ ~(z = y /\ Calling(y, u, x)) =>
                (<<z, u>> \in sound' <=> <<z, u>> \in sound)
      /\ \A a, b \in Node : a # b /\ ~(a = x /\ b = y) /\ ~(a = y /\ b = x) =>
            ({a, b} \in broken' <=> {a, b} \in broken)
  BY TroubleEffect
<1>6. t \in Askers => call[x][t].to = y
  BY DEF Calling
<1>7. AboutPair(x, t, y)
  BY <1>1, <1>5, <1>6 DEF AboutPair
<1> QED
  BY <1>4, <1>7, StepOfPair

LEMMA TimeoutPairs ==
    ASSUME PeersInv, NEW x \in Node, NEW t \in Callers, Timeout(x, t)
    PROVE  \A a, b \in Node : a # b => PairInv(a, b)'
<1>1. /\ call[x][t] # NoCall /\ call' = [call EXCEPT ![x][t] = NoCall]
      /\ UNCHANGED <<row, round, todo, up>>
  BY DEF Timeout
<1>2. PICK y \in Node : y = call[x][t].to /\ x # y
  BY <1>1, CallTyped
<1>3. CASE t = "reactor"
  <2>1. t \notin Askers
    BY <1>3 DEF Askers
  <2>2. \A z \in Node, u \in Askers : call'[z][u] = call[z][u]
    <3>1. \A z \in Node, u \in Askers : ~(z = x /\ u = t) => call'[z][u] = call[z][u]
      BY <1>1, EndEffect
    <3> QED
      BY <2>1, <3>1
  <2>3. UNCHANGED <<broken, sound>>
    BY <1>3 DEF Timeout
  <2>4. \A a, b \in Node, u \in Askers : SameCall(a, u, b)
    BY <2>2, <2>3 DEF SameCall, Calling
  <2>5. \A a, b \in Node : Renews(a, b) => Renews(a, b)'
    <3>1. "maintenance" \in Askers
      BY DEF Askers, Callers
    <3> QED
      BY <1>1, <2>2, <3>1 DEF Renews, Calling
  <2>6. \A a, b \in Node : a # b => PairInv(a, b)
    BY DEF PeersInv
  <2> QED
    BY <1>1, <2>3, <2>4, <2>5, <2>6, PairFrame
<1>4. CASE t # "reactor"
  <2>1. t \in Askers /\ Calling(x, t, y) /\ Trouble(x, y)
    BY <1>1, <1>2, <1>4 DEF Timeout, Askers, Calling
  <2> QED
    BY <1>1, <1>2, <2>1, TroublePairs
<1> QED
  BY <1>3, <1>4

(***************************************************************************)
(* A call that ends without trouble leaves its pair unbroken if it was     *)
(* sound, and otherwise in the trouble it already was in.                  *)
(***************************************************************************)
LEMMA SuccessPairs ==
    ASSUME PeersInv, NEW x \in Node, NEW t \in Askers, NEW y \in Node, x # y, Accepted(x, t, y),
           NEW rel \in Relation, rel = call[x][t].rel, NEW info \in Info,
           call' = [call EXCEPT ![x][t] = NoCall],
           row' = [row EXCEPT ![x][y] = Written(rel, "Initiator", info)],
           ~Downgrades(x, y, rel), up[x],
           broken' = IF <<x, t>> \in sound THEN broken \ {{x, y}} ELSE broken,
           sound' = sound \ {<<x, t>>},
           UNCHANGED <<round, todo, up>>
    PROVE  \A a, b \in Node : a # b => PairInv(a, b)'
<1>1. t \in Callers /\ Calling(x, t, y)
  BY DEF Askers, Accepted
<1>2. PairInv(x, y) /\ PairInv(y, x) /\ {x, y} = {y, x}
  BY DEF PeersInv
<1>3. /\ call'[x][t] = NoCall
      /\ \A z \in Node, u \in Askers : ~(z = x /\ u = t) => call'[z][u] = call[z][u]
      /\ \A z \in Node, u \in Askers, w \in Node :
            /\ Calling(z, u, w)' <=> Calling(z, u, w) /\ ~(z = x /\ u = t)
            /\ Accepted(z, u, w)' <=> Accepted(z, u, w) /\ ~(z = x /\ u = t)
  BY <1>1, EndEffect
<1>4. /\ row'[x][y] # NoRow /\ row'[x][y].rel = rel /\ row'[x][y].role = "Initiator"
      /\ row'[x][y].ttl = Lifetime
      /\ \A a, b \in Node : ~(a = x /\ b = y) => row'[a][b] = row[a][b]
  <2>1. row \in [Node -> [Node -> Row \cup {NoRow}]]
    BY DEF PeersInv, TypeOK
  <2> QED
    BY <2>1, WrittenRow
<1>5. \A z \in Node, u \in Askers : <<z, u>> \in sound' <=> <<z, u>> \in sound /\ ~(z = x /\ u = t)
  OBVIOUS
<1>6. \A a, b \in Node : a # b /\ ~(a = x /\ b = y) /\ ~(a = y /\ b = x) =>
         ({a, b} \in broken' <=> {a, b} \in broken)
  <2>1. \A a, b \in Node : a # b /\ ~(a = x /\ b = y) /\ ~(a = y /\ b = x) => {a, b} # {x, y}
    BY SamePair
  <2> QED
    BY <2>1
<1>7. AboutPair(x, t, y)
  <2>1. call[x][t].to = y
    BY <1>1 DEF Calling
  <2> QED
    BY <1>3, <1>4, <1>5, <1>6, <2>1 DEF AboutPair
<1>8. CASE <<x, t>> \notin sound
  <2>1. {x, y} \in broken /\ broken' = broken
    BY <1>1, <1>2, <1>8 DEF PairInv, SoundTogether
  <2>2. \A u \in Askers : /\ Calling(x, u, y) => <<x, u>> \notin sound
                          /\ Calling(y, u, x) => <<y, u>> \notin sound
    BY <1>1, <1>2, <1>8 DEF PairInv, SoundTogether
  <2>3. PairInv(x, y)' /\ PairInv(y, x)'
    BY <1>2, <1>3, <1>5, <2>1, <2>2, PairInTrouble
  <2> QED
    BY <1>1, <1>7, <2>3, StepOfPair
<1>9. CASE <<x, t>> \in sound
  <2>1. /\ {x, y} \notin broken' /\ {y, x} \notin broken' /\ up[y]
        /\ \A u \in Askers : /\ Calling(x, u, y) => <<x, u>> \in sound
                             /\ Calling(y, u, x) => <<y, u>> \in sound
    BY <1>1, <1>2, <1>9 DEF PairInv, SoundTogether
  <2>2. Fresh(y, x) /\ (rel = "Neighbour" => row[y][x].rel = "Neighbour")
    BY <1>2, <1>9 DEF PairInv, AcceptedStays
  <2>3. /\ Fresh(y, x)' /\ Fresh(x, y)' /\ RelationOf(x, y)' = rel
        /\ RelationOf(y, x)' = RelationOf(y, x) /\ row'[y][x] = row[y][x]
    BY <1>4, <2>2 DEF Fresh, RelationOf
  <2>4. RelationOf(x, y) = "Neighbour" => rel = "Neighbour"
    BY DEF Downgrades, Relation
  <2>5. SoundTogether(x, y)' /\ SoundTogether(y, x)'
    BY <1>3, <1>5, <2>1 DEF SoundTogether
  <2>6. AcceptedStays(x, y)'
    BY <1>2, <1>3, <1>5, <2>3 DEF PairInv, AcceptedStays
  <2>7. AcceptedStays(y, x)'
    <3> SUFFICES ASSUME NEW u \in Askers, Accepted(y, u, x)', <<y, u>> \in sound',
                        call'[y][u].rel = "Neighbour"
                 PROVE  row'[x][y].rel = "Neighbour"
      BY <2>3 DEF AcceptedStays
    <3>1. row[x][y] # NoRow /\ row[x][y].rel = "Neighbour"
      BY <1>2, <1>3, <1>5 DEF PairInv, AcceptedStays, Fresh
    <3> QED
      BY <1>4, <2>4, <3>1 DEF RelationOf
  <2>8. row'[x][y].ttl > 0 /\ row'[x][y].ttl >= Lifetime - 1 /\ row[y][x].ttl > 0 /\ row[y][x].ttl >= Lifetime - 1
    BY <1>4, <2>2, PeriodsAssumption DEF Fresh
  <2>9. UpgradeFollows(x, y)'
    <3> SUFFICES ASSUME RelationOf(y, x) = "Neighbour", rel # "Neighbour"
                 PROVE  \E u \in Askers : Accepted(x, u, y)' /\ call'[x][u].rel = "Neighbour"
      BY <2>3, <2>8 DEF UpgradeFollows
    <3>1. PICK u \in Askers : Accepted(x, u, y) /\ call[x][u].rel = "Neighbour"
      BY <1>2, <1>9, <2>4 DEF PairInv, UpgradeFollows
    <3>2. u # t
      BY <3>1
    <3> QED
      BY <1>3, <3>1, <3>2
  <2>10. UpgradeFollows(y, x)'
    <3>1. rel = "Neighbour" => RelationOf(y, x) = "Neighbour"
      BY <2>2 DEF RelationOf, Fresh
    <3> QED
      BY <2>3, <2>8, <3>1 DEF UpgradeFollows
  <2>11. RenewedInTime(x, y)' /\ RenewedInTime(y, x)'
    BY <1>4, <2>3, <2>8 DEF RenewedInTime
  <2> QED
    BY <1>1, <1>7, <2>5, <2>6, <2>7, <2>9, <2>10, <2>11, StepOfPair DEF PairInv
<1> QED
  BY <1>8, <1>9

LEMMA DeniedPairs ==
    ASSUME PeersInv, NEW x \in Node, NEW t \in Askers, NEW y \in Node, x # y, Calling(x, t, y),
           call[x][t].state = "answered", call[x][t].reply = "denied",
           call' = [call EXCEPT ![x][t] = NoCall], sound' = sound \ {<<x, t>>},
           UNCHANGED <<row, broken, round, todo, up>>
    PROVE  \A a, b \in Node : a # b => PairInv(a, b)'
<1>1. t \in Callers /\ ~Accepted(x, t, y)
  BY DEF Askers, Accepted
<1>2. PairInv(x, y) /\ PairInv(y, x) /\ {x, y} = {y, x}
  BY DEF PeersInv
<1>3. /\ call'[x][t] = NoCall
      /\ \A z \in Node, u \in Askers : ~(z = x /\ u = t) => call'[z][u] = call[z][u]
      /\ \A z \in Node, u \in Askers, w \in Node :
            /\ Calling(z, u, w)' <=> Calling(z, u, w) /\ ~(z = x /\ u = t)
            /\ Accepted(z, u, w)' <=> Accepted(z, u, w) /\ ~(z = x /\ u = t)
  BY <1>1, EndEffect
<1>4. \A z \in Node, u \in Askers : <<z, u>> \in sound' <=> <<z, u>> \in sound /\ ~(z = x /\ u = t)
  OBVIOUS
<1>5. AboutPair(x, t, y)
  BY <1>1, <1>3, <1>4 DEF AboutPair, Calling
<1>6. SoundTogether(x, y)' /\ SoundTogether(y, x)'
  BY <1>2, <1>3, <1>4 DEF PairInv, SoundTogether
<1>7. \A u \in Askers : /\ Accepted(x, u, y)' <=> Accepted(x, u, y)
                        /\ Accepted(y, u, x)' <=> Accepted(y, u, x)
                        /\ Accepted(x, u, y) => u # t
                        /\ Accepted(x, u, y) => call'[x][u] = call[x][u]
                        /\ call'[y][u] = call[y][u]
  BY <1>1, <1>3
<1>8. \A a, b \in Node : (Fresh(a, b)' <=> Fresh(a, b)) /\ RelationOf(a, b)' = RelationOf(a, b)
  BY DEF Fresh, RelationOf
<1>9. AcceptedStays(x, y)' /\ AcceptedStays(y, x)'
  BY <1>2, <1>4, <1>7, <1>8 DEF PairInv, AcceptedStays
<1>10. UpgradeFollows(x, y)' /\ UpgradeFollows(y, x)'
  BY <1>2, <1>4, <1>7, <1>8 DEF PairInv, UpgradeFollows
<1>11. (Renews(x, y) => Renews(x, y)') /\ (Renews(y, x) => Renews(y, x)')
  <2>1. "maintenance" \in Askers
    BY DEF Askers, Callers
  <2> QED
    BY <1>3, <2>1 DEF Renews, Calling
<1>12. RenewedInTime(x, y)' /\ RenewedInTime(y, x)'
  BY <1>2, <1>7, <1>8, <1>11 DEF PairInv, RenewedInTime
<1> QED
  BY <1>1, <1>5, <1>6, <1>9, <1>10, <1>12, StepOfPair DEF PairInv

LEMMA FinishPairs ==
    ASSUME PeersInv, NEW x \in Node, NEW t \in Callers, Finish(x, t)
    PROVE  \A a, b \in Node : a # b => PairInv(a, b)'
<1>1. /\ call[x][t] # NoCall /\ call[x][t].state = "answered" /\ t # "reactor" /\ t \in Askers /\ up[x]
      /\ call' = [call EXCEPT ![x][t] = NoCall]
      /\ UNCHANGED <<round, todo, up>>
  BY DEF Finish, ReactorFree, Askers
<1>2. PICK y \in Node, rel \in Relation :
         y = call[x][t].to /\ x # y /\ rel = call[x][t].rel /\ Calling(x, t, y)
  BY <1>1, CallTyped DEF Calling
<1>3. call[x][t].reply \in Info \cup {"denied"}
  BY <1>1 DEF PeersInv, TypeOK, CallsTyped, Call
<1>4. CASE call[x][t].reply = "denied" /\ sound' = sound \ {<<x, t>>} /\ UNCHANGED <<row, broken>>
  BY <1>1, <1>2, <1>4, DeniedPairs
<1>5. CASE Trouble(x, y) /\ (row' = row \/ \E r : row' = [row EXCEPT ![x][y] = r])
  <2>1. \A a, b \in Node : ~(a = x /\ b = y) => row'[a][b] = row[a][b]
    BY <1>5 DEF PeersInv, TypeOK
  <2>2. \A z, b \in Node, r \in Relation :
           ~(z = x /\ b = y) /\ [to |-> b, rel |-> r] \in todo[z]["maintenance"] =>
               [to |-> b, rel |-> r] \in todo'[z]["maintenance"]
    BY <1>1
  <2>3. \A a, b \in Node : ~(a = x /\ b = y) /\ ~(a = y /\ b = x) => row'[a][b] = row[a][b]
    BY <2>1
  <2>4. /\ t \in Askers /\ Calling(x, t, y) /\ call' = [call EXCEPT ![x][t] = NoCall]
        /\ x # y /\ Trouble(x, y) /\ UNCHANGED <<round, up>>
    BY <1>1, <1>2, <1>5
  <2>5. \/ call' = call /\ t \notin Askers
        \/ t \in Askers /\ Calling(x, t, y) /\ call' = [call EXCEPT ![x][t] = NoCall]
    BY <2>4
  <2>6. x # y /\ Trouble(x, y) /\ UNCHANGED <<round, up>>
    BY <2>4
  <2> QED
    BY <2>2, <2>3, <2>5, <2>6, TroublePairs
<1>6. CASE /\ call[x][t].reply # "denied"
           /\ row' = [row EXCEPT ![x][y] = Written(rel, "Initiator", call[x][t].reply)]
           /\ ~Downgrades(x, y, rel)
           /\ broken' = IF <<x, t>> \in sound THEN broken \ {{x, y}} ELSE broken
           /\ sound' = sound \ {<<x, t>>}
  <2>1. Accepted(x, t, y)
    BY <1>1, <1>2, <1>6 DEF Accepted
  <2>2. PICK info \in Info : info = call[x][t].reply
    BY <1>3, <1>6
  <2>3. row' = [row EXCEPT ![x][y] = Written(rel, "Initiator", info)]
    BY <1>6, <2>2
  <2> QED
    BY <1>1, <1>2, <1>6, <2>1, <2>3, SuccessPairs
<1> QED
  BY <1>2, <1>4, <1>5, <1>6 DEF Finish

(***************************************************************************)
(* A request served late.                                                  *)
(***************************************************************************)
LEMMA AcceptLatePairs ==
    ASSUME PeersInv, NEW m \in late, AcceptLate(m)
    PROVE  \A a, b \in Node : a # b => PairInv(a, b)'
<1>1. PICK x \in Node, y \in Node : x = m.from /\ y = m.to /\ x # y
  BY DEF PeersInv, TypeOK, WellAddressed
<1>2. UNCHANGED <<call, round, todo, up>>
  BY DEF AcceptLate
<1>3. CASE UNCHANGED <<row, broken, sound>>
  <2>1. \A a, b \in Node : a # b => PairInv(a, b)
    BY DEF PeersInv
  <2>2. \A a, b \in Node : PairInv(a, b)' <=> PairInv(a, b)
    BY <1>2, <1>3 DEF PairInv, SoundTogether, AcceptedStays, UpgradeFollows, RenewedInTime, Accepted,
                      Calling, Fresh, Renews, RelationOf
  <2> QED
    BY <2>1, <2>2
<1>4. CASE AcceptorWrites(y, x, m.rel) /\ Trouble(x, y)
  <2>1. \A a, b \in Node : ~(a = y /\ b = x) => row'[a][b] = row[a][b]
    BY <1>4 DEF AcceptorWrites, PeersInv, TypeOK
  <2>2. "reactor" \notin Askers
    BY DEF Askers
  <2> QED
    BY <1>1, <1>2, <1>4, <2>1, <2>2, TroublePairs
<1> QED
  BY <1>1, <1>3, <1>4 DEF AcceptLate

-----------------------------------------------------------------------------
(* The start of a call.                                                    *)

(***************************************************************************)
(* The maintenance keeps its entries, but for the one t takes up.          *)
(***************************************************************************)
OthersWait(x, t, y, rel) ==
    \A z, b \in Node, r \in Relation :
        [to |-> b, rel |-> r] \in todo[z]["maintenance"]
        /\ ~(t = "maintenance" /\ z = x /\ b = y /\ r = rel)
        => [to |-> b, rel |-> r] \in todo'[z]["maintenance"]

(***************************************************************************)
(* A new call is sound if all other calls of its pair are.                 *)
(***************************************************************************)
LEMMA AskPairs ==
    ASSUME PeersInv, NEW x \in Node, NEW t \in Askers, NEW y \in Node, x # y, NEW rel \in Relation,
           Idle(x, t), up[y], Ask(x, t, y, rel),
           sound' = IF CallsBetween(x, y) \subseteq sound THEN sound \cup {<<x, t>>} ELSE sound,
           UNCHANGED <<row, broken, round, up>>,
           OthersWait(x, t, y, rel)
    PROVE  \A a, b \in Node : a # b => PairInv(a, b)'
<1>1. /\ t \in Callers /\ (\A u \in Askers : u \in Callers) /\ up[x] /\ call[x][t] = NoCall
      /\ call \in [Node -> [Callers -> Call \cup {NoCall}]] /\ <<x, t>> \notin sound
      /\ "maintenance" \in Askers
  BY DEF Idle, Askers, Callers, PeersInv, TypeOK, CallsTyped, WellAddressed
<1>2. /\ call'[x][t] # NoCall /\ call'[x][t].to = y /\ call'[x][t].rel = rel
      /\ call'[x][t].state = "asked"
      /\ \A z \in Node, u \in Askers : ~(z = x /\ u = t) => call'[z][u] = call[z][u]
  <2> DEFINE d == [to |-> y, rel |-> rel, known |-> RelationOf(x, y), state |-> "asked", reply |-> "none"]
  <2>1. RelationOf(x, y) \in Relation \cup {"None"}
    BY RowTyped DEF RelationOf
  <2>2. d \in Call /\ d.to = y /\ d.rel = rel /\ d.state = "asked"
    BY <2>1 DEF Call
  <2>3. call' = [call EXCEPT ![x][t] = d]
    BY DEF Ask
  <2> HIDE DEF d
  <2>4. call'[x][t] = d /\ \A z \in Node, u \in Askers : ~(z = x /\ u = t) => call'[z][u] = call[z][u]
    BY <1>1, <2>3
  <2> QED
    BY <2>2, <2>4, NullAssumption
<1>3. \A z \in Node, u \in Askers, w \in Node :
         /\ Calling(z, u, w)' <=> Calling(z, u, w) \/ (z = x /\ u = t /\ w = y)
         /\ Accepted(z, u, w)' <=> Accepted(z, u, w)
         /\ Accepted(z, u, w) => ~(z = x /\ u = t)
         /\ Accepted(z, u, w) => call'[z][u] = call[z][u]
  BY <1>1, <1>2 DEF Calling, Accepted
<1>4. PairInv(x, y) /\ PairInv(y, x) /\ {x, y} = {y, x}
  BY DEF PeersInv
<1>5. \A z \in Node, u \in Askers : ~(z = x /\ u = t) => (<<z, u>> \in sound' <=> <<z, u>> \in sound)
  OBVIOUS
<1>6. AboutPair(x, t, y)
  BY <1>1, <1>2, <1>5 DEF AboutPair, OthersWait
<1>7. SoundTogether(x, y)' /\ SoundTogether(y, x)'
  <2>1. CASE CallsBetween(x, y) \subseteq sound
    <3>1. <<x, t>> \in sound'
      BY <2>1
    <3>2. \A u \in Askers : /\ Calling(x, u, y)' => <<x, u>> \in sound'
                            /\ Calling(y, u, x)' => <<y, u>> \in sound'
      BY <1>3, <1>5, <2>1, <3>1, BetweenPair
    <3> QED
      BY <1>1, <3>2 DEF SoundTogether
  <2>2. CASE ~(CallsBetween(x, y) \subseteq sound)
    <3>1. PICK z \in Node, u \in Askers : <<z, u>> \in CallsBetween(x, y) /\ <<z, u>> \notin sound
      BY <2>2, BetweenAskers
    <3>2. (z = x /\ Calling(x, u, y)) \/ (z = y /\ Calling(y, u, x))
      BY <3>1, BetweenPair
    <3>3. {x, y} \in broken
      BY <3>1, <3>2, UnbrokenSound
    <3>4. \A v \in Askers : /\ Calling(x, v, y) => <<x, v>> \notin sound
                            /\ Calling(y, v, x) => <<y, v>> \notin sound
      BY <1>4, <3>1, <3>2 DEF PairInv, SoundTogether
    <3>5. sound' = sound
      BY <2>2
    <3>6. \A v \in Askers : /\ Calling(x, v, y)' => <<x, v>> \notin sound'
                            /\ Calling(y, v, x)' => <<y, v>> \notin sound'
      BY <1>1, <1>3, <3>4, <3>5
    <3> QED
      BY <1>4, <3>3, <3>6 DEF SoundTogether
  <2> QED
    BY <2>1, <2>2
<1>8. \A a, b \in Node : (Fresh(a, b)' <=> Fresh(a, b)) /\ RelationOf(a, b)' = RelationOf(a, b)
  BY DEF Fresh, RelationOf
<1>9. AcceptedStays(x, y)' /\ AcceptedStays(y, x)'
  BY <1>3, <1>4, <1>5, <1>8 DEF PairInv, AcceptedStays
<1>10. UpgradeFollows(x, y)' /\ UpgradeFollows(y, x)'
  BY <1>3, <1>4, <1>5, <1>8 DEF PairInv, UpgradeFollows
<1>11. ASSUME Renews(x, y) PROVE Renews(x, y)'
  <2>1. row[x][y] # NoRow /\ row[x][y].rel \in Relation
    BY <1>11, RowTyped DEF Renews
  <2>2. CASE t = "maintenance"
    BY <1>1, <1>2, <1>11, <2>1, <2>2 DEF Renews, Calling, OthersWait
  <2>3. CASE t # "maintenance"
    BY <1>1, <1>2, <1>11, <2>1, <2>3 DEF Renews, Calling, OthersWait
  <2> QED
    BY <2>2, <2>3
<1>12. ASSUME Renews(y, x) PROVE Renews(y, x)'
  <2>1. row[y][x] # NoRow /\ row[y][x].rel \in Relation
    BY <1>12, RowTyped DEF Renews
  <2> QED
    BY <1>1, <1>2, <1>12, <2>1 DEF Renews, Calling, OthersWait
<1>13. RenewedInTime(x, y)' /\ RenewedInTime(y, x)'
  BY <1>3, <1>4, <1>8, <1>11, <1>12 DEF PairInv, RenewedInTime
<1> QED
  BY <1>6, <1>7, <1>9, <1>10, <1>13, StepOfPair DEF PairInv

(***************************************************************************)
(* SafeStoreNode as initiator, for an entry of a loop or a node contacted. *)
(***************************************************************************)
LEMMA StorePairs ==
    ASSUME PeersInv, NEW x \in Node, NEW t \in Askers, NEW y \in Node, x # y, NEW rel \in Relation,
           Idle(x, t), SafeStoreNode(x, t, y, rel),
           UNCHANGED <<row, round, up>>,
           OthersWait(x, t, y, rel)
    PROVE  \A a, b \in Node : a # b => PairInv(a, b)'
<1>1. CASE Downgrades(x, y, rel) /\ UNCHANGED <<call, broken, sound>>
  <2>1. ASSUME NEW a \in Node, NEW b \in Node, Renews(a, b) PROVE Renews(a, b)'
    <3>1. row[a][b] # NoRow /\ row[a][b].rel \in Relation
      BY <2>1, RowTyped DEF Renews
    <3>2. ~(a = x /\ b = y /\ row[a][b].rel = rel)
      BY <1>1, <3>1 DEF Downgrades, RelationOf
    <3> QED
      BY <1>1, <2>1, <3>1, <3>2 DEF Renews, Calling, OthersWait
  <2>2. \A a, b \in Node, u \in Askers : SameCall(a, u, b)
    BY <1>1 DEF SameCall, Calling
  <2>3. \A a, b \in Node : a # b => PairInv(a, b)
    BY DEF PeersInv
  <2> QED
    BY <1>1, <2>1, <2>2, <2>3, PairFrame
<1>2. CASE Trouble(x, y) /\ UNCHANGED call
  <2>1. "reactor" \notin Askers
    BY DEF Askers
  <2>2. \A z, b \in Node, r \in Relation :
           ~(z = x /\ b = y) /\ [to |-> b, rel |-> r] \in todo[z]["maintenance"] =>
               [to |-> b, rel |-> r] \in todo'[z]["maintenance"]
    BY DEF OthersWait
  <2>3. \A a, b \in Node : row'[a][b] = row[a][b]
    OBVIOUS
  <2> QED
    BY <1>2, <2>1, <2>2, <2>3, TroublePairs
<1>3. CASE /\ up[y] /\ Ask(x, t, y, rel)
           /\ sound' = IF CallsBetween(x, y) \subseteq sound THEN sound \cup {<<x, t>>} ELSE sound
           /\ UNCHANGED broken
  BY <1>3, AskPairs
<1> QED
  BY <1>1, <1>2, <1>3 DEF SafeStoreNode

LEMMA NextEntryPairs ==
    ASSUME PeersInv, NEW x \in Node, NEW t \in Loops, NextEntry(x, t)
    PROVE  \A a, b \in Node : a # b => PairInv(a, b)'
<1>1. PICK e \in todo[x][t] : /\ todo' = [todo EXCEPT ![x][t] = @ \ {e}]
                              /\ SafeStoreNode(x, t, e.to, e.rel)
  BY DEF NextEntry
<1>2. /\ Idle(x, t) /\ UNCHANGED <<row, round, up>> /\ t \in Askers
      /\ todo \in [Node -> [Loops -> SUBSET Entry]] /\ "maintenance" \in Loops
  BY DEF NextEntry, Loops, Askers, Callers, PeersInv, TypeOK
<1>3. PICK y \in Node, rel \in Relation : y = e.to /\ rel = e.rel /\ x # y /\ e = [to |-> y, rel |-> rel]
  <2>1. e \in Entry /\ e.to # x
    BY <1>2 DEF PeersInv, WellAddressed
  <2> QED
    BY <2>1 DEF Entry
<1>4. OthersWait(x, t, y, rel)
  <2> SUFFICES ASSUME NEW z \in Node, NEW b \in Node, NEW r \in Relation,
                      [to |-> b, rel |-> r] \in todo[z]["maintenance"],
                      ~(t = "maintenance" /\ z = x /\ b = y /\ r = rel)
               PROVE  [to |-> b, rel |-> r] \in todo'[z]["maintenance"]
    BY DEF OthersWait
  <2>1. CASE z = x /\ t = "maintenance"
    <3>1. [to |-> b, rel |-> r] # e
      BY <1>3, <2>1
    <3> QED
      BY <1>1, <1>2, <2>1, <3>1
  <2>2. CASE ~(z = x /\ t = "maintenance")
    BY <1>1, <1>2, <2>2
  <2> QED
    BY <2>1, <2>2
<1> QED
  BY <1>1, <1>2, <1>3, <1>4, StorePairs

LEMMA ContactPairs ==
    ASSUME PeersInv, NEW x \in Node, NEW y \in Node, x # y, NEW rel \in Relation, Contact(x, y, rel)
    PROVE  \A a, b \in Node : a # b => PairInv(a, b)'
<1>1. /\ Idle(x, "contact") /\ SafeStoreNode(x, "contact", y, rel) /\ UNCHANGED <<row, round, todo, up>>
      /\ "contact" \in Askers /\ OthersWait(x, "contact", y, rel)
  BY DEF Contact, Askers, Callers, OthersWait
<1> QED
  BY <1>1, StorePairs

-----------------------------------------------------------------------------
(* Steps that are about no relation call.                                  *)

(***************************************************************************)
(* A step that touches neither rows nor relation calls nor the promise to  *)
(* renew.                                                                  *)
(***************************************************************************)
LEMMA QuietPairs ==
    ASSUME PeersInv, UNCHANGED <<row, broken, sound>>,
           \A z \in Node, u \in Askers : call'[z][u] = call[z][u],
           \A z \in Node : up[z] => up'[z],
           \A a, b \in Node : Renews(a, b) => Renews(a, b)'
    PROVE  \A a, b \in Node : a # b => PairInv(a, b)'
<1>1. \A a, b \in Node, u \in Askers : SameCall(a, u, b)
  BY DEF SameCall, Calling
<1>2. \A a, b \in Node : a # b => PairInv(a, b)
  BY DEF PeersInv
<1> QED
  BY <1>1, <1>2, PairFrame

LEMMA ReactorPairs ==
    ASSUME PeersInv, UNCHANGED <<row, round, todo, up, broken, sound>>,
           \A z \in Node, u \in Callers : u # "reactor" => call'[z][u] = call[z][u]
    PROVE  \A a, b \in Node : a # b => PairInv(a, b)'
<1>1. "maintenance" \in Callers /\ \A u \in Askers : u \in Callers /\ u # "reactor"
  BY DEF Askers, Callers
<1>2. \A a, b \in Node : Renews(a, b) => Renews(a, b)'
  BY <1>1 DEF Renews, Calling
<1> QED
  BY <1>1, <1>2, QuietPairs

LEMMA ExplorePairs ==
    ASSUME PeersInv, NEW x \in Node, NEW y \in Node, Explore(x, y)
    PROVE  \A a, b \in Node : a # b => PairInv(a, b)'
<1>1. call \in [Node -> [Callers -> Call \cup {NoCall}]]
  BY DEF PeersInv, TypeOK, CallsTyped
<1>2. \A z \in Node, u \in Callers : u # "reactor" => call'[z][u] = call[z][u]
  BY <1>1 DEF Explore, Ask
<1> QED
  BY <1>2, ReactorPairs DEF Explore

LEMMA ClosestPairs ==
    ASSUME PeersInv, NEW x \in Node, GetClosestNodesByDistance(x)
    PROVE  \A a, b \in Node : a # b => PairInv(a, b)'
<1>1. call \in [Node -> [Callers -> Call \cup {NoCall}]]
  BY DEF PeersInv, TypeOK, CallsTyped
<1>2. \A z \in Node, u \in Callers : u # "reactor" => call'[z][u] = call[z][u]
  BY <1>1 DEF GetClosestNodesByDistance, Answer
<1> QED
  BY <1>2, ReactorPairs DEF GetClosestNodesByDistance

LEMMA RegisterPairs ==
    ASSUME PeersInv, NEW x \in Node, RegisterService(x)
    PROVE  \A a, b \in Node : a # b => PairInv(a, b)'
<1>1. UNCHANGED <<row, call, round, up, broken, sound>>
  BY DEF RegisterService
<1>2. \A z \in Node : todo'[z]["maintenance"] = todo[z]["maintenance"]
  BY DEF RegisterService, PeersInv, TypeOK, Loops
<1>3. \A a, b \in Node : Renews(a, b) => Renews(a, b)'
  BY <1>1, <1>2 DEF Renews, Calling
<1> QED
  BY <1>1, <1>3, QuietPairs

(***************************************************************************)
(* The maintenance that was due takes up every relation it initiated.      *)
(***************************************************************************)
LEMMA RenewPairs ==
    ASSUME PeersInv, NEW x \in Node, RenewNodeRelations(x)
    PROVE  \A a, b \in Node : a # b => PairInv(a, b)'
<1>1. UNCHANGED <<row, call, up, broken, sound>> /\ round[x] = "due"
  BY DEF RenewNodeRelations
<1>2. /\ round'[x] = "renewing" /\ \A z \in Node : z # x => round'[z] = round[z]
      /\ \A z \in Node : z # x => todo'[z] = todo[z]
      /\ \A b \in Node : row[x][b] # NoRow /\ row[x][b].role = "Initiator" =>
            [to |-> b, rel |-> row[x][b].rel] \in todo'[x]["maintenance"]
  BY DEF RenewNodeRelations, PeersInv, TypeOK, Loops
<1>3. \A a, b \in Node : Renews(a, b) => Renews(a, b)'
  BY <1>1, <1>2 DEF Renews, Calling
<1> QED
  BY <1>1, <1>3, QuietPairs

LEMMA RestartPairs ==
    ASSUME PeersInv, NEW x \in Node, Restart(x)
    PROVE  \A a, b \in Node : a # b => PairInv(a, b)'
<1>1. UNCHANGED <<row, call, round, todo, broken, sound>> /\ \A z \in Node : up[z] => up'[z]
  BY DEF Restart, PeersInv, TypeOK
<1>2. \A a, b \in Node : Renews(a, b) => Renews(a, b)'
  BY <1>1 DEF Renews, Calling
<1> QED
  BY <1>1, <1>2, QuietPairs

LEMMA CalmPairs ==
    ASSUME PeersInv, CalmDown \/ UNCHANGED vars
    PROVE  \A a, b \in Node : a # b => PairInv(a, b)'
<1>1. UNCHANGED <<row, call, round, todo, up, broken, sound>>
  BY DEF CalmDown, vars
<1> QED
  BY <1>1, ReactorPairs

-----------------------------------------------------------------------------
(* Expiration, processes and time.                                         *)

(***************************************************************************)
(* What was renewed in this period or the last one does not expire.        *)
(***************************************************************************)
LEMMA ExpirePairs ==
    ASSUME PeersInv, NEW x \in Node, ExpireOldNodes(x)
    PROVE  \A a, b \in Node : a # b => PairInv(a, b)'
<1>1. /\ UNCHANGED <<call, todo, up, broken, sound>>
      /\ round[x] = "renewing" /\ call[x]["maintenance"] = NoCall /\ todo[x]["maintenance"] = {}
  BY DEF ExpireOldNodes, Idle
<1>2. /\ \A z \in Node : z # x => round'[z] = round[z]
      /\ \A z, b \in Node : z # x => row'[z][b] = row[z][b]
      /\ \A b \in Node : row'[x][b] = IF row[x][b] # NoRow /\ row[x][b].ttl = 0 THEN NoRow ELSE row[x][b]
  BY DEF ExpireOldNodes, PeersInv, TypeOK
<1>3. \A a, b \in Node : /\ row[a][b] = NoRow => row'[a][b] = NoRow
                         /\ row[a][b] # NoRow /\ row[a][b].ttl # 0 => row'[a][b] = row[a][b]
                         /\ row'[a][b] # NoRow => row'[a][b] = row[a][b]
  BY <1>2
<1>4. \A a, b \in Node : Renews(a, b) => Renews(a, b)'
  <2>1. \A b \in Node : ~Renews(x, b)
    BY <1>1 DEF Renews, Calling
  <2> QED
    BY <1>1, <1>2, <2>1 DEF Renews, Calling
<1>5. \A a, b \in Node, u \in Askers : SameCall(a, u, b)
  BY <1>1 DEF SameCall, Calling
<1> SUFFICES ASSUME NEW a \in Node, NEW b \in Node, a # b PROVE PairInv(a, b)'
  OBVIOUS
<1>6. PairInv(a, b) /\ PairInv(b, a) /\ {a, b} = {b, a}
  BY DEF PeersInv
<1>7. CASE {a, b} \notin broken
  <2>1. row'[a][b] = row[a][b] /\ row'[b][a] = row[b][a]
    <3>1. /\ row[a][b] # NoRow => row[a][b].ttl \in 0..Lifetime /\ row[a][b].ttl >= Lifetime - 1
          /\ row[b][a] # NoRow => row[b][a].ttl \in 0..Lifetime /\ row[b][a].ttl >= Lifetime - 1
      BY <1>6, <1>7, RowTyped DEF PairInv, RenewedInTime
    <3>2. (row[a][b] # NoRow => row[a][b].ttl # 0) /\ (row[b][a] # NoRow => row[b][a].ttl # 0)
      BY <3>1, PeriodsAssumption
    <3> QED
      BY <1>3, <3>2
  <2> QED
    BY <1>1, <1>4, <1>5, <1>6, <2>1, PairFrame
<1>8. CASE {a, b} \in broken
  <2>1. \A u \in Askers : /\ Accepted(a, u, b)' <=> Accepted(a, u, b)
                          /\ call'[a][u] = call[a][u]
    BY <1>1 DEF Accepted, Calling
  <2>2. SoundTogether(a, b)'
    BY <1>1, <1>6 DEF PairInv, SoundTogether, Calling
  <2>3. Fresh(b, a) => Fresh(b, a)' /\ row'[b][a] = row[b][a]
    BY <1>3, PeriodsAssumption DEF Fresh
  <2>4. AcceptedStays(a, b)'
    BY <1>1, <1>6, <2>1, <2>3 DEF PairInv, AcceptedStays
  <2>5. UpgradeFollows(a, b)'
    <3> SUFFICES ASSUME {a, b} \notin broken \/ \E t \in Askers : Accepted(a, t, b) /\ <<a, t>> \in sound,
                        RelationOf(b, a)' = "Neighbour"
                 PROVE  \/ RelationOf(a, b)' = "Neighbour" /\ row'[a][b].ttl > 0
                        \/ \E t \in Askers : Accepted(a, t, b) /\ call[a][t].rel = "Neighbour"
      BY <1>1, <2>1 DEF UpgradeFollows
    <3>1. RelationOf(b, a) = "Neighbour"
      BY <1>3 DEF RelationOf
    <3>2. CASE RelationOf(a, b) = "Neighbour" /\ row[a][b].ttl > 0
      <4>1. row[a][b] # NoRow /\ row[a][b].ttl # 0
        BY <3>2 DEF RelationOf
      <4> QED
        BY <1>3, <3>2, <4>1 DEF RelationOf
    <3> QED
      BY <1>6, <3>1, <3>2 DEF PairInv, UpgradeFollows
  <2>6. RenewedInTime(a, b)'
    BY <1>1, <1>8 DEF RenewedInTime
  <2> QED
    BY <2>2, <2>4, <2>5, <2>6 DEF PairInv
<1> QED
  BY <1>7, <1>8

(***************************************************************************)
(* A process that ends breaks its own pairs, and no others.                *)
(***************************************************************************)
LEMMA CrashPairs ==
    ASSUME PeersInv, NEW x \in Node, Crash(x)
    PROVE  \A a, b \in Node : a # b => PairInv(a, b)'
<1>1. /\ row' = row
      /\ broken' = broken \cup {{x, b} : b \in Node \ {x}}
      /\ sound' = sound \ UNION {CallsBetween(x, b) : b \in Node}
  BY DEF Crash
<1>2. /\ \A z \in Node : z # x => up'[z] = up[z] /\ round'[z] = round[z] /\ todo'[z] = todo[z]
      /\ \A u \in Callers : call'[x][u] = NoCall
  BY DEF Crash, PeersInv, TypeOK
<1>3. \A z \in Node, u \in Callers : z # x =>
         /\ call[z][u] = NoCall => call'[z][u] = NoCall
         /\ call[z][u] # NoCall => call'[z][u] # NoCall /\ call'[z][u].to = call[z][u].to
         /\ call[z][u] # NoCall /\ call[z][u].to # x => call'[z][u] = call[z][u]
  <2> SUFFICES ASSUME NEW z \in Node, NEW u \in Callers, z # x
               PROVE  /\ call[z][u] = NoCall => call'[z][u] = NoCall
                      /\ call[z][u] # NoCall => call'[z][u] # NoCall /\ call'[z][u].to = call[z][u].to
                      /\ call[z][u] # NoCall /\ call[z][u].to # x => call'[z][u] = call[z][u]
    OBVIOUS
  <2>1. call'[z][u] = IF Asked(z, u) /\ call[z][u].to = x
                      THEN [call[z][u] EXCEPT !.state = "lost"] ELSE call[z][u]
    BY DEF Crash
  <2>2. CASE Asked(z, u) /\ call[z][u].to = x
    <3>1. call[z][u] \in Call
      BY <2>2 DEF Asked, PeersInv, TypeOK, CallsTyped
    <3>2. [call[z][u] EXCEPT !.state = "lost"] \in Call
      BY <3>1 DEF Call
    <3>3. [call[z][u] EXCEPT !.state = "lost"].to = call[z][u].to
      BY <3>1 DEF Call
    <3> QED
      BY <2>1, <2>2, <3>2, <3>3, NullAssumption DEF Asked
  <2>3. CASE ~(Asked(z, u) /\ call[z][u].to = x)
    BY <2>1, <2>3
  <2> QED
    BY <2>2, <2>3
<1>4. \A u \in Askers : u \in Callers
  BY DEF Askers
<1> SUFFICES ASSUME NEW a \in Node, NEW b \in Node, a # b PROVE PairInv(a, b)'
  OBVIOUS
<1>5. CASE a = x
  <2>1. {a, b} \in broken'
    BY <1>1, <1>5
  <2>2. \A u \in Askers : ~Calling(a, u, b)'
    BY <1>2, <1>4, <1>5 DEF Calling
  <2> QED
    BY <2>1, <2>2, PairInTrouble
<1>6. CASE b = x
  <2>1. {b, a} \in broken' /\ {a, b} = {b, a}
    BY <1>1, <1>6
  <2>2. ASSUME NEW u \in Askers, Calling(a, u, b)' PROVE <<a, u>> \notin sound'
    <3>1. Calling(a, u, x)
      BY <1>3, <1>4, <1>6, <2>2 DEF Calling
    <3>2. <<a, u>> \in CallsBetween(x, a)
      BY <1>6, <3>1, BetweenPair
    <3> QED
      BY <1>1, <3>2
  <2> QED
    BY <2>1, <2>2, PairInTrouble
<1>7. CASE a # x /\ b # x
  <2>1. {a, b} \in broken' <=> {a, b} \in broken
    <3>1. \A c \in Node : {a, b} # {x, c}
      BY <1>7
    <3> QED
      BY <1>1, <3>1
  <2>2. ASSUME NEW c \in Node, NEW d \in Node, c # x, d # x, c # d, NEW u \in Askers PROVE SameCall(c, u, d)
    <3>1. Calling(c, u, d)' <=> Calling(c, u, d)
      BY <1>3, <1>4, <2>2 DEF Calling
    <3>2. Calling(c, u, d) => call'[c][u] = call[c][u]
      BY <1>3, <1>4, <2>2 DEF Calling
    <3>3. ASSUME Calling(c, u, d) PROVE \A e \in Node : <<c, u>> \notin CallsBetween(x, e)
      <4>1. ASSUME NEW e \in Node, <<c, u>> \in CallsBetween(x, e) PROVE FALSE
        <5>1. {c, d} = {x, e}
          BY <3>3, <4>1 DEF CallsBetween, Calling
        <5> QED
          BY <2>2, <5>1
      <4> QED
        BY <4>1
    <3>4. Calling(c, u, d) => (<<c, u>> \in sound' <=> <<c, u>> \in sound)
      BY <1>1, <3>3
    <3> QED
      BY <3>1, <3>2, <3>4 DEF SameCall
  <2>3. "maintenance" \in Askers
    BY DEF Askers, Callers
  <2>4. (Renews(a, b) => Renews(a, b)') /\ (Renews(b, a) => Renews(b, a)')
    BY <1>1, <1>2, <1>7, <2>2, <2>3 DEF Renews, SameCall
  <2>5. PairInv(a, b)
    BY DEF PeersInv
  <2> QED
    BY <1>1, <1>2, <1>7, <2>1, <2>2, <2>4, <2>5, PairFrame
<1> QED
  BY <1>5, <1>6, <1>7

(***************************************************************************)
(* At the end of a period the two rows of an unbroken pair agree; in the   *)
(* next one their initiator has again to renew them.                       *)
(***************************************************************************)
LEMMA TickPairs ==
    ASSUME PeersInv, Tick
    PROVE  \A a, b \in Node : a # b => PairInv(a, b)'
<1>1. /\ \A z \in Node : round[z] = "done"
      /\ \A z \in Node, u \in Callers : call[z][u] = NoCall
      /\ UNCHANGED <<call, todo, up, broken, sound>>
  BY DEF Tick
<1>2. \A z \in Node : up[z] => round'[z] = "due"
  BY DEF Tick
<1>3. \A z, w \in Node : row'[z][w] = IF row[z][w] # NoRow /\ row[z][w].ttl > 0
                                      THEN [row[z][w] EXCEPT !.ttl = @ - 1] ELSE row[z][w]
  BY DEF Tick
<1>4. \A z, w \in Node : \A u \in Askers : /\ ~Calling(z, u, w) /\ ~Accepted(z, u, w)
                                           /\ ~Calling(z, u, w)' /\ ~Accepted(z, u, w)'
  <2>1. \A u \in Askers : u \in Callers
    BY DEF Askers
  <2> QED
    BY <1>1, <2>1 DEF Calling, Accepted
<1>5. \A z, w \in Node : ~Renews(z, w)
  BY <1>1 DEF Renews
<1> SUFFICES ASSUME NEW a \in Node, NEW b \in Node, a # b PROVE PairInv(a, b)'
  OBVIOUS
<1>6. CASE {a, b} \in broken
  BY <1>1, <1>4, <1>6, PairInTrouble
<1>7. CASE {a, b} \notin broken
  <2>1. PairInv(a, b) /\ PairInv(b, a) /\ {a, b} = {b, a} /\ up[a] /\ up[b]
    BY <1>7, UnbrokenSound DEF PeersInv
  <2>2. \/ row[a][b] = NoRow /\ row[b][a] = NoRow
        \/ Fresh(a, b) /\ Fresh(b, a)
    BY <1>4, <1>5, <1>7, <2>1 DEF PairInv, RenewedInTime
  <2>3. SoundTogether(a, b)' /\ AcceptedStays(a, b)'
    BY <1>1, <1>4, <2>1 DEF SoundTogether, AcceptedStays
  <2>4. CASE row[a][b] = NoRow /\ row[b][a] = NoRow
    <3>1. row'[a][b] = NoRow /\ row'[b][a] = NoRow
      BY <1>3, <2>4
    <3>2. UpgradeFollows(a, b)' /\ RenewedInTime(a, b)'
      BY <1>4, <3>1 DEF UpgradeFollows, RenewedInTime, RelationOf, Fresh
    <3> QED
      BY <2>3, <3>2 DEF PairInv
  <2>5. CASE Fresh(a, b) /\ Fresh(b, a)
    <3>1. ASSUME NEW z \in Node, NEW w \in Node, Fresh(z, w)
          PROVE  /\ row'[z][w] # NoRow /\ row'[z][w].ttl = Lifetime - 1
                 /\ row'[z][w].rel = row[z][w].rel /\ row'[z][w].role = row[z][w].role
      <4>1. row[z][w] \in Row /\ row[z][w].ttl = Lifetime /\ row[z][w] # NoRow
        BY <3>1 DEF Fresh, PeersInv, TypeOK
      <4>2. row'[z][w] = [row[z][w] EXCEPT !.ttl = @ - 1]
        BY <1>3, <4>1, PeriodsAssumption
      <4>3. row'[z][w] \in Row
        BY <4>1, <4>2, PeriodsAssumption DEF Row
      <4> QED
        BY <4>1, <4>2, <4>3, NullAssumption DEF Row
    <3>2. /\ row'[a][b] # NoRow /\ row'[a][b].ttl = Lifetime - 1
          /\ row'[b][a] # NoRow /\ row'[b][a].ttl = Lifetime - 1
          /\ row'[a][b].rel = row[a][b].rel /\ row'[a][b].role = row[a][b].role
          /\ row'[b][a].rel = row[b][a].rel /\ row'[b][a].role = row[b][a].role
      BY <2>5, <3>1
    <3>3. RelationOf(b, a) = "Neighbour" => RelationOf(a, b) = "Neighbour"
      BY <1>4, <1>7, <2>1 DEF PairInv, UpgradeFollows
    <3>4. row[a][b].role = "Initiator" \/ row[b][a].role = "Initiator"
      BY <1>4, <1>7, <2>1, <2>5 DEF PairInv, RenewedInTime, Fresh
    <3>5. UpgradeFollows(a, b)'
      BY <2>5, <3>2, <3>3, PeriodsAssumption DEF UpgradeFollows, RelationOf, Fresh
    <3>6. Renews(a, b)' \/ Renews(b, a)'
      BY <1>2, <2>1, <3>2, <3>4 DEF Renews
    <3>7. ~Fresh(a, b)' /\ ~Fresh(b, a)'
      BY <3>2, PeriodsAssumption DEF Fresh
    <3>8. RenewedInTime(a, b)'
      BY <3>2, <3>4, <3>6, <3>7, PeriodsAssumption DEF RenewedInTime
    <3> QED
      BY <2>3, <3>5, <3>8 DEF PairInv
  <2> QED
    BY <2>2, <2>4, <2>5
<1> QED
  BY <1>6, <1>7

-----------------------------------------------------------------------------
(* Nobody is related to itself.                                            *)

(***************************************************************************)
(* What a step may add to rows, calls, entries and requests.               *)
(***************************************************************************)
LEMMA AddressedStep ==
    ASSUME PeersInv,
           \A a \in Node : row[a][a] = NoRow => row'[a][a] = NoRow,
           \A a \in Node, t \in Callers : call'[a][t] # NoCall =>
              \/ /\ call[a][t] # NoCall
                 /\ call'[a][t].to = call[a][t].to /\ call'[a][t].rel = call[a][t].rel
              \/ call'[a][t].to # a /\ (t = "reactor" => call'[a][t].rel = "Explore"),
           \A a \in Node, t \in Loops : \A e \in todo'[a][t] : e \in todo[a][t] \/ e.to # a,
           \A m \in late' : m \in late \/ m.from # m.to,
           \A a \in Node, t \in Callers :
              <<a, t>> \in sound' => (t \in Askers /\ call'[a][t] # NoCall)
    PROVE  WellAddressed'
BY DEF PeersInv, WellAddressed

(***************************************************************************)
(* The calls that are sound are calls of askers.                           *)
(***************************************************************************)
LEMMA SoundCalls ==
    ASSUME PeersInv
    PROVE  \A a \in Node, t \in Callers :
              <<a, t>> \in sound => (t \in Askers /\ call[a][t] # NoCall)
BY DEF PeersInv, WellAddressed

LEMMA WrittenAddressed ==
    ASSUME PeersInv, NEW x \in Node, NEW y \in Node, x # y, NEW r, row' = [row EXCEPT ![x][y] = r]
    PROVE  \A a \in Node : row[a][a] = NoRow => row'[a][a] = NoRow
BY DEF PeersInv, TypeOK

(***************************************************************************)
(* A call that ends is no longer sound.                                    *)
(***************************************************************************)
LEMMA EndAddressed ==
    ASSUME PeersInv, NEW x \in Node, NEW t \in Callers, NEW y \in Node, x # y,
           call[x][t] # NoCall, call[x][t].to = y, call' = [call EXCEPT ![x][t] = NoCall],
           sound' = sound \ {<<x, t>>} \/ Trouble(x, y) \/ (t = "reactor" /\ sound' = sound)
    PROVE  /\ \A a \in Node, u \in Callers : call'[a][u] # NoCall => call'[a][u] = call[a][u]
           /\ \A a \in Node, u \in Callers :
                 <<a, u>> \in sound' => (u \in Askers /\ call'[a][u] # NoCall)
<1>1. call \in [Node -> [Callers -> Call \cup {NoCall}]]
  BY DEF PeersInv, TypeOK, CallsTyped
<1>2. /\ call'[x][t] = NoCall
      /\ \A a \in Node, u \in Callers : ~(a = x /\ u = t) => call'[a][u] = call[a][u]
  BY <1>1
<1>3. <<x, t>> \notin sound' /\ sound' \subseteq sound
  <2>1. CASE sound' = sound \ {<<x, t>>}
    BY <2>1
  <2>2. CASE Trouble(x, y)
    <3>1. sound' = sound \ CallsBetween(x, y)
      BY <2>2 DEF Trouble
    <3>2. t \in Askers => <<x, t>> \in CallsBetween(x, y)
      BY BetweenPair DEF Calling
    <3> QED
      BY <3>1, <3>2, SoundCalls
  <2>3. CASE t = "reactor" /\ sound' = sound
    BY <2>3, SoundCalls DEF Askers
  <2> QED
    BY <2>1, <2>2, <2>3
<1> QED
  BY <1>2, <1>3, SoundCalls

(***************************************************************************)
(* A request is answered, of a relation or of an exploration.              *)
(***************************************************************************)
AnswerStep(x, t) == Accept(x, t) \/ (t = "reactor" /\ GetClosestNodesByDistance(x))

LEMMA AnswerAddressed ==
    ASSUME PeersInv, NEW x \in Node, NEW t \in Callers, AnswerStep(x, t)
    PROVE  WellAddressed'
<1>1. Asked(x, t) /\ UNCHANGED <<todo, late, sound>>
  BY DEF AnswerStep, Accept, GetClosestNodesByDistance
<1>2. PICK y \in Node : y = call[x][t].to /\ y # x
  BY <1>1, CallTyped DEF Asked
<1>3. PICK reply \in Info \cup {"denied"} : Answer(x, t, reply)
  BY <1>2, InfoAssumption DEF AnswerStep, Accept, GetClosestNodesByDistance, PeersInv, TypeOK
<1>4. /\ \A z \in Node, u \in Callers : ~(z = x /\ u = t) => call'[z][u] = call[z][u]
      /\ call'[x][t] # NoCall /\ call'[x][t].to = call[x][t].to /\ call'[x][t].rel = call[x][t].rel
  BY <1>1, <1>3, AnswerEffect
<1>5. \A a \in Node : row[a][a] = NoRow => row'[a][a] = NoRow
  <2>1. row' = row \/ \E r : row' = [row EXCEPT ![y][x] = r]
    BY <1>2 DEF AnswerStep, Accept, AcceptorWrites, GetClosestNodesByDistance
  <2>2. CASE \E r : row' = [row EXCEPT ![y][x] = r]
    <3>1. PICK r : row' = [row EXCEPT ![y][x] = r]
      BY <2>2
    <3> QED
      BY <1>2, <3>1, WrittenAddressed
  <2> QED
    BY <2>1, <2>2
<1>6. \A a \in Node, u \in Callers : <<a, u>> \in sound' => (u \in Askers /\ call'[a][u] # NoCall)
  BY <1>1, <1>4, SoundCalls
<1>7. \A a \in Node, u \in Callers : call'[a][u] # NoCall =>
         call[a][u] # NoCall /\ call'[a][u].to = call[a][u].to /\ call'[a][u].rel = call[a][u].rel
  BY <1>1, <1>4 DEF Asked
<1> QED
  BY <1>1, <1>5, <1>6, <1>7, AddressedStep

LEMMA AcceptLateAddressed ==
    ASSUME PeersInv, NEW m \in late, AcceptLate(m)
    PROVE  WellAddressed'
<1>1. PICK x \in Node, y \in Node : x = m.from /\ y = m.to /\ x # y
  BY DEF PeersInv, TypeOK, WellAddressed
<1>2. UNCHANGED <<call, todo>> /\ late' \subseteq late
  BY DEF AcceptLate
<1>3. \A a \in Node : row[a][a] = NoRow => row'[a][a] = NoRow
  <2>1. row' = row \/ \E r : row' = [row EXCEPT ![y][x] = r]
    BY <1>1 DEF AcceptLate, AcceptorWrites
  <2>2. CASE \E r : row' = [row EXCEPT ![y][x] = r]
    <3>1. PICK r : row' = [row EXCEPT ![y][x] = r]
      BY <2>2
    <3> QED
      BY <1>1, <3>1, WrittenAddressed
  <2> QED
    BY <2>1, <2>2
<1>4. sound' \subseteq sound
  BY DEF AcceptLate, Trouble
<1>5. \A a \in Node, u \in Callers : <<a, u>> \in sound' => (u \in Askers /\ call'[a][u] # NoCall)
  BY <1>2, <1>4, SoundCalls
<1> QED
  BY <1>2, <1>3, <1>5, AddressedStep

LEMMA FinishAddressed ==
    ASSUME PeersInv, NEW x \in Node, NEW t \in Callers, Finish(x, t)
    PROVE  WellAddressed'
<1>1. /\ call[x][t] # NoCall /\ call' = [call EXCEPT ![x][t] = NoCall]
      /\ UNCHANGED <<todo, late>>
  BY DEF Finish
<1>2. PICK y \in Node : y = call[x][t].to /\ x # y
  BY <1>1, CallTyped
<1>3. \A a \in Node : row[a][a] = NoRow => row'[a][a] = NoRow
  <2>1. row' = row \/ \E r : row' = [row EXCEPT ![x][y] = r]
    BY <1>2 DEF Finish
  <2> QED
    BY <1>2, <2>1, WrittenAddressed
<1>4. sound' = sound \ {<<x, t>>} \/ Trouble(x, y)
  BY <1>2 DEF Finish
<1>5. /\ \A a \in Node, u \in Callers : call'[a][u] # NoCall => call'[a][u] = call[a][u]
      /\ \A a \in Node, u \in Callers : <<a, u>> \in sound' => (u \in Askers /\ call'[a][u] # NoCall)
  BY <1>1, <1>2, <1>4, EndAddressed
<1> QED
  BY <1>1, <1>3, <1>5, AddressedStep

LEMMA TimeoutAddressed ==
    ASSUME PeersInv, NEW x \in Node, NEW t \in Callers, Timeout(x, t)
    PROVE  WellAddressed'
<1>1. /\ call[x][t] # NoCall /\ call' = [call EXCEPT ![x][t] = NoCall]
      /\ UNCHANGED <<row, todo>>
  BY DEF Timeout
<1>2. PICK y \in Node : y = call[x][t].to /\ x # y
  BY <1>1, CallTyped
<1>3. \A m \in late' : m \in late \/ m.from # m.to
  BY <1>2 DEF Timeout
<1>4. Trouble(x, y) \/ (t = "reactor" /\ sound' = sound)
  BY <1>2 DEF Timeout
<1>5. /\ \A a \in Node, u \in Callers : call'[a][u] # NoCall => call'[a][u] = call[a][u]
      /\ \A a \in Node, u \in Callers : <<a, u>> \in sound' => (u \in Askers /\ call'[a][u] # NoCall)
  BY <1>1, <1>2, <1>4, EndAddressed
<1> QED
  BY <1>1, <1>3, <1>5, AddressedStep

LEMMA AskAddressed ==
    ASSUME PeersInv, NEW x \in Node, NEW t \in Callers, NEW y \in Node, x # y,
           NEW rel \in Relation \cup {"Explore"}, t = "reactor" => rel = "Explore",
           Ask(x, t, y, rel)
    PROVE  \A a \in Node, u \in Callers :
              /\ call[a][u] # NoCall => call'[a][u] # NoCall
              /\ a = x /\ u = t => call'[a][u] # NoCall
              /\ call'[a][u] # NoCall =>
                   \/ call'[a][u] = call[a][u]
                   \/ call'[a][u].to # a /\ (u = "reactor" => call'[a][u].rel = "Explore")
<1> DEFINE d == [to |-> y, rel |-> rel, known |-> RelationOf(x, y), state |-> "asked", reply |-> "none"]
<1>1. RelationOf(x, y) \in Relation \cup {"None"}
  BY RowTyped DEF RelationOf
<1>2. d \in Call /\ d.to = y /\ d.rel = rel
  BY <1>1 DEF Call
<1>3. call' = [call EXCEPT ![x][t] = d]
  BY DEF Ask
<1> HIDE DEF d
<1>4. /\ call'[x][t] = d
      /\ \A a \in Node, u \in Callers : ~(a = x /\ u = t) => call'[a][u] = call[a][u]
  BY <1>3 DEF PeersInv, TypeOK, CallsTyped
<1> QED
  BY <1>2, <1>4, NullAssumption

LEMMA StoreAddressed ==
    ASSUME PeersInv, NEW x \in Node, NEW t \in Askers, NEW y \in Node, x # y, NEW rel \in Relation,
           SafeStoreNode(x, t, y, rel), UNCHANGED <<row, late>>,
           \A a \in Node, u \in Loops : todo'[a][u] \subseteq todo[a][u]
    PROVE  WellAddressed'
<1>1. t \in Callers /\ t # "reactor"
  BY DEF Askers
<1>2. CASE call' = call /\ sound' \subseteq sound
  <2>1. \A a \in Node, u \in Callers : <<a, u>> \in sound' => (u \in Askers /\ call'[a][u] # NoCall)
    BY <1>2, SoundCalls
  <2> QED
    BY <1>2, <2>1, AddressedStep
<1>3. CASE Ask(x, t, y, rel) /\ sound' \subseteq sound \cup {<<x, t>>}
  <2>1. \A a \in Node, u \in Callers :
           /\ call[a][u] # NoCall => call'[a][u] # NoCall
           /\ a = x /\ u = t => call'[a][u] # NoCall
           /\ call'[a][u] # NoCall =>
                \/ call'[a][u] = call[a][u]
                \/ call'[a][u].to # a /\ (u = "reactor" => call'[a][u].rel = "Explore")
    BY <1>1, <1>3, AskAddressed
  <2>2. \A a \in Node, u \in Callers : <<a, u>> \in sound' => (u \in Askers /\ call'[a][u] # NoCall)
    BY <1>3, <2>1, SoundCalls
  <2> QED
    BY <2>1, <2>2, AddressedStep
<1> QED
  BY <1>2, <1>3 DEF SafeStoreNode, Trouble

LEMMA NextEntryAddressed ==
    ASSUME PeersInv, NEW x \in Node, NEW t \in Loops, NextEntry(x, t)
    PROVE  WellAddressed'
<1>1. PICK e \in todo[x][t] : /\ todo' = [todo EXCEPT ![x][t] = @ \ {e}]
                              /\ SafeStoreNode(x, t, e.to, e.rel)
  BY DEF NextEntry
<1>2. /\ UNCHANGED <<row, late>> /\ t \in Askers
      /\ \A a \in Node, u \in Loops : todo'[a][u] \subseteq todo[a][u]
  BY <1>1 DEF NextEntry, Loops, Askers, Callers, PeersInv, TypeOK
<1>3. e.to \in Node /\ e.to # x /\ e.rel \in Relation
  <2>1. e \in Entry /\ e.to # x
    BY DEF PeersInv, TypeOK, WellAddressed
  <2> QED
    BY <2>1 DEF Entry
<1> QED
  BY <1>1, <1>2, <1>3, StoreAddressed

LEMMA ContactAddressed ==
    ASSUME PeersInv, NEW x \in Node, NEW y \in Node, x # y, NEW rel \in Relation, Contact(x, y, rel)
    PROVE  WellAddressed'
<1>1. SafeStoreNode(x, "contact", y, rel) /\ UNCHANGED <<row, late, todo>> /\ "contact" \in Askers
  BY DEF Contact, Askers, Callers
<1> QED
  BY <1>1, StoreAddressed

LEMMA ExploreAddressed ==
    ASSUME PeersInv, NEW x \in Node, NEW y \in Node, x # y, Explore(x, y)
    PROVE  WellAddressed'
<1>1. UNCHANGED <<row, late, todo, sound>> /\ Ask(x, "reactor", y, "Explore") /\ "reactor" \in Callers
  BY DEF Explore, Callers
<1>2. \A a \in Node, u \in Callers :
         /\ call[a][u] # NoCall => call'[a][u] # NoCall
         /\ call'[a][u] # NoCall =>
              \/ call'[a][u] = call[a][u]
              \/ call'[a][u].to # a /\ (u = "reactor" => call'[a][u].rel = "Explore")
  BY <1>1, AskAddressed
<1>3. \A a \in Node, u \in Callers : <<a, u>> \in sound' => (u \in Askers /\ call'[a][u] # NoCall)
  BY <1>1, <1>2, SoundCalls
<1> QED
  BY <1>1, <1>2, <1>3, AddressedStep

(***************************************************************************)
(* The loops take the nodes to ask from the table.                         *)
(***************************************************************************)
LEMMA LoopAddressed ==
    ASSUME PeersInv, NEW x \in Node, RegisterService(x) \/ RenewNodeRelations(x)
    PROVE  WellAddressed'
<1>1. UNCHANGED <<row, call, late, sound>>
  BY DEF RegisterService, RenewNodeRelations
<1>2. row[x][x] = NoRow
  BY DEF PeersInv, WellAddressed
<1>3. \A a \in Node, u \in Loops : \A e \in todo'[a][u] : e \in todo[a][u] \/ e.to # a
  <2>1. CASE RegisterService(x)
    BY <1>2, <2>1 DEF RegisterService, RelationOf, PeersInv, TypeOK
  <2>2. CASE RenewNodeRelations(x)
    BY <1>2, <2>2 DEF RenewNodeRelations, PeersInv, TypeOK
  <2> QED
    BY <2>1, <2>2
<1>4. \A a \in Node, u \in Callers : <<a, u>> \in sound' => (u \in Askers /\ call'[a][u] # NoCall)
  BY <1>1, SoundCalls
<1> QED
  BY <1>1, <1>3, <1>4, AddressedStep

LEMMA QuietAddressed ==
    ASSUME PeersInv, \/ \E x \in Node : ExpireOldNodes(x) \/ Restart(x)
                     \/ Tick \/ CalmDown \/ UNCHANGED vars
    PROVE  WellAddressed'
<1>1. UNCHANGED <<call, late, todo, sound>>
  BY DEF ExpireOldNodes, Restart, Tick, CalmDown, vars
<1>2. \A a \in Node : row[a][a] = NoRow => row'[a][a] = NoRow
  <2>1. ASSUME NEW x \in Node, ExpireOldNodes(x), NEW a \in Node, row[a][a] = NoRow PROVE row'[a][a] = NoRow
    BY <2>1 DEF ExpireOldNodes, PeersInv, TypeOK
  <2>2. ASSUME Tick, NEW a \in Node, row[a][a] = NoRow PROVE row'[a][a] = NoRow
    BY <2>2 DEF Tick
  <2> QED
    BY <2>1, <2>2 DEF Restart, CalmDown, vars
<1>3. \A a \in Node, u \in Callers : <<a, u>> \in sound' => (u \in Askers /\ call'[a][u] # NoCall)
  BY <1>1, SoundCalls
<1> QED
  BY <1>1, <1>2, <1>3, AddressedStep

LEMMA CrashAddressed ==
    ASSUME PeersInv, NEW x \in Node, Crash(x)
    PROVE  WellAddressed'
<1>1. row' = row
  BY DEF Crash
<1>2. ASSUME NEW a \in Node, NEW u \in Callers
      PROVE  /\ call'[a][u] # NoCall => /\ a # x /\ call[a][u] # NoCall
                                        /\ call'[a][u].to = call[a][u].to
                                        /\ call'[a][u].rel = call[a][u].rel
             /\ a # x /\ call[a][u] # NoCall => call'[a][u] # NoCall
  <2>1. call'[a][u] = IF a = x THEN NoCall
                      ELSE IF Asked(a, u) /\ call[a][u].to = x
                           THEN [call[a][u] EXCEPT !.state = "lost"] ELSE call[a][u]
    BY DEF Crash
  <2>2. CASE a # x /\ Asked(a, u) /\ call[a][u].to = x
    <3>1. call[a][u] \in Call
      BY <2>2 DEF Asked, PeersInv, TypeOK, CallsTyped
    <3>2. /\ [call[a][u] EXCEPT !.state = "lost"] \in Call
          /\ [call[a][u] EXCEPT !.state = "lost"].to = call[a][u].to
          /\ [call[a][u] EXCEPT !.state = "lost"].rel = call[a][u].rel
      BY <3>1 DEF Call
    <3> QED
      BY <2>1, <2>2, <3>2, NullAssumption DEF Asked
  <2>3. CASE ~(a # x /\ Asked(a, u) /\ call[a][u].to = x)
    BY <2>1, <2>3
  <2> QED
    BY <2>2, <2>3
<1>3. \A a \in Node, u \in Loops : \A e \in todo'[a][u] : e \in todo[a][u]
  BY DEF Crash, PeersInv, TypeOK
<1>4. ASSUME NEW m \in late' PROVE m \in late \/ m.from # m.to
  <2>1. PICK read \in SUBSET {t \in Callers \ {"reactor"} : Asked(x, t)} :
           late' = {n \in late : n.to # x}
                   \cup {[from |-> x, to |-> call[x][t].to, rel |-> call[x][t].rel] : t \in read}
    BY DEF Crash
  <2>2. CASE m \in late
    BY <2>2
  <2>3. CASE m \notin late
    <3>1. PICK t \in read : m = [from |-> x, to |-> call[x][t].to, rel |-> call[x][t].rel]
      BY <2>1, <2>3
    <3>2. t \in Callers /\ call[x][t] # NoCall
      BY DEF Asked
    <3>3. call[x][t].to # x
      BY <3>2, CallTyped
    <3> QED
      BY <3>1, <3>3
  <2> QED
    BY <2>2, <2>3
<1>5. ASSUME NEW a \in Node, NEW u \in Callers, <<a, u>> \in sound' PROVE u \in Askers /\ call'[a][u] # NoCall
  <2>1. <<a, u>> \in sound /\ \A b \in Node : <<a, u>> \notin CallsBetween(x, b)
    BY <1>5 DEF Crash
  <2>2. u \in Askers /\ call[a][u] # NoCall
    BY <2>1, SoundCalls
  <2>3. a # x
    <3>1. PICK y \in Node : y = call[a][u].to /\ a # y
      BY <2>2, CallTyped
    <3>2. a = x => <<a, u>> \in CallsBetween(x, y)
      BY <2>2, <3>1, BetweenPair DEF Calling
    <3> QED
      BY <2>1, <3>2
  <2> QED
    BY <1>2, <2>2, <2>3
<1> QED
  BY <1>1, <1>2, <1>3, <1>4, <1>5, AddressedStep

-----------------------------------------------------------------------------
(* The invariant.                                                          *)

LEMMA PeersInvInit == Init => PeersInv
<1> SUFFICES ASSUME Init PROVE PeersInv
  OBVIOUS
<1>1. TypeOK
  BY TypeInit
<1>2. /\ \A a, b \in Node : row[a][b] = NoRow
      /\ \A a \in Node, t \in Callers : call[a][t] = NoCall
      /\ \A a \in Node : up[a]
      /\ \A a \in Node, t \in Loops : todo[a][t] = {}
      /\ late = {} /\ sound = {} /\ broken = {}
  BY DEF Init
<1>3. WellAddressed
  BY <1>2 DEF WellAddressed
<1>4. ASSUME NEW a \in Node, NEW b \in Node, a # b PROVE PairInv(a, b)
  <2>1. \A t \in Askers : /\ ~Calling(a, t, b) /\ ~Accepted(a, t, b)
                          /\ ~Calling(b, t, a) /\ ~Accepted(b, t, a)
    BY <1>2 DEF Askers, Calling, Accepted
  <2> QED
    BY <1>2, <2>1 DEF PairInv, SoundTogether, AcceptedStays, UpgradeFollows, RenewedInTime, Fresh, RelationOf
<1> QED
  BY <1>1, <1>3, <1>4 DEF PeersInv

LEMMA PeersInvNext == PeersInv /\ [Next]_vars => PeersInv'
<1> SUFFICES ASSUME PeersInv, [Next]_vars PROVE PeersInv'
  OBVIOUS
<1>1. TypeOK'
  BY TypeNext DEF PeersInv
<1>2. ASSUME NEW x \in Node, NEW t \in Callers, CallStep(x, t)
      PROVE  WellAddressed' /\ \A a, b \in Node : a # b => PairInv(a, b)'
  <2>1. CASE Accept(x, t)
    <3>1. WellAddressed'
      BY <2>1, AnswerAddressed DEF AnswerStep
    <3> QED
      BY <2>1, <3>1, AcceptPairs
  <2>2. CASE Finish(x, t)
    BY <2>2, FinishPairs, FinishAddressed
  <2>3. CASE Timeout(x, t)
    BY <2>3, TimeoutPairs, TimeoutAddressed
  <2> QED
    BY <1>2, <2>1, <2>2, <2>3 DEF CallStep
<1>3. ASSUME NEW x \in Node, NEW t \in Loops, NextEntry(x, t)
      PROVE  WellAddressed' /\ \A a, b \in Node : a # b => PairInv(a, b)'
  BY <1>3, NextEntryPairs, NextEntryAddressed
<1>4. ASSUME NEW x \in Node, GetClosestNodesByDistance(x)
      PROVE  WellAddressed' /\ \A a, b \in Node : a # b => PairInv(a, b)'
  <2>1. "reactor" \in Callers
    BY DEF Callers
  <2> QED
    BY <1>4, <2>1, ClosestPairs, AnswerAddressed DEF AnswerStep
<1>5. ASSUME NEW x \in Node, RenewNodeRelations(x)
      PROVE  WellAddressed' /\ \A a, b \in Node : a # b => PairInv(a, b)'
  BY <1>5, RenewPairs, LoopAddressed
<1>6. ASSUME NEW x \in Node, ExpireOldNodes(x)
      PROVE  WellAddressed' /\ \A a, b \in Node : a # b => PairInv(a, b)'
  BY <1>6, ExpirePairs, QuietAddressed
<1>7. ASSUME NEW m \in late, AcceptLate(m)
      PROVE  WellAddressed' /\ \A a, b \in Node : a # b => PairInv(a, b)'
  BY <1>7, AcceptLatePairs, AcceptLateAddressed
<1>8. ASSUME Tick
      PROVE  WellAddressed' /\ \A a, b \in Node : a # b => PairInv(a, b)'
  BY <1>8, TickPairs, QuietAddressed
<1>9. ASSUME NEW x \in Node, NEW y \in Node, x # y, Explore(x, y)
      PROVE  WellAddressed' /\ \A a, b \in Node : a # b => PairInv(a, b)'
  BY <1>9, ExplorePairs, ExploreAddressed
<1>10. ASSUME NEW x \in Node, NEW y \in Node, NEW rel \in Relation, x # y, Contact(x, y, rel)
       PROVE  WellAddressed' /\ \A a, b \in Node : a # b => PairInv(a, b)'
  BY <1>10, ContactPairs, ContactAddressed
<1>11. ASSUME NEW x \in Node, RegisterService(x) \/ Crash(x) \/ Restart(x)
       PROVE  WellAddressed' /\ \A a, b \in Node : a # b => PairInv(a, b)'
  BY <1>11, RegisterPairs, LoopAddressed, CrashPairs, CrashAddressed, RestartPairs, QuietAddressed
<1>12. ASSUME CalmDown \/ UNCHANGED vars
       PROVE  WellAddressed' /\ \A a, b \in Node : a # b => PairInv(a, b)'
  BY <1>12, CalmPairs, QuietAddressed
<1>13. WellAddressed' /\ \A a, b \in Node : a # b => PairInv(a, b)'
  <2>1. ASSUME ThreadStep PROVE WellAddressed' /\ \A a, b \in Node : a # b => PairInv(a, b)'
    BY <2>1, <1>2, <1>3, <1>4, <1>5, <1>6, <1>7 DEF ThreadStep
  <2> QED
    BY <2>1, <1>8, <1>9, <1>10, <1>11, <1>12 DEF Next
<1> QED
  BY <1>1, <1>13 DEF PeersInv

(***************************************************************************)
(* For every pair of nodes, whatever they and the others do: what a node   *)
(* accepted stays until the other side has been told, a neighbour relation *)
(* on one side follows on the other, and the rows of a pair that had no    *)
(* trouble are renewed in time (SafeStoreNode, RenewNodeRelations).        *)
(***************************************************************************)
THEOREM PeersInvariance == Spec => []PeersInv
<1> QED
  BY PeersInvInit, PeersInvNext, PTL DEF Spec

(***************************************************************************)
(* However the calls of two nodes to each other cross, they end with the   *)
(* same relation on both sides and an initiator to renew it, unless a call *)
(* timed out, was overtaken by another write of its row, or a process      *)
(* ended (SafeStoreNode and the accepting handlers).                       *)
(***************************************************************************)
THEOREM CallsAgree == Spec => []CrossingCallsAgree
<1>1. PeersInv => CrossingCallsAgree
  <2> SUFFICES ASSUME PeersInv, NEW a \in Node, NEW b \in Node, a # b, Quiescent(a, b), {a, b} \notin broken
               PROVE  Mutual(a, b)
    BY DEF CrossingCallsAgree
  <2>1. PairInv(a, b) /\ PairInv(b, a) /\ {a, b} = {b, a}
    BY DEF PeersInv
  <2>2. \A t \in Askers : /\ ~Calling(a, t, b) /\ ~Calling(b, t, a)
                          /\ ~Accepted(a, t, b) /\ ~Accepted(b, t, a)
    <3>1. \A t \in Askers : ~Calling(a, t, b) /\ ~Calling(b, t, a)
      BY BetweenPair DEF Quiescent
    <3> QED
      BY <3>1 DEF Accepted
  <2>3. (row[a][b] = NoRow <=> row[b][a] = NoRow)
    BY <2>1, <2>2 DEF PairInv, RenewedInTime, Fresh
  <2>4. RelationOf(a, b) = "Neighbour" <=> RelationOf(b, a) = "Neighbour"
    BY <2>1, <2>2 DEF PairInv, UpgradeFollows
  <2>5. CASE row[a][b] = NoRow
    BY <2>3, <2>5 DEF Mutual
  <2>6. CASE row[a][b] # NoRow
    <3>1. row[a][b].rel = row[b][a].rel
      <4>1. row[a][b].rel \in Relation /\ row[b][a].rel \in Relation
        BY <2>3, <2>6, RowTyped
      <4> QED
        BY <2>3, <2>4, <2>6, <4>1 DEF RelationOf, Relation
    <3>2. "Initiator" \in {row[a][b].role, row[b][a].role}
      BY <2>1, <2>2, <2>3, <2>6 DEF PairInv, RenewedInTime
    <3> QED
      BY <2>3, <2>6, <3>1, <3>2 DEF Mutual
  <2> QED
    BY <2>5, <2>6
<1> QED
  BY <1>1, PeersInvariance, PTL

(***************************************************************************)
(* No node expires its row about another one as long as no call between    *)
(* the two went wrong: the renewals of the initiator reach both rows       *)
(* before their time is over (RenewNodeRelations, ExpireOldNodes).         *)
(***************************************************************************)
THEOREM NoUnbrokenExpiry == Spec => ExpiresOnlyBroken
<1>1. PeersInv /\ [Next]_vars =>
         [\A a, b \in Node : row[a][b] # NoRow /\ row'[a][b] = NoRow => {a, b} \in broken]_vars
  <2> SUFFICES ASSUME PeersInv, Next, NEW a \in Node, NEW b \in Node, row[a][b] # NoRow, row'[a][b] = NoRow
               PROVE  {a, b} \in broken
    OBVIOUS
  <2>1. CASE \E x \in Node : ExpireOldNodes(x)
    <3>1. row[a][b].ttl = 0 /\ a # b
      BY <2>1 DEF ExpireOldNodes, PeersInv, TypeOK, WellAddressed
    <3>2. {a, b} \notin broken => row[a][b].ttl >= Lifetime - 1
      BY <3>1 DEF PeersInv, PairInv, RenewedInTime
    <3> QED
      BY <3>1, <3>2, PeriodsAssumption
  <2>2. CASE row' = row
    BY <2>2
  <2>3. CASE Tick
    <3>1. row[a][b] \in Row /\ row[a][b].ttl \in 0..Lifetime
      BY RowTyped DEF PeersInv, TypeOK
    <3>2. row'[a][b] = row[a][b] \/ (row'[a][b] = [row[a][b] EXCEPT !.ttl = @ - 1] /\ row[a][b].ttl > 0)
      BY <2>3 DEF Tick
    <3>3. row'[a][b] \in Row
      BY <3>1, <3>2, PeriodsAssumption DEF Row
    <3> QED
      BY <3>3, NullAssumption
  <2>4. CASE \E x, y \in Node, rel \in Relation, role \in {"Initiator", "Acceptor"}, info \in Info :
                row' = [row EXCEPT ![x][y] = Written(rel, role, info)]
    BY <2>4, WrittenRow DEF PeersInv, TypeOK
  <2>5. ASSUME NEW x \in Node, NEW t \in Callers, CallStep(x, t)
        PROVE  \/ row' = row
               \/ \E y, z \in Node, rel \in Relation, role \in {"Initiator", "Acceptor"}, info \in Info :
                     row' = [row EXCEPT ![y][z] = Written(rel, role, info)]
    <3>1. CASE Timeout(x, t)
      BY <3>1 DEF Timeout
    <3>2. CASE Accept(x, t)
      <4>1. call[x][t].to \in Node /\ call[x][t].rel \in Relation
        BY <3>2, CallTyped DEF Accept, Asked
      <4> QED
        BY <3>2, <4>1, InfoAssumption DEF Accept, AcceptorWrites
    <3>3. CASE Finish(x, t)
      <4>1. /\ call[x][t] # NoCall /\ call[x][t].state = "answered" /\ t \in Askers
        BY <3>3 DEF Finish, ReactorFree, Askers
      <4>2. call[x][t].to \in Node /\ call[x][t].rel \in Relation
        BY <4>1, CallTyped
      <4>3. call[x][t].reply \in Info \cup {"denied"}
        BY <4>1 DEF PeersInv, TypeOK, CallsTyped, Call
      <4> QED
        BY <3>3, <4>2, <4>3 DEF Finish
    <3> QED
      BY <2>5, <3>1, <3>2, <3>3 DEF CallStep
  <2>6. ASSUME NEW m \in late, AcceptLate(m)
        PROVE  \/ row' = row
               \/ \E y, z \in Node, rel \in Relation, role \in {"Initiator", "Acceptor"}, info \in Info :
                     row' = [row EXCEPT ![y][z] = Written(rel, role, info)]
    <3>1. m.from \in Node /\ m.to \in Node /\ m.rel \in Relation
      BY DEF PeersInv, TypeOK
    <3> QED
      BY <2>6, <3>1, InfoAssumption DEF AcceptLate, AcceptorWrites
  <2> QED
    BY <2>1, <2>2, <2>3, <2>4, <2>5, <2>6
       DEF Next, ThreadStep, NextEntry, GetClosestNodesByDistance, RenewNodeRelations, Explore, Contact,
           RegisterService, Crash, Restart, CalmDown
<1> QED
  BY <1>1, PeersInvariance, PTL DEF Spec, ExpiresOnlyBroken

=============================================================================
