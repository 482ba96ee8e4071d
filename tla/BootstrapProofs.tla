---------------------------- MODULE BootstrapProofs ----------------------------
(***************************************************************************)
(* Proofs about Bootstrap, for any finite set of nodes, any network among  *)
(* them and any lists of seeds.                                            *)
(***************************************************************************)
EXTENDS Bootstrap, FiniteSetTheorems, TLAPS

-----------------------------------------------------------------------------
(* What the operators return.                                              *)

LEMMA EntriesType == ASSUME NEW n, NEW rels, NEW S \in Entries(n, rels) PROVE S \subseteq Node
BY DEF Entries, Node

LEMMA RandomType ==
    ASSUME NEW n \in Node
    PROVE  /\ \A T \in RandomNodes(n) : T \subseteq Node
           /\ \A T \in RandomColleagues(n) : T \subseteq Node
<1>1. \A T \in RandomNodes(n) : T \subseteq Node
  BY EntriesType DEF RandomNodes, Limited
<1>2. \A T \in RandomColleagues(n) : T \subseteq Node
  BY EntriesType DEF RandomColleagues, Limited
<1> QED
  BY <1>1, <1>2

(***************************************************************************)
(* A list of closest nodes is a sequence of nodes without repetition, and  *)
(* not empty, since the node that answers lists itself.                    *)
(***************************************************************************)
LEMMA ClosestType ==
    ASSUME NEW n \in Node, NEW k \in Nat \ {0}, NEW list \in ClosestNodes(n, k)
    PROVE  /\ list \in Seq(Node) /\ Len(list) \in Nat \ {0}
           /\ \A i \in 1..Len(list) : list[i] \in Node
           /\ Len(list) > 1 => list[1] # list[2]
<1>1. PICK S \in Entries(n, Relation) : list \in Listed(S \cup {n}, k)
  BY DEF ClosestNodes
<1>2. S \cup {n} \subseteq Node
  BY EntriesType
<1>3. PICK l \in 0..k : list \in [1..l -> S \cup {n}]
  BY <1>1 DEF Listed
<1>4. list \in Seq(Node) /\ Len(list) = l
  BY <1>2, <1>3
<1>5. \A i, j \in 1..Len(list) : i < j => list[i] # list[j]
  BY <1>1 DEF Listed
<1>6. (\E i \in 1..Len(list) : list[i] = n) \/ Len(list) = k
  BY <1>1 DEF Listed
<1>7. Len(list) \in Nat \ {0}
  BY <1>4, <1>6
<1> QED
  BY <1>4, <1>5, <1>7

LEMMA SeedType ==
    ASSUME TypeOK, at <= Len(seeds)
    PROVE  seeds[at] \in Node
<1>1. seeds \in Seq(Node)
  BY SeedsAssumption DEF TypeOK
<1> QED
  BY <1>1 DEF TypeOK

LEMMA StoreType ==
    ASSUME TypeOK, NEW n \in Remote, NEW rel \in Relation, SafeStoreNode(n, rel) \/ UNCHANGED rows
    PROVE  rows' \in Rows
BY DEF TypeOK, SafeStoreNode, Rows

LEMMA CountType ==
    /\ IsFiniteSet(Known) /\ IsFiniteSet(Neighbours)
    /\ Cardinality(Known) \in Nat /\ Cardinality(Neighbours) \in Nat
<1>1. Known \in SUBSET Remote /\ Neighbours \in SUBSET Remote
  BY DEF Known, Neighbours
<1>2. IsFiniteSet(Known) /\ IsFiniteSet(Neighbours)
  BY <1>1, FS_Subset, NodesAssumption
<1> QED
  BY <1>2, FS_CardinalityType

-----------------------------------------------------------------------------
(* The inductive invariant, one lemma for each part of the search.         *)

LEMMA BootInit == Init => BootInv
<1> SUFFICES ASSUME Init PROVE BootInv
  OBVIOUS
<1>1. calm \in BOOLEAN
  BY DEF Init
<1>2. rows \in Rows
  BY DEF Init, Rows
<1>3. TypeOK
  BY <1>1, <1>2 DEF Init, TypeOK, Phases, Node
<1> QED
  BY <1>3 DEF Init, BootInv, WorldInv, FillInv, PhaseInv, NeighboursExhausted

LEMMA StartInv == ASSUME BootInv, StartRound \/ Retry PROVE BootInv'
<1>1. /\ phase \in {"check", "retry"} /\ phase' \in {"done", "seeds", "check"}
      /\ UNCHANGED <<rows, seeds, at, tried, atSeed, cands, near, queue, asked, tables, willing, calm, heard, failed>>
  BY DEF StartRound, Retry, world, hood, env
<1>2. TypeOK'
  BY <1>1 DEF BootInv, TypeOK, Phases
<1> QED
  BY <1>1, <1>2 DEF BootInv, WorldInv, FillInv, PhaseInv, NeighboursExhausted

LEMMA AskSeedInv == ASSUME BootInv, AskSeed PROVE BootInv'
<1> DEFINE s == seeds[at]
<1>1. phase = "seeds" /\ at <= Len(seeds) /\ TypeOK /\ heard = {}
  BY DEF AskSeed, BootInv, PhaseInv
<1>2. s \in Node
  BY <1>1, SeedType
<1>3. tried' = tried \cup {Host[s]} /\ UNCHANGED <<seeds, near, queue, asked, tables, willing, calm, failed>>
  BY DEF AskSeed, hood, env
<1>4. tried' \subseteq {Host[n] : n \in Node}
  BY <1>1, <1>2, <1>3 DEF TypeOK
<1>5. \A S \in Entries(s, Relation) : 1 + Cardinality(S) \in Nat
  <2> TAKE S \in Entries(s, Relation)
  <2>1. S \subseteq Remote \cup {Me}
    BY EntriesType DEF Node
  <2>2. IsFiniteSet(Remote \cup {Me})
    BY FS_AddElement, NodesAssumption
  <2>3. IsFiniteSet(S)
    BY <2>1, <2>2, FS_Subset
  <2> QED
    BY <2>3, FS_CardinalityType
<1>6. CASE s = Me /\ at' = at + 1 /\ UNCHANGED <<phase, rows, atSeed, cands, heard>>
  <2>1. at' \in Nat \ {0} /\ rows' \in Rows /\ phase' \in Phases
    BY <1>1, <1>6 DEF TypeOK
  <2>2. TypeOK'
    BY <1>1, <1>3, <1>4, <1>6, <2>1 DEF TypeOK
  <2> QED
    BY <1>1, <1>6, <2>2 DEF BootInv, WorldInv, FillInv, PhaseInv, NeighboursExhausted
<1>7. CASE /\ MayFail(s) /\ at' = at + 1
           /\ SafeStoreNode(s, "Colleague") \/ UNCHANGED rows
           /\ UNCHANGED atSeed \/ \E S \in Entries(s, Relation) : atSeed' = 1 + Cardinality(S)
           /\ UNCHANGED <<phase, cands, heard>>
  <2>1. s \in Remote
    BY <1>2, <1>7 DEF MayFail, Node
  <2>2. rows' \in Rows
    BY <1>1, <1>7, <2>1, StoreType DEF Relation
  <2>3. atSeed' \in Nat
    BY <1>1, <1>5, <1>7 DEF TypeOK
  <2>4. TypeOK'
    BY <1>1, <1>3, <1>4, <1>7, <2>2, <2>3 DEF TypeOK
  <2> QED
    BY <1>1, <1>7, <2>4 DEF BootInv, WorldInv, FillInv, PhaseInv, NeighboursExhausted
<1>8. CASE /\ s # Me /\ SafeStoreNode(s, "Colleague")
           /\ \E S \in Entries(s, Relation) : atSeed' = 1 + Cardinality(S)
           /\ cands' \in RandomNodes(s) /\ heard' = cands'
           /\ phase' = "world" /\ at' = 1
  <2>1. s \in Remote
    BY <1>2, <1>8 DEF Node
  <2>2. rows' \in Rows
    BY <1>1, <1>8, <2>1, StoreType DEF Relation
  <2>3. cands' \subseteq Node /\ atSeed' \in Nat
    BY <1>2, <1>5, <1>8, RandomType
  <2>4. TypeOK'
    BY <1>1, <1>3, <1>4, <1>8, <2>2, <2>3 DEF TypeOK, Phases
  <2> QED
    BY <1>8, <2>4 DEF BootInv, WorldInv, FillInv, PhaseInv, NeighboursExhausted
<1> QED
  BY <1>6, <1>7, <1>8 DEF AskSeed

LEMMA SeedsDoneInv == ASSUME BootInv, SeedsDone PROVE BootInv'
<1>1. /\ phase = "seeds" /\ phase' \in {"verdict", "world"} /\ at' = 1
      /\ tried' \in {{}, tried}
      /\ UNCHANGED <<rows, seeds, atSeed, cands, near, queue, asked, tables, willing, calm, heard, failed>>
  BY DEF SeedsDone, hood, env
<1>2. TypeOK'
  BY <1>1 DEF BootInv, TypeOK, Phases
<1> QED
  BY <1>1, <1>2 DEF BootInv, WorldInv, FillInv, PhaseInv, NeighboursExhausted

LEMMA AskCandidateInv == ASSUME BootInv, AskCandidate PROVE BootInv'
<1>1. phase = "world" /\ TypeOK /\ UNCHANGED <<phase, seeds, at, atSeed, near, queue, asked, tables, willing, calm, failed>>
  BY DEF AskCandidate, BootInv, hood, env
<1>2. PICK c \in cands :
          \/ /\ Host[c] \in tried
             /\ cands' = cands \ {c}
             /\ UNCHANGED <<rows, tried, heard>>
          \/ /\ Host[c] \notin tried
             /\ tried' = tried \cup {Host[c]}
             /\ \/ /\ c = Me
                   /\ cands' = cands \ {c}
                   /\ UNCHANGED <<rows, heard>>
                \/ /\ MayFail(c)
                   /\ SafeStoreNode(c, "Colleague") \/ UNCHANGED rows
                   /\ cands' = cands \ {c}
                   /\ UNCHANGED heard
                \/ /\ c # Me
                   /\ SafeStoreNode(c, "Colleague")
                   /\ \E T \in RandomColleagues(c) :
                         cands' = (cands \ {c}) \cup T /\ heard' = heard \cup T
  BY DEF AskCandidate
<1>3. c \in Node
  BY <1>1 DEF TypeOK
<1>4. rows' \in Rows
  <2>1. CASE UNCHANGED rows
    BY <1>1, <2>1 DEF TypeOK
  <2>2. CASE c # Me /\ SafeStoreNode(c, "Colleague")
    <3>1. c \in Remote
      BY <1>3, <2>2 DEF Node
    <3> QED
      BY <1>1, <2>2, <3>1, StoreType DEF Relation
  <2> QED
    BY <1>2, <2>1, <2>2 DEF MayFail
<1>5. PICK T : T \subseteq Node /\ cands' = (cands \ {c}) \cup T /\ heard' = heard \cup T
  <2>1. CASE cands' = cands \ {c} /\ UNCHANGED heard
    <3>1. {} \subseteq Node /\ cands' = (cands \ {c}) \cup {} /\ heard' = heard \cup {}
      BY <2>1
    <3> QED
      BY <3>1
  <2>2. CASE \E T \in RandomColleagues(c) : cands' = (cands \ {c}) \cup T /\ heard' = heard \cup T
    BY <1>3, <2>2, RandomType
  <2> QED
    BY <1>2, <2>1, <2>2
<1>6. Host[c] \in tried' /\ tried \subseteq tried' /\ tried' \subseteq tried \cup {Host[c]}
  BY <1>2
<1>7. TypeOK'
  <2>1. tried' \subseteq {Host[n] : n \in Node}
    BY <1>1, <1>3, <1>6 DEF TypeOK
  <2>2. cands' \subseteq Node /\ heard' \subseteq Node
    BY <1>1, <1>5 DEF TypeOK
  <2> QED
    BY <1>1, <1>4, <2>1, <2>2 DEF TypeOK
<1>8. WorldInv'
  <2> SUFFICES ASSUME NEW n \in heard'
               PROVE  Host[n] \in tried' \/ \E d \in cands' : Host[d] = Host[n]
    BY DEF WorldInv
  <2>1. CASE n \in T
    BY <1>5, <2>1
  <2>2. CASE n \in heard
    <3>1. Host[n] \in tried \/ \E d \in cands : Host[d] = Host[n]
      BY <1>1, <2>2 DEF BootInv, WorldInv
    <3> QED
      BY <1>5, <1>6, <3>1
  <2> QED
    BY <1>5, <2>1, <2>2
<1> QED
  BY <1>1, <1>7, <1>8 DEF BootInv, FillInv, PhaseInv, NeighboursExhausted

LEMMA WorldDoneInv == ASSUME BootInv, WorldDone PROVE BootInv'
<1>1. /\ phase = "world" /\ phase' = "near" /\ ~WorldUnfilled
      /\ UNCHANGED <<rows, seeds, at, tried, atSeed, cands, near, queue, asked, tables, willing, calm, heard, failed>>
  BY DEF WorldDone, world, hood, env
<1>2. TypeOK'
  BY <1>1 DEF BootInv, TypeOK, Phases
<1>3. ~WorldUnfilled'
  BY <1>1 DEF WorldUnfilled, GetNodeCount, Known, TargetNodeCount
<1> QED
  BY <1>1, <1>2, <1>3 DEF BootInv, WorldInv, FillInv, PhaseInv, NeighboursExhausted

LEMMA StartNeighbourhoodInv == ASSUME BootInv, StartNeighbourhood PROVE BootInv'
<1>1. /\ phase' \in {"walk", "nearSeeds"} /\ tried' = {} /\ atSeed' = 0 /\ cands' = {} /\ heard' = {}
      /\ UNCHANGED <<rows, seeds, at, queue, asked, tables, willing, calm, failed>>
  BY DEF StartNeighbourhood, env
<1>2. near' \in Node /\ (phase' = "walk" => near' # Me)
  BY NodesAssumption DEF StartNeighbourhood, Known, Node
<1>3. TypeOK'
  BY <1>1, <1>2 DEF BootInv, TypeOK, Phases
<1> QED
  BY <1>1, <1>2, <1>3 DEF BootInv, WorldInv, FillInv, PhaseInv, NeighboursExhausted

LEMMA NearSeedInv == ASSUME BootInv, NearSeed \/ NearSeedsDone PROVE BootInv'
<1>1. /\ phase = "nearSeeds" /\ TypeOK /\ heard = {}
      /\ UNCHANGED <<rows, seeds, tried, atSeed, cands, queue, asked, tables, willing, calm, heard, failed>>
      /\ at' \in {at + 1, 1}
  BY DEF NearSeed, NearSeedsDone, BootInv, PhaseInv, world, hood, env
<1>2. near' \in Node
  BY <1>1, SeedType DEF NearSeed, NearSeedsDone, TypeOK, hood
<1>3. phase' \in {"nearSeeds", "verdict", "walk"} /\ (phase' = "walk" => near' # Me)
  BY <1>1 DEF NearSeed, NearSeedsDone, hood
<1>4. TypeOK'
  BY <1>1, <1>2, <1>3 DEF TypeOK, Phases
<1> QED
  BY <1>1, <1>3, <1>4 DEF BootInv, WorldInv, FillInv, PhaseInv, NeighboursExhausted

LEMMA WalkInv == ASSUME BootInv, Walk PROVE BootInv'
<1>1. /\ phase = "walk" /\ TypeOK /\ near # Me /\ heard = {}
      /\ UNCHANGED <<rows, seeds, at, tried, atSeed, cands, asked, tables, willing, calm, heard, failed>>
  BY DEF Walk, BootInv, PhaseInv, world, env
<1>2. \/ StartFill /\ UNCHANGED near
      \/ /\ UNCHANGED <<phase, queue>>
         /\ near' \in Node \ {Me}
  <2>1. CASE ~calm /\ StartFill /\ UNCHANGED near
    BY <2>1
  <2>2. CASE \E list \in ClosestNodes(near, 2) :
                LET next == IF list[1] # Me THEN list[1]
                            ELSE IF Len(list) > 1 THEN list[2] ELSE near
                IN IF Dist[next] < Dist[near]
                   THEN near' = next /\ UNCHANGED <<phase, queue>>
                   ELSE StartFill /\ UNCHANGED near
    <3>1. PICK list \in ClosestNodes(near, 2) :
                LET next == IF list[1] # Me THEN list[1]
                            ELSE IF Len(list) > 1 THEN list[2] ELSE near
                IN IF Dist[next] < Dist[near]
                   THEN near' = next /\ UNCHANGED <<phase, queue>>
                   ELSE StartFill /\ UNCHANGED near
      BY <2>2
    <3> DEFINE next == IF list[1] # Me THEN list[1]
                       ELSE IF Len(list) > 1 THEN list[2] ELSE near
    <3>2. near \in Node
      BY <1>1 DEF TypeOK
    <3>3. next \in Node \ {Me}
      BY <1>1, <3>2, ClosestType
    <3> QED
      BY <3>1, <3>3
  <2> QED
    BY <2>1, <2>2 DEF Walk
<1>3. CASE StartFill /\ UNCHANGED near
  <2>1. phase' = "fill" /\ queue' \in Seq(Node)
    BY <1>1, <1>3 DEF StartFill, TypeOK
  <2>2. TypeOK'
    BY <1>1, <1>3, <2>1 DEF TypeOK, Phases
  <2> QED
    BY <1>1, <1>3, <2>1, <2>2 DEF BootInv, WorldInv, FillInv, PhaseInv, NeighboursExhausted
<1>4. CASE UNCHANGED <<phase, queue>> /\ near' \in Node \ {Me}
  <2>1. TypeOK'
    BY <1>1, <1>4 DEF TypeOK
  <2> QED
    BY <1>1, <1>4, <2>1 DEF BootInv, WorldInv, FillInv, PhaseInv, NeighboursExhausted
<1> QED
  BY <1>2, <1>3, <1>4

LEMMA AskNeighbourInv == ASSUME BootInv, AskNeighbour PROVE BootInv'
<1> DEFINE c == Head(queue)
<1>1. /\ phase = "fill" /\ TypeOK /\ near # Me /\ queue # <<>>
      /\ UNCHANGED <<phase, seeds, at, tried, atSeed, cands, near, tables, willing, calm>>
  BY DEF AskNeighbour, NeighbourhoodUnfilled, BootInv, PhaseInv, world, env
<1>2. /\ c \in Node /\ Tail(queue) \in Seq(Node) /\ Len(Tail(queue)) = Len(queue) - 1
      /\ c = queue[1] /\ Len(queue) \in Nat \ {0}
      /\ \A i \in 1..Len(queue) : i # 1 => i-1 \in 1..Len(Tail(queue)) /\ Tail(queue)[i-1] = queue[i]
  BY <1>1 DEF TypeOK
<1>3. \A n \in heard : \/ n \in asked \cup failed \cup {Me, c}
                       \/ \E i \in 1..Len(Tail(queue)) : Tail(queue)[i] = n
  BY <1>1, <1>2 DEF BootInv, FillInv
<1>4. CASE c \in asked \cup {Me} /\ queue' = Tail(queue) /\ UNCHANGED <<rows, asked, heard, failed>>
  <2>1. TypeOK'
    BY <1>1, <1>2, <1>4 DEF TypeOK
  <2>2. FillInv'
    BY <1>3, <1>4 DEF FillInv
  <2> QED
    BY <1>1, <2>1, <2>2 DEF BootInv, WorldInv, PhaseInv, NeighboursExhausted
<1>5. CASE /\ MayFail(c) /\ failed' = failed \cup {c}
           /\ SafeStoreNode(c, "Neighbour") \/ UNCHANGED rows
           /\ queue' = Tail(queue) /\ UNCHANGED <<asked, heard>>
  <2>1. c \in Remote
    BY <1>2, <1>5 DEF MayFail, Node
  <2>2. rows' \in Rows
    BY <1>1, <1>5, <2>1, StoreType DEF Relation
  <2>3. TypeOK'
    BY <1>1, <1>2, <1>5, <2>1, <2>2 DEF TypeOK
  <2>4. FillInv'
    BY <1>3, <1>5 DEF FillInv
  <2> QED
    BY <1>1, <2>3, <2>4 DEF BootInv, WorldInv, PhaseInv, NeighboursExhausted
<1>6. CASE /\ c \notin asked \cup {Me} /\ SafeStoreNode(c, "Neighbour")
           /\ \E list \in ClosestNodes(c, TargetSize) :
                 /\ queue' = Tail(queue) \o list
                 /\ heard' = heard \cup {list[i] : i \in 1..Len(list)}
           /\ asked' = asked \cup {c} /\ UNCHANGED failed
  <2>1. PICK list \in ClosestNodes(c, TargetSize) :
                 /\ queue' = Tail(queue) \o list
                 /\ heard' = heard \cup {list[i] : i \in 1..Len(list)}
    BY <1>6
  <2>2. c \in Remote
    BY <1>2, <1>6 DEF Node
  <2>3. rows' \in Rows
    BY <1>1, <1>6, <2>2, StoreType DEF Relation
  <2>4. list \in Seq(Node) /\ Len(list) \in Nat /\ \A i \in 1..Len(list) : list[i] \in Node
    BY <1>2, ClosestType, SizeAssumption
  <2>5. queue' \in Seq(Node) /\ heard' \subseteq Node
    BY <1>1, <1>2, <2>1, <2>4 DEF TypeOK
  <2>6. TypeOK'
    BY <1>1, <1>6, <2>2, <2>3, <2>5 DEF TypeOK
  <2>7. /\ Len(queue') = Len(Tail(queue)) + Len(list)
        /\ \A i \in 1..Len(Tail(queue)) : i \in 1..Len(queue') /\ queue'[i] = Tail(queue)[i]
        /\ \A i \in 1..Len(list) : /\ Len(Tail(queue)) + i \in 1..Len(queue')
                                   /\ queue'[Len(Tail(queue)) + i] = list[i]
    BY <1>2, <2>1, <2>4
  <2>8. FillInv'
    <3> SUFFICES ASSUME NEW n \in heard'
                 PROVE  \/ n \in asked' \cup failed' \cup {Me}
                        \/ \E i \in 1..Len(queue') : queue'[i] = n
      BY DEF FillInv
    <3>1. CASE n \in heard
      BY <1>3, <1>6, <2>7, <3>1
    <3>2. CASE \E i \in 1..Len(list) : list[i] = n
      BY <2>7, <3>2
    <3> QED
      BY <2>1, <3>1, <3>2
  <2> QED
    BY <1>1, <2>6, <2>8 DEF BootInv, WorldInv, PhaseInv, NeighboursExhausted
<1> QED
  BY <1>4, <1>5, <1>6 DEF AskNeighbour

LEMMA NeighbourhoodDoneInv == ASSUME BootInv, NeighbourhoodDone PROVE BootInv'
<1>1. /\ phase = "fill" /\ phase' = "verdict" /\ ~NeighbourhoodUnfilled
      /\ UNCHANGED <<rows, seeds, at, tried, atSeed, cands, near, queue, asked, tables, willing, calm, heard, failed>>
  BY DEF NeighbourhoodDone, world, hood, env
<1>2. TypeOK'
  BY <1>1 DEF BootInv, TypeOK, Phases
<1>3. NeighboursExhausted'
  <2>1. CASE Cardinality(Neighbours) >= TargetSize
    BY <1>1, <2>1 DEF NeighboursExhausted, Neighbours
  <2>2. CASE queue = <<>>
    <3>1. heard \subseteq asked \cup failed \cup {Me}
      BY <1>1, <2>2 DEF BootInv, FillInv
    <3> QED
      BY <1>1, <3>1 DEF NeighboursExhausted
  <2> QED
    BY <1>1, <2>1, <2>2, CountType, SizeAssumption DEF NeighbourhoodUnfilled
<1> QED
  BY <1>1, <1>2, <1>3 DEF BootInv, WorldInv, FillInv, PhaseInv

LEMMA VerdictInv == ASSUME BootInv, Verdict PROVE BootInv'
<1>1. /\ phase' \in {"done", "retry"} /\ near' = Me /\ queue' = <<>> /\ asked' = {} /\ heard' = {} /\ failed' = {}
      /\ UNCHANGED <<rows, seeds, at, tried, atSeed, cands, tables, willing, calm>>
  BY DEF Verdict, world, env
<1>2. TypeOK'
  BY <1>1 DEF BootInv, TypeOK, Phases, Node
<1> QED
  BY <1>1, <1>2 DEF BootInv, WorldInv, FillInv, PhaseInv, NeighboursExhausted

LEMMA ExpireInv == ASSUME BootInv, ExpireOldNodes PROVE BootInv'
<1>1. /\ phase = "done" /\ phase' \in {"done", "check"} /\ seeds' \in SeedLists
      /\ UNCHANGED <<at, tried, atSeed, cands, near, queue, asked, tables, willing, calm, heard, failed>>
  BY DEF ExpireOldNodes, Shuffled, BootInv, TypeOK, world, hood, env
<1>2. rows' \in Rows
  BY DEF ExpireOldNodes, Forgotten, BootInv, TypeOK, Rows
<1>3. TypeOK'
  BY <1>1, <1>2 DEF BootInv, TypeOK, Phases
<1> QED
  BY <1>1, <1>3 DEF BootInv, WorldInv, FillInv, PhaseInv, NeighboursExhausted

(***************************************************************************)
(* The reactor only adds to what the search counts.                        *)
(***************************************************************************)
LEMMA AcceptInv == ASSUME BootInv, NEW n \in Remote, NEW rel \in Relation, Accept(n, rel) PROVE BootInv'
<1>1. /\ rows' = [rows EXCEPT ![n] = rel]
      /\ rows[n] = "None" \/ (rows[n] = "Colleague" /\ rel = "Neighbour")
      /\ UNCHANGED <<phase, seeds, at, tried, atSeed, cands, near, queue, asked, tables, willing, calm, heard, failed>>
  BY DEF Accept, world, hood, env
<1>2. rows \in Rows /\ rows' \in Rows
  BY <1>1 DEF BootInv, TypeOK, Rows
<1>3. TypeOK'
  BY <1>1, <1>2 DEF BootInv, TypeOK
<1>4. Known \subseteq Known' /\ Neighbours \subseteq Neighbours'
  BY <1>1, <1>2 DEF Known, Neighbours, Rows, Relation
<1>5. /\ IsFiniteSet(Known') /\ IsFiniteSet(Neighbours')
      /\ Cardinality(Known') \in Nat /\ Cardinality(Neighbours') \in Nat
  <2>1. Known' \in SUBSET Remote /\ Neighbours' \in SUBSET Remote
    BY DEF Known, Neighbours
  <2>2. IsFiniteSet(Known') /\ IsFiniteSet(Neighbours')
    BY <2>1, FS_Subset, NodesAssumption
  <2> QED
    BY <2>2, FS_CardinalityType
<1>6. Cardinality(Known) <= Cardinality(Known') /\ Cardinality(Neighbours) <= Cardinality(Neighbours')
  BY <1>4, <1>5, FS_Subset
<1>7. PhaseInv'
  BY <1>1, <1>5, <1>6, CountType DEF BootInv, TypeOK, PhaseInv, WorldUnfilled, GetNodeCount, TargetNodeCount
<1>8. NeighboursExhausted'
  BY <1>1, <1>5, <1>6, CountType, SizeAssumption DEF BootInv, NeighboursExhausted
<1> QED
  BY <1>1, <1>3, <1>7, <1>8 DEF BootInv, WorldInv, FillInv

LEMMA QuietInv == ASSUME BootInv, CalmDown \/ UNCHANGED vars PROVE BootInv'
<1>1. /\ calm' \in {calm, TRUE}
      /\ UNCHANGED <<phase, rows, seeds, at, tried, atSeed, cands, near, queue, asked, tables, willing, heard, failed>>
  BY DEF CalmDown, vars, world, hood, env
<1>2. calm' \in BOOLEAN
  BY <1>1 DEF BootInv, TypeOK
<1>3. TypeOK'
  BY <1>1, <1>2 DEF BootInv, TypeOK
<1>4. WorldInv' /\ FillInv'
  BY <1>1 DEF BootInv, WorldInv, FillInv
<1>5. PhaseInv'
  BY <1>1 DEF BootInv, PhaseInv, WorldUnfilled, GetNodeCount, Known, TargetNodeCount
<1>6. NeighboursExhausted'
  BY <1>1 DEF BootInv, NeighboursExhausted, Neighbours
<1> QED
  BY <1>3, <1>4, <1>5, <1>6 DEF BootInv

LEMMA BootNext == BootInv /\ [Next]_vars => BootInv'
<1> SUFFICES ASSUME BootInv, [Next]_vars PROVE BootInv'
  OBVIOUS
<1>1. CASE Step
  BY <1>1, StartInv, AskSeedInv, SeedsDoneInv, AskCandidateInv, WorldDoneInv, StartNeighbourhoodInv, NearSeedInv,
     WalkInv, AskNeighbourInv, NeighbourhoodDoneInv, VerdictInv DEF Step
<1>2. CASE ExpireOldNodes
  BY <1>2, ExpireInv
<1>3. CASE \E n \in Remote, rel \in Relation : Accept(n, rel)
  BY <1>3, AcceptInv
<1>4. CASE CalmDown \/ UNCHANGED vars
  BY <1>4, QuietInv
<1> QED
  BY <1>1, <1>2, <1>3, <1>4 DEF Next

-----------------------------------------------------------------------------

(***************************************************************************)
(* The inductive invariant of bootstrap holds in every network, whichever  *)
(* calls fail and whoever is accepted meanwhile.                           *)
(***************************************************************************)
THEOREM BootInvariance == Spec => []BootInv
<1> QED
  BY BootInit, BootNext, PTL DEF Spec

(***************************************************************************)
(* InitializeWorld stops below its target only when the address of every   *)
(* node it was told of has been tried.                                     *)
(***************************************************************************)
THEOREM WorldIsExhausted == Spec => []WorldExhausted
<1>1. BootInv => WorldExhausted
  <2> SUFFICES ASSUME BootInv, phase = "near", ~(GetNodeCount >= TargetNodeCount)
               PROVE  \A n \in heard : Host[n] \in tried
    BY DEF WorldExhausted
  <2>1. GetNodeCount < TargetNodeCount
    BY CountType DEF GetNodeCount, TargetNodeCount, BootInv, TypeOK
  <2>2. cands = {}
    BY <2>1 DEF BootInv, PhaseInv, WorldUnfilled
  <2> QED
    BY <2>2 DEF BootInv, WorldInv
<1> QED
  BY <1>1, BootInvariance, PTL

(***************************************************************************)
(* InitializeNeighbourhood stops below neighbourhoodTargetSize only when   *)
(* every node it was told of was asked or could not be reached.            *)
(***************************************************************************)
THEOREM NeighboursAreExhausted == Spec => []NeighboursExhausted
<1>1. BootInv => NeighboursExhausted
  BY DEF BootInv
<1> QED
  BY <1>1, BootInvariance, PTL

=============================================================================
