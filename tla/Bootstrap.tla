------------------------------- MODULE Bootstrap -------------------------------
(***************************************************************************)
(* How a node finds the network (locnet.cpp): EnsureMapFilled repeats      *)
(* InitializeWorld and InitializeNeighbourhood until another node is       *)
(* known.  The reactor already serves requests meanwhile, and everything   *)
(* asked of another node may fail.                                         *)
(*                                                                         *)
(* LocNetNode has every SafeStoreNode call of bootstrap in detail and any  *)
(* choice of nodes; here the choice of nodes is the code's, and            *)
(* SafeStoreNode is reduced to whether it stores.  The other nodes' tables *)
(* do not change, except that any of them may have an entry of ours.  One  *)
(* pass of a loop is one step, and the local variables of a call have      *)
(* their initial values whenever it does not run.                          *)
(***************************************************************************)
EXTENDS Integers, Sequences, FiniteSets

CONSTANTS
    Remote, Me,         \* the other nodes, and this one
    Dist,               \* how far a node is from us
    Host,               \* the network address of a node, without its port
    TargetSize,         \* neighbourhoodTargetSize
    Networks,           \* which relations the other nodes may have among themselves
    Policies,           \* which nodes may accept us, and as what
    SeedLists           \* the possible lists of seeds

Node == Remote \cup {Me}

Relation == {"Colleague", "Neighbour"}

Rows == [Remote -> Relation \cup {"None"}]

ASSUME NodesAssumption == Me \notin Remote /\ IsFiniteSet(Remote)

ASSUME DistAssumption == Dist \in [Node -> Nat] /\ \A n \in Remote : Dist[n] > Dist[Me]

ASSUME SizeAssumption == TargetSize \in Nat \ {0}

ASSUME NetworksAssumption == Networks \subseteq [Remote -> Rows]

ASSUME PoliciesAssumption == Policies \subseteq SUBSET (Remote \X Relation)

ASSUME SeedsAssumption == SeedLists \subseteq Seq(Node) \ {<<>>} /\ SeedLists # {}

VARIABLES
    phase,      \* where EnsureMapFilled is
    rows,       \* our table
    seeds,      \* seedNodes, shuffled
    at,         \* the seed a loop over the seeds is at
    tried,      \* triedNodes
    atSeed,     \* nodeCountAtSeed
    cands,      \* randomColleagueCandidates, which are taken in any order
    near,       \* newClosestNode
    queue,      \* nodesToAskQueue
    asked,      \* askedNodeIds
    tables,     \* the tables of the other nodes
    willing,    \* the nodes that accept us, and as what
    calm,       \* no call fails any more
    heard,      \* history: the nodes this search was told of
    failed      \* history: the nodes that did not answer this search

env == <<tables, willing>>
world == <<tried, atSeed, cands>>
hood == <<near, queue, asked>>
vars == <<phase, rows, seeds, at, world, hood, env, calm, heard, failed>>

Phases == {"check", "seeds", "world", "near", "nearSeeds", "walk", "fill", "verdict", "retry", "done"}

(***************************************************************************)
(* The types of the local variables and the table; only others are asked.  *)
(***************************************************************************)
TypeOK ==
    /\ phase \in Phases
    /\ rows \in Rows
    /\ seeds \in SeedLists
    /\ at \in Nat \ {0}
    /\ tried \subseteq {Host[n] : n \in Node}
    /\ atSeed \in Nat
    /\ cands \subseteq Node
    /\ near \in Node
    /\ queue \in Seq(Node)
    /\ asked \subseteq Remote
    /\ tables \in Networks
    /\ willing \in Policies
    /\ calm \in BOOLEAN
    /\ heard \subseteq Node /\ failed \subseteq Remote

-----------------------------------------------------------------------------
(* The own table.                                                          *)

Known == {n \in Remote : rows[n] # "None"}

GetNodeCount == 1 + Cardinality(Known)

Neighbours == {n \in Remote : rows[n] = "Neighbour"}

(***************************************************************************)
(* SafeStoreNode as initiator.  The remote node must be willing; an empty  *)
(* table refuses nobody, any other may (bubbles, limits), and never        *)
(* downgrades.                                                             *)
(***************************************************************************)
SafeStoreNode(n, rel) ==
    \/ /\ <<n, rel>> \in willing
       /\ ~(rel = "Colleague" /\ rows[n] = "Neighbour")
       /\ rows' = [rows EXCEPT ![n] = rel]
    \/ /\ ~calm \/ Known # {} \/ <<n, rel>> \notin willing
       /\ UNCHANGED rows

-----------------------------------------------------------------------------
(* What the other nodes answer.                                            *)

(***************************************************************************)
(* The entries a node may choose from: those of its table, its own, and    *)
(* ours if it has one.                                                     *)
(***************************************************************************)
Entries(n, rels) ==
    LET others == {m \in Remote : tables[n][m] \in rels}
    IN {others, others \cup {Me}}

(***************************************************************************)
(* GetRandomNodes.  Without neighbours only colleagues are listed, not     *)
(* even the node itself.                                                   *)
(***************************************************************************)
Limited(S, k) == {T \in SUBSET S : Cardinality(T) <= k /\ (Cardinality(T) = k \/ T = S)}

RandomNodes(n) == UNION {Limited(S \cup {n}, 2 * TargetSize) : S \in Entries(n, Relation)}

RandomColleagues(n) == UNION {Limited(S, 2 * TargetSize) : S \in Entries(n, {"Colleague"})}

(***************************************************************************)
(* GetClosestNodesByDistance, asked with our position: the k closest       *)
(* entries in order of distance.                                           *)
(***************************************************************************)
Listed(S, k) ==
    {s \in UNION {[1..l -> S] : l \in 0..k} :
        /\ \A i, j \in 1..Len(s) : i < j => s[i] # s[j] /\ Dist[s[i]] <= Dist[s[j]]
        /\ \A n \in S : \/ \E i \in 1..Len(s) : s[i] = n
                        \/ Len(s) = k /\ \A i \in 1..Len(s) : Dist[s[i]] <= Dist[n]}

ClosestNodes(n, k) == UNION {Listed(S \cup {n}, k) : S \in Entries(n, Relation)}

(***************************************************************************)
(* SafeConnectTo refuses our own endpoint; otherwise connecting, and any   *)
(* later call, may fail.                                                   *)
(***************************************************************************)
MayFail(n) == n # Me /\ ~calm

-----------------------------------------------------------------------------
(* InitializeWorld.                                                        *)

StartRound ==
    /\ phase = "check"
    /\ phase' = IF GetNodeCount > 1 THEN "done" ELSE "seeds"
    /\ UNCHANGED <<rows, seeds, at, world, hood, env, calm, heard, failed>>

(***************************************************************************)
(* A seed is asked to be a colleague, for its node count and for nodes; a  *)
(* failure goes on with the next seed and keeps what was learnt.           *)
(***************************************************************************)
AskSeed ==
    LET s == seeds[at]
    IN /\ phase = "seeds" /\ at <= Len(seeds)
       /\ tried' = tried \cup {Host[s]}
       /\ \/ /\ s = Me
             /\ at' = at + 1
             /\ UNCHANGED <<phase, rows, atSeed, cands, heard>>
          \/ /\ MayFail(s)
             /\ at' = at + 1
             /\ SafeStoreNode(s, "Colleague") \/ UNCHANGED rows
             /\ \/ UNCHANGED atSeed
                \/ \E S \in Entries(s, Relation) : atSeed' = 1 + Cardinality(S)
             /\ UNCHANGED <<phase, cands, heard>>
          \/ /\ s # Me
             /\ SafeStoreNode(s, "Colleague")
             /\ \E S \in Entries(s, Relation) : atSeed' = 1 + Cardinality(S)
             /\ cands' \in RandomNodes(s)
             /\ heard' = cands'
             /\ phase' = "world" /\ at' = 1
       /\ UNCHANGED <<seeds, hood, env, calm, failed>>

(***************************************************************************)
(* No seed was left.  Two seeds of one address are counted once in         *)
(* triedNodes, so that their failure is not noticed here.                  *)
(***************************************************************************)
SeedsDone ==
    /\ phase = "seeds" /\ at > Len(seeds)
    /\ at' = 1
    /\ IF atSeed = 0 /\ cands = {} /\ Cardinality(tried) = Len(seeds)
       THEN phase' = "verdict" /\ tried' = {}
       ELSE phase' = "world" /\ UNCHANGED tried
    /\ UNCHANGED <<rows, seeds, atSeed, cands, hood, env, calm, heard, failed>>

(***************************************************************************)
(* ceil(INIT_WORLD_NODE_FILL_TARGET_RATE * nodeCountAtSeed).               *)
(***************************************************************************)
TargetNodeCount == (3 * atSeed + 3) \div 4

WorldUnfilled == GetNodeCount < TargetNodeCount /\ cands # {}

(***************************************************************************)
(* Faulty variant: the answer replaces the candidates.                     *)
(***************************************************************************)
AskCandidateOnly ==
    /\ phase = "world" /\ WorldUnfilled
    /\ \E c \in cands :
          \/ /\ Host[c] \in tried
             /\ cands' = cands \ {c}
             /\ UNCHANGED <<rows, tried, heard>>
          \/ /\ Host[c] \notin tried
             /\ tried' = tried \cup {Host[c]}
             /\ \/ /\ c = Me
                   /\ cands' = cands \ {c}
                   /\ UNCHANGED <<rows, heard>>
                \/ /\ c # Me
                   /\ SafeStoreNode(c, "Colleague")
                   /\ \E T \in RandomColleagues(c) : cands' = T /\ heard' = heard \cup T
    /\ UNCHANGED <<phase, seeds, at, atSeed, hood, env, calm, failed>>

AskCandidate ==
    /\ phase = "world" /\ WorldUnfilled
    /\ \E c \in cands :
          \/ /\ Host[c] \in tried
             /\ cands' = cands \ {c}
             /\ UNCHANGED <<rows, tried, heard>>
          \/ /\ Host[c] \notin tried
             /\ tried' = tried \cup {Host[c]}
             /\ \/ /\ c = Me
                   /\ cands' = cands \ {c}
                   /\ UNCHANGED <<rows, heard>>
                \/ /\ MayFail(c)
                   /\ SafeStoreNode(c, "Colleague") \/ UNCHANGED rows
                   /\ cands' = cands \ {c}
                   /\ UNCHANGED heard
                \/ /\ c # Me
                   /\ SafeStoreNode(c, "Colleague")
                   /\ \E T \in RandomColleagues(c) :
                         cands' = (cands \ {c}) \cup T /\ heard' = heard \cup T
    /\ UNCHANGED <<phase, seeds, at, atSeed, hood, env, calm, failed>>

WorldDone ==
    /\ phase = "world" /\ ~WorldUnfilled
    /\ phase' = "near"
    /\ UNCHANGED <<rows, seeds, at, world, hood, env, calm, heard, failed>>

-----------------------------------------------------------------------------
(* InitializeNeighbourhood.                                                *)

(***************************************************************************)
(* The search starts from the closest node known, or else from a seed.     *)
(***************************************************************************)
StartNeighbourhood ==
    /\ phase = "near"
    /\ tried' = {} /\ atSeed' = 0 /\ cands' = {} /\ heard' = {}
    /\ \/ /\ Known # {}
          /\ phase' = "walk"
          /\ near' \in {n \in Known : \A m \in Known : Dist[n] <= Dist[m]}
       \/ /\ Known = {}
          /\ phase' = "nearSeeds"
          /\ near' = Me
    /\ UNCHANGED <<rows, seeds, at, queue, asked, env, calm, failed>>

(***************************************************************************)
(* Every seed is asked, and the last one that answers is taken.            *)
(***************************************************************************)
NearSeed ==
    LET s == seeds[at]
    IN /\ phase = "nearSeeds" /\ at <= Len(seeds)
       /\ at' = at + 1
       /\ \/ (s = Me \/ ~calm) /\ UNCHANGED near
          \/ s # Me /\ near' = s
       /\ UNCHANGED <<phase, rows, seeds, world, queue, asked, env, calm, heard, failed>>

NearSeedsDone ==
    /\ phase = "nearSeeds" /\ at > Len(seeds)
    /\ phase' = IF near = Me THEN "verdict" ELSE "walk"
    /\ at' = 1
    /\ UNCHANGED <<rows, seeds, world, hood, env, calm, heard, failed>>

StartFill ==
    /\ phase' = "fill"
    /\ queue' = <<near>>

(***************************************************************************)
(* Faulty variant: a node as close as the last one is walked to.           *)
(***************************************************************************)
WalkAsClose ==
    /\ phase = "walk"
    /\ \/ ~calm /\ StartFill /\ UNCHANGED near
       \/ \E list \in ClosestNodes(near, 2) :
             LET next == IF list[1] # Me THEN list[1]
                         ELSE IF Len(list) > 1 THEN list[2] ELSE near
             IN IF Dist[next] <= Dist[near]
                THEN near' = next /\ UNCHANGED <<phase, queue>>
                ELSE StartFill /\ UNCHANGED near
    /\ UNCHANGED <<rows, seeds, at, world, asked, env, calm, heard, failed>>

(***************************************************************************)
(* Faulty variant: our own entry is not left out.                          *)
(***************************************************************************)
WalkToSelf ==
    /\ phase = "walk"
    /\ \/ ~calm /\ StartFill /\ UNCHANGED near
       \/ \E list \in ClosestNodes(near, 2) :
             IF Dist[list[1]] < Dist[near]
             THEN near' = list[1] /\ UNCHANGED <<phase, queue>>
             ELSE StartFill /\ UNCHANGED near
    /\ UNCHANGED <<rows, seeds, at, world, asked, env, calm, heard, failed>>

(***************************************************************************)
(* The closest node is asked for one that is closer still, until it names  *)
(* none or does not answer.                                                *)
(***************************************************************************)
Walk ==
    /\ phase = "walk"
    /\ \/ ~calm /\ StartFill /\ UNCHANGED near
       \/ \E list \in ClosestNodes(near, 2) :
             LET next == IF list[1] # Me THEN list[1]
                         ELSE IF Len(list) > 1 THEN list[2] ELSE near
             IN IF Dist[next] < Dist[near]
                THEN near' = next /\ UNCHANGED <<phase, queue>>
                ELSE StartFill /\ UNCHANGED near
    /\ UNCHANGED <<rows, seeds, at, world, asked, env, calm, heard, failed>>

NeighbourhoodUnfilled == Cardinality(Neighbours) < TargetSize /\ queue # <<>>

(***************************************************************************)
(* Faulty variant: the answer replaces the queue.                          *)
(***************************************************************************)
AskNeighbourForgets ==
    /\ phase = "fill" /\ NeighbourhoodUnfilled
    /\ LET c == Head(queue)
       IN \/ /\ c \in asked \cup {Me}
             /\ queue' = Tail(queue)
             /\ UNCHANGED <<rows, asked, heard, failed>>
          \/ /\ c \notin asked \cup {Me}
             /\ SafeStoreNode(c, "Neighbour")
             /\ \E list \in ClosestNodes(c, TargetSize) :
                   /\ queue' = list
                   /\ heard' = heard \cup {list[i] : i \in 1..Len(list)}
             /\ asked' = asked \cup {c}
             /\ UNCHANGED failed
    /\ UNCHANGED <<phase, seeds, at, world, near, env, calm>>

(***************************************************************************)
(* The next node of the queue is asked to be a neighbour and for more      *)
(* nodes; only one that has answered is not asked again.                   *)
(***************************************************************************)
AskNeighbour ==
    /\ phase = "fill" /\ NeighbourhoodUnfilled
    /\ LET c == Head(queue)
       IN \/ /\ c \in asked \cup {Me}
             /\ queue' = Tail(queue)
             /\ UNCHANGED <<rows, asked, heard, failed>>
          \/ /\ c \notin asked
             /\ MayFail(c)
             /\ failed' = failed \cup {c}
             /\ SafeStoreNode(c, "Neighbour") \/ UNCHANGED rows
             /\ queue' = Tail(queue)
             /\ UNCHANGED <<asked, heard>>
          \/ /\ c \notin asked \cup {Me}
             /\ SafeStoreNode(c, "Neighbour")
             /\ \E list \in ClosestNodes(c, TargetSize) :
                   /\ queue' = Tail(queue) \o list
                   /\ heard' = heard \cup {list[i] : i \in 1..Len(list)}
             /\ asked' = asked \cup {c}
             /\ UNCHANGED failed
    /\ UNCHANGED <<phase, seeds, at, world, near, env, calm>>

NeighbourhoodDone ==
    /\ phase = "fill" /\ ~NeighbourhoodUnfilled
    /\ phase' = "verdict"
    /\ UNCHANGED <<rows, seeds, at, world, hood, env, calm, heard, failed>>

-----------------------------------------------------------------------------
(* EnsureMapFilled.                                                        *)

SeedSet(s) == {s[i] : i \in 1..Len(s)}

Shuffled == {s \in SeedLists : SeedSet(s) = SeedSet(seeds)}

IAmSeed == Me \in SeedSet(seeds)

Verdict ==
    /\ phase = "verdict"
    /\ phase' = IF GetNodeCount > 1 \/ IAmSeed THEN "done" ELSE "retry"
    /\ near' = Me /\ queue' = <<>> /\ asked' = {}
    /\ heard' = {} /\ failed' = {}
    /\ UNCHANGED <<rows, seeds, at, world, env, calm>>

(***************************************************************************)
(* The delay is over; the order of the seeds stays.                        *)
(***************************************************************************)
Retry ==
    /\ phase = "retry"
    /\ phase' = "check"
    /\ UNCHANGED <<rows, seeds, at, world, hood, env, calm, heard, failed>>

Forgotten(S) == [n \in Remote |-> IF n \in S THEN "None" ELSE rows[n]]

(***************************************************************************)
(* Faulty variant: bootstrap is for the start of the process only.         *)
(***************************************************************************)
ExpireOldNodesOnly ==
    /\ phase = "done"
    /\ \E S \in SUBSET Known : rows' = Forgotten(S)
    /\ UNCHANGED <<phase, seeds, at, world, hood, env, calm, heard, failed>>

(***************************************************************************)
(* The maintenance thread expires entries; a node without any, a seed that *)
(* found nobody included, bootstraps again, with the seeds in a new order. *)
(***************************************************************************)
ExpireOldNodes ==
    /\ phase = "done"
    /\ \E S \in SUBSET Known :
          /\ rows' = Forgotten(S)
          /\ IF S = Known
             THEN phase' = "check" /\ seeds' \in Shuffled
             ELSE UNCHANGED <<phase, seeds>>
    /\ UNCHANGED <<at, world, hood, env, calm, heard, failed>>

(***************************************************************************)
(* Meanwhile the reactor accepts who asks us.                              *)
(***************************************************************************)
Accept(n, rel) ==
    /\ rows[n] = "None" \/ (rows[n] = "Colleague" /\ rel = "Neighbour")
    /\ rows' = [rows EXCEPT ![n] = rel]
    /\ UNCHANGED <<phase, seeds, at, world, hood, env, calm, heard, failed>>

CalmDown ==
    /\ ~calm
    /\ calm' = TRUE
    /\ UNCHANGED <<phase, rows, seeds, at, world, hood, env, heard, failed>>

-----------------------------------------------------------------------------

Init ==
    /\ phase = "check"
    /\ rows = [n \in Remote |-> "None"]
    /\ seeds \in SeedLists
    /\ at = 1
    /\ tried = {} /\ atSeed = 0 /\ cands = {}
    /\ near = Me /\ queue = <<>> /\ asked = {}
    /\ tables \in Networks
    /\ willing \in Policies
    /\ calm = FALSE
    /\ heard = {} /\ failed = {}

Step ==
    \/ StartRound \/ AskSeed \/ SeedsDone \/ AskCandidate \/ WorldDone
    \/ StartNeighbourhood \/ NearSeed \/ NearSeedsDone \/ Walk
    \/ AskNeighbour \/ NeighbourhoodDone \/ Verdict \/ Retry

Next ==
    \/ Step
    \/ ExpireOldNodes
    \/ \E n \in Remote, rel \in Relation : Accept(n, rel)
    \/ CalmDown

Spec == Init /\ [][Next]_vars

(***************************************************************************)
(* The thread of EnsureMapFilled runs, and the maintenance thread comes to *)
(* notice an empty table; entries need not expire.                         *)
(***************************************************************************)
FairSpec == Spec /\ WF_vars(Step) /\ WF_vars(Known = {} /\ ExpireOldNodes)

-----------------------------------------------------------------------------
(* The loops in themselves.                                                *)

(***************************************************************************)
(* Every node heard of in InitializeWorld was tried, or is a candidate,    *)
(* unless another one of its address was.                                  *)
(***************************************************************************)
WorldInv ==
    phase \in {"seeds", "world", "near"} =>
        \A n \in heard : Host[n] \in tried \/ \E c \in cands : Host[c] = Host[n]

(***************************************************************************)
(* Every node heard of in InitializeNeighbourhood has answered, did not    *)
(* answer, or is in the queue.                                             *)
(***************************************************************************)
FillInv ==
    phase = "fill" =>
        \A n \in heard : n \in asked \cup failed \cup {Me} \/ \E i \in 1..Len(queue) : queue[i] = n

PhaseInv ==
    /\ phase \notin {"world", "near", "fill", "verdict"} => heard = {}
    /\ phase = "near" => ~WorldUnfilled
    /\ phase \in {"walk", "fill"} => near # Me

(***************************************************************************)
(* WorldExhausted: InitializeWorld gives up below its target only when     *)
(* the address of every node it was told of was tried, whatever failed and *)
(* whoever was accepted meanwhile.                                         *)
(***************************************************************************)
WorldExhausted ==
    phase = "near" => \/ GetNodeCount >= TargetNodeCount
                      \/ \A n \in heard : Host[n] \in tried

(***************************************************************************)
(* NeighboursExhausted: InitializeNeighbourhood gives up below             *)
(* neighbourhoodTargetSize only when every node it was told of was asked   *)
(* or could not be reached.                                                *)
(***************************************************************************)
NeighboursExhausted ==
    phase = "verdict" => \/ Cardinality(Neighbours) >= TargetSize
                         \/ heard \subseteq asked \cup failed \cup {Me}

(***************************************************************************)
(* BootInv: the inductive invariant of the search.  In particular the      *)
(* walk and the fill never start from ourselves.                           *)
(***************************************************************************)
BootInv == TypeOK /\ WorldInv /\ FillInv /\ PhaseInv /\ NeighboursExhausted

(***************************************************************************)
(* RoundEnds: every round of EnsureMapFilled ends, whatever fails, although*)
(* its lists grow while they are worked off.                               *)
(***************************************************************************)
RoundEnds == phase \notin {"retry", "done"} ~> phase \in {"retry", "done"}

(***************************************************************************)
(* What a seed can lead to: itself, the nodes it knows, and their          *)
(* colleagues, and theirs.                                                 *)
(***************************************************************************)
LeadsTo(s) ==
    {n \in Remote :
        \A S \in SUBSET Remote :
            (/\ s \in S
             /\ \A m \in Remote : tables[s][m] # "None" => m \in S
             /\ \A k \in S, m \in Remote : tables[k][m] = "Colleague" => m \in S)
            => n \in S}

(***************************************************************************)
(* The first seed that is not ourselves leads to a node that would have us *)
(* as a colleague and shares its address with no other.                    *)
(***************************************************************************)
LeadsOn(s) ==
    \E i \in 1..Len(s) :
        /\ s[i] # Me /\ \A j \in 1..(i-1) : s[j] = Me
        /\ \E n \in LeadsTo(s[i]) :
               /\ <<n, "Colleague">> \in willing
               /\ \A m \in Node : Host[m] = Host[n] => m = n

(***************************************************************************)
(* Joins: once calls do not fail any more, a node comes to know another    *)
(* one, if its seeds lead to one that would have it.  The order of the     *)
(* seeds stays until then, except for a seed, which starts over.           *)
(***************************************************************************)
Joins ==
    (/\ calm
     /\ \A s \in IF IAmSeed THEN Shuffled ELSE {seeds} : LeadsOn(s))
    ~> (GetNodeCount > 1)

=============================================================================
