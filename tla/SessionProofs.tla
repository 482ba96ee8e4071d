----------------------------- MODULE SessionProofs -----------------------------
(***************************************************************************)
(* Proofs about Session, for any number of senders and requests.           *)
(***************************************************************************)
EXTENDS Session, TLAPS

LEMMA PromiseInit == Init => PromiseInv
<1> SUFFICES ASSUME Init PROVE PromiseInv
  OBVIOUS
<1> USE SessionAssumption
<1>1. kept \in BOOLEAN /\ waits \in BOOLEAN
  BY DEF Init
<1>2. TypeOK
  BY <1>1 DEF Init, TypeOK, Label, Request
<1> QED
  BY <1>2 DEF Init, PromiseInv, PendingUnanswered, Request

(***************************************************************************)
(* The steps of a sender.                                                  *)
(***************************************************************************)
LEMMA SendInv == ASSUME PromiseInv, NEW t \in Senders, SendRequest(t) PROVE PromiseInv'
<1> USE SessionAssumption
<1>1. /\ nextMessageId \in Request /\ nextMessageId' = nextMessageId + 1
      /\ pending' = pending \cup {nextMessageId}
      /\ req' = [req EXCEPT ![t] = nextMessageId] /\ pc' = [pc EXCEPT ![t] = "send"]
      /\ UNCHANGED <<nextRequestId, answer, wire, got, loop, link, kept, waits>>
  BY DEF SendRequest, PromiseInv, TypeOK, Request
<1>2. kept' \in BOOLEAN /\ waits' \in BOOLEAN
  BY <1>1 DEF PromiseInv, TypeOK
<1>3. TypeOK'
  BY <1>1, <1>2 DEF PromiseInv, TypeOK, Label, Request
<1>4. \A u \in Senders : pc'[u] # "idle" => req'[u] \in Request
  BY <1>1 DEF PromiseInv, TypeOK, Request
<1>5. PendingUnanswered'
  BY <1>1 DEF PromiseInv, TypeOK, Request, PendingUnanswered
<1>6. \A r \in Request : r >= nextMessageId' => answer'[r] = 0
  BY <1>1 DEF PromiseInv, TypeOK, Request
<1> QED
  BY <1>3, <1>4, <1>5, <1>6 DEF PromiseInv

LEMMA SenderInv ==
    ASSUME PromiseInv, NEW t \in Senders, SetId(t) \/ WriteMessage(t) \/ Answered(t) \/ TimedOut(t)
    PROVE  PromiseInv'
<1> USE SessionAssumption
<1>1. /\ UNCHANGED <<nextMessageId, pending, answer, req, loop, link, kept, waits>>
      /\ pc[t] # "idle"
      /\ \E l \in Label : pc' = [pc EXCEPT ![t] = l]
  BY DEF SetId, WriteMessage, Answered, TimedOut, Label
<1>2. nextRequestId' \in Nat /\ got' \in [Senders -> Nat]
  BY DEF SetId, WriteMessage, Answered, TimedOut, PromiseInv, TypeOK
<1>3. wire' \in SUBSET [id : Nat, req : Request]
  BY DEF SetId, WriteMessage, Answered, TimedOut, PromiseInv, TypeOK
<1>4. kept' \in BOOLEAN /\ waits' \in BOOLEAN /\ PendingUnanswered'
  BY <1>1 DEF PromiseInv, TypeOK, PendingUnanswered
<1>5. TypeOK'
  BY <1>1, <1>2, <1>3, <1>4 DEF PromiseInv, TypeOK
<1>6. \A u \in Senders : pc'[u] # "idle" => req'[u] \in Request
  BY <1>1 DEF PromiseInv, TypeOK
<1> QED
  BY <1>1, <1>4, <1>5, <1>6 DEF PromiseInv

(***************************************************************************)
(* The steps of the message loop and of the connection.                    *)
(***************************************************************************)
LEMMA LoopInv ==
    ASSUME PromiseInv,
           \/ \E m \in wire : ResponseArrived(m)
           \/ \E kind \in PeerRequests : ServeRequest(kind)
           \/ ConnectionLost \/ ReadFailed \/ Release
    PROVE  PromiseInv'
<1> USE SessionAssumption
<1>1. /\ UNCHANGED <<nextMessageId, nextRequestId, pc, req, got>>
      /\ wire' \subseteq wire
  BY DEF ResponseArrived, ServeRequest, ConnectionLost, ReadFailed, Release
<1>2. \/ UNCHANGED <<pending, answer>>
      \/ \E m \in wire : /\ m.id \in pending /\ pending' = pending \ {m.id}
                         /\ answer' = [answer EXCEPT ![m.id] = m.req]
  BY DEF ResponseArrived, ServeRequest, ConnectionLost, ReadFailed, Release
<1>3. loop' \in {"running", "ended"} /\ link' \in {"open", "lost"}
  BY DEF ResponseArrived, ServeRequest, ConnectionLost, ReadFailed, Release, EndLoop, PromiseInv, TypeOK
<1>4. kept' \in BOOLEAN /\ waits' \in BOOLEAN
  BY DEF ResponseArrived, ServeRequest, ConnectionLost, ReadFailed, Release, EndLoop, PromiseInv, TypeOK
<1>5. PendingUnanswered'
  <2>1. CASE UNCHANGED <<pending, answer>>
    BY <1>1, <2>1 DEF PromiseInv, PendingUnanswered
  <2>2. ASSUME NEW m \in wire, m.id \in pending, pending' = pending \ {m.id},
               answer' = [answer EXCEPT ![m.id] = m.req]
        PROVE  PendingUnanswered'
    <3>1. m.id \in Request /\ m.req # 0
      BY <2>2 DEF PromiseInv, TypeOK, Request
    <3> QED
      BY <1>1, <2>2, <3>1 DEF PromiseInv, TypeOK, PendingUnanswered
  <2> QED
    BY <1>2, <2>1, <2>2
<1>6. TypeOK'
  <2>1. pending' \in SUBSET Request
    BY <1>2 DEF PromiseInv, TypeOK
  <2>3. Request \subseteq 0..MaxRequests
    BY DEF Request
  <2>4. answer' \in [Request -> 0..MaxRequests]
    BY <1>2, <2>3 DEF PromiseInv, TypeOK
  <2>2. wire' \in SUBSET [id : Nat, req : Request]
    BY <1>1 DEF PromiseInv, TypeOK
  <2> QED
    BY <1>1, <1>3, <1>4, <2>1, <2>2, <2>4 DEF PromiseInv, TypeOK
<1>7. \A u \in Senders : pc'[u] # "idle" => req'[u] \in Request
  BY <1>1 DEF PromiseInv
<1>8. \A r \in Request : r >= nextMessageId' => answer'[r] = 0
  BY <1>1, <1>2 DEF PromiseInv, TypeOK, Request, PendingUnanswered
<1> QED
  BY <1>5, <1>6, <1>7, <1>8 DEF PromiseInv

LEMMA PromiseStep == PromiseInv /\ [Next]_vars => PromiseInv'
<1> SUFFICES ASSUME PromiseInv, [Next]_vars PROVE PromiseInv'
  OBVIOUS
<1>1. CASE UNCHANGED vars
  BY <1>1 DEF vars, PromiseInv, TypeOK, PendingUnanswered
<1> QED
  BY <1>1, SendInv, SenderInv, LoopInv DEF Next, Step

(***************************************************************************)
(* The invariant of any session, with any number of senders.               *)
(***************************************************************************)
THEOREM PromiseInvariance == Spec => []PromiseInv
  BY PromiseInit, PromiseStep, PTL DEF Spec

(***************************************************************************)
(* Whatever threads send at the same time, a request leaves the pending    *)
(* map with its response and not before: the map is as large as the number *)
(* of requests nobody has answered.                                        *)
(***************************************************************************)
THEOREM PendingIsUnanswered == Spec => []PendingUnanswered
<1>1. PromiseInv => PendingUnanswered
  BY DEF PromiseInv
<1> QED
  BY <1>1, PromiseInvariance, PTL

(***************************************************************************)
(* Whatever threads send at the same time, and whichever promise a         *)
(* response meets, no promise is given a second value.                     *)
(***************************************************************************)
THEOREM PromisesSetOnce == Spec => PromiseSetOnce
<1>1. ASSUME PromiseInv, [Next]_vars PROVE [\A r \in Request : answer[r] # 0 => answer'[r] = answer[r]]_vars
  <2>1. \/ answer' = answer
        \/ \E m \in wire : m.id \in pending /\ answer' = [answer EXCEPT ![m.id] = m.req]
    BY <1>1 DEF Next, Step, SendRequest, SetId, WriteMessage, Answered, TimedOut, ResponseArrived,
           ServeRequest, ConnectionLost, ReadFailed, Release, vars
  <2> QED
    BY <1>1, <2>1 DEF PromiseInv, TypeOK, PendingUnanswered
<1>2. PromiseInv /\ [Next]_vars => [\A r \in Request : answer[r] # 0 => answer'[r] = answer[r]]_vars
  BY <1>1
<1> QED
  BY <1>2, PromiseInvariance, PTL DEF Spec, PromiseSetOnce

-----------------------------------------------------------------------------
(* A connection to a node, used by one thread at a time.                   *)

NodeInv ==
    /\ Exclusive
    /\ CountersAligned
    /\ WireAligned
    /\ \A r \in Request : answer[r] \in {0, r}
    /\ link = "open" => loop = "running"

LEMMA SessionInvParts == SessionInv <=> PromiseInv /\ (waits => NodeInv)
<1> DEFINE Matched == \A r \in Request : answer[r] \in {0, r}
           Read == link = "open" => loop = "running"
<1>1. ResponseMeetsItsRequest <=> (waits => Matched)
  BY DEF ResponseMeetsItsRequest
<1>2. OpenConnectionIsRead <=> (waits => Read)
  BY DEF OpenConnectionIsRead
<1> QED
  BY <1>1, <1>2 DEF SessionInv, NodeInv

LEMMA WaitsConstant == [Next]_vars => waits' = waits
  BY DEF Next, Step, SendRequest, SetId, WriteMessage, Answered, TimedOut, ResponseArrived,
         ServeRequest, ConnectionLost, ReadFailed, Release, vars

LEMMA SessionInit == Init => SessionInv
<1> SUFFICES ASSUME Init PROVE SessionInv
  OBVIOUS
<1>1. PromiseInv
  BY PromiseInit
<1>2. Exclusive /\ WireAligned
  BY DEF Init, Exclusive, WireAligned
<1>3. CountersAligned
  BY DEF Init, CountersAligned
<1>4. NodeInv
  BY <1>2, <1>3 DEF Init, NodeInv
<1> QED
  BY <1>1, <1>4, SessionInvParts

LEMMA SessionSendStep ==
    ASSUME waits, PromiseInv, NodeInv, NEW t \in Senders, Step(t)
    PROVE  NodeInv'
<1>1. \A u \in Senders \ {t} : pc[u] = "idle" /\ pc'[u] = "idle"
  BY DEF Step, SendRequest, SetId, WriteMessage, Answered, TimedOut, NodeInv, Exclusive,
         PromiseInv, TypeOK
<1>2. /\ UNCHANGED <<answer, loop, link>>
      /\ pending \subseteq pending'
  BY DEF Step, SendRequest, SetId, WriteMessage, Answered, TimedOut
<1>3. Exclusive'
  BY <1>1 DEF Exclusive
<1>4. CASE SendRequest(t)
  <2>1. nextMessageId = nextRequestId
    BY <1>4 DEF SendRequest, NodeInv, CountersAligned
  <2>2. CountersAligned'
    BY <1>1, <1>4, <2>1 DEF SendRequest, PromiseInv, TypeOK, CountersAligned
  <2>3. WireAligned'
    BY <1>2, <1>4 DEF SendRequest, NodeInv, WireAligned
  <2> QED
    BY <1>2, <1>3, <2>2, <2>3 DEF NodeInv
<1>5. CASE SetId(t)
  <2>1. CountersAligned'
    BY <1>1, <1>5 DEF SetId, NodeInv, PromiseInv, TypeOK, CountersAligned
  <2>2. WireAligned'
    BY <1>5 DEF SetId, NodeInv, WireAligned
  <2> QED
    BY <1>2, <1>3, <2>1, <2>2 DEF NodeInv
<1>6. CASE WriteMessage(t)
  <2>1. /\ got[t] = req[t] /\ req[t] = nextRequestId /\ req[t] \in pending
        /\ nextMessageId = nextRequestId + 1
    BY <1>6 DEF WriteMessage, NodeInv, CountersAligned
  <2>2. /\ nextRequestId' = nextRequestId + 1 /\ pending' = pending
        /\ nextMessageId' = nextMessageId
        /\ pc' = [pc EXCEPT ![t] = "wait"]
        /\ wire' \subseteq wire \cup {[id |-> req[t], req |-> req[t]]}
    BY <1>6, <2>1 DEF WriteMessage
  <2>3. CountersAligned'
    BY <1>1, <2>1, <2>2 DEF NodeInv, PromiseInv, TypeOK, CountersAligned
  <2>4. WireAligned'
    BY <2>1, <2>2 DEF NodeInv, PromiseInv, TypeOK, WireAligned
  <2> QED
    BY <1>2, <1>3, <2>3, <2>4 DEF NodeInv
<1>7. CASE Answered(t) \/ TimedOut(t)
  <2>1. nextMessageId = nextRequestId
    BY <1>1, <1>7 DEF Answered, TimedOut, NodeInv, CountersAligned
  <2>2. CountersAligned'
    BY <1>1, <1>7, <2>1 DEF Answered, TimedOut, PromiseInv, TypeOK, CountersAligned
  <2>3. WireAligned'
    BY <1>7 DEF Answered, TimedOut, NodeInv, WireAligned
  <2> QED
    BY <1>2, <1>3, <2>2, <2>3 DEF NodeInv
<1> QED
  BY <1>4, <1>5, <1>6, <1>7 DEF Step

LEMMA SessionResponseStep ==
    ASSUME PromiseInv, NodeInv, NEW m \in wire, ResponseArrived(m)
    PROVE  NodeInv'
<1>1. m.id = m.req /\ m.id \in pending /\ m.id < nextRequestId
  BY DEF NodeInv, WireAligned
<1>2. /\ wire' = wire \ {m} /\ pending' = pending \ {m.id}
      /\ answer' = [answer EXCEPT ![m.id] = m.id]
      /\ UNCHANGED <<nextMessageId, nextRequestId, pc, req, got, loop, link>>
  BY <1>1 DEF ResponseArrived
<1>3. CountersAligned' /\ Exclusive'
  BY <1>1, <1>2 DEF NodeInv, PromiseInv, TypeOK, CountersAligned, Exclusive
<1>4. WireAligned'
  <2>1. ASSUME NEW n \in wire, n # m PROVE n.id # m.id
    <3>1. n \in [id : Nat, req : Request] /\ m \in [id : Nat, req : Request] /\ n.id = n.req
      BY <2>1 DEF NodeInv, PromiseInv, TypeOK, WireAligned
    <3> QED
      BY <1>1, <2>1, <3>1
  <2> QED
    BY <1>2, <2>1 DEF NodeInv, WireAligned
<1>5. (\A r \in Request : answer'[r] \in {0, r}) /\ (link' = "open" => loop' = "running")
  BY <1>2 DEF NodeInv, PromiseInv, TypeOK
<1> QED
  BY <1>3, <1>4, <1>5 DEF NodeInv

LEMMA NodeStep == ASSUME waits, PromiseInv, NodeInv, [Next]_vars PROVE NodeInv'
<1>1. CASE ConnectionLost \/ ReadFailed \/ Release \/ UNCHANGED vars
  <2>1. UNCHANGED <<nextMessageId, nextRequestId, pending, answer, wire, pc, req, got>>
    BY <1>1 DEF ConnectionLost, ReadFailed, Release, vars
  <2>2. link' = "open" => loop' = "running"
    BY <1>1 DEF ConnectionLost, ReadFailed, Release, EndLoop, vars, NodeInv
  <2> QED
    BY <2>1, <2>2 DEF NodeInv, Exclusive, CountersAligned, WireAligned
<1>2. ASSUME NEW kind \in PeerRequests, ServeRequest(kind) PROVE FALSE
  BY <1>2 DEF ServeRequest
<1> QED
  BY <1>1, <1>2, SessionSendStep, SessionResponseStep DEF Next

LEMMA SessionStep == SessionInv /\ [Next]_vars => SessionInv'
<1> SUFFICES ASSUME SessionInv, [Next]_vars PROVE SessionInv'
  OBVIOUS
<1>1. PromiseInv /\ PromiseInv' /\ waits' = waits
  BY PromiseStep, WaitsConstant DEF SessionInv
<1>2. waits => NodeInv'
  BY <1>1, NodeStep, SessionInvParts
<1>3. SessionInv' <=> PromiseInv' /\ (waits' => NodeInv')
  BY SessionInvParts, PTL
<1> QED
  BY <1>1, <1>2, <1>3

(***************************************************************************)
(* The invariant of a session, for any number of senders and requests and  *)
(* in either use.                                                          *)
(***************************************************************************)
THEOREM SessionInvariance == Spec => []SessionInv
  BY SessionInit, SessionStep, PTL DEF Spec

(***************************************************************************)
(* However many requests of one thread timed out, and however late their   *)
(* responses arrive, no request to a node is given the response of         *)
(* another.                                                                *)
(***************************************************************************)
THEOREM ResponsesMatch == Spec => []ResponseMeetsItsRequest
<1>1. SessionInv => ResponseMeetsItsRequest
  BY DEF SessionInv
<1> QED
  BY <1>1, SessionInvariance, PTL

(***************************************************************************)
(* A late response does not end the message loop of a connection to a      *)
(* node: the request that timed out is still pending.                      *)
(***************************************************************************)
THEOREM LoopOutlivesTimeouts == Spec => []OpenConnectionIsRead
<1>1. SessionInv => OpenConnectionIsRead
  BY DEF SessionInv
<1> QED
  BY <1>1, SessionInvariance, PTL

=============================================================================
