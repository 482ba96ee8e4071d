-------------------------------- MODULE Session --------------------------------
(***************************************************************************)
(* One TCP connection with its ProtoBufClientSession (server.cpp): who     *)
(* sends requests on it, how a response finds its request, and the message *)
(* loop that reads it.                                                     *)
(*                                                                         *)
(* The class has two uses, and each behaviour is one of them.  A           *)
(* connection to a remote node (ConnectTo) is held by one thread at a      *)
(* time, whose Dispatch waits for each response.                           *)
(* A connection accepted from a local service is held by its message loop  *)
(* and, once it subscribed, by its change listener: any thread that        *)
(* changes the node table sends its notifications there, without waiting.  *)
(*                                                                         *)
(* The peer follows the protocol: it answers each request at most once,    *)
(* with the id it read, in any order, late or never.                       *)
(***************************************************************************)
EXTENDS Integers

CONSTANTS
    Senders,        \* the threads that send requests on the connection
    PeerRequests,   \* the requests the peer sends: "plain", "subscribe" or "failing"
    MaxRequests     \* bound on the requests sent on the connection

ASSUME SessionAssumption ==
    /\ PeerRequests \subseteq {"plain", "subscribe", "failing"}
    /\ MaxRequests \in Nat

Label == {"idle", "send", "write", "wait"}

VARIABLES
    nextMessageId,  \* ProtoBufClientSession::_nextMessageId
    nextRequestId,  \* AsyncProtoBufTcpChannel::_nextRequestId
    pending,        \* the keys of _pendingRequests
    answer,         \* per promise, the request whose response it was given, or 0
    wire,           \* requests sent, with the id they carry, not yet responded
    pc, req, got,   \* per sender: its step, its message id, the id read for it
    loop,           \* the message loop of the connection
    link,           \* the TCP connection
    kept,           \* whether an object beside the loop holds the session
    waits           \* TRUE: a connection to a node, FALSE: one from a local service

vars == <<nextMessageId, nextRequestId, pending, answer, wire, pc, req, got, loop, link, kept,
          waits>>

Request == 1..MaxRequests

-----------------------------------------------------------------------------
(* Sending.                                                                *)

(***************************************************************************)
(* SendRequest, under the lock: an id and a promise.  The proxy of a       *)
(* remote node is local to the thread that uses it.                        *)
(***************************************************************************)
SendRequest(t) ==
    /\ pc[t] = "idle" /\ kept
    /\ waits => \A u \in Senders : pc[u] = "idle"
    /\ nextMessageId <= MaxRequests
    /\ req' = [req EXCEPT ![t] = nextMessageId]
    /\ pending' = pending \cup {nextMessageId}
    /\ nextMessageId' = nextMessageId + 1
    /\ pc' = [pc EXCEPT ![t] = "send"]
    /\ UNCHANGED <<nextRequestId, answer, wire, got, loop, link, kept, waits>>

(***************************************************************************)
(* SendMessage, without a lock: the channel replaces the id by its own     *)
(* counter and increments that.                                            *)
(***************************************************************************)
SetId(t) ==
    /\ pc[t] = "send"
    /\ got' = [got EXCEPT ![t] = nextRequestId]
    /\ pc' = [pc EXCEPT ![t] = "write"]
    /\ UNCHANGED <<nextMessageId, nextRequestId, pending, answer, wire, req, loop, link, kept, waits>>

(***************************************************************************)
(* Faulty variant: the counter is not incremented.                         *)
(***************************************************************************)
WriteMessageSameId(t) ==
    /\ pc[t] = "write"
    /\ wire' = IF link = "open" THEN wire \cup {[id |-> got[t], req |-> req[t]]} ELSE wire
    /\ pc' = [pc EXCEPT ![t] = IF waits THEN "wait" ELSE "idle"]
    /\ UNCHANGED <<nextMessageId, nextRequestId, pending, answer, req, got, loop, link, kept, waits>>

(***************************************************************************)
(* A message written to a lost connection is lost.  When two threads race  *)
(* the increment may start from the value read before.                     *)
(***************************************************************************)
WriteMessage(t) ==
    /\ pc[t] = "write"
    /\ nextRequestId' \in {got[t] + 1, nextRequestId + 1}
    /\ wire' = IF link = "open" THEN wire \cup {[id |-> got[t], req |-> req[t]]} ELSE wire
    /\ pc' = [pc EXCEPT ![t] = IF waits THEN "wait" ELSE "idle"]
    /\ UNCHANGED <<nextMessageId, pending, answer, req, got, loop, link, kept, waits>>

(***************************************************************************)
(* Dispatch, after the send: the future is ready, or it is not in time.    *)
(* The request of an expired wait stays pending.                           *)
(***************************************************************************)
Answered(t) ==
    /\ pc[t] = "wait"
    /\ answer[req[t]] # 0
    /\ pc' = [pc EXCEPT ![t] = "idle"]
    /\ UNCHANGED <<nextMessageId, nextRequestId, pending, answer, wire, req, got, loop, link, kept, waits>>

(***************************************************************************)
(* Faulty variant: an expired request is forgotten.                        *)
(***************************************************************************)
TimedOutForgotten(t) ==
    /\ pc[t] = "wait"
    /\ answer[req[t]] = 0
    /\ pending' = pending \ {req[t]}
    /\ pc' = [pc EXCEPT ![t] = "idle"]
    /\ UNCHANGED <<nextMessageId, nextRequestId, answer, wire, req, got, loop, link, kept, waits>>

TimedOut(t) ==
    /\ pc[t] = "wait"
    /\ answer[req[t]] = 0
    /\ pc' = [pc EXCEPT ![t] = "idle"]
    /\ UNCHANGED <<nextMessageId, nextRequestId, pending, answer, wire, req, got, loop, link, kept, waits>>

-----------------------------------------------------------------------------
(* The message loop.                                                       *)

(***************************************************************************)
(* An exception in the handler ends the loop.  The loop was one of the     *)
(* holders of an accepted connection: without another it is closed.        *)
(***************************************************************************)
EndLoop ==
    /\ loop' = "ended"
    /\ link' = IF kept THEN link ELSE "lost"

(***************************************************************************)
(* Faulty variant: the promise stays in the map after it was given its     *)
(* value.                                                                  *)
(***************************************************************************)
ResponseArrivedKept(m) ==
    /\ loop = "running" /\ link = "open"
    /\ m \in wire
    /\ wire' = wire \ {m}
    /\ \/ /\ m.id \in pending
          /\ answer' = [answer EXCEPT ![m.id] = m.req]
          /\ UNCHANGED <<loop, link>>
       \/ m.id \notin pending /\ EndLoop /\ UNCHANGED answer
    /\ UNCHANGED <<nextMessageId, nextRequestId, pending, pc, req, got, kept, waits>>

(***************************************************************************)
(* Faulty variant: the oldest request gets whatever response arrives.      *)
(***************************************************************************)
ResponseArrivedInOrder(m) ==
    /\ loop = "running" /\ link = "open"
    /\ m \in wire
    /\ wire' = wire \ {m}
    /\ \E r \in pending :
          /\ \A q \in pending : r <= q
          /\ answer' = [answer EXCEPT ![r] = m.req]
          /\ pending' = pending \ {r}
    /\ UNCHANGED <<nextMessageId, nextRequestId, pc, req, got, loop, link, kept, waits>>

(***************************************************************************)
(* ResponseArrived throws when no request is pending under the id.         *)
(***************************************************************************)
ResponseArrived(m) ==
    /\ loop = "running" /\ link = "open"
    /\ m \in wire
    /\ wire' = wire \ {m}
    /\ \/ /\ m.id \in pending
          /\ answer' = [answer EXCEPT ![m.id] = m.req]
          /\ pending' = pending \ {m.id}
          /\ UNCHANGED <<loop, link>>
       \/ /\ m.id \notin pending
          /\ EndLoop
          /\ UNCHANGED <<answer, pending>>
    /\ UNCHANGED <<nextMessageId, nextRequestId, pc, req, got, kept, waits>>

(***************************************************************************)
(* A request from the peer.  On a connection to a node there is no handler *)
(* and it is ignored.  A local service is served and answered; a request   *)
(* whose handler throws, such as an Update that reports a failure, is      *)
(* answered with the error and ends the loop.  A subscription creates a    *)
(* listener, which holds the session; one that AddListener ignores is      *)
(* destroyed at once and holds nothing (ChangeListeners).                  *)
(***************************************************************************)
ServeRequest(kind) ==
    /\ ~waits
    /\ loop = "running" /\ link = "open"
    /\ kept' \in {kept, kept \/ kind = "subscribe"}
    /\ \/ kind = "failing" /\ EndLoop
       \/ kind # "failing" /\ UNCHANGED <<loop, link>>
    /\ UNCHANGED <<nextMessageId, nextRequestId, pending, answer, wire, pc, req, got, waits>>

(***************************************************************************)
(* The connection breaks.  The pending read fails, which ends the loop.    *)
(***************************************************************************)
ConnectionLost ==
    /\ link = "open"
    /\ link' = "lost"
    /\ UNCHANGED <<nextMessageId, nextRequestId, pending, answer, wire, pc, req, got, loop, kept, waits>>

ReadFailed ==
    /\ link = "lost" /\ loop = "running"
    /\ EndLoop
    /\ UNCHANGED <<nextMessageId, nextRequestId, pending, answer, wire, pc, req, got, kept, waits>>

(***************************************************************************)
(* The thread lets go of its connection to a node.                         *)
(***************************************************************************)
Release ==
    /\ waits /\ kept
    /\ \A t \in Senders : pc[t] = "idle"
    /\ kept' = FALSE
    /\ link' = "lost"
    /\ UNCHANGED <<nextMessageId, nextRequestId, pending, answer, wire, pc, req, got, loop, waits>>

Init ==
    /\ nextMessageId = 1
    /\ nextRequestId = 1
    /\ pending = {}
    /\ answer = [r \in Request |-> 0]
    /\ wire = {}
    /\ pc = [t \in Senders |-> "idle"]
    /\ req = [t \in Senders |-> 0]
    /\ got = [t \in Senders |-> 0]
    /\ loop = "running"
    /\ link = "open"
    /\ waits \in BOOLEAN
    /\ kept = waits

Step(t) == SendRequest(t) \/ SetId(t) \/ WriteMessage(t) \/ Answered(t) \/ TimedOut(t)

Next ==
    \/ \E t \in Senders : Step(t)
    \/ \E m \in wire : ResponseArrived(m)
    \/ \E kind \in PeerRequests : ServeRequest(kind)
    \/ ConnectionLost \/ ReadFailed
    \/ Release

Spec == Init /\ [][Next]_vars

-----------------------------------------------------------------------------
(* Properties.                                                             *)

(***************************************************************************)
(* The types of the session, the channel and the senders.                  *)
(***************************************************************************)
TypeOK ==
    /\ nextMessageId \in 1..(MaxRequests + 1)
    /\ nextRequestId \in Nat
    /\ pending \in SUBSET Request
    /\ answer \in [Request -> 0..MaxRequests]
    /\ wire \in SUBSET [id : Nat, req : Request]
    /\ pc \in [Senders -> Label]
    /\ req \in [Senders -> 0..MaxRequests]
    /\ got \in [Senders -> Nat]
    /\ loop \in {"running", "ended"}
    /\ link \in {"open", "lost"}
    /\ kept \in BOOLEAN
    /\ waits \in BOOLEAN

(***************************************************************************)
(* server.cpp:121: "If incoming response, connect it with the sent out     *)
(* request": on a connection to a node a promise is only given the         *)
(* response to its own request, however late and out of order the          *)
(* responses arrive.  (Threads that notify a local service at the same     *)
(* time may read one id twice, and mix their responses.)                   *)
(***************************************************************************)
ResponseMeetsItsRequest == waits => \A r \in Request : answer[r] \in {0, r}

(***************************************************************************)
(* While a connection to a node is open somebody reads it: no late or      *)
(* unexpected response ends its message loop.  Otherwise every later       *)
(* request on it would wait for its timeout.                               *)
(***************************************************************************)
OpenConnectionIsRead == waits /\ link = "open" => loop = "running"

(***************************************************************************)
(* A promise is given a value once, also when responses meet the wrong     *)
(* promise: set_value would throw the second time and end the loop.        *)
(***************************************************************************)
PromiseSetOnce == [][\A r \in Request : answer[r] # 0 => answer'[r] = answer[r]]_vars

(***************************************************************************)
(* _pendingRequests holds exactly the requests sent that have no response: *)
(* only a response takes an entry away, so the map grows by every request  *)
(* that times out and shrinks again if its response comes late; nothing    *)
(* answered is left in it, also when threads that notify mix their ids.    *)
(***************************************************************************)
PendingUnanswered == pending = {r \in Request : r < nextMessageId /\ answer[r] = 0}

(***************************************************************************)
(* The inductive invariant of any session.                                 *)
(***************************************************************************)
PromiseInv ==
    /\ TypeOK
    /\ \A t \in Senders : pc[t] # "idle" => req[t] \in Request
    /\ PendingUnanswered
    /\ \A r \in Request : r >= nextMessageId => answer[r] = 0

(***************************************************************************)
(* One thread at a time uses a connection to a node.                       *)
(***************************************************************************)
Exclusive == \A t, u \in Senders : pc[t] # "idle" /\ pc[u] # "idle" => t = u

(***************************************************************************)
(* The two counters advance together.                                      *)
(***************************************************************************)
CountersAligned ==
    /\ \A t \in Senders :
          /\ pc[t] \in {"send", "write"} => /\ req[t] = nextRequestId
                                            /\ nextMessageId = nextRequestId + 1
                                            /\ req[t] \in pending
          /\ pc[t] = "write" => got[t] = req[t]
    /\ (\A t \in Senders : pc[t] \in {"idle", "wait"}) => nextMessageId = nextRequestId

(***************************************************************************)
(* What is on the wire carries the id of its request, which is pending.    *)
(***************************************************************************)
WireAligned == \A m \in wire : m.id = m.req /\ m.id \in pending /\ m.id < nextRequestId

(***************************************************************************)
(* The inductive invariant, with what more is known of a connection to a   *)
(* node.                                                                   *)
(***************************************************************************)
SessionInv ==
    /\ PromiseInv
    /\ waits => Exclusive /\ CountersAligned /\ WireAligned
    /\ ResponseMeetsItsRequest
    /\ OpenConnectionIsRead

=============================================================================
