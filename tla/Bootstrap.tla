------------------------------ MODULE Bootstrap ------------------------------
(***************************************************************************)
(* How the nodes of the libp2p network come to know each other: they       *)
(* register with the supervisor, which broadcasts the map from nodes to    *)
(* peer IDs (pkg/network/connlibp2p/bootstrap.go, libp2pconn.go) and keeps *)
(* the node topology (pkg/nodetopo/topogetter.go).                         *)
(*                                                                         *)
(* A map is the set of the nodes it has: a node has one peer ID.  A stream *)
(* has its own goroutine, and the bootstrap reads its map without the      *)
(* mutex the writers hold: a read during a write may miss the new entry,   *)
(* or the Go runtime ends the process.                                     *)
(***************************************************************************)
EXTENDS Naturals, Sequences, FiniteSets, SequencesExt

CONSTANTS
  Node,      \* consensus nodes
  Attempts,  \* maxRetries
  MaxFault   \* bound: failed streams and overtaken broadcasts

ASSUME BootstrapAssumption ==
  IsFiniteSet(Node) /\ Attempts \in Nat \ {0} /\ MaxFault \in Nat

VARIABLES
  client,     \* where a node is in initLibP2PConnect
  tried,      \* its attempts to register
  nodeMap,    \* info2PeerID and, in the same step, the topology of a node
  inFlight,   \* broadcasts under way to a node, in the order they were sent
  idMap,      \* info2PeerID of the bootstrap
  topo,       \* shard2nodes of the bootstrap
  handler,    \* where a handleRegisterStream is
  seen,       \* the map as SetTopoGetter of a handler found it at the start
  sender,     \* where throttledSender is
  toEncode,   \* the map as its broadcast found it at the start
  hasNewMsg,  \* hasNewMsg
  data,       \* the map broadcastNode2PeerIdMap has encoded
  unsent,     \* the connections it has not sent to yet
  crashed,    \* the bootstrap has ended with a fatal error
  faults      \* number of faults

clientVars == <<client, tried, nodeMap>>
senderVars == <<sender, toEncode, hasNewMsg, data, unsent>>
vars == <<clientVars, inFlight, idMap, topo, handler, seen, senderVars, crashed, faults>>

-----------------------------------------------------------------------------

\* One handler for every attempt of a node.
Handler == Node \X (1 .. Attempts)
NodeOf(h) == h[1]

HandlerPc == {"none", "store", "topo", "topoRead", "ack", "print", "notify", "done"}

\* The handlers that are inside one of these steps.
At(pcs) == {h \in Handler : handler[h] \in pcs}

TypeOK ==
  /\ client \in [Node -> {"start", "connected", "serving", "waiting", "registered", "failed"}]
  /\ tried \in [Node -> 0 .. Attempts]
  /\ nodeMap \in [Node -> SUBSET Node]
  /\ \A n \in Node : \A i \in DOMAIN inFlight[n] : inFlight[n][i] \subseteq Node
  /\ idMap \subseteq Node /\ topo \subseteq Node
  /\ handler \in [Handler -> HandlerPc]
  /\ seen \in [Handler -> SUBSET Node] /\ toEncode \subseteq Node
  /\ sender \in {"select", "marshal", "send"} /\ hasNewMsg \in BOOLEAN
  /\ data \subseteq Node /\ unsent \subseteq Node
  /\ crashed \in BOOLEAN /\ faults \in 0 .. MaxFault

Init ==
  /\ client = [n \in Node |-> "start"]
  /\ tried = [n \in Node |-> 0]
  /\ nodeMap = [n \in Node |-> {}]
  /\ inFlight = [n \in Node |-> <<>>]
  /\ idMap = {} /\ topo = {}
  /\ handler = [h \in Handler |-> "none"]
  /\ seen = [h \in Handler |-> {}] /\ toEncode = {}
  /\ sender = "select" /\ hasNewMsg = FALSE /\ data = {} /\ unsent = {}
  /\ crashed = FALSE /\ faults = 0

Fault == faults < MaxFault /\ faults' = faults + 1

-----------------------------------------------------------------------------
(* A node: initLibP2PConnect. *)

\* Connect, with retries.
Connect(n) ==
  /\ client[n] = "start" /\ ~crashed
  /\ client' = [client EXCEPT ![n] = "connected"]
  /\ UNCHANGED <<tried, nodeMap, inFlight, idMap, topo, handler, seen, senderVars, crashed,
                 faults>>

\* SetStreamHandler: from now on broadcasts are handled.
Serve(n) ==
  /\ client[n] = "connected"
  /\ client' = [client EXCEPT ![n] = "serving"]
  /\ UNCHANGED <<tried, nodeMap, inFlight, idMap, topo, handler, seen, senderVars, crashed,
                 faults>>

\* Where an attempt that failed leaves the node.
AfterFailure(n, k) == IF k < Attempts THEN "serving" ELSE "failed"

\* registerNodeInfo: the stream is open and the message is sent.
Register(n) ==
  /\ client[n] = "serving" /\ ~crashed
  /\ tried' = [tried EXCEPT ![n] = @ + 1]
  /\ handler' = [handler EXCEPT ![<<n, tried'[n]>>] = "store"]
  /\ client' = [client EXCEPT ![n] = "waiting"]
  /\ UNCHANGED <<nodeMap, inFlight, idMap, topo, seen, senderVars, crashed, faults>>

\* registerNodeInfo fails before the bootstrap has the message.
RegisterFails(n) ==
  /\ client[n] = "serving" /\ Fault
  /\ tried' = [tried EXCEPT ![n] = @ + 1]
  /\ client' = [client EXCEPT ![n] = AfterFailure(n, tried'[n])]
  /\ UNCHANGED <<nodeMap, inFlight, idMap, topo, handler, seen, senderVars, crashed>>

\* registerNodeInfo cannot read the ACK: the handler goes on all the same.
ReadAckFails(n) ==
  /\ client[n] = "waiting" /\ Fault
  /\ client' = [client EXCEPT ![n] = AfterFailure(n, tried[n])]
  /\ UNCHANGED <<tried, nodeMap, inFlight, idMap, topo, handler, seen, senderVars, crashed>>

\* handleIdMapMessage of broadcast i: the map is replaced, and the topology is
\* set from it. Handling a later broadcast before an earlier one is a fault: they
\* are sent at least broadcastMaxFreq apart.
HandleIdMapMessage(n, i) ==
  /\ i \in DOMAIN inFlight[n]
  /\ \/ i = 1 /\ UNCHANGED faults
     \/ i > 1 /\ Fault
  /\ nodeMap' = [nodeMap EXCEPT ![n] = inFlight[n][i]]
  /\ inFlight' = [inFlight EXCEPT ![n] = RemoveAt(@, i)]
  /\ UNCHANGED <<client, tried, idMap, topo, handler, seen, senderVars, crashed>>

-----------------------------------------------------------------------------
(* The bootstrap: handleRegisterStream. *)

\* Somebody reads the map of the bootstrap.
Reading == At({"topoRead", "print"}) # {} \/ sender = "marshal"

\* What a reader that found S at the start may have read.
MayHaveRead(S) == {T \in SUBSET idMap : S \subseteq T}

\* The map is written under the mutex.
Store(h) ==
  /\ handler[h] = "store" /\ ~crashed
  /\ \/ /\ idMap' = idMap \cup {NodeOf(h)}
        /\ handler' = [handler EXCEPT ![h] = "topo"]
        /\ UNCHANGED crashed
     \/ /\ Reading
        /\ crashed' = TRUE
        /\ UNCHANGED <<idMap, handler>>
  /\ UNCHANGED <<clientVars, inFlight, topo, seen, senderVars, faults>>

\* A mutated TopoFree: the topology is not locked while it is set.
TopoFree_always == TRUE

\* Whether the mutex of the topology is free.
TopoFree == At({"topoRead"}) = {}

\* SetTopoGetter: the map is read under the mutex of the topology.
SetTopoStart(h) ==
  /\ handler[h] = "topo" /\ ~crashed /\ TopoFree
  /\ seen' = [seen EXCEPT ![h] = idMap]
  /\ handler' = [handler EXCEPT ![h] = "topoRead"]
  /\ UNCHANGED <<clientVars, inFlight, idMap, topo, senderVars, crashed, faults>>

SetTopoEnd(h) ==
  /\ handler[h] = "topoRead" /\ ~crashed
  /\ topo' \in MayHaveRead(seen[h])
  /\ seen' = [seen EXCEPT ![h] = {}]
  /\ handler' = [handler EXCEPT ![h] = "ack"]
  /\ UNCHANGED <<clientVars, inFlight, idMap, senderVars, crashed, faults>>

\* The ACK, then printRegisteredNodes. The node is registered if it still waits
\* for this ACK.
Ack(h) ==
  /\ handler[h] = "ack" /\ ~crashed
  /\ handler' = [handler EXCEPT ![h] = "print"]
  /\ client' = [client EXCEPT ![NodeOf(h)] =
                  IF @ = "waiting" /\ tried[NodeOf(h)] = h[2] THEN "registered" ELSE @]
  /\ UNCHANGED <<tried, nodeMap, inFlight, idMap, topo, seen, senderVars, crashed, faults>>

Printed(h) ==
  /\ handler[h] = "print" /\ ~crashed
  /\ handler' = [handler EXCEPT ![h] = "notify"]
  /\ UNCHANGED <<clientVars, inFlight, idMap, topo, seen, senderVars, crashed, faults>>

\* A mutated MayNotify: a notification nobody waits for is dropped.
MayNotify_drop == TRUE

\* The channel has no buffer: the handler waits for the sender.
MayNotify == sender = "select"

\* The handler notifies throttledSender.
Notify(h) ==
  /\ handler[h] = "notify" /\ ~crashed /\ MayNotify
  /\ hasNewMsg' = (hasNewMsg \/ sender = "select")
  /\ handler' = [handler EXCEPT ![h] = "done"]
  /\ UNCHANGED <<clientVars, inFlight, idMap, topo, seen, sender, toEncode, data, unsent,
                 crashed, faults>>

-----------------------------------------------------------------------------
(* The bootstrap: throttledSender and broadcastNode2PeerIdMap. *)

\* The ticker, with a new message.
TickBroadcast ==
  /\ sender = "select" /\ hasNewMsg /\ ~crashed
  /\ hasNewMsg' = FALSE
  /\ sender' = "marshal"
  /\ toEncode' = idMap
  /\ UNCHANGED <<clientVars, inFlight, idMap, topo, handler, seen, data, unsent, crashed,
                 faults>>

\* The encoded map goes to every connection there is now.
Marshal ==
  /\ sender = "marshal" /\ ~crashed
  /\ data' \in MayHaveRead(toEncode)
  /\ toEncode' = {}
  /\ unsent' = {n \in Node : client[n] \notin {"start", "failed"}}
  /\ sender' = "send"
  /\ UNCHANGED <<clientVars, inFlight, idMap, topo, handler, seen, hasNewMsg, crashed, faults>>

\* One of the parallel sends. A node that has no handler for it yet refuses it,
\* and a failed send is only logged.
SendTo(n) ==
  /\ sender = "send" /\ n \in unsent /\ ~crashed
  /\ unsent' = unsent \ {n}
  /\ \/ /\ client[n] # "connected"
        /\ inFlight' = [inFlight EXCEPT ![n] = Append(@, data)]
        /\ UNCHANGED faults
     \/ client[n] = "connected" /\ UNCHANGED <<inFlight, faults>>
     \/ Fault /\ UNCHANGED inFlight
  /\ UNCHANGED <<clientVars, idMap, topo, handler, seen, sender, toEncode, hasNewMsg, data,
                 crashed>>

\* wg.Wait
SendEnd ==
  /\ sender = "send" /\ unsent = {} /\ ~crashed
  /\ sender' = "select"
  /\ UNCHANGED <<clientVars, inFlight, idMap, topo, handler, seen, toEncode, hasNewMsg, data,
                 unsent, crashed, faults>>

-----------------------------------------------------------------------------

NodeStep(n) == Connect(n) \/ Serve(n) \/ Register(n)

HandlerStep(h) ==
  Store(h) \/ SetTopoStart(h) \/ SetTopoEnd(h) \/ Ack(h) \/ Printed(h) \/ Notify(h)

SenderStep == TickBroadcast \/ Marshal \/ SendEnd \/ \E n \in Node : SendTo(n)

Next ==
  \/ \E n \in Node : \/ NodeStep(n) \/ RegisterFails(n) \/ ReadAckFails(n)
                     \/ \E i \in DOMAIN inFlight[n] : HandleIdMapMessage(n, i)
  \/ \E h \in Handler : HandlerStep(h)
  \/ SenderStep

\* Goroutines are scheduled, the ticker ticks, and a stream that does not fail is
\* handled.
Fairness ==
  /\ \A n \in Node : WF_vars(NodeStep(n)) /\ WF_vars(HandleIdMapMessage(n, 1))
  /\ \A h \in Handler : WF_vars(HandlerStep(h))
  /\ WF_vars(SenderStep)

Spec == Init /\ [][Next]_vars /\ Fairness

-----------------------------------------------------------------------------
(* Properties. *)

\* The topology of the bootstrap, from which the supervisor takes the leaders,
\* misses a node of the map only as long as the handler of that node has not set
\* it: no handler that read an older map sets it back.
TopoComplete ==
  \A n \in idMap \ topo : \E h \in At({"topo", "topoRead"}) : NodeOf(h) = n

\* No registration is forgotten: a node that was not in the last broadcast map is
\* in the next one, since its handler has still to notify the sender, or the
\* sender has a new message or is about to read the map. This holds although
\* handlers register while the sender reads the map and broadcasts it.
NoUpdateForgotten ==
  \A n \in idMap \ data :
    \/ \E h \in At(HandlerPc \ {"none", "done"}) : NodeOf(h) = n
    \/ hasNewMsg
    \/ sender = "marshal" /\ n \in toEncode

\* When no stream fails, no broadcast is overtaken and the bootstrap does not
\* crash, every node ends up with the map of all the nodes, also a node that
\* connects while a broadcast is under way.
MapsConverge == <>[](faults > 0 \/ crashed \/ \A n \in Node : nodeMap[n] = Node)
=============================================================================
