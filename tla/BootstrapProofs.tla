--------------------------- MODULE BootstrapProofs ---------------------------
(* Theorems about Bootstrap for every set of nodes and every value of its    *)
(* bounds.                                                                   *)
EXTENDS Bootstrap, TLAPS

-----------------------------------------------------------------------------
(* The inductive invariant. *)

\* A handler starts once: the attempts of a node are counted, and the handler
\* of a later attempt has not started.
HandlerInv ==
  /\ tried \in [Node -> Nat]
  /\ handler \in [Handler -> HandlerPc]
  /\ seen \in [Handler -> SUBSET Node] /\ idMap \subseteq Node
  /\ \A h \in Handler : h[2] > tried[NodeOf(h)] => handler[h] = "none"

\* The mutex of the topology: one handler reads the map for it at a time.
TopoLock == \A g, h \in At({"topoRead"}) : g = h

\* A handler of this node is in one of these steps.
InStep(n, pcs) == \E h \in At(pcs) : NodeOf(h) = n

\* What SetTopoGetter has not seen of the map when it began belongs to a handler
\* that has still to call it.
TopoReadInv ==
  \A h \in At({"topoRead"}) :
    /\ seen[h] \subseteq idMap
    /\ \A n \in idMap \ seen[h] : InStep(n, {"topo"})

\* Between the step that stores a node and the one that notifies the sender.
Unnotified == HandlerPc \ {"none", "done"}

\* What the broadcast has not seen of the map when it began belongs to a handler
\* that has still to notify the sender, since the sender does not listen now.
MarshalInv ==
  sender = "marshal" =>
    /\ toEncode \subseteq idMap
    /\ \A n \in idMap \ toEncode : InStep(n, Unnotified)

IInv == HandlerInv /\ TopoLock /\ TopoReadInv /\ MarshalInv /\ TopoComplete /\ NoUpdateForgotten

-----------------------------------------------------------------------------

\* A bootstrap without any node has the invariant.
LEMMA InitInv == Init => IInv
BY DEF Init, IInv, HandlerInv, HandlerPc, TopoLock, TopoReadInv, MarshalInv, TopoComplete,
       NoUpdateForgotten, At, Handler

\* Steps of the nodes, which leave the bootstrap alone, and of the network.
LEMMA NodeSteps ==
  ASSUME IInv, NEW n \in Node,
         \/ Connect(n) \/ Serve(n) \/ RegisterFails(n) \/ ReadAckFails(n) \/ SendTo(n)
         \/ \E i \in DOMAIN inFlight[n] : HandleIdMapMessage(n, i)
  PROVE  IInv'
<1>1. UNCHANGED <<idMap, topo, handler, seen, sender, toEncode, hasNewMsg, data>>
  BY DEF Connect, Serve, RegisterFails, ReadAckFails, SendTo, HandleIdMapMessage, senderVars
<1>2. /\ tried' \in [Node -> Nat]
      /\ \A k \in Node : tried'[k] >= tried[k]
  BY DEF IInv, HandlerInv, Connect, Serve, RegisterFails, ReadAckFails, SendTo,
         HandleIdMapMessage, clientVars
<1>3. HandlerInv'
  BY <1>1, <1>2 DEF IInv, HandlerInv, Handler, NodeOf
<1> QED
  BY <1>1, <1>3 DEF IInv, TopoLock, TopoReadInv, MarshalInv, TopoComplete,
     NoUpdateForgotten, At, InStep

\* A new handler starts for a node that registers.
LEMMA RegisterStep ==
  ASSUME IInv, NEW n \in Node, Register(n)
  PROVE  IInv'
<1> DEFINE g == <<n, tried[n] + 1>>
<1>1. /\ UNCHANGED <<idMap, topo, seen, sender, toEncode, hasNewMsg, data>>
      /\ handler' = [handler EXCEPT ![g] = "store"]
      /\ tried' = [tried EXCEPT ![n] = @ + 1]
  BY DEF Register, senderVars, IInv, HandlerInv
<1>2. g \in Handler => handler[g] = "none"
  BY DEF IInv, HandlerInv, NodeOf
<1>3. HandlerInv'
  <2>1. /\ tried' \in [Node -> Nat]
        /\ handler' \in [Handler -> HandlerPc]
        /\ seen' \in [Handler -> SUBSET Node] /\ idMap' \subseteq Node
    <3>1. handler' \in [Handler -> HandlerPc]
      BY <1>1 DEF IInv, HandlerInv, HandlerPc
    <3> QED
      BY <1>1, <3>1 DEF IInv, HandlerInv
  <2>2. ASSUME NEW h \in Handler, h[2] > tried'[NodeOf(h)]
        PROVE  handler'[h] = "none"
    BY <1>1, <2>2 DEF IInv, HandlerInv, Handler, NodeOf
  <2> QED
    BY <2>1, <2>2 DEF HandlerInv, Handler, HandlerPc, NodeOf
<1>4. /\ At({"topoRead"})' = At({"topoRead"})
      /\ At({"topo"})' = At({"topo"})
      /\ At({"topo", "topoRead"})' = At({"topo", "topoRead"})
      /\ At(Unnotified) \subseteq At(Unnotified)'
  BY <1>1, <1>2 DEF At, Unnotified, HandlerPc, IInv, HandlerInv
<1> QED
  BY <1>1, <1>3, <1>4 DEF IInv, TopoLock, TopoReadInv, MarshalInv, TopoComplete,
     NoUpdateForgotten, InStep, Unnotified, At, NodeOf

\* The handler stores its node: it is the handler that has still to set the
\* topology and to notify the sender for it.
LEMMA StoreStep ==
  ASSUME IInv, NEW h \in Handler, Store(h)
  PROVE  IInv'
<1>1. UNCHANGED <<tried, topo, seen, sender, toEncode, hasNewMsg, data>>
  BY DEF Store, clientVars, senderVars
<1>2. CASE UNCHANGED <<idMap, handler>>
  BY <1>1, <1>2 DEF IInv, HandlerInv, TopoLock, TopoReadInv, MarshalInv, TopoComplete,
     NoUpdateForgotten, At, InStep
<1>3. CASE /\ idMap' = idMap \cup {NodeOf(h)}
           /\ handler' = [handler EXCEPT ![h] = "topo"]
  <2>1. HandlerInv'
    BY <1>1, <1>3 DEF IInv, HandlerInv, HandlerPc, Handler, NodeOf, Store
  <2>2. /\ At({"topoRead"})' = At({"topoRead"})
        /\ At({"topo"})' = At({"topo"}) \cup {h}
        /\ At({"topo", "topoRead"})' = At({"topo", "topoRead"}) \cup {h}
        /\ At(Unnotified) \subseteq At(Unnotified)' /\ h \in At(Unnotified)'
    BY <1>3 DEF At, Unnotified, HandlerPc, IInv, HandlerInv, Store
  <2> QED
    BY <1>1, <1>3, <2>1, <2>2 DEF IInv, TopoLock, TopoReadInv, MarshalInv, TopoComplete,
       NoUpdateForgotten, InStep, Unnotified, At, NodeOf
<1> QED
  BY <1>2, <1>3 DEF Store

\* SetTopoGetter begins: it sees the whole map.
LEMMA SetTopoStartStep ==
  ASSUME IInv, NEW h \in Handler, SetTopoStart(h)
  PROVE  IInv'
<1>1. /\ UNCHANGED <<tried, idMap, topo, sender, toEncode, hasNewMsg, data>>
      /\ handler' = [handler EXCEPT ![h] = "topoRead"]
      /\ seen' = [seen EXCEPT ![h] = idMap]
      /\ handler[h] = "topo"
      /\ At({"topoRead"}) = {}
  BY DEF SetTopoStart, TopoFree, clientVars, senderVars
<1>2. HandlerInv'
  BY <1>1 DEF IInv, HandlerInv, HandlerPc, Handler, NodeOf, SetTopoStart
<1>3. /\ At({"topoRead"})' = {h}
      /\ At({"topo"})' = At({"topo"}) \ {h}
      /\ At({"topo", "topoRead"})' = At({"topo", "topoRead"})
      /\ At(Unnotified)' = At(Unnotified)
  BY <1>1 DEF At, Unnotified, HandlerPc, IInv, HandlerInv
<1>4. TopoLock' /\ TopoReadInv'
  BY <1>1, <1>3 DEF TopoLock, TopoReadInv, IInv, HandlerInv
<1>5. TopoComplete' /\ MarshalInv' /\ NoUpdateForgotten'
  BY <1>1, <1>3 DEF IInv, TopoComplete, MarshalInv, NoUpdateForgotten, InStep, Unnotified,
     At, NodeOf
<1> QED
  BY <1>2, <1>4, <1>5 DEF IInv

\* SetTopoGetter ends: whatever it has read of the nodes stored meanwhile, the
\* nodes it misses have a handler that has not begun with it.
LEMMA SetTopoEndStep ==
  ASSUME IInv, NEW h \in Handler, SetTopoEnd(h)
  PROVE  IInv'
<1>1. /\ UNCHANGED <<tried, idMap, sender, toEncode, hasNewMsg, data>>
      /\ handler' = [handler EXCEPT ![h] = "ack"]
      /\ seen' = [seen EXCEPT ![h] = {}]
      /\ handler[h] = "topoRead"
      /\ seen[h] \subseteq topo' /\ topo' \subseteq idMap
  BY DEF SetTopoEnd, MayHaveRead, clientVars, senderVars
<1>2. HandlerInv'
  BY <1>1 DEF IInv, HandlerInv, HandlerPc, Handler, NodeOf
<1>3. /\ At({"topoRead"}) = {h}
      /\ At({"topoRead"})' = {}
      /\ At({"topo"})' = At({"topo"})
      /\ At({"topo", "topoRead"})' = At({"topo"})
      /\ At(Unnotified)' = At(Unnotified)
  BY <1>1 DEF At, Unnotified, HandlerPc, IInv, HandlerInv, TopoLock
<1>4. TopoLock' /\ TopoReadInv'
  BY <1>3 DEF TopoLock, TopoReadInv
<1>5. TopoComplete'
  BY <1>1, <1>3 DEF IInv, TopoReadInv, TopoComplete, InStep, NodeOf, At
<1>6. MarshalInv' /\ NoUpdateForgotten'
  BY <1>1, <1>3 DEF IInv, MarshalInv, NoUpdateForgotten, InStep, Unnotified, At, NodeOf
<1> QED
  BY <1>2, <1>4, <1>5, <1>6 DEF IInv

\* The ACK and the log message.
LEMMA AckStep ==
  ASSUME IInv, NEW h \in Handler, Ack(h) \/ Printed(h)
  PROVE  IInv'
<1>1. UNCHANGED <<tried, idMap, topo, seen, sender, toEncode, hasNewMsg, data>>
  BY DEF Ack, Printed, clientVars, senderVars
<1>2. HandlerInv'
  BY <1>1 DEF IInv, HandlerInv, HandlerPc, Handler, NodeOf, Ack, Printed
<1>3. /\ At({"topoRead"})' = At({"topoRead"})
      /\ At({"topo"})' = At({"topo"})
      /\ At({"topo", "topoRead"})' = At({"topo", "topoRead"})
      /\ At(Unnotified)' = At(Unnotified)
  BY DEF At, Unnotified, HandlerPc, IInv, HandlerInv, Ack, Printed
<1> QED
  BY <1>1, <1>2, <1>3 DEF IInv, TopoLock, TopoReadInv, MarshalInv, TopoComplete,
     NoUpdateForgotten, InStep, Unnotified, At, NodeOf

\* The handler notifies the sender, which listens: it has a new message now.
LEMMA NotifyStep ==
  ASSUME IInv, NEW h \in Handler, Notify(h)
  PROVE  IInv'
<1>1. /\ UNCHANGED <<tried, idMap, topo, seen, sender, toEncode, data>>
      /\ handler' = [handler EXCEPT ![h] = "done"]
      /\ handler[h] = "notify" /\ sender = "select" /\ hasNewMsg'
  BY DEF Notify, MayNotify, clientVars
<1>2. HandlerInv'
  BY <1>1 DEF IInv, HandlerInv, HandlerPc, Handler, NodeOf
<1>3. /\ At({"topoRead"})' = At({"topoRead"})
      /\ At({"topo"})' = At({"topo"})
      /\ At({"topo", "topoRead"})' = At({"topo", "topoRead"})
  BY <1>1 DEF At, IInv, HandlerInv
<1>4. TopoLock' /\ TopoReadInv' /\ TopoComplete'
  BY <1>1, <1>3 DEF IInv, TopoLock, TopoReadInv, TopoComplete, InStep, At, NodeOf
<1>5. MarshalInv' /\ NoUpdateForgotten'
  BY <1>1 DEF MarshalInv, NoUpdateForgotten
<1> QED
  BY <1>2, <1>4, <1>5 DEF IInv

\* The sender takes the message: it sees the whole map, or it has encoded
\* what it saw and whatever it read of the rest.
LEMMA SenderSteps ==
  ASSUME IInv, TickBroadcast \/ Marshal \/ SendEnd
  PROVE  IInv'
<1>1. UNCHANGED <<tried, idMap, topo, handler, seen>>
  BY DEF TickBroadcast, Marshal, SendEnd, clientVars
<1>2. HandlerInv' /\ TopoLock' /\ TopoReadInv' /\ TopoComplete'
  BY <1>1 DEF IInv, HandlerInv, Handler, NodeOf, TopoLock, TopoReadInv, TopoComplete,
     InStep, At
<1>3. CASE TickBroadcast
  BY <1>1, <1>2, <1>3 DEF IInv, TickBroadcast, MarshalInv, NoUpdateForgotten
<1>4. CASE Marshal
  BY <1>1, <1>2, <1>4 DEF IInv, Marshal, MayHaveRead, MarshalInv, NoUpdateForgotten, InStep,
     Unnotified, At
<1>5. CASE SendEnd
  BY <1>1, <1>2, <1>5 DEF IInv, SendEnd, MarshalInv, NoUpdateForgotten, At
<1> QED
  BY <1>3, <1>4, <1>5

-----------------------------------------------------------------------------

\* Every reachable state of the bootstrap has the invariant, for any number of
\* nodes, attempts and failed streams.
THEOREM Invariance == Spec => []IInv
<1>1. ASSUME IInv, [Next]_vars PROVE IInv'
  <2>1. CASE UNCHANGED vars
    BY <1>1, <2>1 DEF IInv, HandlerInv, Handler, NodeOf, TopoLock, TopoReadInv, MarshalInv,
       TopoComplete, NoUpdateForgotten, InStep, At, vars, clientVars, senderVars
  <2>2. CASE \E n \in Node : \/ NodeStep(n) \/ RegisterFails(n) \/ ReadAckFails(n)
                             \/ \E i \in DOMAIN inFlight[n] : HandleIdMapMessage(n, i)
    BY <1>1, <2>2, NodeSteps, RegisterStep DEF NodeStep
  <2>3. CASE \E h \in Handler : HandlerStep(h)
    BY <1>1, <2>3, StoreStep, SetTopoStartStep, SetTopoEndStep, AckStep, NotifyStep
    DEF HandlerStep
  <2>4. CASE SenderStep
    BY <1>1, <2>4, NodeSteps, SenderSteps DEF SenderStep
  <2> QED
    BY <1>1, <2>1, <2>2, <2>3, <2>4 DEF Next
<1> QED
  BY <1>1, InitInv, PTL DEF Spec

\* SetTopoGetter of one handler never undoes what another one set: a node that is
\* in the id map and not in the topology has a handler that will still set it.
THEOREM TopologyComplete == Spec => []TopoComplete
<1>1. IInv => TopoComplete
  BY DEF IInv
<1> QED
  BY <1>1, Invariance, PTL

\* A node that registers while throttledSender reads or broadcasts the map is in
\* that broadcast or in a later one: its update cannot be lost.
THEOREM UpdatesKept == Spec => []NoUpdateForgotten
<1>1. IInv => NoUpdateForgotten
  BY DEF IInv
<1> QED
  BY <1>1, Invariance, PTL
=============================================================================
