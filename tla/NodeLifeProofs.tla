--------------------------- MODULE NodeLifeProofs ---------------------------
(***************************************************************************)
(* For any number of nodes and openers: the reference count of a node is    *)
(* exact, and no handler or opener works on a deleted node, unless its      *)
(* address is one at which an opener may find a node it has not made, or    *)
(* the opener is about to mark a one-shot.  The grants of semOutbound are   *)
(* conserved and bound the outbound connections that -connect has not       *)
(* made, until a connection to a shared address exists.                     *)
(***************************************************************************)
EXTENDS NodeLife, FiniteSetTheorems, TLAPS

\* Whether a node is shared depends on its address alone.
LEMMA SameNode ==
    ASSUME NEW n, addrName'[n] = addrName[n] PROVE IsShared(n)' <=> IsShared(n)
BY DEF IsShared, Service, Shared, OutAddr

\* The same of the target of an opener.
LEMMA SameTarget ==
    ASSUME NEW o, openAddr'[o] = openAddr[o] PROVE AtShared(o)' <=> AtShared(o)
BY DEF AtShared, Service, Shared, OutAddr

\* None is not an address that openers share.
LEMMA NoneNotShared == Service(None) \notin Shared
BY NodeAssumption DEF Shared, Service, OutAddr

\* No peer comes from an unshared address that an opener looks up, and no other
\* opener connects to it, by name or by address.
LEMMA NotShared ==
    ASSUME NEW o \in Opener, NEW a \in Target[o], a \notin ByName, a \notin Shared
    PROVE  /\ a \notin InAddr
           /\ \A p \in Opener : \A d \in Target[p] : p # o => Service(d) # a
<1>1. a \in OutAddr /\ \A p \in Opener : Target[p] \subseteq OutAddr
  BY DEF OutAddr
<1> QED
  BY <1>1 DEF Shared

\* The grants of the nodes are finitely many.
Flags == { n \in Node : grantOutbound[n] }
FlagsFinite == IsFiniteSet(Flags)

\* Any nodes with a grant can be counted.
LEMMA FlagsCount ==
    ASSUME FlagsFinite, NEW S \in SUBSET Flags
    PROVE  IsFiniteSet(S) /\ Cardinality(S) \in Nat
BY FS_Subset, FS_CardinalityType DEF FlagsFinite

\* Initially there is no node, and no opener has a grant.
LEMMA NodeInit == Init => NodeInv /\ FlagsFinite /\ GrantsConserved
<1> SUFFICES ASSUME Init PROVE NodeInv /\ FlagsFinite /\ GrantsConserved
  OBVIOUS
<1>1. TypeOK
  BY NodeAssumption DEF Init, TypeOK
<1>2. PlacesInv
  BY DEF Init, PlacesInv, Fresh
<1>3. \A n \in Node : RefCountOK(n) /\ OutboundOK(n)
  BY DEF Init, RefCountOK, OutboundOK
<1>4. \A o \in Opener : OpenOK(o) /\ OwnOK(o)
  BY DEF Init, OpenOK, OwnOK, HasNode
<1>5. Flags = {} /\ Holders = {} /\ Granted = {}
  BY DEF Init, Flags, Holders, Granted
<1>6. FlagsFinite /\ GrantsConserved
  BY <1>5, FS_EmptySet, NodeAssumption DEF FlagsFinite, GrantsConserved, Init
<1> QED
  BY <1>1, <1>2, <1>3, <1>4, <1>6 DEF NodeInv, ThreadsInv

-----------------------------------------------------------------------------
(* The types.                                                               *)

\* Disconnection posts the grants of the nodes it takes out of vNodes.
LEMMA ReapChoice ==
    ASSUME TypeOK, ReapNodes
    PROVE  \E gone \in SUBSET vNodes :
             /\ vNodes' = vNodes \ gone /\ reaped' = gone /\ released' = GrantsBack(gone)
             /\ semOutbound' = semOutbound + Cardinality(GrantsBack(gone))
<1>1. PICK unused \in SUBSET { n \in vNodes : nRefCount[n] <= 0 } :
        LET gone == unused \cup { n \in vNodes : fDisconnect[n] }
        IN  /\ vNodes' = vNodes \ gone /\ reaped' = gone /\ released' = GrantsBack(gone)
            /\ semOutbound' = semOutbound + Cardinality(GrantsBack(gone))
  BY Zenon DEF ReapNodes
<1> DEFINE gone == unused \cup { n \in vNodes : fDisconnect[n] }
<1>2. gone \in SUBSET vNodes
  BY Zenon
<1> HIDE DEF gone
<1> USE <1>2
<1> WITNESS gone \in SUBSET vNodes
<1> QED
  BY <1>1, Zenon DEF gone

\* Disconnection keeps the types.
LEMMA ReapTypes == ASSUME NodeInv, FlagsFinite, ReapNodes PROVE TypeOK'
<1>1. PICK gone \in SUBSET vNodes :
             /\ vNodes' = vNodes \ gone /\ reaped' = gone /\ released' = GrantsBack(gone)
             /\ semOutbound' = semOutbound + Cardinality(GrantsBack(gone))
  BY ReapChoice DEF NodeInv
<1>2. GrantsBack(gone) \in SUBSET Flags /\ GrantsBack(gone) \subseteq gone
  BY DEF GrantsBack, Flags, NodeInv, TypeOK
<1>3. semOutbound' \in Nat
  BY <1>1, <1>2, FlagsCount DEF NodeInv, TypeOK
<1>4. /\ sock' = "delete"
      /\ UNCHANGED <<vNodesDisconnected, deleted, flags, fDisconnect, nRefCount, grantOutbound,
                     sockCopy, msg, msgCopy, relay, openers>>
  BY Zenon DEF ReapNodes
<1> QED
  BY <1>1, <1>2, <1>3, <1>4 DEF NodeInv, TypeOK, flags, openers

\* Deletion keeps the types.
LEMMA DeleteTypes == ASSUME NodeInv, FlagsFinite, ReapDelete PROVE TypeOK'
<1> DEFINE refs == Add(Releases(reaped), -1)
           dead == Deletable(vNodesDisconnected \cup reaped, refs)
           late == GrantsBack(dead \ released)
<1>1. /\ vNodesDisconnected' = (vNodesDisconnected \cup reaped) \ dead
      /\ deleted' = deleted \cup dead /\ nRefCount' = refs
      /\ semOutbound' = semOutbound + Cardinality(late)
      /\ grantOutbound' = [n \in Node |-> grantOutbound[n] /\ n \notin released \cup late]
      /\ fDisconnect' = [n \in Node |-> fDisconnect[n] \/ n \in reaped]
      /\ reaped' = {} /\ released' = {} /\ sock' = "accept"
      /\ UNCHANGED <<vNodes, flags, sockCopy, msg, msgCopy, relay, openers>>
  BY Zenon DEF ReapDelete
<1>2. dead \subseteq Node /\ late \in SUBSET Flags
  BY DEF Deletable, GrantsBack, Flags, NodeInv, TypeOK
<1>3. refs \in [Node -> Int]
  BY DEF Add, NodeInv, TypeOK
<1> HIDE DEF refs, dead, late
<1>4. semOutbound' \in Nat
  BY <1>1, <1>2, FlagsCount DEF NodeInv, TypeOK
<1>5. grantOutbound' \in [Node -> BOOLEAN] /\ fDisconnect' \in [Node -> BOOLEAN]
  BY <1>1, Zenon
<1>6. vNodesDisconnected' \subseteq Node /\ deleted' \subseteq Node /\ vNodes' \subseteq Node
  BY <1>1, <1>2, Zenon DEF NodeInv, TypeOK
<1> QED
  BY <1>1, <1>3, <1>4, <1>5, <1>6 DEF NodeInv, TypeOK, flags, openers

\* Every step of every thread keeps the types; the semaphore is waited for, so that
\* it does not go below zero.
LEMMA TypeStep == NodeInv /\ FlagsFinite /\ [Next]_vars => TypeOK'
<1> SUFFICES ASSUME NodeInv, FlagsFinite, [Next]_vars PROVE TypeOK'
  OBVIOUS
<1>0. TypeOK /\ \A o \in Opener : open[o] \in HasNode => openNode[o] \in Node
  BY DEF NodeInv, ThreadsInv, OpenOK
<1> USE NodeAssumption DEF TypeOK, places, flags, openers, OpenUnchanged, Add
<1>1. CASE SocketHandler
  <2>2. CASE NoConnection
    BY <1>0, <2>2 DEF NoConnection
  <2>3. CASE SockCopyNodes
    BY <1>0, <2>3 DEF SockCopyNodes
  <2>4. CASE SockReleaseNodes
    BY <1>0, <2>4 DEF SockReleaseNodes
  <2> HIDE DEF TypeOK
  <2> QED
    BY <1>1, <2>2, <2>3, <2>4, ReapTypes, DeleteTypes DEF SocketHandler
<1>2. CASE MessageHandler
  <2>1. CASE MsgCopyNodes
    BY <1>0, <2>1 DEF MsgCopyNodes
  <2>2. CASE RelaySent
    BY <1>0, <2>2 DEF RelaySent
  <2>3. CASE MsgReleaseNodes
    BY <1>0, <2>3 DEF MsgReleaseNodes
  <2> QED
    BY <1>2, <2>1, <2>2, <2>3 DEF MessageHandler
<1>3. ASSUME NEW n \in Node, CloseSocket(n) \/ Misbehaving(n) \/ RelayCheckpoint(n)
      PROVE TypeOK'
  BY <1>0, <1>3 DEF CloseSocket, Misbehaving, RelayCheckpoint
<1>4. ASSUME NEW n \in Node, NEW a \in InAddr, AcceptConnection(n, a) PROVE TypeOK'
  BY <1>0, <1>4 DEF AcceptConnection
<1>5. ASSUME NEW o \in Opener, AcquireGrant(o) PROVE TypeOK'
  BY <1>0, <1>5 DEF AcquireGrant
<1>6. ASSUME NEW o \in Opener, OpenStep(o) PROVE TypeOK'
  <2>1. ASSUME NEW a \in OutAddr, OpenNetworkConnection(o, a) PROVE TypeOK'
    BY <1>0, <2>1 DEF OpenNetworkConnection, GiveUp
  <2>2. CASE LookForExisting(o)
    BY <1>0, <2>2 DEF LookForExisting, FindNode
  <2>3. CASE AddRefRead(o) \/ AddRefWrite(o)
    BY <1>0, <2>3 DEF AddRefRead, AddRefWrite, HasNode
  <2>4. CASE ConnectSocketFails(o)
    BY <1>0, <2>4 DEF ConnectSocketFails, GiveUp
  <2>5. ASSUME NEW n \in Node, ConnectNode(o, n) PROVE TypeOK'
    BY <1>0, <2>5 DEF ConnectNode
  <2>6. CASE MoveToRelease(o)
    BY <1>0, <2>6 DEF MoveToRelease
  <2>7. CASE MoveToClear(o)
    BY <1>0, <2>7 DEF MoveToClear
  <2>8. CASE MoveToGive(o)
    BY <1>0, <2>8 DEF MoveToGive
  <2>9. CASE SetNetworkNode(o)
    <3>1. \/ open' = [open EXCEPT ![o] = "oneshot"] /\ UNCHANGED <<openNode, openAddr>>
          \/ Done(o)
      BY <2>9 DEF SetNetworkNode
    <3>2. /\ open' \in [Opener -> {"idle", "granted", "checked", "connect", "found", "addref",
                                   "opened", "clear", "give", "moved", "oneshot"}]
          /\ openAddr' \in [Opener -> OutAddr \cup {None}] /\ openNode' \in [Opener -> Node \cup {None}]
      BY <1>0, <3>1 DEF Done
    <3> QED
      BY <1>0, <2>9, <3>2 DEF SetNetworkNode
  <2>10. CASE SetOneShot(o)
    BY <1>0, <2>10 DEF SetOneShot, Done
  <2> HIDE DEF TypeOK
  <2> QED
    BY <1>6, <2>1, <2>2, <2>3, <2>4, <2>5, <2>6, <2>7, <2>8, <2>9, <2>10 DEF OpenStep
<1>7. CASE UNCHANGED vars
  BY <1>0, <1>7 DEF vars
<1> HIDE DEF TypeOK
<1> QED
  BY <1>1, <1>2, <1>3, <1>4, <1>5, <1>6, <1>7 DEF Next

\* A step gives a grant to at most one node.
LEMMA FlagsStep == NodeInv /\ FlagsFinite /\ [Next]_vars => FlagsFinite'
<1> SUFFICES ASSUME NodeInv, FlagsFinite, [Next]_vars PROVE \E n : Flags' \subseteq Flags \cup {n}
  BY FS_AddElement, FS_Subset DEF FlagsFinite
<1> USE DEF Flags
<1>1. CASE UNCHANGED grantOutbound
  BY <1>1
<1>2. CASE ReapDelete
  BY <1>2, Zenon DEF ReapDelete
<1>3. ASSUME NEW o \in Opener, MoveToGive(o) \/ MoveToClear(o)
      PROVE  \E n : Flags' \subseteq Flags \cup {n}
  <2>1. Flags' \subseteq Flags \cup {openNode[o]}
    BY <1>3 DEF MoveToGive, MoveToClear, NodeInv, TypeOK
  <2> QED
    BY <2>1
<1> HIDE DEF Flags
<1>4. CASE SocketHandler
  BY <1>1, <1>2, <1>4 DEF SocketHandler, ReapNodes, NoConnection, SockCopyNodes, SockReleaseNodes
<1>5. CASE MessageHandler
  BY <1>1, <1>5 DEF MessageHandler, MsgCopyNodes, RelaySent, MsgReleaseNodes
<1>6. ASSUME NEW n \in Node, CloseSocket(n) \/ Misbehaving(n) \/ RelayCheckpoint(n)
      PROVE  \E m : Flags' \subseteq Flags \cup {m}
  BY <1>1, <1>6 DEF CloseSocket, Misbehaving, RelayCheckpoint
<1>7. ASSUME NEW n \in Node, NEW a \in InAddr, AcceptConnection(n, a)
      PROVE  \E m : Flags' \subseteq Flags \cup {m}
  BY <1>1, <1>7 DEF AcceptConnection
<1>8. ASSUME NEW o \in Opener, AcquireGrant(o) \/ OpenStep(o)
      PROVE  \E m : Flags' \subseteq Flags \cup {m}
  BY <1>1, <1>3, <1>8 DEF OpenStep, AcquireGrant, OpenNetworkConnection, GiveUp, LookForExisting,
     AddRefRead, AddRefWrite, ConnectSocketFails, ConnectNode, MoveToRelease, SetNetworkNode,
     SetOneShot
<1> QED
  BY <1>1, <1>4, <1>5, <1>6, <1>7, <1>8 DEF Next, vars

-----------------------------------------------------------------------------
(* The places, references and openers.                                      *)

\* A step that touches neither nodes nor openers.
LEMMA FrameKept ==
    ASSUME NodeInv,
           UNCHANGED <<places, flags, nRefCount, grantOutbound, sockCopy, msgCopy, openers>>,
           sock' # "service" => sockCopy = {}, sock' # "delete" => reaped = {},
           msg' # "serve" => msgCopy = {}
    PROVE  PlacesInv' /\ ThreadsInv'
<1> USE DEF places, flags, openers
<1>1. /\ \A n \in Node : IsShared(n)' <=> IsShared(n)
      /\ \A o \in Opener : AtShared(o)' <=> AtShared(o)
  BY SameNode, SameTarget
<1>2. Fresh' = Fresh /\ Refs' = Refs /\ released \subseteq Node
  BY DEF Fresh, Refs, NodeInv, TypeOK
<1>3. PlacesInv'
  BY <1>1, <1>2 DEF NodeInv, PlacesInv
<1>4. \A n \in Node : RefCountOK(n)'
  BY <1>1, <1>2 DEF NodeInv, ThreadsInv, RefCountOK
<1>5. \A n \in Node : OutboundOK(n)'
  BY <1>1 DEF NodeInv, ThreadsInv, OutboundOK
<1>6. \A o \in Opener : OpenOK(o)'
  BY <1>1, <1>2 DEF NodeInv, ThreadsInv, OpenOK, HasNode
<1>7. \A o \in Opener : OwnOK(o)'
  BY <1>1, <1>2 DEF NodeInv, ThreadsInv, OwnOK, HasNode, Made, Service
<1> QED
  BY <1>3, <1>4, <1>5, <1>6, <1>7 DEF ThreadsInv

\* When references and reference counts change together, and nothing else does but
\* the copies, the invariant is kept.
LEMMA CountsKept ==
    ASSUME NodeInv, UNCHANGED <<places, flags, grantOutbound, openers>>,
           nRefCount' \in [Node -> Int],
           \A n \in Node : nRefCount'[n] - Refs'[n] = nRefCount[n] - Refs[n],
           \A n \in Node : n \notin sockCopy' \cup msgCopy' /\ n \notin sockCopy \cup msgCopy =>
             nRefCount'[n] = nRefCount[n],
           \A n \in sockCopy' \cup msgCopy' : n \in vNodes \cup sockCopy \cup msgCopy,
           sock' # "service" => sockCopy' = {}, sock' # "delete" => reaped = {},
           msg' # "serve" => msgCopy' = {}
    PROVE  PlacesInv' /\ ThreadsInv'
<1> USE DEF places, flags, openers
<1>1. /\ \A n \in Node : IsShared(n)' <=> IsShared(n)
      /\ \A o \in Opener : AtShared(o)' <=> AtShared(o)
  BY SameNode, SameTarget
<1>2. /\ Refs \in [Node -> Int] /\ Refs' \in [Node -> Int] /\ nRefCount \in [Node -> Int]
      /\ vNodes \subseteq Node /\ released \subseteq Node /\ Fresh' = Fresh /\ Fresh \subseteq Node
  BY DEF Refs, NodeInv, TypeOK, Fresh
<1>3. \A n \in Node : /\ nRefCount[n] = Refs[n] => nRefCount'[n] = Refs'[n]
                      /\ nRefCount[n] = Refs[n] + 1 => nRefCount'[n] = Refs'[n] + 1
  <2> SUFFICES ASSUME NEW n \in Node
               PROVE  /\ nRefCount[n] = Refs[n] => nRefCount'[n] = Refs'[n]
                      /\ nRefCount[n] = Refs[n] + 1 => nRefCount'[n] = Refs'[n] + 1
    OBVIOUS
  <2>1. nRefCount[n] \in Int /\ nRefCount'[n] \in Int /\ Refs[n] \in Int /\ Refs'[n] \in Int
    BY <1>2
  <2> QED
    BY <2>1
<1>4. \A n \in Fresh : n \notin sockCopy /\ n \notin msgCopy /\ n \notin sockCopy' /\ n \notin msgCopy'
  BY DEF Fresh, NodeInv, PlacesInv
<1>5. PlacesInv'
  <2>1. \A n \in Fresh : nRefCount'[n] = 0
    BY <1>2, <1>4 DEF NodeInv, PlacesInv
  <2>2. \A n \in Fresh' : /\ addrName'[n] = None /\ nRefCount'[n] = 0
                          /\ ~grantOutbound'[n] /\ ~fInbound'[n] /\ ~fNetworkNode'[n]
    BY <1>2, <2>1, Zenon DEF NodeInv, PlacesInv
  <2> QED
    BY <1>1, <1>2, <1>4, <2>2 DEF NodeInv, PlacesInv
<1>6. ASSUME NEW n \in Node PROVE RefCountOK(n)'
  <2>1. ~IsShared(n) =>
          /\ n \in sockCopy \cup msgCopy => n \notin deleted
          /\ n \in vNodes \cup reaped => nRefCount[n] = Refs[n] + 1
          /\ n \in vNodesDisconnected => nRefCount[n] \in {Refs[n], Refs[n] + 1}
          /\ n \in deleted => nRefCount[n] = 0
    BY DEF NodeInv, ThreadsInv, RefCountOK
  <2>2. ~IsShared(n) /\ n \in sockCopy' \cup msgCopy' => n \notin deleted
    BY <2>1 DEF NodeInv, PlacesInv
  <2> QED
    BY <1>1, <1>3, <2>1, <2>2 DEF RefCountOK
<1>7. \A n \in Node : OutboundOK(n)'
  BY <1>1 DEF NodeInv, ThreadsInv, OutboundOK
<1>8. \A o \in Opener : OpenOK(o)'
  BY <1>1, <1>2 DEF NodeInv, ThreadsInv, OpenOK, HasNode
<1>9. ASSUME NEW o \in Opener PROVE OwnOK(o)'
  <2>1. open[o] \in HasNode => openNode[o] \in Node
    BY DEF NodeInv, ThreadsInv, OpenOK
  <2>2. open[o] \in {"opened", "give", "moved"} /\ Made(o) => Made(o)'
    BY <1>3, <2>1 DEF Made, HasNode
  <2> QED
    BY <1>1, <2>2 DEF NodeInv, ThreadsInv, OwnOK, HasNode, Service
<1> QED
  BY <1>5, <1>6, <1>7, <1>8, <1>9 DEF ThreadsInv

\* A thread that copies vNodes refers to each of its nodes, and releases them all.
LEMMA CopyKeeps ==
    ASSUME NodeInv, SockCopyNodes \/ MsgCopyNodes \/ SockReleaseNodes \/ MsgReleaseNodes
    PROVE  PlacesInv' /\ ThreadsInv'
<1> USE DEF NodeInv, TypeOK
<1>1. UNCHANGED <<places, flags, grantOutbound, openers>>
  BY DEF SockCopyNodes, MsgCopyNodes, SockReleaseNodes, MsgReleaseNodes
<1>2. /\ nRefCount' \in [Node -> Int]
      /\ \A n \in sockCopy' \cup msgCopy' : n \in vNodes \cup sockCopy \cup msgCopy
      /\ sock' # "service" => sockCopy' = {}
      /\ sock' # "delete" => reaped = {}
      /\ msg' # "serve" => msgCopy' = {}
  BY DEF SockCopyNodes, MsgCopyNodes, SockReleaseNodes, MsgReleaseNodes, Add, PlacesInv
<1>3. \A n \in Node : n \notin sockCopy' \cup msgCopy' /\ n \notin sockCopy \cup msgCopy =>
             nRefCount'[n] = nRefCount[n]
  BY DEF SockCopyNodes, MsgCopyNodes, SockReleaseNodes, MsgReleaseNodes, Add
<1>4. \A n \in Node : nRefCount'[n] - Refs'[n] = nRefCount[n] - Refs[n]
  BY DEF SockCopyNodes, MsgCopyNodes, SockReleaseNodes, MsgReleaseNodes, Add, Refs, PlacesInv
<1> QED
  BY <1>1, <1>2, <1>3, <1>4, CountsKept

\* Nodes that leave vNodes keep their references until they are in the pool.
LEMMA ReapKeeps ==
    ASSUME NodeInv, ReapNodes PROVE PlacesInv' /\ ThreadsInv'
<1>1. PICK gone \in SUBSET vNodes :
             /\ vNodes' = vNodes \ gone /\ reaped' = gone /\ released' = GrantsBack(gone)
  BY ReapChoice DEF NodeInv
<1>2. /\ UNCHANGED <<vNodesDisconnected, deleted, addrName, fInbound, fNetworkNode, nRefCount,
                     grantOutbound, sockCopy, msg, msgCopy, open, openAddr, openNode>>
      /\ sock = "reap" /\ sock' = "delete"
  BY Zenon DEF ReapNodes, flags, openers
<1>3. /\ \A n \in Node : IsShared(n)' <=> IsShared(n)
      /\ \A o \in Opener : AtShared(o)' <=> AtShared(o)
  BY <1>2, SameNode, SameTarget
<1>4. reaped = {} /\ Refs' = Refs /\ gone \subseteq Node
  BY <1>2 DEF NodeInv, PlacesInv, TypeOK, Refs
<1>5. Fresh' = Fresh
  BY <1>1, <1>2, <1>4 DEF Fresh
<1>6. PlacesInv'
  <2>1. \A n \in released' : grantOutbound'[n]
    BY <1>1, <1>2 DEF GrantsBack
  <2>2. /\ vNodes' \cap vNodesDisconnected' = {} /\ reaped' \cap (vNodes' \cup vNodesDisconnected') = {}
        /\ deleted' \cap (vNodes' \cup vNodesDisconnected' \cup reaped') = {}
    BY <1>1, <1>2 DEF NodeInv, PlacesInv
  <2> QED
    BY <1>2, <1>5, <2>1, <2>2 DEF NodeInv, PlacesInv
<1>7. \A n \in Node : RefCountOK(n)'
  BY <1>1, <1>2, <1>3, <1>4 DEF NodeInv, ThreadsInv, RefCountOK
<1>8. \A n \in Node : OutboundOK(n)'
  BY <1>1, <1>2, <1>3 DEF NodeInv, ThreadsInv, OutboundOK
<1>9. \A o \in Opener : OpenOK(o)'
  BY <1>2, <1>3, <1>5 DEF NodeInv, ThreadsInv, OpenOK, HasNode
<1>10. \A o \in Opener : OwnOK(o)'
  BY <1>1, <1>2, <1>3, <1>4 DEF NodeInv, ThreadsInv, OwnOK, HasNode, Made, Service
<1> QED
  BY <1>6, <1>7, <1>8, <1>9, <1>10 DEF ThreadsInv

\* Disconnection releases the reference a node has of itself, and only nodes that no
\* handler refers to are deleted.  The node of an opener keeps its own reference:
\* it is neither a network node yet nor inbound.
LEMMA DeleteKeeps ==
    ASSUME NodeInv, ReapDelete PROVE PlacesInv' /\ ThreadsInv'
<1> DEFINE refs == Add(Releases(reaped), -1)
           dead == Deletable(vNodesDisconnected \cup reaped, refs)
           late == GrantsBack(dead \ released)
<1>1. /\ vNodesDisconnected' = (vNodesDisconnected \cup reaped) \ dead
      /\ deleted' = deleted \cup dead /\ nRefCount' = refs
      /\ grantOutbound' = [n \in Node |-> grantOutbound[n] /\ n \notin released \cup late]
      /\ reaped' = {} /\ released' = {} /\ sock = "delete" /\ sock' = "accept"
      /\ UNCHANGED <<vNodes, addrName, fInbound, fNetworkNode, sockCopy, msg, msgCopy, open, openAddr,
                     openNode>>
  BY Zenon DEF ReapDelete, flags, openers
<1>2. /\ \A n \in Node : IsShared(n)' <=> IsShared(n)
      /\ \A o \in Opener : AtShared(o)' <=> AtShared(o)
  BY <1>1, SameNode, SameTarget
<1>3. /\ vNodes \subseteq Node /\ vNodesDisconnected \subseteq Node /\ deleted \subseteq Node
      /\ reaped \subseteq Node /\ released \subseteq reaped
  BY DEF NodeInv, TypeOK
<1>4. Refs \in [Node -> Int] /\ nRefCount \in [Node -> Int] /\ refs \in [Node -> Int]
        /\ Refs' = Refs
  BY <1>1 DEF NodeInv, TypeOK, Refs, Add
<1>5. \A n \in Node : /\ n \notin reaped => refs[n] = nRefCount[n]
                      /\ refs[n] = nRefCount[n] \/ refs[n] = nRefCount[n] - 1
                      /\ ~fNetworkNode[n] /\ ~fInbound[n] => refs[n] = nRefCount[n]
  BY DEF Add, Releases, NodeInv, TypeOK
<1>6. dead \subseteq vNodesDisconnected \cup reaped /\ (\A n \in dead : refs[n] <= 0)
        /\ late \subseteq dead
  BY DEF Deletable, GrantsBack
<1>7. \A n \in Node : Refs[n] >= 0 /\ (n \in sockCopy \cup msgCopy => Refs[n] >= 1)
  BY DEF Refs, NodeInv, TypeOK
<1> HIDE DEF refs, dead, late
<1>8. /\ vNodes \cap vNodesDisconnected = {} /\ reaped \cap (vNodes \cup vNodesDisconnected) = {}
      /\ deleted \cap (vNodes \cup vNodesDisconnected \cup reaped) = {}
  BY DEF NodeInv, PlacesInv
<1>9. \A n \in vNodesDisconnected \cup reaped : ~IsShared(n) =>
        refs[n] = Refs[n] \/ refs[n] = Refs[n] + 1
  <2>1. \A n \in vNodesDisconnected : ~IsShared(n) =>
          nRefCount[n] = Refs[n] \/ nRefCount[n] = Refs[n] + 1
    BY <1>3 DEF NodeInv, ThreadsInv, RefCountOK
  <2>2. \A n \in reaped : ~IsShared(n) => nRefCount[n] = Refs[n] + 1
    BY <1>3 DEF NodeInv, ThreadsInv, RefCountOK
  <2> QED
    BY <1>3, <1>4, <1>5, <1>8, <2>1, <2>2
<1>10. \A n \in dead : ~IsShared(n) => refs[n] = 0 /\ n \notin sockCopy \cup msgCopy
  BY <1>3, <1>4, <1>6, <1>7, <1>9
<1>11. Fresh' = Fresh /\ \A n \in Fresh : n \in Node /\ n \notin reaped /\ n \notin dead
  BY <1>1, <1>6 DEF Fresh
<1>12. PlacesInv'
  <2>1. vNodes' \cap vNodesDisconnected' = {}
          /\ deleted' \cap (vNodes' \cup vNodesDisconnected') = {}
    BY <1>1, <1>6, <1>8
  <2>2. \A n \in Fresh' : addrName'[n] = None /\ ~grantOutbound'[n] /\ ~fInbound'[n] /\ ~fNetworkNode'[n]
    BY <1>1, <1>11, Zenon DEF NodeInv, PlacesInv
  <2>3. \A n \in Fresh' : nRefCount'[n] = 0
    BY <1>1, <1>5, <1>11 DEF NodeInv, PlacesInv
  <2> QED
    BY <1>1, <1>11, <2>1, <2>2, <2>3 DEF NodeInv, PlacesInv
<1>13. ASSUME NEW n \in Node PROVE RefCountOK(n)'
  <2>0. ~IsShared(n) =>
          /\ n \in sockCopy \cup msgCopy => n \notin deleted
          /\ n \in vNodes => nRefCount[n] = Refs[n] + 1
          /\ n \in deleted => nRefCount[n] = 0
    BY DEF NodeInv, ThreadsInv, RefCountOK
  <2>1. ~IsShared(n) /\ n \in vNodes => nRefCount'[n] = Refs[n] + 1
    BY <1>1, <1>5, <1>8, <2>0
  <2>2. ~IsShared(n) /\ n \in vNodesDisconnected' => nRefCount'[n] \in {Refs[n], Refs[n] + 1}
    BY <1>1, <1>9
  <2>3. ~IsShared(n) /\ n \in deleted' => nRefCount'[n] = 0
    BY <1>1, <1>5, <1>8, <1>10, <2>0
  <2>4. ~IsShared(n) /\ n \in sockCopy \cup msgCopy => n \notin deleted'
    BY <1>1, <1>10, <2>0
  <2> QED
    BY <1>1, <1>2, <1>4, <2>1, <2>2, <2>3, <2>4 DEF RefCountOK
<1>14. \A n \in vNodes : n \in Node /\ (grantOutbound'[n] <=> grantOutbound[n])
  BY <1>1, <1>3, <1>6, <1>8, Zenon
<1>15. \A n \in Node : OutboundOK(n)'
  BY <1>1, <1>2, <1>14 DEF NodeInv, ThreadsInv, OutboundOK
<1>16. \A o \in Opener : OpenOK(o)'
  BY <1>1, <1>2, <1>11 DEF NodeInv, ThreadsInv, OpenOK, HasNode
<1>17. ASSUME NEW o \in Opener, ~AtShared(o), open[o] \in {"opened", "give", "moved"} PROVE Made(o)'
  <2>1. openNode[o] \in Node /\ Made(o) /\ ~IsShared(openNode[o])
    BY <1>17 DEF NodeInv, ThreadsInv, OpenOK, OwnOK, HasNode
  <2>2. refs[openNode[o]] = Refs[openNode[o]] + 1
    BY <1>5, <2>1 DEF Made
  <2>3. openNode[o] \notin dead
    BY <1>4, <1>7, <1>10, <2>1, <2>2
  <2> QED
    BY <1>1, <1>4, <2>1, <2>2, <2>3 DEF Made
<1>18. ASSUME NEW o \in Opener, ~AtShared(o), open[o] \in {"opened", "give"}
       PROVE  ~grantOutbound'[openNode[o]]
  <2>1. openNode[o] \in Node /\ ~grantOutbound[openNode[o]]
    BY <1>18 DEF NodeInv, ThreadsInv, OpenOK, OwnOK, HasNode
  <2> QED
    BY <1>1, <2>1, Zenon
<1>19. \A o \in Opener : OwnOK(o)'
  BY <1>1, <1>2, <1>17, <1>18 DEF NodeInv, ThreadsInv, OwnOK, HasNode, Service
<1> QED
  BY <1>12, <1>13, <1>15, <1>16, <1>19 DEF ThreadsInv

\* Nobody refers to a fresh node, and no opener works on it.
LEMMA FreshNode ==
    ASSUME NodeInv, NEW n \in Fresh
    PROVE  /\ n \in Node /\ n \notin vNodes /\ n \notin vNodesDisconnected /\ n \notin deleted
           /\ n \notin reaped /\ n \notin released /\ n \notin sockCopy /\ n \notin msgCopy
           /\ nRefCount[n] = 0 /\ Refs[n] = 0 /\ ~fInbound[n] /\ ~fNetworkNode[n] /\ ~grantOutbound[n]
           /\ \A o \in Opener : openNode[o] # n
<1>1. /\ n \in Node /\ n \notin vNodes /\ n \notin vNodesDisconnected /\ n \notin deleted
      /\ n \notin reaped /\ n \notin released
  BY DEF Fresh, NodeInv, TypeOK
<1>2. nRefCount[n] = 0 /\ n \notin sockCopy /\ n \notin msgCopy
  BY DEF NodeInv, PlacesInv
<1>3. ~fInbound[n] /\ ~fNetworkNode[n] /\ ~grantOutbound[n]
  BY Zenon DEF NodeInv, PlacesInv
<1>4. \A o \in Opener : openNode[o] # n
  BY <1>1, NodeAssumption DEF NodeInv, ThreadsInv, OpenOK
<1> QED
  BY <1>1, <1>2, <1>3, <1>4 DEF Refs

\* A new node in vNodes, at an address that an opener about to look finds only if it
\* is shared: what holds of the places, the counts and the other openers.
LEMMA NewNodeKeeps ==
    ASSUME NodeInv, NEW n \in Fresh, NEW a, addrName' = [addrName EXCEPT ![n] = a],
           vNodes' = vNodes \cup {n}, nRefCount' = Add({n}, 1),
           UNCHANGED <<vNodesDisconnected, deleted, reaped, released, fNetworkNode, grantOutbound,
                       sockCopy, msg, msgCopy>>,
           \A m \in Node : m # n => fInbound'[m] = fInbound[m],
           sock' # "service" => sockCopy = {}, sock' # "delete" => reaped = {}
    PROVE  /\ PlacesInv' /\ (\A m \in Node : RefCountOK(m)') /\ Refs' = Refs
           /\ Fresh' = Fresh \ {n}
           /\ \A m \in Node : m # n => /\ nRefCount'[m] = nRefCount[m] /\ addrName'[m] = addrName[m]
                                       /\ (IsShared(m)' <=> IsShared(m))
           /\ nRefCount'[n] = Refs'[n] + 1 /\ addrName'[n] = a
<1>1. /\ n \in Node /\ n \notin vNodes /\ n \notin vNodesDisconnected /\ n \notin deleted
      /\ n \notin reaped /\ n \notin released
      /\ nRefCount[n] = 0 /\ Refs[n] = 0 /\ n \notin sockCopy /\ n \notin msgCopy
  BY FreshNode
<1>2. Refs' = Refs /\ Refs \in [Node -> Int] /\ nRefCount \in [Node -> Int] /\ released \subseteq Node
  BY DEF Refs, NodeInv, TypeOK
<1>3. /\ \A m \in Node : m # n => nRefCount'[m] = nRefCount[m] /\ addrName'[m] = addrName[m]
      /\ nRefCount'[n] = 1 /\ addrName'[n] = a
  BY <1>1 DEF Add, NodeInv, TypeOK
<1>4. \A m \in Node : m # n => (IsShared(m)' <=> IsShared(m))
  BY <1>3, SameNode
<1>5. Fresh' = Fresh \ {n} /\ Fresh \subseteq Node
  BY DEF Fresh
<1>6. PlacesInv'
  <2>1. /\ vNodes' \cap vNodesDisconnected' = {} /\ reaped' \cap (vNodes' \cup vNodesDisconnected') = {}
        /\ deleted' \cap (vNodes' \cup vNodesDisconnected' \cup reaped') = {}
    BY <1>1 DEF NodeInv, PlacesInv
  <2>2. \A m \in Fresh' : /\ addrName'[m] = None /\ nRefCount'[m] = 0
                          /\ ~grantOutbound'[m] /\ ~fInbound'[m] /\ ~fNetworkNode'[m]
    BY <1>3, <1>5, Zenon DEF NodeInv, PlacesInv
  <2>3. (sockCopy' \cup msgCopy') \cap Fresh' = {}
    BY <1>5 DEF NodeInv, PlacesInv
  <2>4. \A m \in released' : grantOutbound'[m] \/ IsShared(m)'
    BY <1>1, <1>2, <1>4 DEF NodeInv, PlacesInv
  <2> QED
    BY <2>1, <2>2, <2>3, <2>4 DEF NodeInv, PlacesInv
<1>7. ASSUME NEW m \in Node PROVE RefCountOK(m)'
  <2>1. CASE m = n
    BY <1>1, <1>2, <1>3, <2>1 DEF RefCountOK
  <2>2. CASE m # n
    <3>1. nRefCount'[m] = nRefCount[m] /\ Refs'[m] = Refs[m] /\ (IsShared(m)' <=> IsShared(m))
      BY <1>2, <1>3, <1>4, <2>2
    <3>2. RefCountOK(m)
      BY DEF NodeInv, ThreadsInv
    <3> QED
      BY <2>2, <3>1, <3>2 DEF RefCountOK
  <2> QED
    BY <2>1, <2>2
<1> QED
  BY <1>1, <1>2, <1>3, <1>4, <1>5, <1>6, <1>7

\* What a new node means for an opener that has not made it.
LEMMA NewNodeOpener ==
    ASSUME NodeInv, NEW n \in Fresh, NEW a, NEW o \in Opener,
           open'[o] = open[o], openAddr'[o] = openAddr[o], openNode'[o] = openNode[o],
           \A p \in Opener : openNode'[p] = openNode[p] \/ openNode'[p] = n,
           vNodes' = vNodes \cup {n}, UNCHANGED <<deleted, fNetworkNode, grantOutbound>>,
           Fresh' = Fresh \ {n}, Refs' = Refs,
           \A m \in Node : m # n => /\ nRefCount'[m] = nRefCount[m] /\ addrName'[m] = addrName[m]
                                   /\ (IsShared(m)' <=> IsShared(m)) /\ fInbound'[m] = fInbound[m],
           addrName'[n] = a,
           open[o] = "checked" /\ ~AtShared(o) => Service(a) # openAddr[o]
    PROVE  OpenOK(o)' /\ OwnOK(o)'
<1>1. OpenOK(o) /\ OwnOK(o) /\ (AtShared(o)' <=> AtShared(o))
  BY SameTarget DEF NodeInv, ThreadsInv
<1>2. openNode[o] # n /\ n \in Node
  BY FreshNode
<1>3. open[o] \in HasNode => openNode[o] \in Node
  BY <1>1 DEF OpenOK
<1>4. OpenOK(o)'
  BY <1>1, <1>2, <1>3 DEF OpenOK, HasNode
<1>5. open[o] \in {"opened", "give", "moved"} /\ Made(o) => Made(o)'
  BY <1>2, <1>3 DEF Made, HasNode
<1>6. open[o] = "checked" /\ ~AtShared(o) => \A m \in vNodes' : Service(addrName'[m]) # openAddr[o]
  <2> SUFFICES ASSUME open[o] = "checked", ~AtShared(o), NEW m \in vNodes'
               PROVE  Service(addrName'[m]) # openAddr[o]
    OBVIOUS
  <2>1. CASE m = n
    BY <2>1
  <2>2. CASE m # n
    <3>1. m \in vNodes /\ m \in Node
      BY <2>2 DEF NodeInv, TypeOK
    <3>2. Service(addrName[m]) # openAddr[o]
      BY <1>1, <3>1 DEF OwnOK
    <3>3. addrName'[m] = addrName[m]
      BY <2>2, <3>1
    <3> QED
      BY <3>2, <3>3
  <2> QED
    BY <2>1, <2>2
<1>7. open[o] \in HasNode /\ ~AtShared(o) => \A p \in Opener \ {o} : openNode'[p] # openNode[o]
  BY <1>1, <1>2 DEF OwnOK
<1>8. OwnOK(o)'
  BY <1>1, <1>5, <1>6, <1>7 DEF OwnOK, Service
<1> QED
  BY <1>4, <1>8

\* An inbound node comes from an address nobody connects to, or from a shared one.
LEMMA AcceptKeeps ==
    ASSUME NodeInv, NEW n \in Node, NEW a \in InAddr, AcceptConnection(n, a)
    PROVE  PlacesInv' /\ ThreadsInv'
<1>1. /\ n \in Fresh /\ addrName' = [addrName EXCEPT ![n] = a] /\ vNodes' = vNodes \cup {n}
      /\ nRefCount' = Add({n}, 1) /\ fInbound' = [fInbound EXCEPT ![n] = TRUE]
      /\ UNCHANGED <<vNodesDisconnected, deleted, reaped, released, fNetworkNode, grantOutbound,
                     sockCopy, msg, msgCopy, open, openAddr, openNode>>
      /\ sock' = "copy" /\ sock = "accept"
  BY DEF AcceptConnection, openers
<1>2. /\ fInbound'[n] /\ \A m \in Node : m # n => fInbound'[m] = fInbound[m]
      /\ sockCopy = {} /\ reaped = {}
  BY <1>1 DEF NodeInv, TypeOK, PlacesInv
<1>3. /\ PlacesInv' /\ (\A m \in Node : RefCountOK(m)') /\ Refs' = Refs /\ Fresh' = Fresh \ {n}
      /\ \A m \in Node : m # n => /\ nRefCount'[m] = nRefCount[m] /\ addrName'[m] = addrName[m]
                                  /\ (IsShared(m)' <=> IsShared(m))
      /\ addrName'[n] = a
  BY <1>1, <1>2, NewNodeKeeps
<1>4. ASSUME NEW o \in Opener PROVE OpenOK(o)' /\ OwnOK(o)'
  <2>1. open[o] = "checked" /\ ~AtShared(o) => Service(a) # openAddr[o]
    <3> SUFFICES ASSUME open[o] = "checked", ~AtShared(o) PROVE Service(a) # openAddr[o]
      OBVIOUS
    <3>1. openAddr[o] \in Target[o] /\ openAddr[o] \notin ByName
      BY DEF NodeInv, ThreadsInv, OpenOK
    <3>2. openAddr[o] \notin Shared
      BY <3>1 DEF AtShared, Service
    <3>3. openAddr[o] \notin InAddr
      BY <3>1, <3>2, NotShared
    <3> QED
      BY <3>3, NodeAssumption DEF Service
  <2> QED
    BY <1>1, <1>2, <1>3, <2>1, NewNodeOpener
<1>5. ASSUME NEW m \in Node PROVE OutboundOK(m)'
  <2>1. OutboundOK(m)
    BY DEF NodeInv, ThreadsInv
  <2>2. m = n => OutboundOK(m)'
    BY <1>2 DEF OutboundOK
  <2>3. m # n => OutboundOK(m)'
    BY <1>1, <1>2, <1>3, <2>1 DEF OutboundOK
  <2> QED
    BY <2>2, <2>3
<1> QED
  BY <1>3, <1>4, <1>5 DEF ThreadsInv

\* The opener that connects has made its node, and another opener that is about to
\* look for the same address shares it.
LEMMA ConnectKeeps ==
    ASSUME NodeInv, NEW q \in Opener, NEW n \in Node, ConnectNode(q, n)
    PROVE  PlacesInv' /\ ThreadsInv'
<1>1. /\ n \in Fresh /\ addrName' = [addrName EXCEPT ![n] = openAddr[q]] /\ vNodes' = vNodes \cup {n}
      /\ nRefCount' = Add({n}, 1) /\ openNode' = [openNode EXCEPT ![q] = n]
      /\ open[q] = "connect" /\ open' = [open EXCEPT ![q] = "opened"]
      /\ UNCHANGED <<vNodesDisconnected, deleted, reaped, released, fInbound, fNetworkNode,
                     grantOutbound, sock, sockCopy, msg, msgCopy, openAddr>>
  BY DEF ConnectNode, OpenUnchanged
<1>2. /\ sock' # "service" => sockCopy = {}
      /\ sock' # "delete" => reaped = {}
  BY <1>1 DEF NodeInv, PlacesInv
<1>3. /\ PlacesInv' /\ (\A m \in Node : RefCountOK(m)') /\ Refs' = Refs /\ Fresh' = Fresh \ {n}
      /\ \A m \in Node : m # n => /\ nRefCount'[m] = nRefCount[m] /\ addrName'[m] = addrName[m]
                                  /\ (IsShared(m)' <=> IsShared(m))
      /\ nRefCount'[n] = Refs'[n] + 1 /\ addrName'[n] = openAddr[q]
  BY <1>1, <1>2, NewNodeKeeps
<1>4. /\ open'[q] = "opened" /\ openNode'[q] = n /\ openAddr[q] \in Target[q]
      /\ \A p \in Opener : p # q => open'[p] = open[p] /\ openNode'[p] = openNode[p]
  BY <1>1 DEF NodeInv, TypeOK, ThreadsInv, OpenOK
<1>5. ~fNetworkNode[n] /\ ~fInbound[n] /\ ~grantOutbound[n] /\ n \notin deleted
        /\ \A p \in Opener : openNode[p] # n
  BY <1>1, FreshNode
<1>6. ASSUME NEW o \in Opener, o # q PROVE OpenOK(o)' /\ OwnOK(o)'
  <2>1. open[o] = "checked" /\ ~AtShared(o) => Service(openAddr[q]) # openAddr[o]
    <3> SUFFICES ASSUME open[o] = "checked", ~AtShared(o) PROVE Service(openAddr[q]) # openAddr[o]
      OBVIOUS
    <3>1. openAddr[o] \in Target[o] /\ openAddr[o] \notin ByName
      BY DEF NodeInv, ThreadsInv, OpenOK
    <3>2. openAddr[o] \notin Shared
      BY <3>1 DEF AtShared, Service
    <3> QED
      BY <1>4, <1>6, <3>1, <3>2, NotShared
  <2>2. /\ open'[o] = open[o] /\ openAddr'[o] = openAddr[o] /\ openNode'[o] = openNode[o]
        /\ \A p \in Opener : openNode'[p] = openNode[p] \/ openNode'[p] = n
        /\ \A m \in Node : fInbound'[m] = fInbound[m]
    BY <1>1, <1>4, <1>6
  <2> QED
    BY <1>1, <1>3, <2>1, <2>2, NewNodeOpener
<1>7. OpenOK(q)'
  <2>1. IsShared(n)' <=> AtShared(q)'
    BY <1>1, <1>3 DEF IsShared, AtShared, Service
  <2> QED
    BY <1>1, <1>3, <1>4, <2>1 DEF OpenOK, HasNode
<1>8. OwnOK(q)'
  BY <1>1, <1>3, <1>4, <1>5 DEF OwnOK, Made, HasNode
<1>9. ASSUME NEW m \in Node PROVE OutboundOK(m)'
  <2>1. OutboundOK(m)
    BY DEF NodeInv, ThreadsInv
  <2>2. m = n => OutboundOK(m)'
    BY <1>4 DEF OutboundOK
  <2>3. m # n => OutboundOK(m)'
    <3> SUFFICES ASSUME m # n, m \in vNodes, ~fInbound[m], addrName[m] \notin NoGrant, ~IsShared(m),
                        ~grantOutbound[m]
                 PROVE  \E p \in Opener : open'[p] \in {"opened", "give"} /\ openNode'[p] = m
      BY <1>1, <1>3 DEF OutboundOK
    <3>1. PICK p \in Opener : open[p] \in {"opened", "give"} /\ openNode[p] = m
      BY <2>1 DEF OutboundOK
    <3>2. p # q
      BY <1>1, <3>1
    <3> QED
      BY <1>4, <3>1, <3>2
  <2> QED
    BY <2>2, <2>3
<1> QED
  BY <1>3, <1>6, <1>7, <1>8, <1>9 DEF ThreadsInv

\* A step of one opener that changes its own node at most, and of a shared node also
\* the count, keeps what holds of the nodes and of the other openers.
LEMMA OpenerKeeps ==
    ASSUME NodeInv, NEW o \in Opener,
           UNCHANGED <<vNodes, vNodesDisconnected, deleted, reaped, released, addrName, fInbound, sock,
                       sockCopy, msg, msgCopy>>,
           \A p \in Opener : p # o => /\ open'[p] = open[p] /\ openAddr'[p] = openAddr[p]
                                     /\ openNode'[p] = openNode[p],
           \A m \in Node : ~IsShared(m) => nRefCount'[m] = nRefCount[m],
           \A m \in Node : m # openNode[o] =>
             fNetworkNode'[m] = fNetworkNode[m] /\ grantOutbound'[m] = grantOutbound[m],
           \A m \in Node : ~IsShared(m) /\ grantOutbound[m] => grantOutbound'[m],
           \/ openNode'[o] \in {None, openNode[o]}
           \/ openNode'[o] \in Node /\ IsShared(openNode'[o]),
           OpenOK(o)', OwnOK(o)',
           /\ open[o] \in {"opened", "give"} /\ ~IsShared(openNode[o])
           /\ addrName[openNode[o]] \notin NoGrant
           => grantOutbound'[openNode[o]] \/ (open'[o] \in {"opened", "give"} /\ openNode'[o] = openNode[o])
    PROVE  PlacesInv' /\ ThreadsInv'
<1>1. Refs' = Refs /\ Fresh' = Fresh /\ Fresh \subseteq Node /\ vNodes \subseteq Node
        /\ released \subseteq Node
  BY DEF Refs, Fresh, NodeInv, TypeOK
<1>2. /\ \A n \in Node : IsShared(n)' <=> IsShared(n)
      /\ \A p \in Opener : p # o => (AtShared(p)' <=> AtShared(p))
  BY SameNode, SameTarget
<1>3. PlacesInv'
  <2>1. \A n \in Fresh : n # openNode[o] /\ ~IsShared(n)
    BY FreshNode, NoneNotShared DEF NodeInv, PlacesInv, IsShared
  <2>2. \A n \in Fresh' : addrName'[n] = None /\ nRefCount'[n] = 0 /\ ~fInbound'[n]
    BY <1>1, <2>1 DEF NodeInv, PlacesInv
  <2>3. \A n \in Fresh' : ~grantOutbound'[n] /\ ~fNetworkNode'[n]
    BY <1>1, <2>1, Zenon DEF NodeInv, PlacesInv
  <2>4. \A n \in released' : grantOutbound'[n] \/ IsShared(n)'
    BY <1>1, <1>2 DEF NodeInv, PlacesInv
  <2> QED
    BY <1>1, <2>2, <2>3, <2>4 DEF NodeInv, PlacesInv
<1>4. \A n \in Node : RefCountOK(n)'
  BY <1>1, <1>2 DEF NodeInv, ThreadsInv, RefCountOK
<1>5. ASSUME NEW p \in Opener, p # o PROVE OpenOK(p)' /\ OwnOK(p)'
  <2>1. OpenOK(p) /\ OwnOK(p)
    BY DEF NodeInv, ThreadsInv
  <2>2. open[p] \in HasNode => openNode[p] \in Node /\ (IsShared(openNode[p]) <=> AtShared(p))
    BY <2>1 DEF OpenOK
  <2>3. open[p] \in HasNode /\ ~AtShared(p) => openNode[p] # openNode[o] /\ openNode[p] # openNode'[o]
    BY <1>5, <2>1, <2>2, NodeAssumption DEF OwnOK
  <2>4. OpenOK(p)'
    BY <1>1, <1>2, <1>5, <2>1, <2>2 DEF OpenOK, HasNode
  <2>5. ~AtShared(p) /\ open[p] \in {"opened", "give", "moved"} => Made(p)'
    <3> SUFFICES ASSUME ~AtShared(p), open[p] \in {"opened", "give", "moved"} PROVE Made(p)'
      OBVIOUS
    <3>1. Made(p) /\ openNode[p] \in Node /\ ~IsShared(openNode[p]) /\ openNode[p] # openNode[o]
      BY <2>1, <2>2, <2>3 DEF OwnOK, HasNode
    <3>2. /\ openNode'[p] = openNode[p] /\ openAddr'[p] = openAddr[p]
          /\ fNetworkNode'[openNode[p]] = fNetworkNode[openNode[p]]
          /\ nRefCount'[openNode[p]] = nRefCount[openNode[p]]
      BY <1>5, <3>1
    <3> QED
      BY <1>1, <3>1, <3>2 DEF Made
  <2>6. ~AtShared(p) /\ open[p] \in {"opened", "give"} => ~grantOutbound'[openNode[p]]
    <3> SUFFICES ASSUME ~AtShared(p), open[p] \in {"opened", "give"} PROVE ~grantOutbound'[openNode[p]]
      OBVIOUS
    <3>1. ~grantOutbound[openNode[p]] /\ openNode[p] \in Node /\ openNode[p] # openNode[o]
      BY <2>1, <2>2, <2>3 DEF OwnOK, HasNode
    <3>2. grantOutbound'[openNode[p]] = grantOutbound[openNode[p]]
      BY <3>1
    <3> QED
      BY <3>1, <3>2
  <2>7. ~AtShared(p) /\ open[p] \in HasNode => \A q \in Opener \ {p} : openNode'[q] # openNode[p]
    <3> SUFFICES ASSUME ~AtShared(p), open[p] \in HasNode, NEW q \in Opener, q # p
                 PROVE  openNode'[q] # openNode[p]
      OBVIOUS
    <3>1. CASE q = o
      BY <2>3, <3>1
    <3>2. CASE q # o
      BY <2>1, <3>2 DEF OwnOK
    <3> QED
      BY <3>1, <3>2
  <2>8. OwnOK(p)'
    BY <1>2, <1>5, <2>1, <2>5, <2>6, <2>7 DEF OwnOK, Service
  <2> QED
    BY <2>4, <2>8
<1>6. ASSUME NEW n \in Node PROVE OutboundOK(n)'
  <2> SUFFICES ASSUME n \in vNodes, ~fInbound[n], addrName[n] \notin NoGrant, ~IsShared(n),
                      ~grantOutbound'[n]
               PROVE  \E p \in Opener : open'[p] \in {"opened", "give"} /\ openNode'[p] = n
    BY <1>2 DEF OutboundOK
  <2>1. ~grantOutbound[n]
    OBVIOUS
  <2>2. PICK p \in Opener : open[p] \in {"opened", "give"} /\ openNode[p] = n
    BY <2>1 DEF NodeInv, ThreadsInv, OutboundOK
  <2>3. CASE p = o
    BY <2>2, <2>3
  <2>4. CASE p # o
    BY <2>2, <2>4
  <2> QED
    BY <2>3, <2>4
<1> QED
  BY <1>3, <1>4, <1>5, <1>6 DEF ThreadsInv

\* What is known of an opener.
LEMMA OpenerFacts ==
    ASSUME NodeInv, NEW o \in Opener
    PROVE  /\ OpenOK(o) /\ OwnOK(o)
           /\ open \in [Opener -> {"idle", "granted", "checked", "connect", "found", "addref", "opened",
                                  "clear", "give", "moved", "oneshot"}]
           /\ openAddr \in [Opener -> OutAddr \cup {None}]
           /\ openNode \in [Opener -> Node \cup {None}]
           /\ open[o] \notin HasNode => openNode[o] = None
BY DEF NodeInv, ThreadsInv, TypeOK, OpenOK

\* An opener that waits, looks for a connection or gives up has no node yet, and it
\* finds one only at a shared address.
LEMMA LooksKeep ==
    ASSUME NodeInv, NEW o \in Opener,
           \/ AcquireGrant(o) \/ LookForExisting(o) \/ ConnectSocketFails(o)
           \/ \E a \in OutAddr : OpenNetworkConnection(o, a)
    PROVE  PlacesInv' /\ ThreadsInv'
<1>1. /\ UNCHANGED <<vNodes, vNodesDisconnected, deleted, reaped, released, addrName, fInbound,
                     fNetworkNode, nRefCount, grantOutbound, sock, sockCopy, msg, msgCopy>>
      /\ open[o] \in {"idle", "granted", "checked", "connect"}
  BY DEF AcquireGrant, LookForExisting, ConnectSocketFails, OpenNetworkConnection, GiveUp,
         OpenUnchanged, places, flags
<1>2. /\ OpenOK(o) /\ OwnOK(o) /\ openNode[o] = None
      /\ open \in [Opener -> {"idle", "granted", "checked", "connect", "found", "addref", "opened",
                                  "clear", "give", "moved", "oneshot"}]
      /\ openAddr \in [Opener -> OutAddr \cup {None}]
      /\ openNode \in [Opener -> Node \cup {None}]
  BY <1>1, OpenerFacts DEF HasNode
<1>3. Fresh' = Fresh /\ \A n \in Node : IsShared(n)' <=> IsShared(n)
  BY <1>1, SameNode DEF Fresh
<1> DEFINE Others == \A p \in Opener : p # o => /\ open'[p] = open[p] /\ openAddr'[p] = openAddr[p]
                                                /\ openNode'[p] = openNode[p]
           NodeIs == \/ openNode'[o] = None
                     \/ openNode'[o] \in Node /\ IsShared(openNode'[o])
           Goal == Others /\ NodeIs /\ OpenOK(o)' /\ OwnOK(o)'
<1>4. ASSUME Others, openNode' = openNode, open'[o] \in {"idle", "granted"}, openAddr'[o] = None
      PROVE  Goal
  <2>1. NodeIs /\ OpenOK(o)'
    BY <1>2, <1>4 DEF OpenOK, HasNode
  <2>2. OwnOK(o)'
    BY <1>4 DEF OwnOK, HasNode
  <2> QED
    BY <1>4, <2>1, <2>2
<1>5. ASSUME AcquireGrant(o) PROVE Goal
  BY <1>2, <1>4, <1>5 DEF AcquireGrant, OpenOK
<1>6. ASSUME ConnectSocketFails(o) PROVE Goal
  BY <1>2, <1>4, <1>6 DEF ConnectSocketFails, GiveUp
<1>7. ASSUME NEW a \in OutAddr, OpenNetworkConnection(o, a) PROVE Goal
  <2>1. CASE FindNode(a) # {}
    BY <1>2, <1>4, <1>7, <2>1 DEF OpenNetworkConnection, GiveUp
  <2>2. CASE FindNode(a) = {}
    <3>1. /\ open' = [open EXCEPT ![o] = IF a \in ByName THEN "connect" ELSE "checked"]
          /\ openAddr' = [openAddr EXCEPT ![o] = a] /\ openNode' = openNode /\ a \in Target[o]
      BY <1>7, <2>2 DEF OpenNetworkConnection
    <3>2. Others /\ openNode'[o] = None /\ openAddr'[o] = a
            /\ open'[o] = IF a \in ByName THEN "connect" ELSE "checked"
      BY <1>2, <3>1
    <3>3. OpenOK(o)'
      BY <3>1, <3>2 DEF OpenOK, HasNode
    <3>4. a \notin ByName => \A n \in vNodes : Service(addrName[n]) # a
      BY <2>2 DEF FindNode
    <3>5. OwnOK(o)'
      BY <1>1, <3>2, <3>4 DEF OwnOK, HasNode, Service
    <3> QED
      BY <3>2, <3>3, <3>5
  <2> QED
    BY <2>1, <2>2
<1>8. ASSUME LookForExisting(o) PROVE Goal
  <2>1. /\ open[o] = "checked" /\ openAddr' = openAddr
        /\ openAddr[o] \in Target[o] /\ openAddr[o] \notin ByName
    BY <1>2, <1>8 DEF LookForExisting, OpenOK
  <2>2. AtShared(o)' <=> AtShared(o)
    BY <2>1, SameTarget
  <2>3. CASE FindNode(openAddr[o]) = {}
    <3>1. Others /\ open'[o] = "connect" /\ openNode'[o] = None /\ openAddr'[o] = openAddr[o]
      BY <1>2, <1>8, <2>1, <2>3 DEF LookForExisting
    <3>2. OpenOK(o)' /\ OwnOK(o)'
      BY <2>1, <3>1 DEF OpenOK, OwnOK, HasNode
    <3> QED
      BY <3>1, <3>2
  <2>4. CASE FindNode(openAddr[o]) # {}
    <3>1. PICK n \in FindNode(openAddr[o]) : openNode' = [openNode EXCEPT ![o] = n]
      BY <1>8, <2>4 DEF LookForExisting
    <3>2. n \in Node \ Fresh /\ n \in vNodes /\ Service(addrName[n]) = openAddr[o]
      BY <2>1 DEF FindNode, Fresh, NodeInv, TypeOK
    <3>3. AtShared(o)
      BY <1>2, <2>1, <3>2 DEF OwnOK
    <3>4. IsShared(n)
      BY <2>1, <3>2, <3>3 DEF IsShared, AtShared, Service
    <3>5. Others /\ open'[o] = "found" /\ openNode'[o] = n
      BY <1>2, <1>8, <2>1, <2>4, <3>1 DEF LookForExisting
    <3>6. OpenOK(o)'
      BY <1>3, <2>1, <2>2, <3>2, <3>3, <3>4, <3>5 DEF OpenOK, HasNode
    <3>7. OwnOK(o)'
      BY <2>2, <3>3 DEF OwnOK
    <3> QED
      BY <3>2, <3>4, <3>5, <3>6, <3>7
  <2> QED
    BY <2>3, <2>4
<1>9. Goal
  BY <1>5, <1>6, <1>7, <1>8
<1>10. open[o] \notin {"opened", "give"}
  BY <1>1
<1> QED
  BY <1>1, <1>9, <1>10, OpenerKeeps

\* AddRef of a node that was found: it is shared, and so is not counted exactly.
LEMMA AddRefKeeps ==
    ASSUME NodeInv, NEW o \in Opener, AddRefRead(o) \/ AddRefWrite(o)
    PROVE  PlacesInv' /\ ThreadsInv'
<1>1. /\ UNCHANGED <<vNodes, vNodesDisconnected, deleted, reaped, released, addrName, fInbound,
                     fNetworkNode, grantOutbound, sock, sockCopy, msg, msgCopy, openAddr, openNode>>
      /\ open[o] \in {"found", "addref"}
  BY DEF AddRefRead, AddRefWrite, OpenUnchanged, places, flags
<1>2. /\ openNode[o] \in Node \ Fresh /\ AtShared(o) /\ IsShared(openNode[o])
      /\ openAddr[o] \in Target[o] /\ openAddr[o] \notin ByName
  BY <1>1, OpenerFacts DEF OpenOK, OwnOK, HasNode
<1>3. /\ open'[o] \in {"addref", "opened"}
      /\ \A p \in Opener : p # o => open'[p] = open[p]
      /\ \A n \in Node : n # openNode[o] => nRefCount'[n] = nRefCount[n]
  BY DEF AddRefRead, AddRefWrite, NodeInv, TypeOK
<1>4. \A n \in Node : ~IsShared(n) => nRefCount'[n] = nRefCount[n]
  BY <1>2, <1>3
<1>5. /\ Fresh' = Fresh /\ (AtShared(o)' <=> AtShared(o))
      /\ \A n \in Node : IsShared(n)' <=> IsShared(n)
  BY <1>1, SameNode, SameTarget DEF Fresh
<1>6. OpenOK(o)'
  BY <1>1, <1>2, <1>3, <1>5 DEF OpenOK, HasNode
<1>7. OwnOK(o)'
  BY <1>2, <1>5 DEF OwnOK
<1>8. open[o] \notin {"opened", "give"}
  BY <1>1
<1> QED
  BY <1>1, <1>3, <1>4, <1>6, <1>7, <1>8, OpenerKeeps

\* MoveTo reaches a node that has not been deleted, because it still has its own
\* reference, and that nobody else gives a grant, unless it is shared.
LEMMA MoveToKeeps ==
    ASSUME NodeInv, NEW o \in Opener, MoveToRelease(o) \/ MoveToClear(o) \/ MoveToGive(o)
    PROVE  PlacesInv' /\ ThreadsInv'
<1>1. /\ UNCHANGED <<vNodes, vNodesDisconnected, deleted, reaped, released, addrName, fInbound,
                     fNetworkNode, nRefCount, sock, sockCopy, msg, msgCopy, openAddr, openNode>>
      /\ open[o] \in {"opened", "clear", "give"}
  BY DEF MoveToRelease, MoveToClear, MoveToGive, OpenUnchanged, places, flags
<1>2. /\ OpenOK(o) /\ OwnOK(o) /\ openNode[o] \in Node \ Fresh
      /\ (IsShared(openNode[o]) <=> AtShared(o)) /\ openAddr[o] \in Target[o]
      /\ open \in [Opener -> {"idle", "granted", "checked", "connect", "found", "addref", "opened",
                                  "clear", "give", "moved", "oneshot"}]
  BY <1>1, OpenerFacts DEF OpenOK, HasNode
<1>3. /\ Fresh' = Fresh /\ Refs' = Refs /\ (AtShared(o)' <=> AtShared(o))
      /\ \A n \in Node : IsShared(n)' <=> IsShared(n)
  BY <1>1, SameNode, SameTarget DEF Fresh, Refs
<1>4. /\ \A p \in Opener : p # o => open'[p] = open[p]
      /\ \A m \in Node : m # openNode[o] => grantOutbound'[m] = grantOutbound[m]
      /\ \/ open[o] = "opened" /\ open'[o] = "clear" /\ grantOutbound[openNode[o]]
         \/ /\ open[o] = "opened" /\ open'[o] = "give" /\ grantOutbound' = grantOutbound
            /\ ~grantOutbound[openNode[o]]
         \/ open[o] = "clear" /\ open'[o] = "give"
         \/ open[o] = "give" /\ open'[o] = "moved" /\ grantOutbound'[openNode[o]]
  <2>1. grantOutbound \in [Node -> BOOLEAN] /\ openNode[o] \in Node
    BY <1>2 DEF NodeInv, TypeOK
  <2>2. CASE MoveToRelease(o)
    BY <1>2, <2>2 DEF MoveToRelease
  <2>3. CASE MoveToClear(o)
    BY <1>2, <2>1, <2>3 DEF MoveToClear
  <2>4. CASE MoveToGive(o)
    BY <1>2, <2>1, <2>4 DEF MoveToGive
  <2> QED
    BY <2>2, <2>3, <2>4
<1>5. open'[o] \in {"clear", "give"} => openAddr[o] \notin NoGrant
  <2>1. open[o] = "opened" => openAddr[o] \notin NoGrant
    BY DEF MoveToRelease, MoveToClear, MoveToGive
  <2> QED
    BY <1>1, <1>2, <1>4, <2>1 DEF OpenOK
<1>6. OpenOK(o)'
  BY <1>1, <1>2, <1>3, <1>4, <1>5 DEF OpenOK, HasNode
<1>7. OwnOK(o)'
  <2> SUFFICES ASSUME ~AtShared(o) PROVE OwnOK(o)'
    BY <1>3 DEF OwnOK
  <2>1. /\ open[o] # "clear" /\ Made(o) /\ (\A p \in Opener \ {o} : openNode[p] # openNode[o])
        /\ ~grantOutbound[openNode[o]]
    BY <1>1, <1>2 DEF OwnOK, HasNode
  <2>2. Made(o)'
    BY <1>1, <1>3, <2>1 DEF Made
  <2>3. open'[o] \in {"give", "moved"} /\ (open'[o] = "give" => ~grantOutbound'[openNode[o]])
    BY <1>4, <2>1
  <2> QED
    BY <1>1, <2>1, <2>2, <2>3 DEF OwnOK, HasNode
<1>8. \A m \in Node : ~IsShared(m) /\ grantOutbound[m] => grantOutbound'[m]
  <2>1. ~IsShared(openNode[o]) => ~grantOutbound[openNode[o]]
    BY <1>1, <1>2 DEF OwnOK
  <2> QED
    BY <1>4, <2>1
<1>9. open[o] \in {"opened", "give"} /\ ~IsShared(openNode[o])
        => grantOutbound'[openNode[o]] \/ (open'[o] \in {"opened", "give"} /\ openNode'[o] = openNode[o])
  <2>1. ~IsShared(openNode[o]) => ~grantOutbound[openNode[o]]
    BY <1>1, <1>2 DEF OwnOK
  <2> QED
    BY <1>1, <1>4, <2>1
<1> QED
  BY <1>1, <1>4, <1>6, <1>7, <1>8, <1>9, OpenerKeeps

\* The same of the assignment of fNetworkNode; what a one-shot still does to the node
\* is no part of the invariant.
LEMMA SetKeeps ==
    ASSUME NodeInv, NEW o \in Opener, SetNetworkNode(o) \/ SetOneShot(o)
    PROVE  PlacesInv' /\ ThreadsInv'
<1>1. /\ UNCHANGED <<vNodes, vNodesDisconnected, deleted, reaped, released, addrName, fInbound,
                     nRefCount, grantOutbound, sock, sockCopy, msg, msgCopy>>
      /\ open[o] \in {"opened", "moved", "oneshot"}
      /\ open[o] = "opened" => openAddr[o] \in NoGrant
  BY DEF SetNetworkNode, SetOneShot, OpenUnchanged, places, flags
<1>2. /\ OpenOK(o) /\ OwnOK(o) /\ openNode[o] \in Node \ Fresh
      /\ (IsShared(openNode[o]) <=> AtShared(o)) /\ openAddr[o] \in Target[o]
      /\ open \in [Opener -> {"idle", "granted", "checked", "connect", "found", "addref", "opened",
                                  "clear", "give", "moved", "oneshot"}]
      /\ openAddr \in [Opener -> OutAddr \cup {None}]
      /\ openNode \in [Opener -> Node \cup {None}]
  BY <1>1, OpenerFacts DEF OpenOK, HasNode
<1>3. /\ Fresh' = Fresh
      /\ \A n \in Node : IsShared(n)' <=> IsShared(n)
  BY <1>1, SameNode DEF Fresh
<1>4. \/ Done(o)
      \/ open' = [open EXCEPT ![o] = "oneshot"] /\ UNCHANGED <<openNode, openAddr>>
  BY DEF SetNetworkNode, SetOneShot
<1>5. /\ \A p \in Opener : p # o => /\ open'[p] = open[p] /\ openAddr'[p] = openAddr[p]
                                    /\ openNode'[p] = openNode[p]
      /\ \/ open'[o] = "idle" /\ openAddr'[o] = None /\ openNode'[o] = None
         \/ open'[o] = "oneshot" /\ openAddr'[o] = openAddr[o] /\ openNode'[o] = openNode[o]
  BY <1>2, <1>4 DEF Done
<1>6. \A m \in Node : m # openNode[o] => fNetworkNode'[m] = fNetworkNode[m]
  BY DEF SetNetworkNode, SetOneShot, NodeInv, TypeOK, flags
<1>7. CASE open'[o] = "idle"
  <2>1. OpenOK(o)' /\ OwnOK(o)'
    BY <1>5, <1>7 DEF OpenOK, OwnOK, HasNode
  <2>2. open[o] \in {"opened", "give"} /\ ~IsShared(openNode[o]) => addrName[openNode[o]] \in NoGrant
    BY <1>1, <1>2 DEF OwnOK, Made
  <2> QED
    BY <1>1, <1>5, <1>6, <2>1, <2>2, OpenerKeeps
<1>8. CASE open'[o] = "oneshot"
  <2>1. AtShared(o)' <=> AtShared(o)
    BY <1>5, <1>8, SameTarget
  <2>2. OpenOK(o)'
    BY <1>2, <1>3, <1>5, <1>8, <2>1 DEF OpenOK, HasNode
  <2>3. OwnOK(o)'
    BY <1>1, <1>2, <1>5, <1>8, <2>1 DEF OwnOK, HasNode
  <2>4. open[o] \in {"opened", "give"} /\ ~IsShared(openNode[o]) => addrName[openNode[o]] \in NoGrant
    BY <1>1, <1>2 DEF OwnOK, Made
  <2> QED
    BY <1>1, <1>5, <1>6, <2>2, <2>3, <2>4, OpenerKeeps
<1> QED
  BY <1>5, <1>7, <1>8

\* Every step keeps the invariant of the nodes.
LEMMA NodeStep == NodeInv /\ FlagsFinite /\ [Next]_vars => NodeInv' /\ FlagsFinite'
<1> SUFFICES ASSUME NodeInv, FlagsFinite, [Next]_vars PROVE PlacesInv' /\ ThreadsInv'
  BY TypeStep, FlagsStep DEF NodeInv
<1>0. /\ sock # "service" => sockCopy = {}
      /\ sock # "delete" => reaped = {}
      /\ msg # "serve" => msgCopy = {}
  BY DEF NodeInv, PlacesInv
<1>1. CASE SocketHandler
  <2>1. CASE NoConnection
    BY <1>0, <2>1, FrameKept DEF NoConnection
  <2> QED
    BY <1>1, <2>1, ReapKeeps, DeleteKeeps, CopyKeeps DEF SocketHandler
<1>2. CASE MessageHandler
  <2>1. CASE RelaySent
    BY <1>0, <2>1, FrameKept DEF RelaySent
  <2> QED
    BY <1>2, <2>1, CopyKeeps DEF MessageHandler
<1>3. ASSUME NEW n \in Node, CloseSocket(n) \/ Misbehaving(n) \/ RelayCheckpoint(n)
      PROVE  PlacesInv' /\ ThreadsInv'
  BY <1>0, <1>3, FrameKept DEF CloseSocket, Misbehaving, RelayCheckpoint
<1>4. ASSUME NEW o \in Opener, AcquireGrant(o) \/ OpenStep(o)
      PROVE  PlacesInv' /\ ThreadsInv'
  BY <1>4, LooksKeep, AddRefKeeps, MoveToKeeps, SetKeeps, ConnectKeeps DEF OpenStep
<1>5. CASE UNCHANGED vars
  BY <1>0, <1>5, FrameKept DEF vars
<1> QED
  BY <1>1, <1>2, <1>3, <1>4, <1>5, AcceptKeeps DEF Next

-----------------------------------------------------------------------------
(* The grants.                                                              *)

\* Without shared nodes only the socket handler is between a post and the clearing.
LEMMA GrantedIs ==
    ASSUME NodeInv, NoneShared PROVE Granted = Flags \ released /\ \A o \in Opener : open[o] # "clear"
<1>1. \A o \in Opener : open[o] # "clear"
  BY DEF NodeInv, ThreadsInv, OpenOK, OwnOK, HasNode, NoneShared
<1> QED
  BY <1>1 DEF Granted, Posted, Flags

\* The same after a step.
LEMMA GrantedWillBe ==
    ASSUME NodeInv', NoneShared' PROVE Granted' = Flags' \ released'
<1>1. \A o \in Opener : open'[o] # "clear"
  BY DEF NodeInv, ThreadsInv, OpenOK, OwnOK, HasNode, NoneShared
<1> QED
  BY <1>1 DEF Granted, Posted, Flags

\* A node never loses its address, so that one that is shared stays shared.
LEMMA NoneSharedBefore == NodeInv /\ [Next]_vars /\ NoneShared' => NoneShared
<1> SUFFICES ASSUME NodeInv, [Next]_vars, NoneShared' PROVE NoneShared
  OBVIOUS
<1>1. \A n \in Node : addrName'[n] = addrName[n] \/ n \in Fresh
  <2>1. ASSUME NEW n \in Node, NEW a, AcceptConnection(n, a) PROVE \A m \in Node \ {n} : addrName'[m] = addrName[m]
    BY <2>1 DEF AcceptConnection, NodeInv, TypeOK
  <2>2. ASSUME NEW n \in Node, NEW o \in Opener, ConnectNode(o, n)
        PROVE \A m \in Node \ {n} : addrName'[m] = addrName[m]
    BY <2>2 DEF ConnectNode, NodeInv, TypeOK
  <2>3. CASE UNCHANGED vars
    BY <2>3 DEF vars, flags
  <2>4. CASE SocketHandler
    BY <2>4 DEF SocketHandler, ReapNodes, ReapDelete, NoConnection, SockCopyNodes, SockReleaseNodes, flags
  <2>5. CASE MessageHandler
    BY <2>5 DEF MessageHandler, MsgCopyNodes, RelaySent, MsgReleaseNodes, flags
  <2>6. ASSUME NEW n \in Node, CloseSocket(n) \/ Misbehaving(n) \/ RelayCheckpoint(n)
        PROVE  UNCHANGED addrName
    BY <2>6 DEF CloseSocket, Misbehaving, RelayCheckpoint, flags
  <2>7. ASSUME NEW o \in Opener, AcquireGrant(o) \/ OpenStep(o)
        PROVE  UNCHANGED addrName \/ \E n \in Node : ConnectNode(o, n)
    BY <2>7 DEF OpenStep, AcquireGrant, OpenNetworkConnection, GiveUp, LookForExisting, AddRefRead,
       AddRefWrite, ConnectSocketFails, MoveToRelease, MoveToClear, MoveToGive, SetNetworkNode,
       SetOneShot, flags
  <2>8. \A n \in Node, o \in Opener : ConnectNode(o, n) => n \in Fresh
    BY DEF ConnectNode
  <2>9. \A n \in Node, a \in InAddr : AcceptConnection(n, a) => n \in Fresh
    BY DEF AcceptConnection
  <2> QED
    BY <2>1, <2>2, <2>3, <2>4, <2>5, <2>6, <2>7, <2>8, <2>9 DEF Next
<1>2. \A n \in Fresh : ~IsShared(n)
  BY NoneNotShared DEF NodeInv, PlacesInv, IsShared
<1>3. \A n \in Node : addrName'[n] = addrName[n] => (IsShared(n)' <=> IsShared(n))
  BY SameNode
<1> QED
  BY <1>1, <1>2, <1>3 DEF NoneShared

\* The openers are finitely many, so that those with a grant can be counted.
LEMMA HoldersFinite ==
    ASSUME NEW S \in SUBSET Opener PROVE IsFiniteSet(S) /\ Cardinality(S) \in Nat
BY NodeAssumption, FS_Subset, FS_CardinalityType

\* Taking some of finitely many away.
LEMMA TakeAway ==
    ASSUME NEW G, IsFiniteSet(G), NEW S \in SUBSET G
    PROVE  /\ Cardinality(S) \in Nat /\ Cardinality(G \ S) \in Nat
           /\ Cardinality(G) = Cardinality(S) + Cardinality(G \ S)
<1>1. IsFiniteSet(S) /\ IsFiniteSet(G \ S)
  BY FS_Subset
<1>2. Cardinality(S \cup (G \ S))
        = Cardinality(S) + Cardinality(G \ S) - Cardinality(S \cap (G \ S))
  BY <1>1, FS_Union
<1>3. S \cup (G \ S) = G /\ S \cap (G \ S) = {}
  OBVIOUS
<1>4. Cardinality(S) \in Nat /\ Cardinality(G \ S) \in Nat
  BY <1>1, FS_CardinalityType
<1>5. Cardinality({}) = 0
  BY FS_EmptySet
<1>6. Cardinality(G) = Cardinality(S) + Cardinality(G \ S) - Cardinality({})
  BY <1>2, <1>3, Zenon
<1> QED
  BY <1>4, <1>5, <1>6

\* The sum that is conserved, of natural numbers.
Grants == semOutbound + Cardinality(Holders) + Cardinality(Granted)
LEMMA SumFacts ==
    ASSUME NodeInv, FlagsFinite
    PROVE  /\ IsFiniteSet(Holders) /\ Cardinality(Holders) \in Nat
           /\ IsFiniteSet(Granted) /\ Cardinality(Granted) \in Nat /\ semOutbound \in Nat
<1>1. Granted \in SUBSET Flags
  BY DEF Granted, Flags
<1> QED
  BY <1>1, FlagsCount, HoldersFinite DEF Holders, NodeInv, TypeOK

\* A step that leaves the semaphore and those with a grant alone.
LEMMA SumKept ==
    ASSUME UNCHANGED semOutbound, Holders' = Holders, Granted' = Granted PROVE Grants' = Grants
BY DEF Grants

\* Some nodes give back their grants.
LEMMA SumReturned ==
    ASSUME NodeInv, FlagsFinite, NEW back \in SUBSET Granted, Granted' = Granted \ back,
           semOutbound' = semOutbound + Cardinality(back), Holders' = Holders
    PROVE  Grants' = Grants
<1>1. /\ Cardinality(Holders) \in Nat /\ IsFiniteSet(Granted) /\ Cardinality(Granted) \in Nat
      /\ semOutbound \in Nat
  BY SumFacts
<1>2. /\ Cardinality(back) \in Nat /\ Cardinality(Granted \ back) \in Nat
      /\ Cardinality(Granted) = Cardinality(back) + Cardinality(Granted \ back)
  BY <1>1, TakeAway
<1>3. (semOutbound + Cardinality(back)) + Cardinality(Holders) + Cardinality(Granted \ back)
        = semOutbound + Cardinality(Holders) + Cardinality(Granted)
  BY <1>1, <1>2
<1> QED
  BY <1>3 DEF Grants

\* An opener returns its grant to the semaphore, or takes one out of it.
LEMMA SumMoved ==
    ASSUME NodeInv, FlagsFinite, Granted' = Granted, NEW o \in Opener,
           \/ o \in Holders /\ Holders' = Holders \ {o} /\ semOutbound' = semOutbound + 1
           \/ o \notin Holders /\ Holders' = Holders \cup {o} /\ semOutbound' = semOutbound - 1
    PROVE  Grants' = Grants
<1>1. /\ IsFiniteSet(Holders) /\ Cardinality(Holders) \in Nat /\ Cardinality(Granted) \in Nat
      /\ semOutbound \in Nat
  BY SumFacts
<1>2. CASE o \in Holders /\ Holders' = Holders \ {o} /\ semOutbound' = semOutbound + 1
  <2>1. Cardinality(Holders') = Cardinality(Holders) - 1
    BY <1>1, <1>2, FS_RemoveElement
  <2> QED
    BY <1>1, <1>2, <2>1 DEF Grants
<1>3. CASE o \notin Holders /\ Holders' = Holders \cup {o} /\ semOutbound' = semOutbound - 1
  <2>1. Cardinality(Holders') = Cardinality(Holders) + 1
    BY <1>1, <1>3, FS_AddElement
  <2> QED
    BY <1>1, <1>3, <2>1 DEF Grants
<1> QED
  BY <1>2, <1>3

\* An opener hands its grant to a node that has none.
LEMMA SumGiven ==
    ASSUME NodeInv, FlagsFinite, NEW o \in Holders, Holders' = Holders \ {o},
           NEW n, n \notin Granted, Granted' = Granted \cup {n}, UNCHANGED semOutbound
    PROVE  Grants' = Grants
<1>1. /\ IsFiniteSet(Holders) /\ Cardinality(Holders) \in Nat
      /\ IsFiniteSet(Granted) /\ Cardinality(Granted) \in Nat /\ semOutbound \in Nat
  BY SumFacts
<1>2. Cardinality(Holders') = Cardinality(Holders) - 1
  BY <1>1, FS_RemoveElement
<1>3. Cardinality(Granted') = Cardinality(Granted) + 1
  BY <1>1, FS_AddElement
<1> QED
  BY <1>1, <1>2, <1>3 DEF Grants

\* Disconnection posts what it takes from the nodes that leave vNodes.
LEMMA ReapGrants ==
    ASSUME NodeInv, FlagsFinite, NoneShared, NodeInv', NoneShared', ReapNodes PROVE Grants' = Grants
<1>1. PICK gone \in SUBSET vNodes :
             /\ released' = GrantsBack(gone)
             /\ semOutbound' = semOutbound + Cardinality(GrantsBack(gone))
  BY ReapChoice DEF NodeInv
<1>2. UNCHANGED <<grantOutbound, open, openAddr>> /\ sock = "reap"
  BY Zenon DEF ReapNodes, openers
<1>3. released = {}
  BY <1>2 DEF NodeInv, PlacesInv, TypeOK
<1>4. Flags' = Flags /\ Holders' = Holders
  BY <1>2 DEF Flags, Holders
<1>5. Granted = Flags /\ Granted' = Granted \ GrantsBack(gone)
  BY <1>1, <1>3, <1>4, GrantedIs, GrantedWillBe
<1>6. GrantsBack(gone) \in SUBSET Granted
  BY <1>5 DEF GrantsBack, Flags, NodeInv, TypeOK
<1> QED
  BY <1>1, <1>4, <1>5, <1>6, SumReturned

\* Deletion posts what a late MoveTo gave a node that is deleted.
LEMMA DeleteGrants ==
    ASSUME NodeInv, FlagsFinite, NoneShared, NodeInv', NoneShared', ReapDelete PROVE Grants' = Grants
<1> DEFINE refs == Add(Releases(reaped), -1)
           dead == Deletable(vNodesDisconnected \cup reaped, refs)
           late == GrantsBack(dead \ released)
<1>1. /\ semOutbound' = semOutbound + Cardinality(late)
      /\ grantOutbound' = [n \in Node |-> grantOutbound[n] /\ n \notin released \cup late]
      /\ released' = {} /\ UNCHANGED <<open, openAddr>>
  BY Zenon DEF ReapDelete, openers
<1>2. late \subseteq Flags \ released
  BY DEF Deletable, GrantsBack, Flags, NodeInv, TypeOK
<1> HIDE DEF refs, dead, late
<1>3. Flags' = (Flags \ released) \ late
  BY <1>1, Zenon DEF Flags
<1>4. Granted' = Granted \ late /\ late \in SUBSET Granted
  BY <1>1, <1>2, <1>3, GrantedIs, GrantedWillBe
<1>5. Holders' = Holders
  BY <1>1 DEF Holders
<1> QED
  BY <1>1, <1>4, <1>5, SumReturned

\* A step that leaves the flags alone leaves the grants of the nodes alone.
LEMMA SameGranted ==
    ASSUME NodeInv, NoneShared, NodeInv', NoneShared', UNCHANGED <<grantOutbound, released>>
    PROVE  Granted' = Granted
<1>1. Flags' = Flags
  BY DEF Flags
<1> QED
  BY <1>1, GrantedIs, GrantedWillBe

\* The steps of an opener.
LEMMA OpenerGrants ==
    ASSUME NodeInv, FlagsFinite, NoneShared, NodeInv', NoneShared', NEW o \in Opener,
           AcquireGrant(o) \/ OpenStep(o)
    PROVE  Grants' = Grants
<1>0. /\ OpenOK(o) /\ OwnOK(o)
      /\ open \in [Opener -> {"idle", "granted", "checked", "connect", "found", "addref", "opened",
                                  "clear", "give", "moved", "oneshot"}]
      /\ openAddr \in [Opener -> OutAddr \cup {None}]
      /\ None \notin NoGrant
  BY OpenerFacts, NodeAssumption
<1>1. ASSUME NEW a, GiveUp(o, a), a \notin NoGrant => o \in Holders, a \in NoGrant => o \notin Holders
      PROVE  Grants' = Grants
  <2>1. Granted' = Granted
    BY <1>1, SameGranted DEF GiveUp, places
  <2>2. Holders' = Holders \ {o}
    BY <1>0, <1>1 DEF GiveUp, Holders
  <2>3. CASE a \in NoGrant
    <3>1. Holders' = Holders
      BY <1>1, <2>2, <2>3
    <3>2. semOutbound' = semOutbound
      BY <1>1, <2>3 DEF GiveUp, NodeInv, TypeOK
    <3> QED
      BY <2>1, <3>1, <3>2, SumKept
  <2>4. CASE a \notin NoGrant
    BY <1>1, <2>1, <2>2, <2>4, SumMoved DEF GiveUp
  <2> QED
    BY <2>3, <2>4
<1>2. CASE AcquireGrant(o)
  <2>1. Granted' = Granted
    BY <1>2, SameGranted DEF AcquireGrant, places
  <2>2. o \notin Holders /\ Holders' = Holders \cup {o}
    BY <1>0, <1>2 DEF AcquireGrant, Holders, OpenOK
  <2> QED
    BY <1>2, <2>1, <2>2, SumMoved DEF AcquireGrant
<1>3. ASSUME NEW a \in OutAddr, OpenNetworkConnection(o, a) PROVE Grants' = Grants
  <2>1. open[o] = IF a \in NoGrant THEN "idle" ELSE "granted"
    BY <1>3 DEF OpenNetworkConnection
  <2>2. (a \notin NoGrant => o \in Holders) /\ (a \in NoGrant => o \notin Holders)
    BY <1>0, <2>1 DEF Holders, OpenOK
  <2>3. CASE FindNode(a) # {}
    BY <1>1, <1>3, <2>2, <2>3 DEF OpenNetworkConnection
  <2>4. CASE FindNode(a) = {}
    <3>1. /\ open' = [open EXCEPT ![o] = IF a \in ByName THEN "connect" ELSE "checked"]
          /\ openAddr' = [openAddr EXCEPT ![o] = a]
          /\ UNCHANGED <<grantOutbound, released, semOutbound>>
      BY <1>3, <2>4 DEF OpenNetworkConnection, places
    <3>2. Holders' = Holders
      BY <1>0, <2>2, <3>1 DEF Holders
    <3> QED
      BY <3>1, <3>2, SameGranted, SumKept
  <2> QED
    BY <2>3, <2>4
<1>4. CASE ConnectSocketFails(o)
  <2>1. (openAddr[o] \notin NoGrant => o \in Holders) /\ (openAddr[o] \in NoGrant => o \notin Holders)
    BY <1>4 DEF ConnectSocketFails, Holders
  <2> QED
    BY <1>1, <1>4, <2>1 DEF ConnectSocketFails
<1>5. ASSUME UNCHANGED <<grantOutbound, released, semOutbound, openAddr>>, NEW s,
             open' = [open EXCEPT ![o] = s],
             open[o] \notin {"idle", "moved", "oneshot"}, s \notin {"idle", "moved", "oneshot"}
      PROVE  Grants' = Grants
  <2>1. Holders' = Holders
    BY <1>0, <1>5 DEF Holders
  <2> QED
    BY <1>5, <2>1, SameGranted, SumKept
<1>6. CASE LookForExisting(o)
  <2>1. \E s \in {"connect", "found"} : open' = [open EXCEPT ![o] = s]
    BY <1>6 DEF LookForExisting
  <2>2. UNCHANGED <<grantOutbound, released, semOutbound, openAddr>> /\ open[o] = "checked"
    BY <1>6 DEF LookForExisting, places
  <2> QED
    BY <1>5, <2>1, <2>2
<1>7. CASE AddRefRead(o) \/ AddRefWrite(o)
  <2>1. \E s \in {"addref", "opened"} : open' = [open EXCEPT ![o] = s]
    BY <1>7 DEF AddRefRead, AddRefWrite
  <2>2. UNCHANGED <<grantOutbound, released, semOutbound, openAddr>> /\ open[o] \in {"found", "addref"}
    BY <1>7 DEF AddRefRead, AddRefWrite, places
  <2> QED
    BY <1>5, <2>1, <2>2
<1>8. ASSUME NEW n \in Node, ConnectNode(o, n) PROVE Grants' = Grants
  <2>1. /\ UNCHANGED <<grantOutbound, released, semOutbound, openAddr>> /\ open[o] = "connect"
        /\ open' = [open EXCEPT ![o] = "opened"]
    BY <1>8 DEF ConnectNode
  <2> QED
    BY <1>5, <2>1
<1>9. ASSUME open[o] \in {"opened", "give"}
      PROVE  openNode[o] \in Node /\ ~grantOutbound[openNode[o]]
  BY <1>0, <1>9 DEF OpenOK, OwnOK, HasNode, NoneShared
<1>10. CASE MoveToRelease(o)
  <2>1. /\ UNCHANGED <<grantOutbound, released, semOutbound, openAddr>> /\ open[o] = "opened"
        /\ open' = [open EXCEPT ![o] = "give"]
    BY <1>9, <1>10 DEF MoveToRelease, places
  <2> QED
    BY <1>5, <2>1
<1>11. CASE MoveToClear(o)
  BY <1>11, GrantedIs DEF MoveToClear
<1>12. CASE MoveToGive(o)
  <2>1. openNode[o] \in Node /\ ~grantOutbound[openNode[o]]
    BY <1>9, <1>12 DEF MoveToGive
  <2>2. openNode[o] \notin released
    <3>1. \A n \in released : grantOutbound[n]
      BY DEF NodeInv, PlacesInv, TypeOK, NoneShared
    <3> QED
      BY <2>1, <3>1
  <2>3. Flags' = Flags \cup {openNode[o]} /\ openNode[o] \notin Flags /\ released' = released
    BY <1>12, <2>1 DEF MoveToGive, Flags, NodeInv, TypeOK, places
  <2>4. openNode[o] \notin Granted /\ Granted' = Granted \cup {openNode[o]}
    BY <2>2, <2>3, GrantedIs, GrantedWillBe
  <2>5. o \in Holders /\ Holders' = Holders \ {o} /\ UNCHANGED semOutbound
    BY <1>0, <1>12 DEF MoveToGive, Holders, OpenOK
  <2> QED
    BY <2>4, <2>5, SumGiven
<1>13. CASE SetNetworkNode(o) \/ SetOneShot(o)
  <2>1. UNCHANGED <<grantOutbound, released, semOutbound>>
    BY <1>13 DEF SetNetworkNode, SetOneShot, places
  <2>2. /\ \A p \in Opener : p # o => open'[p] = open[p] /\ openAddr'[p] = openAddr[p]
        /\ open'[o] \in {"idle", "oneshot"} /\ o \notin Holders
    BY <1>0, <1>13 DEF SetNetworkNode, SetOneShot, Done, Holders
  <2>3. Holders' = Holders
    BY <2>2 DEF Holders
  <2> QED
    BY <2>1, <2>3, SameGranted, SumKept
<1> QED
  BY <1>2, <1>3, <1>4, <1>6, <1>7, <1>8, <1>10, <1>11, <1>12, <1>13 DEF OpenStep

\* Every step conserves the grants, as long as no node is shared.
LEMMA GrantStep ==
    NodeInv /\ FlagsFinite /\ GrantsConserved /\ NodeInv' /\ [Next]_vars => GrantsConserved'
<1> SUFFICES ASSUME NodeInv, FlagsFinite, GrantsConserved, NodeInv', [Next]_vars, NoneShared'
             PROVE  Grants' = Grants
  BY NoneSharedBefore DEF GrantsConserved, Grants
<1>0. NoneShared
  BY NoneSharedBefore
<1>1. ASSUME UNCHANGED <<semOutbound, grantOutbound, released, open, openAddr>> PROVE Grants' = Grants
  <2>1. Holders' = Holders
    BY <1>1 DEF Holders
  <2> QED
    BY <1>0, <1>1, <2>1, SameGranted, SumKept
<1>2. CASE SocketHandler
  BY <1>0, <1>1, <1>2, ReapGrants, DeleteGrants
  DEF SocketHandler, NoConnection, SockCopyNodes, SockReleaseNodes, places, openers
<1>3. CASE MessageHandler
  BY <1>1, <1>3 DEF MessageHandler, MsgCopyNodes, RelaySent, MsgReleaseNodes, places, openers
<1>4. ASSUME NEW n \in Node, CloseSocket(n) \/ Misbehaving(n) \/ RelayCheckpoint(n)
      PROVE  Grants' = Grants
  BY <1>1, <1>4 DEF CloseSocket, Misbehaving, RelayCheckpoint, places, openers
<1>5. ASSUME NEW n \in Node, NEW a \in InAddr, AcceptConnection(n, a) PROVE Grants' = Grants
  BY <1>1, <1>5 DEF AcceptConnection, openers
<1>6. CASE UNCHANGED vars
  BY <1>1, <1>6 DEF vars, places, openers
<1> QED
  BY <1>0, <1>2, <1>3, <1>4, <1>5, <1>6, OpenerGrants DEF Next

-----------------------------------------------------------------------------
(* The theorems.                                                            *)

\* The invariant, from its initial case and its step.
LEMMA NodeInvHolds == Spec => [](NodeInv /\ FlagsFinite /\ GrantsConserved)
BY NodeInit, NodeStep, GrantStep, PTL DEF Spec

\* The variables of the threads and nodes keep their types, whatever addresses the
\* openers share; in particular semOutbound never goes below zero.
THEOREM NodeTypes == Spec => []TypeOK
BY NodeInvHolds, PTL DEF NodeInv

\* CSemaphoreGrant: until a connection to a shared address exists, no grant of
\* semOutbound is lost or made, though Release tests, posts and clears without a
\* lock: through failed connections, disconnections before, while and after the
\* grant moves, opens without a grant and one-shots.
THEOREM GrantsAlwaysConserved == Spec => []GrantsConserved
BY NodeInvHolds, PTL

\* ThreadSocketHandler2, "wait until threads are done using it": for any number of
\* nodes and openers, by name or by address, the node a handler or an opener works
\* on is not deleted, unless its address is shared or the opener is at the write of
\* fOneShot.
THEOREM HeldNodesAreAlive == Spec => []HeldIsAlive
<1>1. NodeInv => HeldIsAlive
  <2> SUFFICES ASSUME NodeInv, NEW n \in Held \cap deleted, ~IsShared(n) PROVE FALSE
    BY DEF HeldIsAlive
  <2>1. n \in Node /\ n \notin sockCopy \cup msgCopy
    BY DEF NodeInv, ThreadsInv, RefCountOK, TypeOK
  <2>2. PICK o \in Opener : openNode[o] = n /\ open[o] # "oneshot"
    BY <2>1 DEF Held
  <2>3. /\ OpenOK(o) /\ OwnOK(o) /\ open[o] \in HasNode
    BY <2>1, <2>2, OpenerFacts, NodeAssumption
  <2>4. ~AtShared(o)
    BY <2>2, <2>3 DEF OpenOK
  <2>5. open[o] \in {"opened", "give", "moved"}
    BY <2>2, <2>3, <2>4 DEF OwnOK, HasNode
  <2> QED
    BY <2>2, <2>3, <2>4, <2>5 DEF OwnOK, Made
<1> QED
  BY <1>1, NodeInvHolds, PTL

\* AddRef and Release: the count of a node that is not shared is its own reference
\* and those of the handlers, so that GetRefCount's assertion holds of it.
THEOREM RefCountsAreExact == Spec => []RefCountExact
<1>1. NodeInv => RefCountExact
  <2> SUFFICES ASSUME NodeInv, NEW n \in Node, ~IsShared(n)
               PROVE  \/ n \in vNodes \cup reaped /\ nRefCount[n] = Refs[n] + 1
                      \/ n \in vNodesDisconnected /\ nRefCount[n] \in {Refs[n], Refs[n] + 1}
                      \/ n \notin vNodes \cup reaped \cup vNodesDisconnected /\ nRefCount[n] = 0
    BY DEF RefCountExact
  <2>1. n \in Fresh => nRefCount[n] = 0
    BY DEF NodeInv, PlacesInv
  <2>2. RefCountOK(n)
    BY DEF NodeInv, ThreadsInv
  <2> QED
    BY <2>1, <2>2 DEF RefCountOK, Fresh
<1> QED
  BY <1>1, NodeInvHolds, PTL

\* The outbound connections that -connect has not made and what is left of semOutbound
\* are together never more than it had, until a connection to a shared address
\* exists: each holds a grant, or the opener that made it does.
THEOREM OutboundAlwaysBounded == Spec => []OutboundBounded
<1>1. NodeInv /\ FlagsFinite /\ GrantsConserved => OutboundBounded
  <2> SUFFICES ASSUME NodeInv, FlagsFinite, GrantsConserved, NoneShared PROVE OutboundBounded
    BY DEF OutboundBounded
  <2> DEFINE Outbound == { n \in vNodes : ~fInbound[n] /\ addrName[n] \notin NoGrant }
             Opened == { o \in Opener : open[o] \in {"opened", "give"} /\ openAddr[o] \notin NoGrant }
             Reached == { openNode[o] : o \in Opened }
             f == [o \in Opened |-> openNode[o]]
  <2>0. Granted = Flags \ released
    BY GrantedIs
  <2>1. Outbound \subseteq Granted \cup Reached
    <3> SUFFICES ASSUME NEW n \in vNodes, ~fInbound[n], addrName[n] \notin NoGrant, n \notin Granted
                 PROVE  n \in Reached
      OBVIOUS
    <3>1. n \in Node /\ n \notin released /\ ~IsShared(n)
      BY DEF NodeInv, TypeOK, PlacesInv, NoneShared
    <3>2. ~grantOutbound[n]
      BY <2>0, <3>1 DEF Flags
    <3>3. PICK o \in Opener : open[o] \in {"opened", "give"} /\ openNode[o] = n
      BY <3>1, <3>2 DEF NodeInv, ThreadsInv, OutboundOK
    <3>4. addrName[n] = openAddr[o]
      BY <3>1, <3>3, OpenerFacts DEF OpenOK, OwnOK, Made, HasNode
    <3> QED
      BY <3>3, <3>4
  <2>2. Opened \subseteq Holders
    BY DEF Holders
  <2>3. IsFiniteSet(Opened) /\ Cardinality(Opened) \in Nat
    BY HoldersFinite
  <2>4. Cardinality(Opened) <= Cardinality(Holders) /\ Cardinality(Holders) \in Nat
    BY <2>2, HoldersFinite, FS_Subset DEF Holders
  <2>5. f \in Surjection(Opened, Reached)
    BY DEF Surjection
  <2>6. /\ IsFiniteSet(Reached) /\ Cardinality(Reached) <= Cardinality(Opened)
        /\ Cardinality(Reached) \in Nat
    BY <2>3, <2>5, FS_Surjection, FS_CardinalityType
  <2>7. IsFiniteSet(Granted) /\ Cardinality(Granted) \in Nat /\ semOutbound \in Nat
    BY SumFacts
  <2> HIDE DEF Outbound, Opened, Reached
  <2>8. /\ IsFiniteSet(Granted \cup Reached)
        /\ Cardinality(Granted \cup Reached) <= Cardinality(Granted) + Cardinality(Reached)
        /\ Cardinality(Granted \cup Reached) \in Nat
    <3>1. IsFiniteSet(Granted \cap Reached)
      BY <2>7, FS_Subset
    <3>2. Cardinality(Granted \cap Reached) \in Nat
      BY <3>1, FS_CardinalityType
    <3>3. /\ IsFiniteSet(Granted \cup Reached)
          /\ Cardinality(Granted \cup Reached)
               = Cardinality(Granted) + Cardinality(Reached) - Cardinality(Granted \cap Reached)
      BY <2>6, <2>7, FS_Union
    <3>4. Cardinality(Granted \cup Reached) \in Nat
      BY <3>3, FS_CardinalityType
    <3> QED
      BY <2>6, <2>7, <3>2, <3>3, <3>4
  <2>9. Cardinality(Outbound) <= Cardinality(Granted \cup Reached) /\ Cardinality(Outbound) \in Nat
    BY <2>1, <2>8, FS_Subset, FS_CardinalityType
  <2>10. semOutbound + Cardinality(Holders) + Cardinality(Granted) = MaxOutbound
    BY DEF GrantsConserved
  <2>11. Cardinality(Outbound) + semOutbound <= MaxOutbound
    BY <2>3, <2>4, <2>6, <2>7, <2>8, <2>9, <2>10, NodeAssumption
  <2> QED
    BY <2>11 DEF OutboundBounded, Outbound
<1> QED
  BY <1>1, NodeInvHolds, PTL

=============================================================================
