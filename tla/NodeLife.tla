------------------------------ MODULE NodeLife ------------------------------
(***************************************************************************)
(* The life of a CNode (net.cpp, net.h): the threads that open connections,  *)
(* the socket handler that accepts, serves, disconnects and deletes, and the *)
(* message handler.  A step is one critical section under cs_vNodes, or      *)
(* what a thread does to one node outside of it.  nRefCount is a plain int:  *)
(* an AddRef outside of cs_vNodes is a read and a write.                     *)
(*                                                                          *)
(* The TRY_LOCKs before the deletion of a node fail only while a thread that *)
(* holds a reference works on it, and then nRefCount already keeps it.       *)
(*                                                                          *)
(* A CSemaphoreGrant has no lock: Release tests fHaveGrant, posts and only   *)
(* then clears it.  A post enables, and disables nothing, so that the test   *)
(* and the post are one step and the clearing is another.                    *)
(***************************************************************************)
EXTENDS Integers, FiniteSets

CONSTANTS
    Node,               \* the CNode objects, each used for one connection
    Opener,             \* the threads that call OpenNetworkConnection
    Target,             \* the destinations an opener connects to
    ByName,             \* the destinations given to ConnectNode as pszDest
    Resolve,            \* the address ConnectSocketByName finds for a name
    OneShot,            \* the names of ProcessOneShot
    NoGrant,            \* the names of -connect, opened with a NULL grant
    InAddr,             \* the addresses (with port) inbound peers come from
    MaxOutbound,        \* semOutbound at the start
    MaxInbound,         \* -maxconnections without MAX_OUTBOUND_CONNECTIONS
    PendingCheckpoints, \* whether AcceptPendingSyncCheckpoint relays a message
    None

OutAddr == UNION { Target[o] : o \in Opener }

\* pnode->addr of a node whose addrName is d.
Service(d) == IF d \in ByName THEN Resolve[d] ELSE d

ASSUME NodeAssumption ==
    /\ Target \in [Opener -> SUBSET OutAddr]
    /\ OneShot \subseteq ByName /\ NoGrant \subseteq ByName /\ None \notin ByName
    /\ InAddr \cap ByName = {}
    /\ None \notin Node \cup OutAddr \cup InAddr
    /\ IsFiniteSet(Opener)
    /\ MaxOutbound \in Nat /\ MaxInbound \in Nat
    /\ PendingCheckpoints \in BOOLEAN

VARIABLES
    vNodes, vNodesDisconnected, deleted,   \* the places of a node
    reaped,             \* the nodes being moved between the two vectors
    released,           \* those of them whose grant was posted and not yet cleared
    addrName, fInbound, fNetworkNode, fDisconnect, nRefCount,
    grantOutbound,      \* whether the node holds a grant of semOutbound
    semOutbound,
    sock, sockCopy,     \* the socket handler and its vNodesCopy
    msg, msgCopy,       \* the message handler and its vNodesCopy
    relay,              \* the node a relay without cs_vNodes is about to use
    open, openAddr, openNode, openRef   \* the openers, and the nRefCount they read

places == <<vNodes, vNodesDisconnected, deleted, reaped, released>>
flags == <<addrName, fInbound, fNetworkNode>>
openers == <<open, openAddr, openNode, openRef>>
vars == <<places, flags, fDisconnect, nRefCount, grantOutbound, semOutbound, sock, sockCopy, msg,
          msgCopy, relay, openers>>

TypeOK ==
    /\ vNodes \subseteq Node /\ vNodesDisconnected \subseteq Node /\ deleted \subseteq Node
    /\ reaped \subseteq Node /\ released \subseteq reaped
    /\ addrName \in [Node -> OutAddr \cup InAddr \cup {None}]
    /\ fInbound \in [Node -> BOOLEAN] /\ fNetworkNode \in [Node -> BOOLEAN]
    /\ fDisconnect \in [Node -> BOOLEAN] /\ grantOutbound \in [Node -> BOOLEAN]
    /\ nRefCount \in [Node -> Int]
    /\ semOutbound \in Nat
    /\ sock \in {"reap", "delete", "accept", "copy", "service"} /\ sockCopy \subseteq Node
    /\ msg \in {"copy", "serve"} /\ msgCopy \subseteq Node
    /\ relay \in Node \cup {None}
    /\ open \in [Opener -> {"idle", "granted", "checked", "connect", "found", "addref", "opened",
                            "clear", "give", "moved", "oneshot"}]
    /\ openAddr \in [Opener -> OutAddr \cup {None}]
    /\ openNode \in [Opener -> Node \cup {None}]
    /\ openRef \in [Opener -> Int]

Init ==
    /\ vNodes = {} /\ vNodesDisconnected = {} /\ deleted = {} /\ reaped = {} /\ released = {}
    /\ addrName = [n \in Node |-> None]
    /\ fInbound = [n \in Node |-> FALSE] /\ fNetworkNode = [n \in Node |-> FALSE]
    /\ fDisconnect = [n \in Node |-> FALSE] /\ grantOutbound = [n \in Node |-> FALSE]
    /\ nRefCount = [n \in Node |-> 0]
    /\ semOutbound = MaxOutbound
    /\ sock = "reap" /\ sockCopy = {}
    /\ msg = "copy" /\ msgCopy = {}
    /\ relay = None
    /\ open = [o \in Opener |-> "idle"]
    /\ openAddr = [o \in Opener |-> None] /\ openNode = [o \in Opener |-> None]
    /\ openRef = [o \in Opener |-> 0]

Fresh == Node \ (vNodes \cup vNodesDisconnected \cup deleted \cup reaped)

\* FindNode of a name, and of an address.
FindNode(a) ==
    { n \in vNodes : (IF a \in ByName THEN addrName[n] ELSE Service(addrName[n])) = a }

Add(S, d) == [n \in Node |-> IF n \in S THEN nRefCount[n] + d ELSE nRefCount[n]]

-----------------------------------------------------------------------------
(* ThreadSocketHandler2.                                                    *)

\* Mutant: a disconnected node is deleted at once.
Deletable_AtOnce(disconnected, refs) == disconnected

\* "wait until threads are done using it".
Deletable(disconnected, refs) == { n \in disconnected : refs[n] <= 0 }

\* "hold in disconnected pool until all refs are released".
Releases(S) == { n \in S : fNetworkNode[n] \/ fInbound[n] }

\* grantOutbound.Release() of a disconnected node: test and post.
GrantsBack(S) == { n \in S : grantOutbound[n] }

\* The nodes to disconnect: those marked, and any unused ones whose buffers are
\* empty.  They leave vNodes, and Release posts the grants it sees.  cs_vNodes
\* stays locked until ReapDelete.
ReapNodes ==
    /\ sock = "reap"
    /\ \E unused \in SUBSET { n \in vNodes : nRefCount[n] <= 0 } :
         LET gone == unused \cup { n \in vNodes : fDisconnect[n] }
         IN  /\ vNodes' = vNodes \ gone
             /\ reaped' = gone
             /\ released' = GrantsBack(gone)
             /\ semOutbound' = semOutbound + Cardinality(GrantsBack(gone))
    /\ sock' = "delete"
    /\ UNCHANGED <<vNodesDisconnected, deleted, flags, fDisconnect, nRefCount, grantOutbound,
                   sockCopy, msg, msgCopy, relay, openers>>

\* Release clears the grants, the nodes are closed and put into the disconnected
\* pool.  Then the nodes nobody refers to are deleted, and the destructor of
\* their grant releases what a late MoveTo gave them.
ReapDelete ==
    /\ sock = "delete"
    /\ LET refs == Add(Releases(reaped), -1)
           dead == Deletable(vNodesDisconnected \cup reaped, refs)
           late == GrantsBack(dead \ released)
       IN  /\ vNodesDisconnected' = (vNodesDisconnected \cup reaped) \ dead
           /\ deleted' = deleted \cup dead
           /\ nRefCount' = refs
           /\ semOutbound' = semOutbound + Cardinality(late)
           /\ grantOutbound' = [n \in Node |-> grantOutbound[n] /\ n \notin released \cup late]
    /\ fDisconnect' = [n \in Node |-> fDisconnect[n] \/ n \in reaped]
    /\ reaped' = {} /\ released' = {}
    /\ sock' = "accept"
    /\ UNCHANGED <<vNodes, flags, sockCopy, msg, msgCopy, relay, openers>>

\* The socket handler does not hold cs_vNodes.
Unlocked == sock # "delete"

NoConnection ==
    /\ sock = "accept" /\ sock' = "copy"
    /\ UNCHANGED <<places, flags, fDisconnect, nRefCount, grantOutbound, semOutbound, sockCopy,
                   msg, msgCopy, relay, openers>>

AcceptConnection(n, a) ==
    /\ sock = "accept"
    /\ Cardinality({ m \in vNodes : fInbound[m] }) < MaxInbound
    /\ n \in Fresh
    /\ vNodes' = vNodes \cup {n}
    /\ addrName' = [addrName EXCEPT ![n] = a]
    /\ fInbound' = [fInbound EXCEPT ![n] = TRUE]
    /\ nRefCount' = Add({n}, 1)
    /\ sock' = "copy"
    /\ UNCHANGED <<vNodesDisconnected, deleted, reaped, released, fNetworkNode, fDisconnect, grantOutbound,
                   semOutbound, sockCopy, msg, msgCopy, relay, openers>>

SockCopyNodes ==
    /\ sock = "copy"
    /\ sockCopy' = vNodes /\ nRefCount' = Add(vNodes, 1)
    /\ sock' = "service"
    /\ UNCHANGED <<places, flags, fDisconnect, grantOutbound, semOutbound, msg, msgCopy, relay,
                   openers>>

\* A socket error, a closed connection, a flood or a timeout.
CloseSocket(n) ==
    /\ n \in (IF sock = "service" THEN sockCopy ELSE {})
    /\ ~fDisconnect[n]
    /\ fDisconnect' = [fDisconnect EXCEPT ![n] = TRUE]
    /\ UNCHANGED <<places, flags, nRefCount, grantOutbound, semOutbound, sock, sockCopy, msg,
                   msgCopy, relay, openers>>

SockReleaseNodes ==
    /\ sock = "service"
    /\ nRefCount' = Add(sockCopy, -1)
    /\ sockCopy' = {} /\ sock' = "reap"
    /\ UNCHANGED <<places, flags, fDisconnect, grantOutbound, semOutbound, msg, msgCopy, relay,
                   openers>>

-----------------------------------------------------------------------------
(* ThreadMessageHandler2.                                                   *)

\* Mutant: the message handler takes no references.
MsgCopyNodes_NoRef ==
    /\ msg = "copy" /\ Unlocked
    /\ msgCopy' = vNodes /\ msg' = "serve"
    /\ UNCHANGED <<places, flags, fDisconnect, nRefCount, grantOutbound, semOutbound, sock,
                   sockCopy, relay, openers>>

MsgCopyNodes ==
    /\ msg = "copy" /\ Unlocked
    /\ msgCopy' = vNodes /\ nRefCount' = Add(vNodes, 1)
    /\ msg' = "serve"
    /\ UNCHANGED <<places, flags, fDisconnect, grantOutbound, semOutbound, sock, sockCopy, relay,
                   openers>>

\* ProcessMessages fails or the peer misbehaves: CloseSocketDisconnect.
Misbehaving(n) ==
    /\ msg = "serve" /\ n \in msgCopy /\ ~fDisconnect[n]
    /\ fDisconnect' = [fDisconnect EXCEPT ![n] = TRUE]
    /\ UNCHANGED <<places, flags, nRefCount, grantOutbound, semOutbound, sock, sockCopy, msg,
                   msgCopy, relay, openers>>

\* AcceptPendingSyncCheckpoint, called while a block message is handled, walks
\* vNodes without cs_vNodes: it reads a pointer and then sends to the node.
RelayCheckpoint(n) ==
    /\ PendingCheckpoints
    /\ msg = "serve" /\ msgCopy # {}
    /\ relay = None /\ n \in vNodes
    /\ relay' = n
    /\ UNCHANGED <<places, flags, fDisconnect, nRefCount, grantOutbound, semOutbound, sock,
                   sockCopy, msg, msgCopy, openers>>

RelaySent ==
    /\ relay # None /\ relay' = None
    /\ UNCHANGED <<places, flags, fDisconnect, nRefCount, grantOutbound, semOutbound, sock,
                   sockCopy, msg, msgCopy, openers>>

MsgReleaseNodes ==
    /\ msg = "serve" /\ relay = None /\ Unlocked
    /\ nRefCount' = Add(msgCopy, -1)
    /\ msgCopy' = {} /\ msg' = "copy"
    /\ UNCHANGED <<places, flags, fDisconnect, grantOutbound, semOutbound, sock, sockCopy, relay,
                   openers>>

-----------------------------------------------------------------------------
(* OpenNetworkConnection and ConnectNode.                                   *)

OpenUnchanged == UNCHANGED <<sock, sockCopy, msg, msgCopy, relay>>

\* Mutant: the semaphore is not waited for.
AcquireGrant_NoWait(o) ==
    /\ open[o] = "idle"
    /\ semOutbound' = semOutbound - 1
    /\ open' = [open EXCEPT ![o] = "granted"]
    /\ OpenUnchanged
    /\ UNCHANGED <<places, flags, fDisconnect, nRefCount, grantOutbound, openAddr, openNode,
                   openRef>>

\* CSemaphoreGrant grant(*semOutbound): a grant is waited for; ProcessOneShot only
\* tries, and comes again.  The opener of -connect does without one.
AcquireGrant(o) ==
    /\ open[o] = "idle" /\ semOutbound > 0
    /\ semOutbound' = semOutbound - 1
    /\ open' = [open EXCEPT ![o] = "granted"]
    /\ OpenUnchanged
    /\ UNCHANGED <<places, flags, fDisconnect, nRefCount, grantOutbound, openAddr, openNode,
                   openRef>>

\* OpenNetworkConnection(a) gives up; the destructor of the grant releases it.
GiveUp(o, a) ==
    /\ semOutbound' = semOutbound + IF a \in NoGrant THEN 0 ELSE 1
    /\ open' = [open EXCEPT ![o] = "idle"]
    /\ openAddr' = [openAddr EXCEPT ![o] = None]
    /\ UNCHANGED <<places, flags, fDisconnect, nRefCount, grantOutbound, openNode, openRef>>

\* The test for an existing connection in OpenNetworkConnection; -connect calls
\* it without a grant.  ConnectNode does not look again for a name.
OpenNetworkConnection(o, a) ==
    /\ open[o] = (IF a \in NoGrant THEN "idle" ELSE "granted") /\ a \in Target[o] /\ Unlocked
    /\ IF FindNode(a) # {} THEN GiveUp(o, a)
       ELSE /\ open' = [open EXCEPT ![o] = IF a \in ByName THEN "connect" ELSE "checked"]
            /\ openAddr' = [openAddr EXCEPT ![o] = a]
            /\ UNCHANGED <<places, flags, fDisconnect, nRefCount, grantOutbound, semOutbound,
                           openNode, openRef>>
    /\ OpenUnchanged

\* "Look for an existing connection" in ConnectNode.
LookForExisting(o) ==
    /\ open[o] = "checked" /\ Unlocked
    /\ IF FindNode(openAddr[o]) = {}
       THEN open' = [open EXCEPT ![o] = "connect"] /\ UNCHANGED openNode
       ELSE /\ open' = [open EXCEPT ![o] = "found"]
            /\ \E n \in FindNode(openAddr[o]) : openNode' = [openNode EXCEPT ![o] = n]
    /\ OpenUnchanged
    /\ UNCHANGED <<places, flags, fDisconnect, nRefCount, grantOutbound, semOutbound, openAddr,
                   openRef>>

\* AddRef of the node found, outside of cs_vNodes: nRefCount is read ...
AddRefRead(o) ==
    /\ open[o] = "found"
    /\ openRef' = [openRef EXCEPT ![o] = nRefCount[openNode[o]]]
    /\ open' = [open EXCEPT ![o] = "addref"]
    /\ OpenUnchanged
    /\ UNCHANGED <<places, flags, fDisconnect, nRefCount, grantOutbound, semOutbound, openAddr,
                   openNode>>

\* ... and written.
AddRefWrite(o) ==
    /\ open[o] = "addref"
    /\ nRefCount' = [nRefCount EXCEPT ![openNode[o]] = openRef[o] + 1]
    /\ open' = [open EXCEPT ![o] = "opened"] /\ openRef' = [openRef EXCEPT ![o] = 0]
    /\ OpenUnchanged
    /\ UNCHANGED <<places, flags, fDisconnect, grantOutbound, semOutbound, openAddr, openNode>>

ConnectSocketFails(o) ==
    /\ open[o] = "connect"
    /\ GiveUp(o, openAddr[o])
    /\ OpenUnchanged

\* ConnectSocket succeeds: "Add node".
ConnectNode(o, n) ==
    /\ open[o] = "connect" /\ n \in Fresh /\ Unlocked
    /\ vNodes' = vNodes \cup {n}
    /\ addrName' = [addrName EXCEPT ![n] = openAddr[o]]
    /\ nRefCount' = Add({n}, 1)
    /\ openNode' = [openNode EXCEPT ![o] = n]
    /\ open' = [open EXCEPT ![o] = "opened"]
    /\ OpenUnchanged
    /\ UNCHANGED <<vNodesDisconnected, deleted, reaped, released, fInbound, fNetworkNode,
                   fDisconnect, grantOutbound, semOutbound, openAddr, openRef>>

\* grantOutbound->MoveTo(pnode->grantOutbound): the node's own grant, if it has
\* one, is posted ...
MoveToRelease(o) ==
    /\ open[o] = "opened" /\ openAddr[o] \notin NoGrant
    /\ IF grantOutbound[openNode[o]]
       THEN semOutbound' = semOutbound + 1 /\ open' = [open EXCEPT ![o] = "clear"]
       ELSE UNCHANGED semOutbound /\ open' = [open EXCEPT ![o] = "give"]
    /\ OpenUnchanged
    /\ UNCHANGED <<places, flags, fDisconnect, nRefCount, grantOutbound, openAddr, openNode,
                   openRef>>

\* ... and cleared ...
MoveToClear(o) ==
    /\ open[o] = "clear"
    /\ grantOutbound' = [grantOutbound EXCEPT ![openNode[o]] = FALSE]
    /\ open' = [open EXCEPT ![o] = "give"]
    /\ OpenUnchanged
    /\ UNCHANGED <<places, flags, fDisconnect, nRefCount, semOutbound, openAddr, openNode,
                   openRef>>

\* Mutant: the grant is copied, and released by the opener too.
MoveToGive_Copies(o) ==
    /\ open[o] = "give"
    /\ semOutbound' = semOutbound + 1
    /\ grantOutbound' = [grantOutbound EXCEPT ![openNode[o]] = TRUE]
    /\ open' = [open EXCEPT ![o] = "moved"]
    /\ OpenUnchanged
    /\ UNCHANGED <<places, flags, fDisconnect, nRefCount, openAddr, openNode, openRef>>

\* ... and the node has the opener's.
MoveToGive(o) ==
    /\ open[o] = "give"
    /\ grantOutbound' = [grantOutbound EXCEPT ![openNode[o]] = TRUE]
    /\ open' = [open EXCEPT ![o] = "moved"]
    /\ OpenUnchanged
    /\ UNCHANGED <<places, flags, fDisconnect, nRefCount, semOutbound, openAddr, openNode,
                   openRef>>

\* OpenNetworkConnection returns.
Done(o) ==
    /\ open' = [open EXCEPT ![o] = "idle"]
    /\ openNode' = [openNode EXCEPT ![o] = None] /\ openAddr' = [openAddr EXCEPT ![o] = None]

\* pnode->fNetworkNode = true: from here on the socket handler may release the
\* node.  A one-shot is not done with it.
SetNetworkNode(o) ==
    /\ open[o] = "moved" \/ (open[o] = "opened" /\ openAddr[o] \in NoGrant)
    /\ fNetworkNode' = [fNetworkNode EXCEPT ![openNode[o]] = TRUE]
    /\ IF openAddr[o] \in OneShot
       THEN open' = [open EXCEPT ![o] = "oneshot"] /\ UNCHANGED <<openNode, openAddr>>
       ELSE Done(o)
    /\ OpenUnchanged
    /\ UNCHANGED <<places, addrName, fInbound, fDisconnect, nRefCount, grantOutbound, semOutbound,
                   openRef>>

\* pnode->fOneShot = true.  The message handler reads it when an addr message has
\* come, and disconnects: Misbehaving has that.
SetOneShot(o) ==
    /\ open[o] = "oneshot"
    /\ Done(o)
    /\ OpenUnchanged
    /\ UNCHANGED <<places, flags, fDisconnect, nRefCount, grantOutbound, semOutbound, openRef>>

-----------------------------------------------------------------------------
SocketHandler == ReapNodes \/ ReapDelete \/ NoConnection \/ SockCopyNodes \/ SockReleaseNodes
MessageHandler == MsgCopyNodes \/ RelaySent \/ MsgReleaseNodes
OpenStep(o) ==
    \/ \E a \in OutAddr : OpenNetworkConnection(o, a)
    \/ LookForExisting(o) \/ AddRefRead(o) \/ AddRefWrite(o) \/ ConnectSocketFails(o)
    \/ \E n \in Node : ConnectNode(o, n)
    \/ MoveToRelease(o) \/ MoveToClear(o) \/ MoveToGive(o) \/ SetNetworkNode(o) \/ SetOneShot(o)

Next ==
    \/ SocketHandler \/ MessageHandler
    \/ \E n \in Node : CloseSocket(n) \/ Misbehaving(n) \/ RelayCheckpoint(n)
    \/ \E n \in Node, a \in InAddr : AcceptConnection(n, a)
    \/ \E o \in Opener : AcquireGrant(o) \/ OpenStep(o)

Spec == Init /\ [][Next]_vars

\* Every thread keeps running: select, recv and connect time out, and a thread
\* that waits for cs_vNodes gets it.  The message handler gets to the end of its
\* copy, though it may relay on the way.
FairSpec == /\ Spec /\ WF_vars(SocketHandler)
            /\ SF_vars(MessageHandler) /\ SF_vars(MsgReleaseNodes)
            /\ \A o \in Opener : SF_vars(OpenStep(o))

-----------------------------------------------------------------------------
(* Properties.                                                              *)

\* The nodes the two handlers work on, and those of the openers but for the last
\* write of a one-shot.
Held == sockCopy \cup msgCopy
        \cup ({ openNode[o] : o \in { p \in Opener : open[p] # "oneshot" } } \ {None})

\* The references of the two handlers.
Refs == [n \in Node |-> (IF n \in sockCopy THEN 1 ELSE 0) + (IF n \in msgCopy THEN 1 ELSE 0)]

\* The addresses at which an opener may find a node that it has not made: it looks
\* there by address, and an inbound peer or another opener may be connected.
Shared == { a \in OutAddr \ ByName :
    \E o \in Opener :
        /\ a \in Target[o]
        /\ a \in InAddr \/ \E p \in Opener \ {o}, d \in OutAddr : d \in Target[p] /\ Service(d) = a }

\* Whether a node may be found by an opener that has not made it.
IsShared(n) == Service(addrName[n]) \in Shared

\* ThreadSocketHandler2: "wait until threads are done using it": the node that a
\* handler or an opener works on is not deleted, whoever disconnects it and
\* when.  Two cases are excepted, since the code does not exclude them: nodes
\* at an address where an opener may find a node of another opener or of an
\* inbound peer, and the write of fOneShot after fNetworkNode.
HeldIsAlive == \A n \in Held \cap deleted : IsShared(n)

\* nRefCount of a node that no opener may have found is its own reference and those
\* of the handlers, through all orders of copies, releases and disconnections; one
\* that was disconnected before fNetworkNode was set keeps its own.
RefCountExact ==
    \A n \in Node :
        \/ IsShared(n)
        \/ n \in vNodes \cup reaped /\ nRefCount[n] = Refs[n] + 1
        \/ n \in vNodesDisconnected /\ nRefCount[n] \in {Refs[n], Refs[n] + 1}
        \/ n \notin vNodes \cup reaped \cup vNodesDisconnected /\ nRefCount[n] = 0

\* HeldIsAlive without exceptions: no thread uses a deleted node.
NoUseAfterDelete ==
    (sockCopy \cup msgCopy \cup { openNode[o] : o \in Opener } \cup {relay}) \cap deleted = {}

\* GetRefCount: assert(nRefCount >= 0), of a node that is connected, disconnected
\* or was just deleted.
RefCountNotNegative == \A n \in Node : nRefCount[n] >= 0

\* The openers and the nodes that hold a grant of semOutbound; a node whose grant
\* was posted does not, though it is not yet cleared.
Holders ==
    { o \in Opener : open[o] \notin {"idle", "moved", "oneshot"} /\ openAddr[o] \notin NoGrant }
Posted == released \cup { openNode[o] : o \in { p \in Opener : open[p] = "clear" } }
Granted == { n \in Node : grantOutbound[n] } \ Posted

\* No two threads have had a node to move a grant to.
NoneShared == \A n \in Node : ~IsShared(n)

\* As long as no connection was made to an address that is shared, every grant of
\* semOutbound is in the semaphore, with an opener or with a node, through failed
\* connections, disconnections, late moves and the unlocked steps of Release.
GrantsConserved ==
    NoneShared => semOutbound + Cardinality(Holders) + Cardinality(Granted) = MaxOutbound

\* The same without the condition: two threads that release the grant of one node
\* may both post it.
NoGrantPostedTwice == semOutbound + Cardinality(Holders) + Cardinality(Granted) <= MaxOutbound

\* As long as no connection was made to an address that is shared, the outbound
\* connections that -connect has not made and the places semOutbound still offers
\* are together never more than it had: a node holds its grant, or the opener that
\* will move it there, as long as it is connected.
OutboundBounded ==
    NoneShared =>
        Cardinality({ n \in vNodes : ~fInbound[n] /\ addrName[n] \notin NoGrant }) + semOutbound
            <= MaxOutbound

\* "hold in disconnected pool until all refs are released": an outbound
\* node is deleted in the end, whenever its peer closes the connection.
OutboundIsDeleted == \A n \in Node : addrName[n] \in OutAddr /\ fDisconnect[n] ~> n \in deleted

-----------------------------------------------------------------------------
(* The inductive invariant behind all of them.                               *)

\* A node is in one place, and nobody works on one before it is in vNodes.
PlacesInv ==
    /\ vNodes \cap vNodesDisconnected = {} /\ reaped \cap (vNodes \cup vNodesDisconnected) = {}
    /\ deleted \cap (vNodes \cup vNodesDisconnected \cup reaped) = {}
    /\ \A n \in Fresh : /\ addrName[n] = None /\ nRefCount[n] = 0
                        /\ ~grantOutbound[n] /\ ~fInbound[n] /\ ~fNetworkNode[n]
    /\ (sockCopy \cup msgCopy) \cap Fresh = {}
    /\ sock # "service" => sockCopy = {}
    /\ sock # "delete" => reaped = {}
    /\ msg # "serve" => msgCopy = {}
    /\ \A n \in released : grantOutbound[n] \/ IsShared(n)

\* A connected node has its own reference and those of the threads that copied it.
RefCountOK(n) ==
    ~IsShared(n) =>
        /\ n \in sockCopy \cup msgCopy => n \notin deleted
        /\ n \in vNodes \cup reaped => nRefCount[n] = Refs[n] + 1
        /\ n \in vNodesDisconnected => nRefCount[n] \in {Refs[n], Refs[n] + 1}
        /\ n \in deleted => nRefCount[n] = 0

\* An opener works on a node at the address it connects to.
HasNode == {"found", "addref", "opened", "clear", "give", "moved", "oneshot"}
AtShared(o) == Service(openAddr[o]) \in Shared
OpenOK(o) ==
    /\ IF open[o] \in {"idle", "granted"} THEN openAddr[o] = None ELSE openAddr[o] \in Target[o]
    /\ open[o] \in {"checked", "found", "addref"} => openAddr[o] \notin ByName
    /\ open[o] \in {"clear", "give"} => openAddr[o] \notin NoGrant
    /\ IF open[o] \in HasNode
       THEN openNode[o] \in Node \ Fresh /\ (IsShared(openNode[o]) <=> AtShared(o))
       ELSE openNode[o] = None

\* The node that the opener has made, before it is a network node: nobody else has
\* released it.
Made(o) ==
    /\ openNode[o] \notin deleted /\ addrName[openNode[o]] = openAddr[o]
    /\ ~fNetworkNode[openNode[o]] /\ ~fInbound[openNode[o]]
    /\ nRefCount[openNode[o]] = Refs[openNode[o]] + 1

\* When nobody shares the address, the opener has made the node, and nobody else
\* works on it as an opener or gives it a grant.
OwnOK(o) ==
    ~AtShared(o) =>
        /\ open[o] \notin {"found", "addref", "clear"}
        /\ open[o] = "checked" => \A n \in vNodes : Service(addrName[n]) # openAddr[o]
        /\ open[o] \in HasNode => \A p \in Opener \ {o} : openNode[p] # openNode[o]
        /\ open[o] \in {"opened", "give", "moved"} => Made(o)
        /\ open[o] \in {"opened", "give"} => ~grantOutbound[openNode[o]]

\* An outbound connection that -connect has not made has a grant, or the opener that
\* will move one there has.
OutboundOK(n) ==
    n \in vNodes /\ ~fInbound[n] /\ addrName[n] \notin NoGrant /\ ~IsShared(n) =>
        grantOutbound[n] \/ \E o \in Opener : open[o] \in {"opened", "give"} /\ openNode[o] = n

ThreadsInv ==
    /\ \A n \in Node : RefCountOK(n) /\ OutboundOK(n)
    /\ \A o \in Opener : OpenOK(o) /\ OwnOK(o)

NodeInv == TypeOK /\ PlacesInv /\ ThreadsInv

=============================================================================
