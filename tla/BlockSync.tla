----------------------------- MODULE BlockSync ------------------------------
(***************************************************************************)
(* How a node gets the blocks it lacks from a peer (main.cpp, net.cpp,      *)
(* blocklocator.cpp): getblocks with a locator, the inventory that answers  *)
(* it, getdata, the blocks, and hashContinue, which starts the next batch.  *)
(* One client and one server over a connection that keeps the order of      *)
(* messages and may break and be opened again.                              *)
(*                                                                          *)
(* The server's main chain is 0, 1, ..., where 0 is the genesis block; the  *)
(* client starts on a fork of it, whose block of height h is -h.  All       *)
(* blocks are valid and have the same trust; a proof-of-stake block has a   *)
(* stake of its own.  Handlers run to their end: each has one message, or   *)
(* the queues of one peer, to work on.                                      *)
(***************************************************************************)
EXTENDS Integers, SequencesExt

CONSTANTS
    ForkAt, ForkTip, \* the client starts with the fork ForkAt+1 .. ForkTip
    StartTip,        \* the height of the server at the start
    MaxTip,          \* the height it may reach (bound)
    Pow,             \* the heights of the proof-of-work blocks
    nLimit,          \* the 500 blocks of getblocks
    KnownMax,        \* the size of setInventoryKnown
    MaxOrphanBlocks, \* -maxorphanblocks
    Dense,           \* the 10 entries of a locator before its steps grow
    StakeAge,        \* StakeMinAge, in blocks
    Recent,          \* the 8 hours of IsInitialBlockDownload, in blocks
    MaxReconnects,   \* how often the connection may break (bound)
    MaxToSend        \* the inventory a server that answers getblocks has to send (bound)

ASSUME SyncAssumption ==
    /\ ForkAt \in Nat /\ ForkTip \in Nat /\ ForkAt <= ForkTip
    /\ StartTip \in Nat /\ MaxTip \in Nat /\ ForkAt <= StartTip /\ StartTip <= MaxTip
    /\ ForkTip < StartTip
    /\ Pow \subseteq 1..MaxTip
    /\ nLimit \in Nat \ {0} /\ KnownMax \in Nat \ {0} /\ Dense \in Nat
    /\ MaxOrphanBlocks \in Nat
    /\ StakeAge \in Nat /\ Recent \in Nat /\ MaxReconnects \in Nat /\ MaxToSend \in Nat

VARIABLES
    \* the client
    index,          \* mapBlockIndex
    best,           \* pindexBest
    orphans,        \* mapOrphanBlocks and mapOrphanBlocksByPrev
    stakeSeen,      \* setStakeSeenOrphan, by the blocks of its stakes
    pruned,         \* the blocks that PruneOrphanBlocks ever dropped (history)
    askFor,         \* mapAskFor of the server, in the order of its keys
    lastGetBlocks,  \* pindexLastGetBlocksBegin and hashLastGetBlocksEnd
    \* the server
    tip,            \* pindexBest
    known,          \* setInventoryKnown of the client, oldest first
    toSend,         \* vInventoryToSend of the client
    hashContinue,
    \* the connection
    toServer, toClient, reconnects

client == <<index, best, orphans, stakeSeen, pruned, askFor, lastGetBlocks>>
server == <<tip, known, toSend, hashContinue>>
vars == <<client, server, toServer, toClient, reconnects>>

None == MaxTip + 1   \* a null hash: no block has it
Blocks == (-ForkTip)..MaxTip

Height(b) == IF b < 0 THEN -b ELSE b
Parent(b) == IF b > 0 THEN b - 1 ELSE IF b = -(ForkAt + 1) THEN ForkAt ELSE b + 1

\* The block of height h of the chain that ends at b.
Ancestor(b, h) == IF b < 0 /\ h > ForkAt THEN -h ELSE h

-----------------------------------------------------------------------------
(* The locator.                                                             *)

\* The loop of CBlockLocator::Set: how far back from its block the k-th entry of a
\* locator is, and nStep there.
Entry[k \in 1..(MaxTip + 1)] ==
    IF k = 1 THEN [back |-> 0, nStep |-> 1]
    ELSE LET e == Entry[k - 1]
         IN  [back  |-> e.back + e.nStep,
              nStep |-> IF k - 1 > Dense THEN 2 * e.nStep ELSE e.nStep]

\* CBlockLocator::Set: the blocks of the locator of b, the genesis block last.
Locator(b) ==
    { Ancestor(b, h) : h \in { Height(b) - Entry[k].back : k \in 1..(Height(b) + 1) } \cap Nat }
      \cup {0}

\* Mutant: the first entry that the server knows by its height.
GetBlockIndex_ByHeight(b) == Max({ Height(c) : c \in { x \in Locator(b) : Height(x) <= tip } })

\* CBlockLocator::GetBlockIndex at the server: the first entry on its main chain.
GetBlockIndex(b) == Max(Locator(b) \cap 0..tip)

-----------------------------------------------------------------------------
(* The queues of a connection.                                              *)

\* The elements of s at the places of P, in their order.
Keep(s, P) == FlattenSeq([i \in DOMAIN s |-> IF i \in P THEN <<s[i]>> ELSE << >>])

\* The elements of s that are not in S.
Without(s, S) == Keep(s, { i \in DOMAIN s : s[i] \notin S })

\* Mutant: nothing is ever dropped.
InsertKnown_All(set, b) == IF Contains(set, b) THEN set ELSE Append(set, b)

\* mruset::insert: the oldest element makes room for a new one.
InsertKnown(set, b) ==
    IF Contains(set, b) THEN set
    ELSE Append(IF Len(set) = KnownMax THEN Tail(set) ELSE set, b)

\* PushInventory of a sequence of blocks.
PushInventory(s) == toSend \o Without(s, Range(known))

\* The message "getblocks", with the block of its locator.
GetBlocksFrom(begin, stop) == [type |-> "getblocks", begin |-> begin, stop |-> stop]

\* PushGetBlocks of each message of s: one that repeats the last one is filtered out.
PushGetBlocks(s) ==
    LET all == <<lastGetBlocks>> \o s
    IN  /\ lastGetBlocks' = Last(all)
        /\ toServer' = toServer \o Keep(s, { i \in DOMAIN s : all[i + 1] # all[i] })

-----------------------------------------------------------------------------
Fork == { -h : h \in (ForkAt + 1)..ForkTip }
StartBest == IF ForkTip = ForkAt THEN ForkAt ELSE -ForkTip

\* The version handshake: the client asks its first peer for blocks.
Init ==
    /\ index = 0..ForkAt \cup Fork
    /\ best = StartBest
    /\ orphans = {} /\ stakeSeen = {} /\ pruned = {} /\ askFor = << >>
    /\ lastGetBlocks = GetBlocksFrom(StartBest, None)
    /\ tip = StartTip
    /\ known = << >> /\ toSend = << >> /\ hashContinue = None
    /\ toServer = <<GetBlocksFrom(StartBest, None)>>
    /\ toClient = << >>
    /\ reconnects = 0

-----------------------------------------------------------------------------
(* The server.                                                              *)

Receives(channel, type) == channel # << >> /\ Head(channel).type = type

\* Mutant: the limit does not set hashContinue.
GetBlocks_NoContinue ==
    /\ Receives(toServer, "getblocks") /\ Len(toSend) <= MaxToSend
    /\ LET m     == Head(toServer)
           first == GetBlockIndex(m.begin) + 1
           last  == Min({tip, first + nLimit - 1})
       IN  toSend' = PushInventory([i \in 1..(last - first + 1) |-> first + i - 1])
    /\ toServer' = Tail(toServer)
    /\ UNCHANGED <<client, tip, known, hashContinue, toClient, reconnects>>

\* "getblocks": the blocks after the last one the caller has, up to the stop block
\* or the limit.
GetBlocks ==
    /\ Receives(toServer, "getblocks") /\ Len(toSend) <= MaxToSend
    /\ LET m     == Head(toServer)
           first == GetBlockIndex(m.begin) + 1
           last  == Min({tip, first + nLimit - 1})
           stops == m.stop # None /\ m.stop \in first..last
           end   == IF stops THEN m.stop - 1 ELSE last
           new   == IF stops /\ m.stop # tip /\ m.stop + StakeAge > tip THEN <<tip>> ELSE << >>
       IN  /\ toSend' = PushInventory([i \in 1..(end - first + 1) |-> first + i - 1] \o new)
           /\ hashContinue' = IF ~stops /\ last = first + nLimit - 1 THEN last ELSE hashContinue
    /\ toServer' = Tail(toServer)
    /\ UNCHANGED <<client, tip, known, toClient, reconnects>>

\* The answer to "getheaders": the headers after the last block the caller has.  For
\* a null locator the block is found, but the variable that receives it is a second
\* pindex that hides the first.
GetHeaders(begin, stop) ==
    IF begin = None THEN << >>
    ELSE LET first == GetBlockIndex(begin) + 1
             last  == IF stop \in first..tip THEN stop ELSE tip
         IN  [i \in 1..Min({4 * nLimit, last - first + 1}) |-> first + i - 1]

\* GetLastBlockIndex(pindexBest, false): the last proof-of-work block.
LastPow == Max({0} \cup (Pow \cap 0..tip))

\* "getdata": the blocks, and after the one that ends a batch an inventory that
\* is to make the client ask for the next one.
GetData ==
    /\ Receives(toServer, "getdata")
    /\ LET inv == Head(toServer).inv
           Ends(i) == inv[i] = hashContinue /\ \A j \in 1..(i - 1) : inv[j] # inv[i]
           Answer(i) ==
               IF inv[i] \notin 0..tip THEN << >>
               ELSE <<[type |-> "block", block |-> inv[i]]>>
                      \o (IF Ends(i) THEN <<[type |-> "inv", inv |-> <<LastPow>>]>> ELSE << >>)
       IN  /\ toClient' = toClient \o FlattenSeq([i \in DOMAIN inv |-> Answer(i)])
           /\ hashContinue' = IF Contains(inv, hashContinue) THEN None ELSE hashContinue
    /\ toServer' = Tail(toServer)
    /\ UNCHANGED <<client, tip, known, toSend, reconnects>>

\* The loop of SendMessages over vInventoryToSend: the set and the inventory after it.
Offer ==
    LET at[i \in 0..Len(toSend)] ==
            IF i = 0 THEN [known |-> known, inv |-> << >>]
            ELSE LET o == at[i - 1]
                 IN  [known |-> InsertKnown(o.known, toSend[i]),
                      inv   |-> IF Contains(o.known, toSend[i]) THEN o.inv
                                ELSE Append(o.inv, toSend[i])]
    IN  at[Len(toSend)]

\* SendMessages of the server: the inventory the client does not know.
SendInventory ==
    /\ toSend # << >>
    /\ toClient' = IF Offer.inv = << >> THEN toClient
                   ELSE Append(toClient, [type |-> "inv", inv |-> Offer.inv])
    /\ known' = Offer.known
    /\ toSend' = << >>
    /\ UNCHANGED <<client, tip, hashContinue, toServer, reconnects>>

\* The server gets a new block and offers it.
NewBlock ==
    /\ tip < MaxTip
    /\ tip' = tip + 1
    /\ toSend' = PushInventory(<<tip + 1>>)
    /\ UNCHANGED <<client, known, hashContinue, toServer, toClient, reconnects>>

-----------------------------------------------------------------------------
(* The client.                                                              *)

AlreadyHave == index \cup orphans

\* The blocks of the chain of orphans in S that ends at b.
OrphanChain(b, S) == { c \in S \cup {b} : c <= b /\ \A d \in c..(b - 1) : d \in S }
GetOrphanRoot(b, S) == Min(OrphanChain(b, S))
WantedByOrphan(b, S) == Parent(GetOrphanRoot(b, S))

\* The blocks of an inventory that the client has not are asked for; an orphan
\* makes it ask for what leads up to the orphan, and a last block that it has for
\* what follows.
Inv ==
    /\ Receives(toClient, "inv")
    /\ LET inv == Head(toClient).inv
           Had == Keep(inv, { i \in DOMAIN inv : \/ inv[i] \in orphans
                                                 \/ i = Len(inv) /\ inv[i] \in index })
       IN  /\ askFor' = askFor \o Without(inv, AlreadyHave)
           /\ PushGetBlocks([i \in DOMAIN Had |-> IF Had[i] \in orphans
                                                  THEN GetBlocksFrom(best, GetOrphanRoot(Had[i], orphans))
                                                  ELSE GetBlocksFrom(Had[i], None)])
    /\ toClient' = Tail(toClient)
    /\ UNCHANGED <<index, best, orphans, stakeSeen, pruned, server, reconnects>>

\* SendMessages of the client: one getdata for all that is asked for.
SendGetData ==
    /\ askFor # << >>
    /\ LET want == Without(askFor, AlreadyHave)
       IN  toServer' = IF want = << >> THEN toServer
                       ELSE Append(toServer, [type |-> "getdata", inv |-> want])
    /\ askFor' = << >>
    /\ UNCHANGED <<index, best, orphans, stakeSeen, pruned, lastGetBlocks, server, toClient, reconnects>>

\* IsInitialBlockDownload: the best block is old and changed a moment ago.
IsInitialBlockDownload(b) == {FALSE} \cup { x \in {TRUE} : Height(b) + Recent < tip }

\* The orphans that ProcessBlock accepts after b.
Unlocked(b) == { o \in orphans : o > b /\ \A d \in (b + 1)..o : d \in orphans }

\* A block that the client has already, or that is an orphan already.
BlockKnown ==
    /\ Receives(toClient, "block") /\ Head(toClient).block \in AlreadyHave
    /\ toClient' = Tail(toClient)
    /\ UNCHANGED <<client, server, toServer, reconnects>>

\* "Duplicate stake allowed only when there is orphan child block".
DuplicateStake(b) == b \in stakeSeen /\ b + 1 \notin orphans

\* PruneOrphanBlocks: when there are too many, one orphan that no other depends on
\* goes.  Its stake stays in setStakeSeenOrphan.
PruneOrphanBlocks ==
    IF Cardinality(orphans) <= MaxOrphanBlocks THEN {orphans}
    ELSE { orphans \ {o} : o \in { c \in orphans : c + 1 \notin orphans } }

\* An orphan whose stake was seen: the refusal leaves no trace.
BlockDuplicate ==
    /\ Receives(toClient, "block")
    /\ LET b == Head(toClient).block
       IN  b \notin AlreadyHave /\ Parent(b) \notin index /\ DuplicateStake(b)
    /\ toClient' = Tail(toClient)
    /\ UNCHANGED <<client, server, toServer, reconnects>>

\* A block without its parent becomes an orphan; the client asks for the blocks
\* that lead up to it and, when it is not catching up, for the parent.
BlockOrphan ==
    /\ Receives(toClient, "block")
    /\ LET b == Head(toClient).block
       IN  /\ b \notin AlreadyHave /\ Parent(b) \notin index /\ ~DuplicateStake(b)
           /\ stakeSeen' = stakeSeen \cup ({b} \ Pow)
           /\ \E left \in PruneOrphanBlocks :
                /\ orphans' = left \cup {b} /\ pruned' = pruned \cup (orphans \ left)
                /\ PushGetBlocks(<<GetBlocksFrom(best, GetOrphanRoot(b, left))>>)
                /\ \E catchingUp \in IsInitialBlockDownload(best) :
                     askFor' = IF catchingUp THEN askFor
                               ELSE Append(askFor, WantedByOrphan(b, left))
    /\ toClient' = Tail(toClient)
    /\ UNCHANGED <<index, best, server, reconnects>>

\* A block is accepted, with the orphans that wait for it; the chain becomes the
\* best one when it is longer.
BlockAccepted ==
    /\ Receives(toClient, "block")
    /\ LET b   == Head(toClient).block
           new == {b} \cup Unlocked(b)
       IN  /\ b \notin AlreadyHave /\ Parent(b) \in index
           /\ index' = index \cup new
           /\ orphans' = orphans \ new /\ stakeSeen' = stakeSeen \ Unlocked(b)
           /\ best' = IF Height(Max(new)) > Height(best) THEN Max(new) ELSE best
    /\ toClient' = Tail(toClient)
    /\ UNCHANGED <<pruned, askFor, lastGetBlocks, server, toServer, reconnects>>

\* The connection breaks and is opened again: both sides start with a new CNode,
\* and the client, which has no other peer, asks for blocks.
Reconnect ==
    /\ reconnects < MaxReconnects
    /\ reconnects' = reconnects + 1
    /\ askFor' = << >> /\ lastGetBlocks' = GetBlocksFrom(best, None)
    /\ known' = << >> /\ toSend' = << >> /\ hashContinue' = None
    /\ toServer' = <<GetBlocksFrom(best, None)>>
    /\ toClient' = << >>
    /\ UNCHANGED <<index, best, orphans, stakeSeen, pruned, tip>>

-----------------------------------------------------------------------------
Server == GetBlocks \/ GetData \/ SendInventory
Client == Inv \/ SendGetData \/ BlockKnown \/ BlockDuplicate \/ BlockOrphan \/ BlockAccepted

Next == Server \/ Client \/ NewBlock \/ Reconnect

Spec == Init /\ [][Next]_vars

\* A message is taken off a channel; a queue is sent.
Takes(channel) == channel # << >> /\ channel' = Tail(channel)
Sends(queue) == queue # << >> /\ queue' = << >>

\* The message handler thread of each node serves its peer again and again: it
\* takes its messages (ProcessMessages) and sends its queues (SendMessages).
FairSpec ==
    Spec /\ WF_toServer(Takes(toServer)) /\ WF_toClient(Takes(toClient))
         /\ WF_toSend(Sends(toSend)) /\ WF_askFor(Sends(askFor))

-----------------------------------------------------------------------------
(* Properties.                                                              *)

GetBlocksMessages == [type : {"getblocks"}, begin : Blocks, stop : Blocks \cup {None}]
ToServer == GetBlocksMessages \cup [type : {"getdata"}, inv : Seq(0..tip)]
ToClient == [type : {"inv"}, inv : Seq(0..tip)] \cup [type : {"block"}, block : 0..tip]

\* Every variable has its type: the client asks for blocks that the server has, and
\* setInventoryKnown keeps its bound and no block twice.
TypeOK ==
    /\ index \subseteq Blocks /\ best \in index /\ orphans \subseteq 1..tip \ index
    /\ stakeSeen \subseteq 1..tip \ Pow /\ pruned \subseteq 1..tip
    /\ Cardinality(orphans) <= MaxOrphanBlocks + 1
    /\ askFor \in Seq(0..tip)
    /\ lastGetBlocks \in GetBlocksMessages
    /\ tip \in StartTip..MaxTip
    /\ known \in Seq(0..tip) /\ Len(known) <= KnownMax /\ IsInjective(known)
    /\ toSend \in Seq(0..tip)
    /\ hashContinue \in 0..tip \cup {None}
    /\ toServer \in Seq(ToServer) /\ toClient \in Seq(ToClient)
    /\ reconnects \in 0..MaxReconnects

\* The index holds the whole chain of each of its blocks.
IndexIsClosed == \A b \in index : \A h \in 0..Height(b) : Ancestor(b, h) \in index

\* Every locator under way is that of a block of the index.
LocatorsAreOfIndex ==
    \A i \in DOMAIN toServer : toServer[i].type = "getblocks" => toServer[i].begin \in index

\* The inductive invariant.
SyncInv == TypeOK /\ IndexIsClosed /\ LocatorsAreOfIndex

\* The server starts a batch at a block the client has: whatever fork a locator
\* comes from, and however its entries thin out, no block is skipped between
\* what the client has and what it is offered.
BatchStartsAtKnownBlock ==
    \A i \in DOMAIN toServer : toServer[i].type = "getblocks" =>
        GetBlockIndex(toServer[i].begin) \in index

\* getheaders, "If locator is null, return the hashStop block".
NullLocatorReturnsStop == \A b \in 0..tip : GetHeaders(None, b) = <<b>>

\* The first block of the server that the client has not accepted.
FirstMissing == Min(0..(MaxTip + 1) \ index)

\* getdata, "Trigger them to send a getblocks request for the next batch of
\* inventory": a client whose connection holds gets all the blocks of the server,
\* or stays before one that it had and PruneOrphanBlocks dropped.
SyncCompletes == <>[](best = tip \/ reconnects > 0 \/ FirstMissing \in pruned)

\* The same without the second way out: the server filters a dropped block as
\* known to the client.
SyncSurvivesPruning == <>[](best = tip \/ reconnects > 0)

=============================================================================
