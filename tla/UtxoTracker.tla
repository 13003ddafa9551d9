----------------------------- MODULE UtxoTracker -----------------------------
(***************************************************************************)
(* What the DEX and dApp scanners remember of open script outputs          *)
(* (src/dapp/dex.rs and the nine scanners beside it), and the set of hub   *)
(* outputs that must not link transactions in the light cone.  Both live   *)
(* in memory only: they are written while a block is parsed, are not told  *)
(* of rollbacks, and are rebuilt at boot from the transaction cache.       *)
(*                                                                         *)
(* The ledger is a set of threads: transaction <<t, n>> spends the output  *)
(* of <<t, n - 1>>, if any, and leaves an output of its own unless it is   *)
(* the Final.  An output is named by the transaction that makes it.         *)
(***************************************************************************)
EXTENDS Integers, FiniteSets, SequencesExt, Subsequences

CONSTANTS
    Threads,       \* orders, positions, listings or pools
    Final,         \* the version that closes a thread
    Scanners,      \* the scanners considered, of AllScanners
    TrackerCap,    \* ORDER_TRACKER_CAP, TRACKER_CAP
    Retention,     \* blocks the transaction cache reaches back
    HashRank,      \* order of the transaction hashes, all of them different
    MaxHeight,     \* bound: length of the chain
    MaxForks,      \* bound: rollbacks
    MaxBoots       \* bound: restarts

AllScanners == {"dex", "wayup", "iagon", "surf", "indigo"}

Tx == Threads \X (0..Final)

ASSUME TrackerAssumption ==
    /\ Final \in Nat /\ TrackerCap \in Nat \ {0} /\ Retention \in Nat \ {0}
    /\ Scanners \subseteq AllScanners
    /\ HashRank \in [Tx -> Nat]
    /\ \A x, y \in Tx : HashRank[x] = HashRank[y] => x = y
    /\ {MaxHeight, MaxForks, MaxBoots} \subseteq Nat

VARIABLES
    scanner,      \* the scanner this behaviour is about
    ledger,       \* the blocks adopted, each a sequence of transactions
    map, fifo,    \* OrderTracker, TrackedSet, TrackedPools
    hubs,         \* graph_hubs
    txCache,      \* the transaction cache: hash -> slot of its block
    linked,       \* transactions whose inputTxs name the one they spend
    \* history
    forkSpent,    \* outputs spent in a block that was rolled back
    inserted,     \* insertions since boot
    peak,         \* the most outputs tracked at once
    rolledBack, rebooted

memoryVars == <<map, fifo>>
noteVars == <<forkSpent, inserted, peak, rolledBack, rebooted>>
threadVars == <<scanner, ledger, memoryVars, hubs, txCache, linked, noteVars>>

Spends(x) == IF x[2] = 0 THEN {} ELSE {<<x[1], x[2] - 1>>}
Creates(x) == IF x[2] = Final THEN {} ELSE {x}

OnChain(c) == UNION {ToSet(c[i]) : i \in DOMAIN c}
SpentIn(c) == UNION {Spends(x) : x \in OnChain(c)}
OpenOn(c) == (UNION {Creates(x) : x \in OnChain(c)}) \ SpentIn(c)

(* The blocks that can extend c, of one or two transactions. *)
CanFollow(done, x) == x \notin done /\ (x[2] = 0 \/ <<x[1], x[2] - 1>> \in done)
NextBlocks(c) ==
    LET done == OnChain(c)
        one == {x \in Tx : CanFollow(done, x)}
    IN  {<<x>> : x \in one}
        \union {b \in one \X Tx : CanFollow(done \union {b[1]}, b[2])}

-----------------------------------------------------------------------------
(* The trackers.  s is a record of map, fifo and the history counters.     *)

KeepsQueueExact == {"wayup"}         \* take also removes from the queue
HasHubs == {"wayup", "iagon", "surf"}
HubsByAddress == {"wayup", "iagon"}  \* is_spend_graph_hub_address

(* `retain`: the elements of q that are not among outs. *)
Without(q, outs) == Subsequence(q, {i \in 1..Len(q) : q[i] \notin outs})

(* The scanners but dex: `take`. *)
Taken(s, outs) ==
    [s EXCEPT !.map = @ \ outs,
              !.fifo = IF scanner \in KeepsQueueExact THEN Without(@, outs) ELSE @]

(* `TrackedSet::insert`: an output already known keeps its place; the     *)
(* queue is cut to the cap, and the outputs cut off are forgotten.         *)
InsertedUpTo(s, o, cap) ==
    IF o \in s.map THEN s
    ELSE LET q == Append(s.fifo, o)
             cut == IF Len(q) > cap THEN {q[1]} ELSE {}
         IN  [map |-> (s.map \union {o}) \ cut,
              fifo |-> IF cut = {} THEN q ELSE Tail(q),
              inserted |-> s.inserted + 1,
              peak |-> Max({s.peak, Cardinality(s.map) + 1})]

InsertedTight(s, o) == InsertedUpTo(s, o, TrackerCap - 1)   \* off by one
Inserted(s, o) == InsertedUpTo(s, o, TrackerCap)

(* `remember_orders` for one order: a full map gives up the front of the   *)
(* queue, which may be an order settled long ago.                          *)
RememberedOutput(s, o) ==
    LET full == Cardinality(s.map) >= TrackerCap /\ s.fifo # <<>>
    IN  [map |-> (IF full THEN s.map \ {Head(s.fifo)} ELSE s.map) \union {o},
         fifo |-> Append(IF full THEN Tail(s.fifo) ELSE s.fifo, o),
         inserted |-> s.inserted + 1,
         peak |-> Max({s.peak, Cardinality(s.map) + 1})]

(* `scan_tx_inner` of a dApp scanner, as far as the tracker goes: spends   *)
(* are taken first, then the outputs at the script are inserted.           *)
ScannedTx(s, x) ==
    LET rest == Taken(s, Spends(x))
    IN  IF Creates(x) = {} THEN rest ELSE Inserted(rest, x)

(* Transactions scanned in turn. *)
ScannedAll(s, txs) ==
    LET after[n \in 0..Len(txs)] ==
          IF n = 0 THEN s ELSE ScannedTx(after[n - 1], txs[n])
    IN  after[Len(txs)]

(* `remember_orders` for several. *)
RememberedOutputs(s, orders) ==
    LET after[n \in 0..Len(orders)] ==
          IF n = 0 THEN s ELSE RememberedOutput(after[n - 1], orders[n])
    IN  after[Len(orders)]

(* `scan_block` of the DEX scanner: an order placed and spent in the block *)
(* is never tracked; those left are remembered in the order of a HashMap.  *)
OrderBookAfter(s, block, news) ==
    RememberedOutputs([s EXCEPT !.map = @ \ UNION {Spends(x) : x \in ToSet(block)}], news)

PlacedIn(block) ==
    LET txs == ToSet(block)
    IN  (UNION {Creates(x) : x \in txs}) \ UNION {Spends(x) : x \in txs}

(* The orders in which a HashMap may hand out the elements of S. *)
AnyOrder(S) ==
    {news \in [1..Cardinality(S) -> S] : \A o \in S : \E k \in 1..Cardinality(S) : news[k] = o}

(* The states a scanned block may leave the tracker in. *)
Scanned(s, block) ==
    IF scanner = "dex"
    THEN {OrderBookAfter(s, block, news) : news \in AnyOrder(PlacedIn(block))}
    ELSE {ScannedAll(s, block)}

-----------------------------------------------------------------------------
(* Hubs and light-cone edges. *)

(* Hubs are noted at boot only. *)
NotedNever(h, x) == h

(* `note_spend_graph_hubs` *)
Noted(h, x) == IF scanner \in HasHubs THEN (h \ Spends(x)) \union Creates(x) ELSE {}

NotedAll(h, txs) ==
    LET after[n \in 0..Len(txs)] == IF n = 0 THEN h ELSE Noted(after[n - 1], txs[n])
    IN  after[Len(txs)]

(* `collect_input_txs`: the outputs of x that make an edge.  byAddress     *)
(* holds the parents whose output address can be looked up.                *)
EdgesOf(h, byAddress, x) ==
    {o \in Spends(x) : ~(o \in h \/ (scanner \in HubsByAddress /\ o \in byAddress))}

(* `parse_block`: each transaction is looked at with the hubs its          *)
(* predecessors in the block left; inputs carry no address.                *)
LinkedIn(h, block) ==
    {block[i] : i \in {j \in DOMAIN block :
        EdgesOf(NotedAll(h, SubSeq(block, 1, j - 1)), {}, block[j]) # {}}}

-----------------------------------------------------------------------------
(* Boot. *)

(* `cached_tx_entries`, sorted by (slot, hash): within a block the order   *)
(* is that of the hashes.                                                  *)
Before(x, y) == txCache[x] < txCache[y] \/ (txCache[x] = txCache[y] /\ HashRank[x] < HashRank[y])
PlaceNewestFirst(S, x) == 1 + Cardinality({y \in S : Before(x, y)})  \* fault
Place(S, x) == 1 + Cardinality({y \in S : Before(y, x)})
Sorted(S) == [k \in 1..Cardinality(S) |-> CHOOSE x \in S : Place(S, x) = k]
ReplayOrder == Sorted(DOMAIN txCache)

Unwarmed == [map |-> {}, fifo |-> <<>>, inserted |-> 0, peak |-> 0]

(* `warm_from_tx_entries`.  The DEX scanner subtracts every output spent   *)
(* anywhere in the cache; the others replay.                               *)
Warmed ==
    IF scanner = "dex"
    THEN LET spent == UNION {Spends(x) : x \in DOMAIN txCache}
         IN  RememberedOutputs(Unwarmed, Sorted({x \in DOMAIN txCache : Creates(x) # {} /\ x \notin spent}))
    ELSE ScannedAll(Unwarmed, ReplayOrder)

WarmedHubs == NotedAll({}, ReplayOrder)

-----------------------------------------------------------------------------
ThreadsInit ==
    /\ scanner \in Scanners
    /\ ledger = <<>> /\ map = {} /\ fifo = <<>> /\ hubs = {} /\ linked = {}
    /\ txCache = [x \in {} |-> 0]
    /\ forkSpent = {} /\ inserted = 0 /\ peak = 0 /\ rolledBack = 0 /\ rebooted = 0

Tracker == [map |-> map, fifo |-> fifo, inserted |-> inserted, peak |-> peak]

SetMemory(s) ==
    /\ map' = s.map /\ fifo' = s.fifo /\ inserted' = s.inserted /\ peak' = s.peak

(* `parse_block` and the caching of the block's transactions: the newest   *)
(* slot under which a hash came is kept, and old entries are let go.       *)
ParseBlock(block) ==
    LET slot == Len(ledger) + 1
        known == (DOMAIN txCache) \union ToSet(block)
        at == [x \in known |-> IF x \in ToSet(block) THEN slot ELSE txCache[x]]
    IN  /\ slot <= MaxHeight
        /\ ledger' = Append(ledger, block)
        /\ \E s \in Scanned(Tracker, block) : SetMemory(s)
        /\ linked' = (linked \ ToSet(block))
                     \union (IF scanner \in HasHubs THEN LinkedIn(hubs, block) ELSE {})
        /\ hubs' = NotedAll(hubs, block)
        /\ txCache' = [x \in {y \in known : at[y] > slot - Retention} |-> at[x]]
        /\ UNCHANGED <<scanner, forkSpent, rolledBack, rebooted>>

(* `handle_rollback` tells neither the registries nor the cache. *)
HandleRollback ==
    /\ rolledBack < MaxForks /\ ledger # <<>>
    /\ ledger' = Front(ledger)
    /\ forkSpent' = forkSpent \union SpentIn(<<ledger[Len(ledger)]>>)
    /\ rolledBack' = rolledBack + 1
    /\ UNCHANGED <<scanner, memoryVars, hubs, txCache, linked, inserted, peak, rebooted>>

(* `with_restored_txs`, then `rewrite_buffered_input_txs` over the events  *)
(* whose transactions are cached.                                          *)
Boot ==
    /\ rebooted < MaxBoots
    /\ rebooted' = rebooted + 1
    /\ SetMemory(Warmed)
    /\ hubs' = WarmedHubs
    /\ linked' = (linked \ DOMAIN txCache)
                 \union (IF scanner \in HasHubs
                         THEN {x \in DOMAIN txCache : EdgesOf(WarmedHubs, DOMAIN txCache, x) # {}}
                         ELSE {})
    /\ UNCHANGED <<scanner, ledger, txCache, forkSpent, rolledBack>>

ThreadsNext == HandleRollback \/ Boot \/ \E block \in NextBlocks(ledger) : ParseBlock(block)

ThreadsSpec == ThreadsInit /\ [][ThreadsNext]_threadVars

-----------------------------------------------------------------------------
(* PROPERTIES *)

(* The scanners have had room for every output so far.  For a queue that  *)
(* keeps the outputs already spent, room runs out with the insertions.     *)
HadRoom == IF scanner \in {"dex", "wayup"} THEN peak <= TrackerCap ELSE inserted <= TrackerCap

(* An output that is open on the chain is tracked, so the transaction that *)
(* spends it will be told apart from a first sighting -- unless a block    *)
(* that was rolled back had spent it already, the tracker has run out of   *)
(* room, or a restart found it gone from the cache.                        *)
OpenIsTracked ==
    HadRoom => \A o \in OpenOn(ledger) :
        \/ o \in map \/ o \in forkSpent
        \/ rebooted > 0 /\ o \notin DOMAIN txCache

(* Nothing that is spent on the chain is still tracked (it would never be  *)
(* taken, only push live outputs out), but for what the replay at boot     *)
(* leaves when a hash sorts before that of the transaction it spends.      *)
SpentIsForgotten ==
    \A o \in map \cap SpentIn(ledger) :
        /\ rebooted > 0 /\ scanner # "dex"
        /\ HashRank[<<o[1], o[2] + 1>>] < HashRank[o]

(* A transaction that spends a shared hub output is not linked to the      *)
(* transaction that made it (mod.rs: "must not create light-cone spend     *)
(* edges"), unless the hub had been spent on an abandoned fork or its      *)
(* transaction has left the cache.                                         *)
HubsDoNotLink ==
    \A x \in linked : \A o \in Spends(x) :
        o \in forkSpent \/ (rebooted > 0 /\ o \notin DOMAIN txCache)
=============================================================================
