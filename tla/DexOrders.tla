----------------------------- MODULE DexOrders ------------------------------
(***************************************************************************)
(* From an order on the ledger to the pill on its card: the DEX scanner    *)
(* (src/dapp/dex.rs) tells placements, fills and cancels of a block, and a *)
(* page (static/app.js) pairs what it receives, in any order, with the     *)
(* cards it shows.  Rollbacks reach neither the scanner nor the pairing.   *)
(*                                                                         *)
(* An order is an output of the transaction shape[o].tx at a venue:        *)
(* "amm" venues settle through a pool the scanner recognises, "book"       *)
(* venues are order books, and the order addresses of "vyfi" are learned   *)
(* from a service, and its pools not at all.                               *)
(***************************************************************************)
EXTENDS Integers, FiniteSets, SequencesExt

CONSTANTS
    Orders,
    Shapes,        \* [tx, venue, kind, side, give, ask, datum, anon] of each order
    Caps,          \* what ORDER_TRACKER_CAP may be
    MaxBlocks,     \* bound: length of the chain
    MaxRollbacks,  \* bound: rollbacks
    MaxRestarts    \* bound: restarts

ASSUME OrdersAssumption ==
    /\ Shapes \subseteq [Orders -> [tx : {1, 2}, venue : STRING, kind : {"amm", "book", "vyfi"},
                                    side : {"sell", "buy", "swap", "lp"},
                                    give : SUBSET STRING,
                                    ask : STRING \ {"none", "unresolved"},
                                    datum : {"named", "pool", "none"}, anon : BOOLEAN]]
    /\ Caps \subseteq Nat \ {0} /\ {MaxBlocks, MaxRollbacks, MaxRestarts} \subseteq Nat
    /\ IsFiniteSet(Orders)

VARIABLES
    shape,      \* what the orders of this behaviour are
    cap,        \* its ORDER_TRACKER_CAP
    chain,      \* the blocks adopted: [id, txs]
    tracked,    \* OrderTracker.map: order -> what it wants
    queue,      \* OrderTracker.order, which keeps what was taken
    vyfi,       \* have the order addresses been fetched?
    pools,      \* has the pool pair been fetched?
    cache,      \* transactions in the retention window -> height of their block
    log,        \* events published
    got,        \* events the page has indexed
    settled,    \* dexOrderSettlement
    \* history
    blocks, seen, orphanSpent, orphanPlaced, rollbacks, restarts,
    unlearned,  \* orders whose address was not known when they were to be tracked
    evicted,    \* orders the tracker gave up at its cap
    forgotten   \* orders the retention window had passed at a restart

trackerVars == <<tracked, queue, evicted>>
scanVars == <<trackerVars, vyfi, pools, cache, log>>
pageVars == <<got, settled>>
orphanVars == <<orphanSpent, orphanPlaced>>
boundVars == <<rollbacks, restarts>>
ordersVars == <<shape, cap, chain, scanVars, pageVars, blocks, seen, orphanVars, unlearned, forgotten, boundVars>>

-----------------------------------------------------------------------------
(* The ledger. *)

TxsOf(c) == UNION {ToSet(c[i].txs) : i \in DOMAIN c}
PlacedOn(c) == UNION {t.places : t \in TxsOf(c)}
SpentOn(c) == UNION {t.spends : t \in TxsOf(c)}

(* What became of o: open, filled or cancelled. *)
Truth(o) ==
    IF o \in SpentOn(chain) THEN (CHOOSE t \in TxsOf(chain) : o \in t.spends).truth
    ELSE "pending"

(* A transaction that places the orders of tx n; one that fills orders of  *)
(* a venue, or cancels one.  A settlement pays wallets or only scripts; it *)
(* may pay a wallet other tokens, or what the orders had put in.           *)
Placements == {[places |-> {o \in Orders : shape[o].tx = n}, spends |-> {}, truth |-> "pending",
                wallets |-> TRUE, change |-> "none"] : n \in {shape[o].tx : o \in Orders}}
Settlements ==
    {t \in [places : {{}}, spends : (SUBSET Orders) \ {{}}, truth : {"filled", "cancelled"},
            wallets : BOOLEAN, change : {"none", "other", "back"}] :
        /\ \A o, p \in t.spends : shape[o].venue = shape[p].venue
        /\ t.truth = "cancelled" => Cardinality(t.spends) = 1
        /\ ~t.wallets => t.change = "none" /\ \E o \in t.spends : shape[o].anon
        /\ t.change # "none" =>      \* else of no effect
              \E o \in t.spends : shape[o].datum # "named" /\ shape[o].side # "lp"}

Follows(c, t) ==
    /\ t.places \cap PlacedOn(c) = {}
    /\ t.spends \subseteq PlacedOn(c) \ SpentOn(c)
BlocksAfter ==
    LET ts == Placements \union Settlements
        firsts == {t \in ts : Follows(chain, t)}
        add(c, t) == Append(c, [id |-> 0, txs |-> <<t>>])
    IN  {<<t>> : t \in firsts} \union {b \in firsts \X ts : Follows(add(chain, b[1]), b[2])}

-----------------------------------------------------------------------------
(* `placements_in_tx`, `order_want` *)

Recognised(o, learned) == shape[o].kind = "vyfi" => learned

FirstWant(o, warm) ==
    IF shape[o].side = "lp" \/ shape[o].datum = "none" THEN "none"
    ELSE IF shape[o].datum = "pool" /\ ~warm THEN "unresolved" ELSE shape[o].ask

(* `user_fill_asset`: the largest native asset a wallet is paid in t, but  *)
(* for what a sell order had put in; which one is largest is open.         *)
PaidOut(t) ==
    (IF t.truth = "filled" THEN {shape[p].ask : p \in t.spends} ELSE {})
    \union CASE t.change = "none" -> {} [] t.change = "other" -> {"other"}
             [] t.change = "back" -> UNION {shape[p].give : p \in t.spends}
PaidIn(t, o) ==
    IF t.wallets
    THEN PaidOut(t) \ ({"ada"} \union IF shape[o].side = "sell" THEN shape[o].give ELSE {})
    ELSE {}

(* `finalize_want`: `try_resolve_want`, then `enrich_want_from_fill_tx`. *)
Resolved(o, want) == IF want = "unresolved" /\ pools THEN shape[o].ask ELSE want
FinalWantsAlways(o, want, t) == IF PaidIn(t, o) = {} THEN {want} ELSE PaidIn(t, o)   \* mutant
FinalWants(o, want, t) ==
    LET w == Resolved(o, want)
    IN  IF w \notin {"none", "unresolved"} \/ shape[o].side = "lp" \/ PaidIn(t, o) = {}
        THEN {w} ELSE PaidIn(t, o)

(* `attach_want` *)
Shown(want) == IF want = "unresolved" THEN "none" ELSE want

(* `settle_or_cancel`; the filling of a liquidity order is a dex_lp too. *)
SettledAs(o, t) ==
    IF shape[o].kind = "book" \/ (shape[o].kind = "amm" /\ t.truth = "filled")
    THEN IF shape[o].side = "lp" THEN "dex_lp" ELSE "dex_fill"
    ELSE "dex_cancel"

Hit(block, o, kind, same, closes, want) ==
    [block |-> block, order |-> o, kind |-> kind, same |-> same, closes |-> closes,
     want |-> Shown(want)]

(* Pass 1 of `scan_block`. *)
Deferred(txs) ==
    {o \in UNION {t.places : t \in ToSet(txs)} : Recognised(o, vyfi)}

(* Pass 2: orders of this block settled in it, and tracked ones.  An order *)
(* placed again after a rollback may be both.                              *)
SameBlock(txs) == {pair \in Orders \X ToSet(txs) : pair[1] \in Deferred(txs) \cap pair[2].spends}
Consumed(txs) == {pair \in Orders \X ToSet(txs) : pair[1] \in DOMAIN tracked \cap pair[2].spends}
StillOpenAll(txs) == Deferred(txs)      \* mutant: those settled are kept
StillOpen(txs) == Deferred(txs) \ {pair[1] : pair \in SameBlock(txs)}

(* The tracker. *)

(* `remember_orders` for one order: a full map gives up the front of the   *)
(* queue, which may be an order settled long ago.                          *)
Remembered(s, o, want) ==
    LET full == Cardinality(DOMAIN s.map) >= cap /\ s.queue # <<>>
        out == IF full THEN {Head(s.queue)} \cap DOMAIN s.map ELSE {}
    IN  [map |-> [p \in (DOMAIN s.map \ out) \union {o} |-> IF p = o THEN want ELSE s.map[p]],
         queue |-> Append(IF full THEN Tail(s.queue) ELSE s.queue, o),
         evicted |-> s.evicted \union (out \ {o})]

RememberedAll(s, news, wants) ==
    LET after[n \in 0..Len(news)] ==
          IF n = 0 THEN s ELSE Remembered(after[n - 1], news[n], wants[news[n]])
    IN  after[Len(news)]

(* The orders in which a HashMap may hand out the elements of S. *)
HashMapOrders(S) ==
    {news \in [1..Cardinality(S) -> S] : \A o \in S : \E k \in 1..Cardinality(S) : news[k] = o}

SetTracker(s) == tracked' = s.map /\ queue' = s.queue /\ evicted' = s.evicted

(* `take_consumed`, which leaves the queue alone, then `remember_orders`.  *)
TrackBlock(txs) ==
    LET rest == DOMAIN tracked \ UNION {t.spends : t \in ToSet(txs)}
        taken == [map |-> [o \in rest |-> tracked[o]], queue |-> queue, evicted |-> evicted]
        wants == [o \in StillOpen(txs) |-> Resolved(o, FirstWant(o, pools))]
    IN  \E news \in HashMapOrders(StillOpen(txs)) : SetTracker(RememberedAll(taken, news, wants))

(* The event of one settlement: one for each want it may end with. *)
HitsOf(id, pair, same) ==
    LET o == pair[1]
        want == IF same THEN FirstWant(o, pools) ELSE tracked[o]
    IN  {Hit(id, o, SettledAs(o, pair[2]), same, TRUE, w) : w \in FinalWants(o, want, pair[2])}

(* `parse_block` drops an event without an actor: who placed the order, or *)
(* a wallet that the settlement pays.                                      *)
HasActor(pair) == ~shape[pair[1]].anon \/ pair[2].wallets
SettlementHits(id, txs) ==
    {HitsOf(id, pair, TRUE) : pair \in {p \in SameBlock(txs) : HasActor(p)}}
        \union {HitsOf(id, pair, FALSE) : pair \in {p \in Consumed(txs) : HasActor(p)}}

(* Each order left open whose placer is known. *)
OrderHits(id, txs) ==
    {Hit(id, o, IF shape[o].side = "lp" THEN "dex_lp" ELSE "dex_order", FALSE, FALSE,
         Resolved(o, FirstWant(o, pools))) : o \in {p \in StillOpen(txs) : ~shape[p].anon}}

(* The sets of events a block may give rise to: one for each settlement.   *)
Outcomes(id, txs) ==
    LET each == SettlementHits(id, txs)
    IN  {OrderHits(id, txs) \union {f[s] : s \in each} :
            f \in {g \in [each -> UNION each] : \A s \in each : g[s] \in s}}

-----------------------------------------------------------------------------
OrdersInit ==
    /\ shape \in Shapes /\ cap \in Caps
    /\ chain = <<>> /\ cache = [t \in {} |-> 0] /\ log = {}
    /\ tracked = [o \in {} |-> "none"] /\ queue = <<>>
    /\ vyfi = FALSE /\ pools = FALSE
    /\ got = {} /\ settled = [k \in {} |-> "pending"]
    /\ blocks = 0 /\ seen = {} /\ orphanSpent = {} /\ orphanPlaced = {}
    /\ unlearned = {} /\ evicted = {} /\ forgotten = {}
    /\ rollbacks = 0 /\ restarts = 0

(* `parse_block`, and the caching of the block's transactions. *)
RollForward(txs) ==
    /\ chain' = Append(chain, [id |-> blocks, txs |-> txs])
    /\ blocks' = blocks + 1
    /\ \E events \in Outcomes(blocks, txs) : log' = log \union events
    /\ TrackBlock(txs)
    /\ cache' = [t \in DOMAIN cache \union ToSet(txs) |->
                    IF t \in ToSet(txs) THEN Len(chain) + 1 ELSE cache[t]]
    /\ seen' = seen \union ToSet(txs)
    /\ unlearned' = unlearned
            \union {o \in UNION {t.places : t \in ToSet(txs)} : ~Recognised(o, vyfi)}
    /\ UNCHANGED <<shape, cap, vyfi, pools, pageVars, orphanVars, forgotten, boundVars>>

(* `handle_rollback`, which no registry hears of. *)
RollBack ==
    /\ rollbacks < MaxRollbacks /\ chain # <<>>
    /\ rollbacks' = rollbacks + 1
    /\ chain' = Front(chain)
    /\ orphanSpent' = orphanSpent \union SpentOn(<<Last(chain)>>)
    /\ orphanPlaced' = orphanPlaced \union PlacedOn(<<Last(chain)>>)
    /\ UNCHANGED <<shape, cap, scanVars, pageVars, blocks, seen, unlearned, forgotten, restarts>>

(* `vyfinance::refresh_loop` *)
FetchVyfi ==
    /\ ~vyfi /\ (\E o \in Orders : shape[o].kind = "vyfi")     \* else of no effect
    /\ vyfi' = TRUE
    /\ UNCHANGED <<shape, cap, chain, trackerVars, pools, cache, log, pageVars, blocks, seen,
                   orphanVars, unlearned, forgotten, boundVars>>

(* `PoolCache::refresh_loop`, or the prefetch of a `lookup` that missed. *)
FetchPools ==
    /\ ~pools /\ (\E o \in Orders : shape[o].datum = "pool")    \* else of no effect
    /\ pools' = TRUE
    /\ UNCHANGED <<shape, cap, chain, trackerVars, vyfi, cache, log, pageVars, blocks, seen,
                   orphanVars, unlearned, forgotten, boundVars>>

(* `warm_from_tx_entries` over the transactions kept, before either        *)
(* service was asked: what they place and none of them spends, remembered  *)
(* in the order of the blocks.                                             *)
Fresh == [map |-> [o \in {} |-> "none"], queue |-> <<>>, evicted |-> evicted]
RestoredNone(kept) == {Fresh}      \* mutant: not warmed
Restored(kept) ==
    LET open == {o \in UNION {t.places : t \in kept} : Recognised(o, FALSE)}
                    \ UNION {t.spends : t \in kept}
        height(o) == cache[CHOOSE t \in kept : o \in t.places]
        wants == [o \in open |-> FirstWant(o, FALSE)]
    IN  {RememberedAll(Fresh, news, wants) : news \in
            {ns \in HashMapOrders(open) :
                \A j, k \in 1..Cardinality(open) : j < k => height(ns[j]) <= height(ns[k])}}

(* A boot, when the retention window has passed the blocks up to some      *)
(* height (`cached_tx_entries`).  The pages reconnect and get a snapshot.  *)
Restart ==
    /\ restarts < MaxRestarts
    /\ restarts' = restarts + 1
    /\ \E passed \in 0..Len(chain) :
        LET kept == {t \in DOMAIN cache : cache[t] > passed}
        IN  /\ cache' = [t \in kept |-> cache[t]]
            /\ \E s \in Restored(kept) : SetTracker(s)
            /\ forgotten' = forgotten \union PlacedOn(SubSeq(chain, 1, passed))
    /\ vyfi' = FALSE /\ pools' = FALSE
    /\ got' = {} /\ settled' = [k \in {} |-> "pending"]
    /\ unlearned' = unlearned \union {o \in PlacedOn(chain) : ~Recognised(o, FALSE)}
    /\ UNCHANGED <<shape, cap, chain, log, blocks, seen, orphanVars, rollbacks>>

(* `dexSettlementKey`: an order is named by its transaction and venue. *)
KeyByTx(o) == <<shape[o].tx, "">>      \* mutant: by its transaction
KeyOf(o) == <<shape[o].tx, shape[o].venue>>

(* `retentionIndex`, `applyDexSettlement`, `markDexOrderSettled`: the page *)
(* indexes what it lacks, older or newer events first, and the first       *)
(* terminal status of a key stays.                                         *)
Receive ==
    LET new == {e \in log \ got : e.kind \in {"dex_fill", "dex_cancel"}}
        status(e) == IF e.kind = "dex_fill" THEN "filled" ELSE "cancelled"
        keys == {KeyOf(e.order) : e \in new}
    IN  /\ got # log
        /\ got' = log
        /\ \E first \in [keys -> {"filled", "cancelled"}] :
            /\ \A k \in keys : \E e \in new : KeyOf(e.order) = k /\ status(e) = first[k]
            /\ settled' = [k \in DOMAIN settled \union keys |->
                              IF k \in DOMAIN settled THEN settled[k] ELSE first[k]]
        /\ UNCHANGED <<shape, cap, chain, scanVars, blocks, seen, orphanVars, unlearned, forgotten, boundVars>>

OrdersNext ==
    \/ Len(chain) < MaxBlocks /\ \E txs \in BlocksAfter : RollForward(txs)
    \/ RollBack \/ FetchVyfi \/ FetchPools \/ Restart \/ Receive

OrdersSpec == OrdersInit /\ [][OrdersNext]_ordersVars

-----------------------------------------------------------------------------
(* PROPERTIES *)

(* A block tells of an order once: one placed and settled in a block is a  *)
(* swap, not an order and its fill.  (An order that a rolled back block    *)
(* had placed already is settled twice.)                                   *)
ToldOnce ==
    \A e, f \in log :
        e.block = f.block /\ e.order = f.order => e = f \/ e.order \in orphanPlaced

(* Why the scanner may not know an order any more: an abandoned block had  *)
(* settled it, its address was not known when it was placed or at boot,    *)
(* the tracker was full, or the window had passed it at a boot.            *)
Lost == orphanSpent \union unlearned \union evicted \union forgotten

(* The settlement of every order on the chain is told, by the block that   *)
(* settled it -- but for an order lost, and for one that neither its       *)
(* placing nor its settlement lets tell whose it is.                       *)
SettlementIsTold ==
    \A i \in DOMAIN chain : \A t \in ToSet(chain[i].txs) : \A o \in t.spends :
        \/ \E e \in log : e.block = chain[i].id /\ e.order = o /\ e.closes
        \/ o \in Lost \/ ~HasActor(<<o, t>>)

(* What an event says an order asks for is what it asks for, unless the    *)
(* datum or the pool did not tell and the transaction that settled it paid *)
(* something else to a wallet too.  (Of an order of several tokens that    *)
(* may be one of them, which `order_info` calls a bug: dex.rs:522, :631.)  *)
WantIsRight ==
    \A e \in log :
        \/ e.want \in {"none", shape[e.order].ask}
        \/ /\ e.closes /\ shape[e.order].datum # "named"
           /\ \E t \in seen :
                e.order \in t.spends /\ (t.change # "none" \/ Cardinality(t.spends) > 1)

(* `dexStatusPill` of a card of o. *)
Carded(o) == \E e \in got : e.order = o /\ ~e.closes
Pill(o) == IF KeyOf(o) \in DOMAIN settled THEN settled[KeyOf(o)] ELSE "pending"

(* No other order has o's key. *)
Alone(o) == \A p \in Orders \ {o} : shape[p].tx # shape[o].tx \/ shape[p].venue # shape[o].venue

(* A page that has every event shows the pill the chain gives an order, in *)
(* whatever order the events came: an order at a pool, alone with its key, *)
(* not lost, and not of liquidity, whose filling `fill_hit` tells in a way *)
(* that closes no card, against dex.rs:703.                                *)
PillIsRight ==
    got = log =>
        \A o \in PlacedOn(chain) :
            Carded(o) /\ Alone(o) /\ shape[o].kind = "amm" /\ shape[o].side # "lp" /\ o \notin Lost
                => Pill(o) = Truth(o)
=============================================================================
