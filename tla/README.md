# Cardano Observer: a TLA+ verification project

Cardano Observer follows a Cardano node over Ogmios, turns blocks into *events*
(cards), stores them and streams them to browsers. On the way it recognises what
DEX and dApp transactions do, looks up the past of certificates, and keeps caches of names.
This directory holds TLA+ models of the parts whose correctness depends on the order in which
things happen or on what the program happens to know at that time. TLC checks them on small
instances; for every instance TLAPS proves the invariants of the chain-sync client and the promise its feed
makes to readers, what crashes cost the event log and the transaction store, that a page gets the whole
window, what the order tracker tells and the page shows of it, what the scanners remember of open outputs, what
transfer cards and certificates say, and what the name caches hold.

Paths such as `src/state.rs` are relative to the repository; `persist.rs:216` is a line of `src/persist.rs`.

    tlc -workers 2 -config MCChainSync.cfg MCChainSync     # one run
    tlapm ChainSyncProofs.tla                              # the proofs of one module

## 1. The system

### Parts

| part | state | operations | status |
|---|---|---|---|
| chain-sync client, `src/ogmios.rs` | the connection; the node's read pointer; answers in flight | `run`, `sync_once`, `handle_forward`, `handle_rollback` | **ChainSync**, **EventLog** |
| | missing-transaction plan | `backfill_missing_txs`, `backfill_once` | **TxStore** |
| application state, `src/state.rs` | `recent_blocks`, `orphans`, `tip` | `note_block`, `rollback_to`, `recent_blocks_points`, `set_tip` | **ChainSync** |
| | `events` (the ring), `next_id` | `publish`, `trim_events`, `restore` | **EventLog** |
| | `sender` (broadcast channel) | `publish`, `snapshot`, `retention_buffer_page` | **LiveFeed** |
| | `txs` (hot transaction cache) | `cache_tx`, `cache_tx_if_absent`, `get_tx`, trims | **TxStore** |
| | stamps of buffered cards | transfer and scam stamps, `rewrite_buffered_input_txs` | **Transfers**, **UtxoTracker** |
| | | `events_before`, `search_buffered` | not modelled |
| persistence, `src/persist.rs` | `events.jsonl` | `append_event`, `load_events_since` | **EventLog** |
| | `txs.jsonl`, hash -> offset index | `TxStore::append`, `find_tx`, `load_since`, `tx_gap_plan` | **TxStore** |
| boot, `src/main.rs` | none of its own | what is restored, what the scanners are warmed from | **EventLog**, **TxStore**, **UtxoTracker**, **DexOrders** |
| web server, `src/server.rs` | one receiver per socket | `ws_client`, `api_buffer`, `api_tx` | **LiveFeed**, **TxStore** |
| | | `api_events`, `api_search`, static files | pure I/O |
| browser, `static/app.js` | `retentionCache`, `tipBatch`, `pending`, the preload | `onmessage`, `onEvent`, `scheduleTipFlush`, `flushPending`, `startRetentionPreload` | **LiveFeed** |
| | `dexOrderSettlement` | `applyDexSettlement`, `dexStatusPill` | **DexOrders** |
| | history scroll-back, DOM groups | `loadHistory`, rendering | not modelled |
| parser, `src/parse.rs` | none | token transfers; certificates; links between transactions | **Transfers**, **CertHistory**, **UtxoTracker** |
| DEX scanners, `src/dapp/mod.rs`, `dex.rs`, nine venues | `OrderTracker`, learned pools and order addresses | `scan_block`, `remember_orders`, `take_consumed`, `warm_from_tx_entries` | **DexOrders**, **UtxoTracker** |
| dApp scanners, `src/dapp/*.rs` (nine) | tracked positions, listings, stakes, pools | one scan per transaction | **DappScanners**, **DappActivity**, **UtxoTracker** |
| delegation tracker, `src/deleg.rs` | last pool and DRep per stake key | `swap_pool`, `swap_drep`, `fill_missing_froms`, `seed_from_events` | **CertHistory** |
| registration history, `src/pool_history.rs` | none | diff of two registrations | **CertHistory** |
| enricher, `src/enrich.rs` | the tasks in flight | `from` fields, single lookups beside refreshes, scam refresh | **CertHistory**, **MetaCaches**, **Transfers** |
| name caches, `src/pools.rs`, `dreps.rs`, `gov_actions.rs` | maps with a file behind them | scrape, replace or merge, remember, resolve | **MetaCaches** |
| scam list, `src/scam_tokens.rs` | a set with a file behind it | refresh, stamp | **Transfers** |
| `handles.rs`, `registry.rs`, `trending.rs`, `logo_colors.rs`, `demo.rs`, `config.rs`, `dapp_stub.rs`, the backend, browser tables, scripts | | | not modelled, see section 7 |

### How they interact

```
 node --Ogmios--> sync_once --> handle_forward/handle_rollback
                                   | cache_tx  --> txs.jsonl, hot cache <--- get_tx --- /api/tx
                                   | note_block / rollback_to  (recent_blocks, orphans)
                                   | parse_block: order and dApp scanners, delegation tracker
                                   |   (not told of rollbacks; warmed at boot from txs.jsonl)
                                   | enricher: from-fields, transfer and scam stamps
                                   v
                                publish --1--> events.jsonl
                                        --2--> ring  <--- /api/buffer pages --- page
                                        --3--> broadcast --> ws_client --> socket --> page
 boot: events.jsonl --> ring, next_id, recent_blocks;  txs.jsonl --> index, hot cache
 once after boot: tx_gap_plan --> backfill_once (its own connection) --> cache_tx
```

One task runs the chain-sync client and awaits each handler, so handlers never
overlap. Every browser has a `ws_client` task of its own, and the page runs its
message handler, animation frames, timers and the preload concurrently. State is
shared through one mutex per field; nothing spans several of them.

### What is hard about it

* The node answers up to 25 pipelined requests; when it switches forks, answers
  of the old fork are already queued.
* A connection can fail in every phase; the client must find its place again
  from the last ten blocks it remembers, on a node that has moved meanwhile.
* `rollback_to` compares slots only, `recent_blocks` and `orphans` are bounded,
  and orphans are never cleaned.
* The process may stop between the events of one block, and inside a line.
* What was in memory (ids, believed chain) is recomputed from what can be read.
* Transaction bodies are found by byte offset in a file that three tasks use, that
  crashes tear and on which writes fail; a background task refills what is missing.
* A browser gets events over three paths (snapshot, stream, pages) that overlap
  in time; each may be late, lagging, restarted or capped.

* The scanners, the delegation tracker and the hub set are written while a block is parsed; a
  rollback does not reach them, a restart rebuilds them from a cache that is unordered in
  places and shorter than the chain.
* One fact has two sources: a delegation's past comes from the tracker or from a backend that
  may be behind or ahead and which a deregistration ends; an order's want comes from its datum, from a pool, or from the
  transaction that fills it.
* Ogmios names the outputs a transaction spends but neither their owners nor their value: what
  a card says depends on which parents can still be found.
* Scrapes that take minutes, single lookups and retries write the same caches, in any order.
* The page pairs settlements with order cards it receives in any order.

`PROJECT.json` lists each hazard at its line with the properties about it.

## 2. Modules

| module | models | extends / instances |
|---|---|---|
| `ChainTree` | the block tree: slots, heights, forks | |
| `ChainFeed` | abstract: what block events promise a reader | `ChainTree` |
| `ChainSync` | chain-sync client + believed chain, against a node that forks and a link that drops | `ChainTree`; implements `ChainFeed` |
| `EventLog` | events on disk, ids, ring, boot, crashes | `ChainSync`, whose actions it composes |
| `LiveFeed` | publisher, broadcast, `ws_client`, page | |
| `TxStore` | transaction bodies on disk and in memory, backfill, lookups | |
| `UtxoTracker` | what the scanners remember of open outputs, and the hubs that link nothing | |
| `DexOrders` | an order from placement to the pill on its card | |
| `DappScanners` | what each of the nine dApp scanners reports of a transaction (pure) | |
| `DappActivity` | the ledger beside those scanners, whose memory is lossy | `DappScanners` |
| `CertHistory` | where the past of a certificate comes from | |
| `Transfers` | the token-transfer card and its scam warning | |
| `MetaCaches` | pool, DRep and governance-title caches | |
| `MCChainSync`, `MCEventLog`, `MCLiveFeed` | instances for TLC | the module checked |
| `MCScanners` | instance of the scanners and their ledgers, one per behaviour | `UtxoTracker`, `DexOrders`, `DappActivity` |
| `MCServices` | instance of the services beside the feed, one per behaviour | `CertHistory`, `Transfers`, `MetaCaches` |
| `Subsequences` | what retain, filter and sort leave of a sequence, as the positions it keeps (pure) | used by `EventLog`, `LiveFeed`, `TxStore`, `UtxoTracker`, `CertHistory` |
| `ChainSyncProofs`, `EventLogProofs`, `LiveFeedProofs`, `TxStoreProofs`, `DexOrdersProofs`, `ServicesProofs`, `UtxoTrackerProofs` | theorems and their lemmas | the module proved about |
| `DataLemmas` | lemmas about sets of naturals, sequences and `Subsequences` | used by the proofs |

### ChainTree

A block is its hash. `Slot[b]` is its slot, `Path[b]` the chain that ends in it;
height is the length of that chain. `TreeAssumption` is what a ledger guarantees:
a block fixes its ancestors, slots strictly grow along a chain, and all chains
share their first block (the immutable part is not forked).

### ChainSync

| variable | code |
|---|---|
| `nodeTip`, `readPtr`, `owesRollback` | the node's chain, its chain-sync read pointer for this client, and the backward answer due after `findIntersection` (external) |
| `phase` | where `sync_once` stands: `find_points` (about to send the resume points), `query_tip`, `find_tip` (about to offer the tip it was told), `live` (the `nextBlock` loop), `down` (between attempts in `run`) |
| `asked` | the answer to `queryNetwork/tip` |
| `wire` | answers on the socket; at most `Pipeline` |
| `recent`, `orphans`, `tip` | `recent_blocks`, `orphans`, `tip` of `AppState` |
| `standing`, `battles` | history: what published events said of each block |
| `pos` | history: last point handled on this connection |
| `restarted` | history: the client had to start over at an unrelated point |

`Connect`, `FindByPoints`, `FindNone`, `QueryTip`, `FindByTip` are the awaits of
`sync_once` up to the pipeline, `Drop` an error in any of them. `HandleForward`
is the whole of `handle_forward` (note the block, publish, battle, tip),
`HandleBackward` the whole of `handle_rollback`; both are atomic here because
the loop awaits them and nothing else writes this state. `Extend` and `Reorg`
are the node's: a fork switch never adopts a shorter chain. `KeepsFirst`
describes the loop of `rollback_to` by its result.

A rollback to origin has no slot and is ignored, as in the code. The reply to
`nextBlock` that is sent after each handler is implied by `Len(wire) < Pipeline`.

### EventLog

Each handler step of `ChainSync` queues the events it publishes (`batch`), and
`Publish` publishes one: id, line, ring, broadcast. `Crash` stops the process
anywhere; the line being appended is absent, complete, or torn (`TearKinds`:
`cut`, `split` inside a UTF-8 character, `unended` without its newline). A line that is not
UTF-8 ends every later load of the file (`Hidden` is what stands behind one). `Boot` is
`load_events_since`, `restore` and `restore_recent_blocks`. What follows a line
without a newline is written into it (`Glued`). A block has one transaction;
events of a kind that need no other treatment are not distinguished. Time is
counted in slots: `slot_to_unix` is monotone and the retention and backfill windows
are constants in slots.

### LiveFeed

An event is its id. `Push` and `Broadcast` are the two halves of `publish` after the
append. `Subscribe`, `SendSnapshot`, `Relay`, `Lagged` are `ws_client`; a receiver that
is more than `ChannelCap` behind is resubscribed. `OnSnapshot`, `OnEvent`, `Frame`,
`FlushParked` are the page's handler, animation frame and flush timer;
`ServePage`/`OnPage`/`PageFails` are the loop of `startRetentionPreload`. The
generation counter is modelled by what it does: a snapshot drops what an older
preload waits for. The code asks for the next page before it has indexed the
present one, in chunks; indexing only adds to the cache of the same
generation, so asking and indexing in one step reaches the same results.

The ring starts as `Restored`, in any order: boot sorts events by slot, and after a fork that differs from
the order of ids. `Displaced` are the events put before one with a smaller id; a page cuts the ring by position and
goes on by id, so its cursor may pass them. They are the exception in the properties, and the subject of a
violation run (section 4).

Left out: `retentionTrim` (the page forgets by its own clock what the server has
trimmed by its own), the animation queue behind `insertTipEvents`, and messages
that carry no events (tip, status, stats, trending).

### TxStore

A block holds one transaction and both are named by their slot. A line of `txs.jsonl`
is three units, the halves of its JSON and the newline; offsets count units, which
is enough to cut a line before, inside and after its JSON.

| variable | code |
|---|---|
| `file`, `blocks`, `events` | `txs.jsonl`; the block and transaction events in `events.jsonl` |
| `buf`, `nextOffset`, `index` | `TxStore`: the bytes left in its `BufWriter`, `next_offset`, `index` |
| `order`, `hot` | `TxCache` |
| `writer` | where the chain-sync client and the backfill stand in `cache_tx`, whose three critical sections are `AppendTx`, `InsertTx` and the trim |
| `reader` | a `get_tx` between reading the file and warming the cache |
| `plan`, `known`, `gap`, `missing`, `filledTo` | `backfill_missing_txs`: its stage, the index as `tx_gap_plan` copied it, the plan, and the last block read |

`AppendFails` is a flush that fails part way (a full disk): a line shorter than the
`BufWriter` stays in it and goes out with the next one, a longer one is lost from where it was
cut; `next_offset` is not moved either way. `Crash` may leave a prefix of the line on its
way. The first state is what "older count-based compaction" left: events without bodies.

The chain does not fork here; a rollback makes the client handle its last block again. A
file whose torn line is not UTF-8 loads fewer bodies into `hot` at boot (as in EventLog);
that is left out, since the index reads bytes and every lookup falls back to it.

### UtxoTracker

The ledger is a set of threads (an order, a position, a listing, a pool): each transaction spends
the last output of its thread and leaves the next, until the last one.

| variable | code |
|---|---|
| `map`, `fifo` | the bounded trackers of `dex.rs` (`OrderTracker`) and of the dApp scanners (`TrackedSet`, `TrackedPools`) |
| `hubs` | `graph_hubs` |
| `txCache` | the cached transactions with their slots, from which boot warms the trackers |
| `linked` | the transactions whose `inputTxs` name the one they spend, as `parse_tx` and `rewrite_buffered_input_txs` write them |

The scanners differ in whether taking an output also leaves the queue, and in the order they replay cached transactions at
boot: each sorts them by slot and hash (`warm_from_tx_entries`), the DEX scanner looks at placements only.
`ParseBlock` is `parse_block` with the scanners it calls and the caching of the block's transactions. `HandleRollback` changes
nothing of the above: that is `handle_rollback`. `Boot` warms from what of the cache is still in the window.

The model shows these differences from what one would expect; they are in the guards of the
properties: an output spent on an abandoned fork is forgotten; `remember_orders` drops stale queue
heads one per insertion, so the map can exceed its cap for a while; after a restart
`rewrite_buffered_input_txs` links transactions over pool outputs of Surf again, because
`is_spend_graph_hub_address` is always false there (`surf.rs:264`), which is why the run leaves Surf's hubs out.
Strike keeps no hubs: a transaction that spends a shared locker is linked to the one before it.

### DexOrders

| variable | code |
|---|---|
| `shape` | what a placement's datum and address say: transaction, venue and its kind, side, what is put in (`give`) and asked for, whether the datum names what it asks for, whether it names its owner |
| `cap` | `ORDER_TRACKER_CAP` |
| `tracked`, `queue` | `OrderTracker`: order -> what it wants; the queue, which keeps what was taken |
| `vyfi`, `pools` | what the refresh loops of VyFi and the pool caches have learned |
| `cache` | the transactions the boot can warm from, with the height of their block |
| `log`, `got`, `settled` | events published; events a page has indexed; `dexOrderSettlement` |
| `evicted`, `forgotten`, `unlearned` | history: orders a full tracker gave up, that the window had passed at a boot, whose address was not known in time |

`RollForward` is the whole of `scan_block`: placements first (`Deferred`), then settlements in
the same block (`SameBlock`), settlements of tracked orders (`Consumed`), then what stays open
(`StillOpen`) is told and remembered in the order of a HashMap (`TrackBlock`). `Outcomes` is a set because a want may resolve to any of
several assets paid to wallets (`FinalWants`). `parse_block` then drops every event without an actor (`HasActor`, `parse.rs:124`): an
order whose datum names no owner, and its settlement when that pays no wallet. `Restart` warms from the cached
transactions above a height chosen freely (`passed`), since the retention window ends anywhere. `Receive` is a page indexing
what it lacks, in any order. Datum layouts are abstracted to what they yield.

`Lost` names why the scanner may not know an order any more: an abandoned block had settled it, its address was not
known when it was placed or at boot, the tracker was full, or the window had passed it at a boot. `SettlementIsTold` and
`PillIsRight` except these orders and nothing else, apart from what follows.

Differences the model shows, named in the properties or here:

* an order placed again after a rollback is settled twice;
* a VyFi fill shows as a cancel, and a cancel at an order book as a fill (`PillIsRight` is about orders at a pool);
* the filling of a liquidity order is told by `fill_hit` as a `dex_lp` (`dex.rs:734`), on which the page
  settles no card (`app.js:866`), so the card stays "Pending", against "Clients pair the settlement with its order card
  directly from this field" (`dex.rs:703`);
* an order of several tokens (side "swap") that is cancelled and pays them back is shown as asking for one of them, because
  `user_fill_asset` leaves out what was put in for side "sell" only (`dex.rs:631`), against "Ask must not equal a
  deposited asset" (`dex.rs:522`); an unresolved want may also take another token of the filling transaction;
* two orders of one transaction at a venue share a key; a fork's cancel locks the card.

### DappScanners, DappActivity

`DappScanners` translates the decision part of the nine scanners (what a transaction is taken
for, which amounts are told, who is said to have acted), as operators from a transaction and the
outputs it spends, as far as they are known. A value is a sparse function from assets to
quantities; datums, redeemers and metadata are the cues they reduce to. `DappActivity` makes the
transactions users and protocols make, with change, a keeper or another party beside them. What the scanners remember fails in
two ways: a tracked output is lost at any time (`Forget`; `UtxoTracker` says when that happens), and a rollback undoes a
transaction on the ledger but not the balance Dano remembers per market and pool (`Undo`, `dano.rs:395`).
`InputsNamed = FALSE`: Ogmios sends inputs without addresses, so the code that reads them is
there but never decides.

`AmountIsReal` is about the amounts that are measured against the outputs spent (`Measured`). Not among them: Liqwid and Optim tell what is
minted and burned, and Fluidtokens and Wayup what an output holds or wallets are paid, whatever was there before. Of the measured
ones an amount is never more than what moved although an output was lost, except where the code trusts its memory (`Trusting`),
which the property names:

* an Indigo stability-pool deposit or staking deposit seen before the shared output itself is told with the whole balance (`indigo.rs:630`),
  against "Never attribute the whole pool balance — only the net deposit" (`indigo.rs:528`);
* Strike's branch for a locker that was lost needs `spent_any`, which inputs without an address do not set (`strike.rs:405`), so a withdrawal from
  it is told as a deposit of what is left, against "when we spend the locker but have no tracked priors, classify withdraw"
  (`strike.rs:421`);
* Dano takes its difference to whatever balance it remembers.

Other differences the model shows: an Iagon node rewrite is told as a pledge of the total; Dano's cache is not moved by
rewrites that mint nothing and its warming is not sorted; ADA-only change counts in the price of a
Wayup sale or accepted offer and as the price of an Iagon position sale; small withdrawals of
ADA are not told; of a Strike locker without an owner in its datum and without a signer, whoever receives native units is
named, and without such a receipt whoever receives most ADA.

### CertHistory

`node` is the chain the process and the backend follow; `at` how far the process is. An
assignment (key, kind, value) asks the `tracker` first, then the backend, which stands anywhere between `Lag` blocks
behind and the node's tip (`Views`), or does not answer. The node may be `MaxAhead` blocks ahead, as it is while the process
catches up after a stop. A deregistration (`what = "end"`) ends both delegations of a stake key (`Target`); the backend's account
row shows that, its delegation rows and the tracker do not. A key assigned twice in one block, a
fork that takes an assignment back, eviction at the cap and the seeding at boot from `told` are all there.

The exceptions named in `FromIsRight` are what the code does:

* `stale`: the backend lacked an earlier certificate of the key when it was asked, or held a later one already. For registrations
  `pool_history.rs` says otherwise: "A lagging backend is harmless here" (`:93`), "Two rows is always enough" (`:107`); that is a
  violation run (section 4). For delegations `fill_missing_froms` describes the account query as the state before the
  certificate (`deleg.rs:100`), and takes whatever it holds (`deleg.rs:158`);
* the key was deregistered in between: the tracker is not told, and the history rows have no such row;
* a rollback does not restore the tracker (`deleg.rs:54`);
* the backend's last entries are matched by transaction, so a second assignment of a transaction may get a wrong `from`;
* a redelegation to the same pool is told as a change from the pool before it (`swap_pool` and `fill_missing_froms` compare before
  they fill in, so the filter of `deleg.rs:203` drops nothing; that is a lemma, `ForwardFacts`).

`ChangeIsTold` has no exception. A pool is spelt in one way, a DRep and a registration in several.
Retries are abstracted to an answer that is late or missing.

### Transfers

One transaction: its card is parsed (`ParsedAmounts`), dropped or reduced by what proves it internal
(`ExternalAmounts`, `ChangesHands`), stamped for scams, and restamped at boot. `bodies` is which
parents, and whether the transaction itself, can be found at that time. Conservation of assets gives
the reference: what the spending wallets gave up. Named exceptions: with no parent known, a sweep to a
single key wallet is dropped as a reshuffle (`parse.rs:603`, `804`), and so is what only Byron addresses receive, which
have no credential (`parse.rs:761`). The run has a transaction for each. Differences left out of the properties:
of the assets beyond `MAX_ITEMS` a card says only how many they are, which the properties take for reported;
a swap between two co-signing wallets is taken for internal (`state.rs:265`); with some parents unknown
the card tells too much; Byron change counts as leaving; minted and burned assets have cards of
their own; a refresh of the scam list does not restamp buffered cards, only a boot does.

### MetaCaches

`cache` is `by_id` of the pool and of the DRep cache. Three tasks scrape (`Scrapers`): for pools the scrape of boot
and that of the daily loop, which are spawned apart (`main.rs:133`, `:141`) and which no lock keeps from overlapping; for DReps one at a time,
because `scrape_lock` is held (`dreps.rs:112`). A scrape reads pages and may turn to one
request per id; `PoolCache::refresh` *replaces* the map, the DRep scrape *merges*. Lookups are
separate tasks and answer whenever they do. A DRep has two spellings: what a lookup learns is remembered under the one it was asked by,
and `get` prefers the exact spelling (`alias`, `NameShown`). `floor` notes which names the completed scrapes
guarantee. Exceptions named in `NamesAreRecent`: a pool whose own `/metadata` request failed drops
out of the new map (`pools.rs:309`); of two overlapping pool scrapes the older ended last; a lookup asked before the scrape and answered after it
overwrites the newer name (`enrich.rs:558`); a DRep remembered under the spelling the backend does not list keeps shadowing
what a scrape learns, for readers who ask by that spelling.

Not an exception, because nothing is promised of it: a pool that is first named while a scrape runs, and learned by a lookup, is lost when that
scrape replaces the map (`pools.rs:123`) and asked for again, against "never re-fetch a pool we already know" (`enrich.rs:531`).

Titles are a map of their own: `ResolveOne` is the decision tree of `resolve_one`, `Better` the rule of `remember`. An anchor's answer is
a document with or without title, an error before the body, or a body cut off on the way, which `fetch_anchor_title` takes for a document
without title (`gov_actions.rs:424`). `TitlesAreConfirmed` excepts the actions with such a body (`cutOff`); that it
needs to is a violation run (section 4).
Left out: rows that move between pages, failed saves, a 404 of a lagging backend that is cached until the next start.

## 3. Runs

All runs have `CHECK_DEADLOCK FALSE`: the block tree (or the number of ids or blocks)
is finite, so the instance really ends.

| run | kind | question |
|---|---|---|
| `chain_sync` | pass | is what the feed says of blocks and battles exact? |
| `chain_sync_tight` | pass | does the believed chain stay one with small capacities, and does the client catch up? |
| `chain_sync_genesis` | violation | can a client with history be served from genesis? |
| `event_log` | pass | what do crashes, torn lines and forks during a stop cost? |
| `event_log_ids` | violation | are ids unique? |
| `live_feed` | pass | does the page get the whole window? |
| `live_feed_window` | violation | does a page that was told "exhausted" have the window? |
| `tx_store` | pass | are bodies found, kept and refilled? |
| `scanners` | pass | what do the scanners remember of outputs, what do they tell of orders and of dApp actions, and what does the page show of it? |
| `services` | pass | are certificates' pasts, transfer cards and cached names and titles right? |
| `registrations_ahead` | violation | is a registration compared with the one before it? |
| `titles_cut_off` | violation | is a title that could not be read asked for again? |

### ChainSync

The tree of `MCChainSync` has a trunk and two forks with slot rivals, height rivals and
a pair that is both. Its height, four, covers forks one and three deep. `MaxReorgs = 2` lets a fork win and lose
again; `MaxDrops = 2` lets the link fail before and after a fork. `Pipeline = 2`
suffices for an answer of the old fork ahead of a backward one.

* `MCChainSync.cfg` keeps the capacities (720, 100) out of reach of the tree, as
  they are for normal forks: `CurrentIsRecent` (the believed chain is exactly what
  readers hold as current), `NoForkNoOrphan`, `BattlesAreReal`, `BattlesReported`,
  and `KeepsPromise`, the refinement of `ChainFeed`.
* `MCChainSyncTight.cfg` makes them smaller than a fork is deep (`RecentCap = 2`,
  `OrphanCap = 1`, one resume point): `RecentIsChain`, `EndsAtPosition` and the
  inductive invariant `ChainInv` (of which `SlotsGrow` is a conjunct); and the liveness properties `Converges` and
  `TipSettles`. Fairness: weak, on the client's own steps (`run` loops for ever, every await
  has a timeout) and on the node answering requests. Nothing forces blocks, forks or
  failures; they are bounded, so eventually they stop, which is the situation the
  properties are about.
* `MCChainSyncGenesis.cfg` (violation): see section 4.

### EventLog

`Retention = Backfill = 2` slots with a clock up to 5 lets blocks leave the windows while
others stay; two crashes allow a crash during recovery, one of them may tear a line (`MaxTears`; what
several tears cost together is proved). Two fork switches let a fork win and lose
again while the process is down; the link itself does not fail here (ChainSync covers that), since a crash
loses it as well. A crash may cut the line being written, split it inside a character, or leave it
without a newline.

* `MCEventLog.cfg`: `RingIdsResolve`, `SeenIsKept`, `NoBlockMissed`, `ForksBackfilled`. The
  statements name what the code really loses. `SeenIsKept`: a torn write costs two events, the
  line without a newline and the one appended to it (the module comment of `src/persist.rs`
  speaks of the first only), and, when it is cut inside a character, every event behind it.
  `NoBlockMissed`: a stop between the events of a block leaves that block without the rest, one
  block per stop, because the block event is written first and is the resume point.
  `ForksBackfilled`: orphan cards of offline forks are made at the next start, unless the node
  has come back to a fork the log saw orphaned: boot restores every `block` event of the window,
  so the intersection is found at a resurrected orphan and nothing is popped above its slot.
* `MCEventLogIds.cfg` (violation): ids.

### LiveFeed

`MCLiveFeed.cfg`: three events at boot and three published, snapshots of one, pages of
two, a channel and a socket of one: a page needs several fetches, the
receiver can lag, and a snapshot can arrive in every state of the preload. One lost
socket, one failed fetch, one trim, one scroll. `NothingFallsBetween` is the
invariant that explains `WindowIsCovered`. `CatchesUp` assumes weak fairness on the publisher's
second half, `ws_client`, the browser's reconnect timer, handler, frames and timers, and the
preload; no fairness on publishing, failing or scrolling. A reader who never scrolls back
and a failed page fetch (which the code does not retry) are excused in the formula.
`ParkCap` (800) is out of reach: beyond it the page drops parked events without
indexing them, and `WindowIsCovered` does not hold; `PROJECT.json` lists that as a hazard.
The ring starts as `<<2, 1, 3>>`: a boot that restored a fork, so that event 2 is displaced.
`MCLiveFeedWindow.cfg` (violation) is the same ring without any fault.

### TxStore

Three blocks: the file lacks up to two bodies, so one is refilled and one is the oldest. Two
crashes: one tears a line, the next start glues a line to it, the one after that sees the
loss. One mishap, a failed write or a block handled twice. A window and a cache smaller
than the chain, so that trims, cap and re-warming happen.

* `MCTxStore.cfg`: `FindIsRight` (no lookup shows another transaction), `BodiesKept` (two bodies
  per unfinished line), `NoBodyForgotten` and `Refills`. A failed write voids the first two
  until the file is opened again: `next_offset` then no longer is "file length after last
  flush" (`src/persist.rs:51`), later index entries point to earlier lines, and `read_tx_at` does
  not compare the hash it finds. `Refills` assumes weak fairness on the steps of `cache_tx` and
  of the backfill, and that a stopped process is started again.
* `Refills` excludes the oldest body of the gap: the intersection offered is its own block (`<=`),
  and the node goes on after it, so that body is never fetched.

### UtxoTracker

Two threads whose hashes sort in opposite directions, so that the replay at boot meets both orders;
three transactions each, a cap of two (`TrackerCap`, below the outputs that can be open plus stale), a window
shorter than the chain (`Retention = 3`, `MaxHeight = 4`), one rollback and one restart in any order, for each of the four ways to
remember. (`MCScanners` runs this model, the orders and the dApp scanners one per behaviour, `part`; they share no state.) `OpenIsTracked` has as guard that there was room, which `HadRoom` counts from history.

### DexOrders

Two orders in seven combinations of venue kind, side, datum and anonymity; two blocks of one or two
transactions are enough for a place and a fill in one block, in two, and after a rollback.
One rollback and one restart, whose window passes any number of blocks; services answer at any time; the page receives in any order.
The tracker has room for both orders, but for one of the two in the combination `Crowded` (`cap` is 1 there): the second evicts the first.

### DappActivity

Each scanner alone; amounts of 3, outputs of at most 6, so that an output can grow, shrink and be
emptied, and at most three outputs at a time (`MaxOpen`); a transaction pays change or another wallet more than the user gets. Forgetting is
unlimited, and so are rollbacks, of the last transaction each.

### CertHistory, Transfers, MetaCaches

They share no state, so `MCServices` runs one per behaviour (`part`), and the caches, which do not touch each other either, one
per behaviour; delegations and registrations are a part each. Delegations: two stake keys, up to two blocks, transactions that
delegate a key, delegate it twice, deregister it, and choose a DRep. Registrations: one pool, up to three blocks. Either with up
to three transactions, one fork, a tracker of two keys, a backend up to one block behind (`Lag = 1`) and a node up to two ahead
(`MaxAhead = 2`), so that an earlier row is missing or later ones are there. Every exception of `FromIsRight` occurs in these instances.
Transfers: every conserving transaction of one or two inputs and outputs over two key wallets, a script and a Byron address.
Caches: two ids on two pages, one of them named at first, two scrapes that may overlap, one lookup in flight, names that change up to
twice; two actions, every pair of answers.

* `MCServicesRegistrations.cfg` (violation): a backend that does not lag behind, and a node that is two blocks ahead.
* `MCServicesTitles.cfg` (violation): the titles alone.

### Mutants

Each property has a fault in the module it is checked against (operators
commented `Fault` or `mutant`, used by nothing): the definition the code has is replaced by the fault, and TLC
must then find the property violated.

## 4. What the runs found

Five are runs with `expect: violation`; `PROJECT.json` quotes the text they contradict.

1. **Genesis replay** (`chain_sync_genesis`). The second `findIntersection` (tip, origin)
   is not checked for origin. If the node leaves that tip between the two requests,
   the whole chain is replayed.
2. **Ids repeat** (`event_log_ids`). `next_id` is one more than the largest id *in the
   window*. After a long stop it starts at 1 again.
3. **"Exhausted" is not the whole window** (`live_feed_window`). Boot sorts the ring by slot (`state.rs:153`), pages are cut by position
   and continued by id (`state.rs:711`). After a fork an event with a larger id stands among older slots, the cursor passes it, and the
   last page says `exhausted`, of which `state.rs:707` says "the retention window is fully covered".
4. **A registration is compared with a later one** (`registrations_ahead`). While the process catches up after a stop the two newest
   rows of a pool may both be of later registrations; `pool_history.rs:107` says "Two rows is always enough". The same property fails with a
   backend one block behind (`Lag = 1`, `MaxAhead = 1`): the row found is then the registration before the one before, of which `:93` says
   "A lagging backend is harmless here".
5. **A cut connection is remembered as "no title"** (`titles_cut_off`). `fetch_anchor_title` returns a miss when reading the body of a
   successful response fails (`gov_actions.rs:424`), and misses are kept for good; the module says "Network failures are not cached so we retry
   later" (`:9`).

The others are exceptions named inside passing properties, each of which fails without its
exception: half a block and split characters and offline forks (`event_log`), displaced events (`live_feed`), the oldest missing
body (`tx_store`), what forks, restarts, full trackers and short windows make the scanners forget, the card of a filled liquidity order, the
ask of a cancelled order of several tokens, the balance of a pool or locker that was lost (`scanners`), a `from` that
is stale, deregistered or rolled back, a name an older scrape or another spelling hides, and a transfer to a Byron address by unknown parents
(`services`), and those listed with each module above.

## 5. Proofs

Eight modules hold proofs: one for each module proved about, and `DataLemmas`. Every theorem is for all values of the
constants that satisfy the module's assumptions, so for any block tree, capacities, windows and numbers
of forks, lost connections, crashes and restarts; the bounds of the runs play no part.

| module | theorem | statement |
|---|---|---|
| `ChainSyncProofs` | `TypeCorrect` | `Spec => []TypeOK` |
| | `ChainInvariant` | `Spec => []ChainInv` |
| | `ChainIsUnbroken` | `Spec => []RecentIsChain` |
| | `SlotsGrowAlways` | `Spec => []SlotsGrow` |
| | `EndsWhereMoved` | `Spec => []EndsAtPosition` |
| | `ClientKeepsPromise` | `Spec /\ ForksFit => KeepsPromise` |
| | `BattlesTellTheTruth` | `Spec /\ ForksFit /\ [](restarted = "no") => BattlesAreReal` |
| | `CurrentIsRemembered` | `Spec /\ ForksFit => []CurrentAbove` |
| | `CurrentIsRecorded` | `Spec /\ NeverFull => []CurrentIsRecent` |
| | `DropsReportNoFork` | `Spec => []NoForkNoOrphan` |
| | `ListedBattlesAreReported` | `Spec /\ ForksFit => []ListedAreReported` |
| | `BattlesAreReported` | `Spec /\ ForksFit /\ [](Len(orphans) < OrphanCap) => []BattlesReported` |
| `EventLogProofs` | `IdsResolveAlways` | `LogSpec => []RingIdsResolve` |
| | `SeenStays` | `LogSpec => []SeenIsKept` |
| | `NothingMissed` | `LogSpec => []NoBlockMissed` |
| | `ForksAreBackfilled` | `LogSpec => []ForksBackfilled` |
| `LiveFeedProofs` | `TypeCorrect` | `Spec => []TypeOK` |
| | `FeedHasNoGap` | `Spec /\ []ParkHasRoom => []NothingFallsBetween` |
| | `LoadedWindowIsWhole` | `Spec /\ []ParkHasRoom => []WindowIsCovered` |
| `TxStoreProofs` | `TypeCorrect` | `Spec => []TypeOK` |
| | `LookupsAreRight` | `Spec => []FindIsRight` |
| | `PlanForgetsNothing` | `Spec => []NoBodyForgotten` |
| | `TearsCostTwo` | `Spec => []BodiesKept` |
| `DexOrdersProofs` | `OrdersInvariant` | `OrdersSpec => []OrdersInv` |
| | `SettlementsAreTold` | `OrdersSpec => []SettlementIsTold` |
| | `OrdersAreToldOnce` | `OrdersSpec => []ToldOnce` |
| | `WantsAreRight` | `OrdersSpec => []WantIsRight` |
| | `PillsAreRight` | `OrdersSpec => []PillIsRight` |
| `ServicesProofs` | `TitlesStayConfirmed` | `TitleSpec => []TitlesAreConfirmed` |
| | `NamesStayRecent` | `CacheSpec => []NamesAreRecent` |
| | `TransfersAlwaysReported` | `TransferSpec => []TransferIsReported` |
| | `WarningsAlwaysRight` | `TransferSpec => []WarningIsRight` |
| | `PastInvariant` | `HistorySpec => []PastInv` |
| | `ChangesAlwaysTold` | `HistorySpec => []ChangeIsTold` |
| | `FromAlwaysRight` | `HistorySpec => []FromIsRight` |
| `UtxoTrackerProofs` | `TrackerAlways` | `ThreadsSpec => []TrackerInv` |
| | `OpenAlwaysTracked` | `ThreadsSpec => []OpenIsTracked` |
| | `SpentAlwaysForgotten` | `ThreadsSpec => []SpentIsForgotten` |
| | `HubsNeverLink` | `"surf" \notin Scanners` implies `ThreadsSpec => []HubsDoNotLink` |

### Assumptions

On constants: `TreeAssumption` (what a ledger guarantees), `CapAssumption` and the others that give the
capacities their types; `OrdersAssumption` says besides that there are finitely many orders and that an
asset an order asks for is not named "none" or "unresolved", the values the model uses where the code
has no asset; `MetaCaches` that the listing is a finite sequence of ids; `TrackerAssumption` that different
transactions have different hashes (`HashRank`); `TransfersAssumption` that a transaction conserves every asset, as
the ledger checks; `CertHistoryAssumption` that a served spelling means what it spells, and that a pool has one spelling.

On behaviours, where a theorem has one, it is part of its statement, because without it the property is false:

* `ForksFit`: no rollback takes the whole of `recent_blocks`. That is what its 720 blocks are for;
  a block that has been evicted is still current to readers and can never be reported as orphaned. (Just
  after a first start the list is short and a fork may take all of it; nothing has been evicted
  then. The run checks such states, the proofs leave them out.)
* `NeverFull`: no block is noted while the list is full, so nothing has been evicted. `CurrentIsRecent` says that what
  is current is *exactly* what is recorded, which eviction ends; `CurrentIsRemembered` is the form that
  holds with evictions.
* `Len(orphans) < OrphanCap`: the list has never dropped an orphan; `ListedBattlesAreReported` is the form for a list that has.
* `restarted = "no"`: the client has not started over at an unrelated point.
* `ParkHasRoom`: fewer than 800 events wait while the reader is elsewhere; beyond it the page drops
  them, which `PROJECT.json` lists as a hazard.

On constants, in one theorem more than the module assumes:

* `"surf" \notin Scanners`: Surf's hubs are not known by address (`surf.rs:264`), and a restart that replays a block
  sorted by hash can miss one.

### Data

The provers have no induction over data. `DataLemmas` derives what is needed from the library's theorem on
well-founded orders: a nonempty set of naturals has a least element (`LeastNumber`), so a set that holds 0 and the successors
of its elements holds all (`InductiveSet`), a bounded one has a greatest (`GreatestNumber`). Where the code retains, filters or sorts
a list, `EventLog`, `LiveFeed`, `TxStore`, `UtxoTracker` and `CertHistory` say which positions stay (`Subsequence`), and `MetaCaches`
describes what a page leaves in a map as a function instead of a fold: the order and the multiplicity
of what is left are then facts about sets of numbers. What the code does in a loop over a list (the scanners over a block and
over the cache, the tracker over certificates, sums over outputs) is a function recursive in the number of elements
done. `IterationExists` shows that such a function exists for every first value and every step; a property of its
values that the step preserves follows by `InductiveSet`.

### The believed chain

The argument. That `recent_blocks` is a chain is not inductive: a forward answer appends its
block without looking at the list, so one must know that every answer in flight fits. `ChainInv` says:

* `WireLeads`: the answers in flight lead, step by step, from the client's position to
  the node's read pointer; a forward goes to a child, a backward to an ancestor
  other than origin, and the first answer on a connection is a backward;
* `RecentIsRun`: the list is a run of consecutive blocks on the chain of its last block;
* `BelowPosition`: it ends at the client's position, or is empty;
* `StartsWell`: the point a connection starts from is on the chain of a recorded block,
  or the client is known to have started over;
* `SlotsGrow`: slots grow along the list, so popping by slot pops a suffix.

A rollback to a point on the chain of the list's end pops, by `SlotsGrow`, exactly
the blocks after that point; by `RecentIsRun` what remains ends there, unless the
point lies below the list, which then becomes empty. Eviction removes the
oldest element of a run, which leaves a run.

`WireLeads` does not need the others and is proved on its own, because `EventLog` needs it without them: there the
client starts with a list read from disk that need not be a chain.

### The feed

`KeepsPromise` is the refinement of `ChainFeed`. `FeedInv` adds to `ChainInv` what the feed has said: `Seen`, every block in either list was
announced; `HeldIsRecorded`, while the client has not started over, all of `recent_blocks` is current and
whatever is current lies on the chain of its last block. A new block is the child of that last
block (by `WireLeads` and `BelowPosition`), so everything current is below it: it is an `Adopt`, and neither a slot nor
a height rival of it can be current, which makes a battle's loser an orphan although the orphan
list is never cleaned. A rollback keeps a prefix of a run, so the blocks it takes are the
highest: an `OrphanNewest`, or a stutter. `FindByTip` is `StartOver`.

`ListedAreReported` is inductive beside `FeedInv`: a battle is looked for when a block is adopted, among the orphans
listed then, and whatever is orphaned later lies above every block that stays current, so it cannot
become the rival of one. `NoForkInv` says that, while the node has not switched, everything the client
holds, asks for or is sent lies on the node's chain, and that a connection begins at the newest recorded
block; hence a backward answer takes nothing.

### The event log

* `IdsInv`: ids are distinct and parents known among the readable lines of the window, in the ring, and
  between either and the handler that is publishing; and both are below `next_id`. `next_id` is computed at boot from what
  could be read, so it need not be above what the file holds; the invariant only speaks of lines that a restart now would
  restore, which is why it survives the repeated ids of `event_log_ids`.
* `SeenInv`: what has left the file is counted against tears, with two in advance for a line that has no newline yet
  (`Owed`), and the ring holds every line a restart would restore.
* `MissInv`: `Unbroken(h)` says that the parent of every announced block above the height `h` of the first one is on disk, and that the
  client's position, its resume point and the first answer of a connection are announced or below `h`. A crash of a
  handler empties its batch, so one block at most loses what follows its block event (`Untold`), and that is
  counted against crashes. It needs no `ChainInv`, only `WireLeads`: the list restored from disk may hold two forks.
* `ForkInv`, beside `MissInv`, says how what the log holds for current (`Present`) stands to every chain the log has announced.
  On disk (`LogForks`): a block announced after a current one is above it (`LoggedInOrder`), and a current
  block either lies on an announced chain, or above its end, or is `Overtaken`: the first block of that chain that is not
  below it has been orphaned (`AllApart`). In the client (`LinkForks`): what is current is in the
  recorded list, with only higher blocks behind it, or the whole list is higher (`Recorded`), so popping above a rollback point
  takes all that is current above it although the list may hold two forks; nothing current is above the client's position
  (`AtPosition`); a connection starts on an announced chain; a queued block goes on from a logged one that
  nothing current is above (`FitsOn`). All announced chains go down to one block (`Rooted`). Caught up, the position is the
  node's tip, so a current block off its chain is `Overtaken`, by an orphan of the node's chain: the
  exception the property names.

### The live feed

`NothingFallsBetween` is close to inductive. It needs besides (`FeedInv` of `LiveFeedProofs`) that the ring, but for the displaced events, is in
order of ids and below the next one, so that a snapshot or page of the newest events before an id leaves out only older ones
or displaced ones (`RingInOrder`); nothing is assumed of the ring a boot restores; that an answer which leaves some out has events to go on from (`PagesGoOn`); and that a
message of the stream carries one event. `Held(e)` are the five places an event of the window can be: with the page, on its
way to the socket, in the socket, put off, still to be asked for.

### The transaction store

`OpenInv`: while the file has been opened and no write has failed, `next_offset` is the length of the file, every index entry
points to a complete body of its transaction, the hot cache and a lookup in progress hold what they are named for, and what a task has cached
is indexed (`NothingForgotten`, which takes the plan's copy of the index with it). `BodiesInv` counts: a body is lost only when
a line is glued to an unfinished one, which spoils its own body and the unfinished one's; an unfinished
end counts two in advance (`Penalty`).

### Orders

`OrdersInv` holds for any orders, shapes, caps, chains, rollbacks and restarts. That a settlement is told needs
that every open order is tracked when it is spent, and a restart fills the tracker from the
cache; so the invariant relates three things: every order open on the chain is tracked, unless it is named `Lost`
(`OpenOrderTracked`); the cache covers what the chain placed but for orders the window had passed (`CacheCovers`), and what it spends beyond
the chain an abandoned block had spent (`CacheSpends`); and what the tracker holds is well formed (`TrackerOK`), so that what an insertion pushes out is noted
(`evicted`). How many blocks a restart finds passed and in which order it remembers is chosen freely. `OnceInv`
adds, for `ToldOnce`, that what is tracked or cached was placed, and that events carry the number of an
earlier block; an order placed in a block is then not among the tracked ones, unless an abandoned
block had placed it.

`WantsInv`: what is tracked of an order is its want or, where the datum does not say, open; and the cache keeps the transaction an
event's want was read from. `PillInv`: no two transactions of the chain spend one order, every closing event
says what the chain or an abandoned block did, and every pill on the page comes from an event it has.

### What the scanners remember

`TrackerInv` has the two properties about the map as conjuncts; they need each other and what stands between them:

* `Trackers`: the queue of a scanner holds what its map holds (Wayup), or no more than was inserted (the other dApp
  scanners), so while there was room nothing open was evicted;
* `Linear`: every transaction of the chain is in one block, not before the one it spends;
* `CacheFits`: the cache has each transaction of the chain in its block, lets go of the oldest first, and what it holds beside
  the chain spends only outputs in `forkSpent`. A restart replays exactly this, in the order the boot sorts it; an
  output whose spender is not replayed was spent by nobody or on a fork;
* `HubsHeld`: an open hub output is registered, unless a fork spent it or the cache lost it; `HubsDoNotLink` is
  preserved beside the rest.

The DEX scanner subtracts at boot whatever the cache spends. The others replay one transaction at a time: an output is in
the map afterwards if its creator was replayed and no later element took it. That a spender comes later in the order
is `Linear`, except for two transactions of one block, which the boot sorts by hash; that is the exception in
`SpentIsForgotten`.

### Transfers

`TransferInv` says that the card is `Kept` of the bodies it was made from, and its flags `Stamped` of those they were stamped
from; the theorems are then facts about one transaction. What lands outside the known spenders' credentials is at least
what lands outside all spenders, and by conservation the latter is what they gave up (`GivenUp`). It takes lemmas that a sum over places
grows with the set of places and splits over a set and its complement. Nothing is assumed of how many inputs,
outputs, owners or assets there are, nor of which bodies are found.

### The past of certificates

`PastInv` has three parts:

* `PastTyped`: the node's chain is one in which block numbers grow by one, no block is empty, and a transaction is in one block (`GoodChain`);
* `MemoryIsRight`: for a key that no rollback touched, what the tracker holds, and what a restart now would learn from
  `told`, is the key's value on the chain or nothing. The second half is what makes a restart keep the first;
* `EverythingTold`: each assignment in the blocks handled has its event.

Within a block the tracker is followed one assignment at a time, for every choice of what is evicted (`Reached`, `FromOk`): it
holds of a key its last assignment in the block so far (`LastTo`), else what it held before, or nothing. So a `from` it yields is the
key's value, and differs from the new one; the backend's are compared too before they are used. Hence no event is a
no-op, the filter keeps all, and `EverythingTold` is preserved. For `FromIsRight` the answers of the backend are compared with the
chain, wherever it stands: a view that has every certificate of the key before this one and none after it gives the value before, unless the
key was deregistered or this transaction assigns it again; any other view is `stale`. The invariant is preserved with `PastInv`
beside it.

### Names and titles

`NamesInv` is about both caches at once. A scrape in progress has read some pages or ids (`Covered`), and knows of each of these
the name it had when the scrape began, or a later one: a pool scrape in the map it collects, the DRep scrape in
the cache it merges into (`ScrapesRead`). That is what makes the floor true when it ends (`ListedAreRecent`). Any number of pool scrapes would do: one
that began before the floor another has set is noted as overtaken for the ids concerned. `FloorIsOld` says the floor is never above the
current names. What is shown for a spelling follows from what the list's spelling has.

`TitlesAreConfirmed` is not inductive: an answer in flight must itself be confirmed
or stand for a body cut off (`AnswersAreConfirmed`). `OnlyAnswersResolve` goes through the decision tree of `resolve_one`.

### Only model-checked

* `ActionIsTold`, `NothingElseIsTold`, `AmountIsReal` and `ActorIsUser` of `DappActivity`: they compare nine scanners, case by
  case, with what the transactions of nine protocols are made of, so a proof would repeat the definitions; what is general in
  them, that the memory beside the scanner may fail at any time, is in the model.
* Liveness (`Converges`, `TipSettles`, `CatchesUp`, `Refills`) is out of the prover's reach.

## 6. Limits

* The tree has one genesis block and the node always has a tip; an empty chain is not
  modelled.
* Handlers are atomic with respect to the connection. They are for `AppState`:
  no other task writes `recent_blocks`, `orphans` or `tip`.
* Events the publisher filters (`keep_dex_event`) and stamps are not distinguished.
* `drop_noop_redelegations` at boot removes events by their data; it is left out.
* Loads at boot and the two readings of the clock around them are one step.
* A write error (disk full) is logged and ignored by the code; in `EventLog`
  the only failures of a write are crashes. `TxStore` models them for `txs.jsonl`.
* `LineFile::compact` is never reached: `Persister::open` passes a cap of 0.

* The scanners' datums are abstracted to what they yield; rare action types of Indigo and Wayup
  are left out.
* The dApp transactions that exist are those the scanners' comments and tests show; the protocols'
  contracts are not in the repository.

## 7. Not modelled, and what is left

Not modelled, and why:

* `trending.rs`: one queue and one map under a lock. Its hazard (eviction by timestamps that are not
  monotone) misorders a list of terms.
* `events_before` and `search_buffered`, the browser's scroll-back: paging across ring and file,
  whose ids may repeat (`event_log_ids`).
* `handles.rs` (a failed fetch is cached as "no handle"), `registry.rs`: a map filled by single
  requests, or parsed once.
* the backend: stateless SQL; its answers are inputs of `CertHistory` and `MetaCaches`.
* `logo_colors.rs`, `demo.rs`, `config.rs`, `dapp_stub.rs`, `build.rs`, browser tables, scripts:
  no state the feed depends on.

Left to do, in this order:

1. `UtxoTracker` as the memory of `DexOrders` and `DappActivity`: `Forget` restricted to what `TrackerInv` excuses.
2. `Paging` over ring and file: paging to exhaustion yields every readable event once, under which
   conditions on ids.
3. Abstract specifications of the transaction store (a map from hash to body) and of the event log (a
   sequence that loses what a tear costs), to be implemented by `TxStore` and `EventLog`.
4. Pure algorithms: `TimeModel`, backend pagination and identifiers, against reference definitions.
