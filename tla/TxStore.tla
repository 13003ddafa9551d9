------------------------------- MODULE TxStore -------------------------------
(***************************************************************************)
(* Transaction bodies: txs.jsonl with its hash -> offset index and the gap *)
(* plan (src/persist.rs), the hot cache of AppState (src/state.rs), and    *)
(* its three users: the chain-sync client, the backfill that refills       *)
(* missing bodies (src/ogmios.rs) and lookups for the page (src/server.rs).*)
(*                                                                         *)
(* Each block holds one transaction; both are named by their slot.  A line *)
(* of the file has three units, <<t, 1>> and <<t, 2>> for the two halves   *)
(* of its JSON and NL, and offsets count units.  The chain does not fork   *)
(* here (ChainSync does); a rollback makes the client handle a block again.*)
(***************************************************************************)
EXTENDS Integers, SequencesExt, Subsequences

CONSTANTS
    Tip,           \* the node's chain: blocks 1..Tip
    Retention,     \* event_retention_hours, in slots
    CacheCap,      \* TX_CACHE; 0 means no ceiling
    Margin,        \* slots the backfill reads past the gap (50)
    MaxCrashes,    \* bound: crashes
    MaxMishaps     \* bound: failed writes and blocks handled again

ASSUME StoreAssumption ==
    /\ Tip \in Nat \ {0, 1} /\ Retention \in Nat /\ CacheCap \in Nat /\ Margin \in Nat
    /\ MaxCrashes \in Nat /\ MaxMishaps \in Nat

VARIABLES
    \* the disk
    file,        \* txs.jsonl
    blocks,      \* blocks with a block event in events.jsonl
    events,      \* transactions with an event in events.jsonl
    \* TxStore
    buf,         \* what a failed flush left in the BufWriter
    nextOffset, index,
    \* TxCache
    order, hot,  \* hot maps a hash to the body kept for it
    \* the tasks
    up,
    at,          \* the last block the chain-sync client has handled
    now,         \* the newest slot reached (wall clock)
    writer,      \* where "sync" and "fill" stand in cache_tx
    reader,      \* a lookup between find_tx and the cache
    plan,        \* stage of backfill_missing_txs
    known,       \* hashes indexed when the plan was begun
    gap,         \* hashes found missing by the plan
    missing,     \* of these, the ones not yet refilled
    filledTo,    \* the last block the backfill has read
    \* history
    crashes, mishaps,
    dirty,       \* a write has failed since the file was opened
    tears,       \* lines left unfinished
    indexed      \* hashes that were findable at some time

diskVars == <<file, blocks, events>>
storeVars == <<buf, nextOffset, index>>
cacheVars == <<order, hot>>
planVars == <<plan, known, gap, missing, filledTo>>
countVars == <<crashes, mishaps>>
historyVars == <<dirty, tears, indexed>>
vars == <<diskVars, storeVars, cacheVars, up, at, now, writer, reader, planVars,
          countVars, historyVars>>

Tx == 1..Tip
NoTx == 0
NoOffset == -1

-----------------------------------------------------------------------------
(* Lines, offsets and the index. *)

NL == <<NoTx, 3>>
Body(t) == <<<<t, 1>>, <<t, 2>>>>
Line(t) == Append(Body(t), NL)

LineStarts(f) == {o \in 0..(Len(f) - 1) : o = 0 \/ f[o] = NL}

(* What reading from offset o up to the next newline yields. *)
LineAt(f, o) ==
    LET ends == {i \in (o + 1)..Len(f) : f[i] = NL}
    IN  SubSeq(f, o + 1, IF ends = {} THEN Len(f) ELSE Min(ends) - 1)

(* read_tx_at: the body that parses there; its hash is not looked at. *)
BodyAt(f, o) ==
    IF \E t \in Tx : LineAt(f, o) = Body(t)
    THEN CHOOSE t \in Tx : LineAt(f, o) = Body(t)
    ELSE NoTx

Offsets(f, t) == {o \in LineStarts(f) : BodyAt(f, o) = t}

(* build_tx_index: the newest offset of each hash. *)
IndexOf(f) ==
    [t \in Tx |-> IF Offsets(f, t) = {} THEN NoOffset ELSE Max(Offsets(f, t))]

Known(ix) == {t \in Tx : ix[t] # NoOffset}

(* The bodies find_tx returns. *)
Findable == {t \in Known(index) : BodyAt(file, index[t]) = t}

InWindow(t) == t >= now - Retention

(* The hashes of TxStore::load_since, in order of their first line. *)
Loaded(f) ==
    Subsequence([o \in LineStarts(f) |-> BodyAt(f, o)],
                {Min(Offsets(f, t)) : t \in {u \in Tx : Offsets(f, u) # {} /\ InWindow(u)}})

-----------------------------------------------------------------------------
Idle == [pc |-> "idle", tx |-> NoTx]
NoLookup == [hash |-> NoTx, body |-> NoTx]

(* The lines of transactions first..last. *)
Lines(first, last) ==
    [n \in 1..(3 * (last + 1 - first)) |-> Line(first + (n - 1) \div 3)[1 + ((n - 1) % 3)]]

(* The file an older version left behind: it kept the newest lines only. *)
Init ==
    /\ \E last \in 1..(Tip - 1) : \E first \in 1..(last + 1) :
          /\ blocks = 1..last /\ events = 1..last /\ at = last /\ now = last
          /\ file = Lines(first, last)
    /\ buf = <<>> /\ nextOffset = 0 /\ index = [t \in Tx |-> NoOffset]
    /\ order = <<>> /\ hot = <<>>
    /\ up = FALSE /\ writer = [w \in {"sync", "fill"} |-> Idle] /\ reader = NoLookup
    /\ plan = "start" /\ known = {} /\ gap = {} /\ missing = {} /\ filledTo = 0
    /\ crashes = 0 /\ mishaps = 0
    /\ dirty = FALSE /\ tears = 0 /\ indexed = {}

(* TxStore::open and restore; the client resumes after the last block event. *)
Boot ==
    /\ ~up /\ up' = TRUE
    /\ buf' = <<>> /\ nextOffset' = Len(file) /\ index' = IndexOf(file)
    /\ order' = Loaded(file) /\ hot' = [t \in Range(order') |-> t]
    /\ at' = Max(blocks \cup {0})
    /\ plan' = "start" /\ UNCHANGED <<known, gap, missing, filledTo>>
    /\ dirty' = FALSE /\ indexed' = indexed \cup Known(index')
    /\ UNCHANGED <<diskVars, now, writer, reader, countVars, tears>>

(* The process stops; a line on its way may reach the disk in part. *)
Crash ==
    /\ up /\ crashes < MaxCrashes
    /\ up' = FALSE /\ crashes' = crashes + 1
    /\ \/ UNCHANGED <<file, tears>>
       \/ \E w \in {"sync", "fill"} :
             /\ writer[w].pc = "append"
             /\ LET line == buf \o Line(writer[w].tx)
                IN  \E k \in 1..(Len(line) - 1) : file' = file \o SubSeq(line, 1, k)
             /\ tears' = tears + 1
    /\ writer' = [w \in {"sync", "fill"} |-> Idle] /\ reader' = NoLookup
    /\ buf' = <<>> /\ nextOffset' = 0 /\ index' = [t \in Tx |-> NoOffset]
    /\ order' = <<>> /\ hot' = <<>>
    /\ plan' = "start" /\ known' = {} /\ gap' = {} /\ missing' = {} /\ filledTo' = 0
    /\ UNCHANGED <<blocks, events, at, now, mishaps, dirty, indexed>>

-----------------------------------------------------------------------------
(* cache_tx: append to the file, insert into the hot cache, trim it; three *)
(* critical sections.                                                      *)

Goes(w, pc) == writer' = [writer EXCEPT ![w].pc = pc]

(* Faults: the newline is not counted; the offset is not moved. *)
OffsetWithoutNewline(t) == nextOffset + Len(Body(t))
OffsetUnmoved(t) == nextOffset
OffsetAfter(t) == nextOffset + Len(Line(t))

(* TxStore::append. *)
AppendTx(w) ==
    /\ up /\ writer[w].pc = "append" /\ Goes(w, "insert")
    /\ LET t == writer[w].tx
       IN  /\ file' = file \o buf \o Line(t) /\ buf' = <<>>
           /\ index' = [index EXCEPT ![t] = nextOffset] /\ nextOffset' = OffsetAfter(t)
           /\ indexed' = indexed \cup {t}
    /\ UNCHANGED <<blocks, events, cacheVars, up, at, now, reader, planVars, countVars,
                   dirty, tears>>

(* The flush fails part way.  A short line stays in the buffer with what of *)
(* it is not written yet, a line longer than the buffer is lost.            *)
AppendFails(w) ==
    /\ up /\ writer[w].pc = "append" /\ Goes(w, "insert")
    /\ mishaps < MaxMishaps /\ mishaps' = mishaps + 1
    /\ LET line == buf \o Line(writer[w].tx)
       IN  \E k \in 0..(Len(line) - 1) :
              /\ file' = file \o SubSeq(line, 1, k)
              /\ \/ buf' = SubSeq(line, k + 1, Len(line))
                 \/ k < Len(line) - 1 /\ buf' = SubSeq(buf, k + 1, Len(buf))
    /\ dirty' = TRUE /\ tears' = tears + 1
    /\ UNCHANGED <<blocks, events, nextOffset, index, cacheVars, up, at, now, reader,
                   planVars, crashes, indexed>>

InsertTx(w) ==
    /\ up /\ writer[w].pc = "insert" /\ Goes(w, "trim")
    /\ LET t == writer[w].tx
       IN  /\ order' = IF t \in DOMAIN hot THEN order ELSE Append(order, t)
           /\ hot' = [h \in DOMAIN hot \cup {t} |-> IF h = t THEN t ELSE hot[h]]
    /\ UNCHANGED <<diskVars, storeVars, up, at, now, reader, planVars, countVars, historyVars>>

(* trim_txs_memory: what has left the window, then the oldest over the cap. *)
Trimmed ==
    LET fresh == {i \in 1..Len(order) : InWindow(hot[order[i]])}
        kept == {i \in fresh : CacheCap = 0 \/ Cardinality({j \in fresh : j > i}) < CacheCap}
    IN  Subsequence(order, kept)

TrimHot ==
    /\ order' = Trimmed
    /\ hot' = [h \in Range(order') |-> hot[h]]

-----------------------------------------------------------------------------
(* The chain-sync client: handle_forward caches, then publishes. *)

SyncNext ==
    /\ up /\ writer["sync"] = Idle /\ at < Tip
    /\ now' = Max({now, at + 1})
    /\ writer' = [writer EXCEPT !["sync"] = [pc |-> "append", tx |-> at + 1]]
    /\ UNCHANGED <<diskVars, storeVars, cacheVars, up, at, reader, planVars, countVars,
                   historyVars>>

SyncTrim ==
    /\ up /\ writer["sync"].pc = "trim" /\ Goes("sync", "publish")
    /\ TrimHot
    /\ UNCHANGED <<diskVars, storeVars, up, at, now, reader, planVars, countVars, historyVars>>

PublishBlock ==
    /\ up /\ writer["sync"].pc = "publish" /\ Goes("sync", "publish_tx")
    /\ blocks' = blocks \cup {writer["sync"].tx}
    /\ UNCHANGED <<file, events, storeVars, cacheVars, up, at, now, reader, planVars,
                   countVars, historyVars>>

PublishTx ==
    /\ up /\ writer["sync"].pc = "publish_tx"
    /\ events' = events \cup {writer["sync"].tx} /\ at' = writer["sync"].tx
    /\ writer' = [writer EXCEPT !["sync"] = Idle]
    /\ UNCHANGED <<file, blocks, storeVars, cacheVars, up, now, reader, planVars,
                   countVars, historyVars>>

(* A fork switch and back: the client handles its last block once more. *)
Rollback ==
    /\ up /\ writer["sync"] = Idle /\ at > 1
    /\ mishaps < MaxMishaps /\ mishaps' = mishaps + 1
    /\ at' = at - 1
    /\ UNCHANGED <<diskVars, storeVars, cacheVars, up, now, writer, reader, planVars,
                   crashes, historyVars>>

-----------------------------------------------------------------------------
(* backfill_missing_txs, a task of its own. *)

(* tx_gap_plan reads the index first and events.jsonl after. *)
PlanKnown ==
    /\ up /\ plan = "start" /\ plan' = "known"
    /\ known' = Known(index)
    /\ UNCHANGED <<diskVars, storeVars, cacheVars, up, at, now, writer, reader, gap, missing,
                   filledTo, countVars, historyVars>>

(* Faults: only the events of the window; resume from the newest block. *)
GapInWindow == {t \in events \ known : InWindow(t)}
ResumeNewest(S) == Max(blocks)

Gap == events \ known

(* The newest block not above the oldest missing transaction, if there is  *)
(* one; findIntersection makes the node go on after it.                    *)
ResumeBlock(S) ==
    LET below == {b \in blocks : b <= Min(S)}
    IN  Max(IF below = {} THEN blocks ELSE below)

PlanGap ==
    /\ up /\ plan = "known"
    /\ gap' = Gap /\ missing' = Gap /\ known' = {}
    /\ IF Gap = {} THEN plan' = "done" /\ UNCHANGED filledTo
       ELSE plan' = "fetch" /\ filledTo' = ResumeBlock(Gap)
    /\ UNCHANGED <<diskVars, storeVars, cacheVars, up, at, now, writer, reader, countVars,
                   historyVars>>

(* The end of a block: stop when nothing is missing or the gap is passed. *)
Filled(t) ==
    /\ missing' = missing \ {t}
    /\ plan' = IF missing' = {} \/ t > Max(gap) + Margin THEN "done" ELSE plan

(* A forward answer; cache_tx_if_absent looks the hash up, then caches it. *)
FillNext ==
    /\ up /\ plan = "fetch" /\ writer["fill"] = Idle /\ filledTo < Tip
    /\ filledTo' = filledTo + 1
    /\ LET t == filledTo + 1
       IN  IF t \in missing /\ t \notin Known(index)
           THEN /\ writer' = [writer EXCEPT !["fill"] = [pc |-> "append", tx |-> t]]
                /\ UNCHANGED <<missing, plan>>
           ELSE Filled(t) /\ UNCHANGED writer
    /\ UNCHANGED <<diskVars, storeVars, cacheVars, up, at, now, reader, known, gap,
                   countVars, historyVars>>

FillTrim ==
    /\ up /\ writer["fill"].pc = "trim"
    /\ writer' = [writer EXCEPT !["fill"] = Idle]
    /\ TrimHot
    /\ Filled(writer["fill"].tx)
    /\ UNCHANGED <<diskVars, storeVars, up, at, now, reader, known, gap, filledTo,
                   countVars, historyVars>>

(* The backfill's own connection fails, or its 120 seconds pass. *)
FillFails ==
    /\ up /\ plan = "fetch" /\ writer["fill"] = Idle
    /\ plan' = "failed"
    /\ UNCHANGED <<diskVars, storeVars, cacheVars, up, at, now, writer, reader, known, gap,
                   missing, filledTo, countVars, historyVars>>

-----------------------------------------------------------------------------
(* get_tx: on a miss the file is read, then the cache warmed, separately. *)

FindTx(h) ==
    /\ up /\ reader = NoLookup
    /\ h \notin DOMAIN hot /\ h \in Known(index)
    /\ BodyAt(file, index[h]) # NoTx
    /\ reader' = [hash |-> h, body |-> BodyAt(file, index[h])]
    /\ UNCHANGED <<diskVars, storeVars, cacheVars, up, at, now, writer, planVars, countVars,
                   historyVars>>

(* Fault: that the cache lacked the hash is not tested again. *)
WarmUnchecked ==
    /\ order' = Append(order, reader.hash)
    /\ hot' = [h \in DOMAIN hot \cup {reader.hash} |->
                  IF h = reader.hash THEN reader.body ELSE hot[h]]

Warm ==
    IF reader.hash \in DOMAIN hot THEN UNCHANGED cacheVars
    ELSE /\ order' = Append(order, reader.hash)
         /\ hot' = [h \in DOMAIN hot \cup {reader.hash} |->
                       IF h = reader.hash THEN reader.body ELSE hot[h]]

WarmCache ==
    /\ up /\ reader # NoLookup
    /\ reader' = NoLookup
    /\ IF InWindow(reader.body) THEN Warm ELSE UNCHANGED cacheVars
    /\ UNCHANGED <<diskVars, storeVars, up, at, now, writer, planVars, countVars, historyVars>>

-----------------------------------------------------------------------------
CacheTx == \E w \in {"sync", "fill"} : AppendTx(w) \/ AppendFails(w) \/ InsertTx(w)
Sync == SyncNext \/ SyncTrim \/ PublishBlock \/ PublishTx
Fill == PlanKnown \/ PlanGap \/ FillNext \/ FillTrim

Next ==
    \/ Boot \/ Crash
    \/ CacheTx
    \/ Sync \/ Rollback
    \/ Fill \/ FillFails
    \/ \E h \in Tx : FindTx(h)
    \/ WarmCache

Spec == Init /\ [][Next]_vars

(* The operator restarts the process, and a task goes on when it can. *)
FairSpec == Spec /\ WF_vars(Boot) /\ WF_vars(CacheTx) /\ WF_vars(Fill)

-----------------------------------------------------------------------------
(* Properties. *)

(* Types; and the hot cache's queue lists each cached hash once (two tasks  *)
(* and the lookups fill it, each under its own lock).                       *)
TypeOK ==
    /\ file \in Seq((Tx \X {1, 2}) \cup {NL}) /\ buf \in Seq((Tx \X {1, 2}) \cup {NL})
    /\ blocks \subseteq Tx /\ events \subseteq blocks
    /\ nextOffset \in Nat /\ index \in [Tx -> Nat \cup {NoOffset}]
    /\ DOMAIN hot \subseteq Tx /\ \A h \in DOMAIN hot : hot[h] \in Tx
    /\ IsInjective(order) /\ Range(order) = DOMAIN hot
    /\ up \in BOOLEAN /\ at \in 0..Tip /\ now \in Tx
    /\ writer \in [{"sync", "fill"} ->
                      [pc : {"idle", "append", "insert", "trim", "publish", "publish_tx"},
                       tx : Tx \cup {NoTx}]]
    /\ reader \in [hash : Tx, body : Tx] \cup {NoLookup}
    /\ plan \in {"start", "known", "fetch", "done", "failed"}
    /\ known \subseteq Tx /\ gap \subseteq Tx /\ missing \subseteq gap
    /\ filledTo \in 0..Tip /\ indexed \subseteq Tx

(* A lookup never shows another transaction: no index entry reads a line of *)
(* another hash (read_tx_at does not compare it), and what is cached under  *)
(* a hash is that transaction; after crashes, glued lines, repeated lines   *)
(* and the rebuilding of the index.  A failed write breaks it until the     *)
(* file is opened again: next_offset is then not the file's length.         *)
FindIsRight ==
    up /\ ~dirty =>
        /\ \A t \in Known(index) : BodyAt(file, index[t]) \in {t, NoTx}
        /\ \A h \in DOMAIN hot : hot[h] = h
        /\ reader.body = reader.hash

(* An unfinished line costs at most two bodies, itself and the next line;   *)
(* everything else that was ever findable still is ("crash-tolerant").      *)
BodiesKept == up /\ ~dirty => Cardinality(indexed \ Findable) <= 2 * tears

(* Every event has its body or is known to lack it: once the gap plan is    *)
(* made, a transaction with an event can be found on disk or is still on    *)
(* the list of missing ones, whatever the client published meanwhile.       *)
NoBodyForgotten ==
    up /\ ~dirty /\ plan \in {"fetch", "done", "failed"} =>
        events \subseteq Known(index) \cup missing

(* The backfill gets the bodies of the gap back, but for its oldest, unless *)
(* its connection or the disk fails.                                        *)
Refills ==
    <>[](\/ dirty \/ plan = "failed"
         \/ /\ plan \in {"fetch", "done"}
            /\ \A t \in events : t \in Known(index) \/ t = Min(gap))

=============================================================================
