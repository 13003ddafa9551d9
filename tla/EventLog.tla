------------------------------ MODULE EventLog ------------------------------
(***************************************************************************)
(* Events on disk: the append-only events.jsonl (src/persist.rs), the ids  *)
(* and the ring of AppState (src/state.rs), what main.rs restores at boot, *)
(* and a process that may stop at any moment.  It composes with ChainSync: *)
(* a handler's step there queues the events it publishes in `batch', and   *)
(* each is then published by a step of its own.                            *)
(*                                                                         *)
(* Time is counted in slots (slot_to_unix is monotone): an event's ts is   *)
(* the slot its timestamp was computed from.                               *)
(***************************************************************************)
EXTENDS ChainSync, Subsequences

CONSTANTS
    Retention,   \* event_retention_hours
    Backfill,    \* backfill_hours; 0 disables
    TearKinds,   \* how a crash may tear the line being written
    MaxClock,    \* bound: the clock
    MaxCrashes,  \* bound: crashes
    MaxTears     \* bound: crashes that leave an unfinished line

ASSUME LogAssumption ==
    /\ Retention \in Nat /\ Backfill \in Nat
    /\ MaxClock \in Nat /\ MaxCrashes \in Nat /\ MaxTears \in Nat
    /\ TearKinds \subseteq {"cut", "split", "unended"}

VARIABLES
    log,      \* the lines of events.jsonl
    ended,    \* its last line ends in a newline
    ring,     \* AppState.events
    nextId,   \* AppState.next_id
    batch,    \* events the running handler has yet to publish
    blockId,  \* block_id in handle_forward: id of the block event, 0 before
    now,      \* wall clock
    up,       \* the process runs
    crashes,  \* crashes so far
    tears,    \* history: crashes that left an unfinished line
    said,     \* history: events some browser may have seen
    skipped   \* history: the client had no resume point left to go on from

logVars == <<log, ended, ring, nextId, batch, blockId, now, up, crashes, tears, said, skipped>>
allVars == <<vars, logVars>>

-----------------------------------------------------------------------------
(* Events and lines. *)

Kind == {"block", "transaction", "slot_battle", "rollback", "orphaned_block"}

(* A ChainEvent before publish has given it an id and a parent. *)
Draft(kind, b, ts) == [kind |-> kind, blk |-> b, slot |-> Slot[b], ts |-> ts]

Stamped(d) ==
    [id |-> nextId, kind |-> d.kind, blk |-> d.blk, slot |-> d.slot, ts |-> d.ts,
     parent |-> IF d.kind = "transaction" THEN blockId ELSE 0]

(* Lines that do not parse: cut short, or cut inside a UTF-8 character. *)
Torn(kind) == [kind |-> kind]
IsTorn(line) == line.kind \in {"cut", "split"}

(* What is written goes after an unfinished last line, into the same line. *)
Glued(line, more) == Torn(IF "split" \in {line.kind, more.kind} THEN "split" ELSE "cut")
Written(line) ==
    IF ended THEN Append(log, line) ELSE [log EXCEPT ![Len(log)] = Glued(@, line)]

(* Where the lines are that a load gets.  A line that is not UTF-8 ends the *)
(* file (lines().map_while(Result::ok)); one that does not parse is passed  *)
(* over.                                                                    *)
ReadableUntilTorn ==     \* fault: a line that does not parse ends the file
    {i \in 1..Len(log) : \A j \in 1..i : ~IsTorn(log[j])}
Readable ==
    {i \in 1..Len(log) : ~IsTorn(log[i]) /\ \A j \in 1..i : log[j].kind # "split"}

InWindow(e) == e.ts + Retention >= now

(* trim_events: pop from the front while the front is too old. *)
Trimmed(s) ==
    LET kept == {i \in 1..Len(s) : InWindow(s[i])}
    IN  IF kept = {} THEN <<>> ELSE SubSeq(s, Min(kept), Len(s))

(* restore: the lines at P by slot and id (the sort is stable). *)
Before(i, j) ==
    \/ log[i].slot < log[j].slot
    \/ log[i].slot = log[j].slot /\ log[i].id < log[j].id
    \/ log[i].slot = log[j].slot /\ log[i].id = log[j].id /\ i < j
Place(P, i) == 1 + Cardinality({j \in P : Before(j, i)})
Sorted(P) == [k \in 1..Cardinality(P) |-> log[CHOOSE i \in P : Place(P, i) = k]]

(* restore: one more than the largest id kept. *)
NextIdAsMax(P) == Max({1} \cup {log[i].id : i \in P})  \* fault
NextIdAfter(P) == 1 + Max({0} \cup {log[i].id : i \in P})

InBackfill(P) == {i \in P : log[i].kind = "block" /\ log[i].ts + Backfill >= now}

(* Fault: what a logged rollback took back is left out. *)
RestoredUnlessRolledBack(P) ==
    LET taken(i) == \E j \in P : j > i /\ log[j].kind = "rollback" /\ log[j].slot < log[i].slot
        blocks   == {i \in InBackfill(P) : ~taken(i)}
    IN  LastN(Subsequence([i \in blocks |-> log[i].blk], blocks), RecentCap)

(* main.rs: the block events still in the backfill window, in file order. *)
RestoredBlocks(P) ==
    IF Backfill = 0 THEN <<>>
    ELSE LastN(Subsequence([i \in P |-> log[i].blk], InBackfill(P)), RecentCap)

LoggedBlocks == {log[i].blk : i \in {j \in 1..Len(log) : log[j].kind = "block"}}

-----------------------------------------------------------------------------
LogInit ==
    /\ Init
    /\ log = <<>> /\ ended = TRUE /\ ring = <<>> /\ nextId = 1
    /\ batch = <<>> /\ blockId = 0 /\ now = 1 /\ up = FALSE /\ crashes = 0 /\ tears = 0
    /\ said = {} /\ skipped = FALSE

Tick ==
    /\ now < MaxClock /\ now' = now + 1
    /\ UNCHANGED <<vars, log, ended, ring, nextId, batch, blockId, up, crashes, tears, said, skipped>>

(* A block reaches the node at its slot or later. *)
NodeMoves(b) ==
    /\ Slot[b] <= now
    /\ Extend(b) \/ Reorg(b)
    /\ UNCHANGED logVars

(* main.rs: load what the windows still cover, before anything else runs. *)
Boot ==
    /\ ~up /\ up' = TRUE
    /\ LET kept == {i \in Readable : InWindow(log[i])}
       IN  /\ ring' = Sorted(kept)
           /\ nextId' = NextIdAfter(kept)
           /\ recent' = RestoredBlocks(kept)
           /\ said' = said \cup {log[i] : i \in kept}
           /\ skipped' = (skipped \/ (RestoredBlocks(kept) = <<>> /\ LoggedBlocks # {}))
    /\ UNCHANGED <<nodeVars, linkVars, orphans, tip, historyVars, pos, restarted,
                   log, ended, batch, blockId, now, crashes, tears>>

(* The process stops; the event being appended is not written, written, or *)
(* torn: cut short, or whole but without its newline.                      *)
Crash ==
    /\ up /\ crashes < MaxCrashes
    /\ up' = FALSE /\ crashes' = crashes + 1
    /\ \/ UNCHANGED <<log, ended, tears>>
       \/ /\ batch # <<>>
          /\ \/ log' = Written(Stamped(Head(batch))) /\ ended' = TRUE /\ UNCHANGED tears
             \/ /\ tears < MaxTears
                /\ \/ "unended" \in TearKinds /\ log' = Written(Stamped(Head(batch)))
                   \/ \E k \in TearKinds \ {"unended"} : log' = Written(Torn(k))
                /\ ended' = FALSE /\ tears' = tears + 1
    /\ ring' = <<>> /\ nextId' = 1 /\ batch' = <<>> /\ blockId' = 0
    /\ recent' = <<>> /\ orphans' = <<>> /\ tip' = NoPoint
    /\ phase' = "down" /\ asked' = NoPoint /\ wire' = <<>>
    /\ owesRollback' = FALSE /\ readPtr' = Origin /\ pos' = NoPoint
    /\ UNCHANGED <<nodeVars, drops, historyVars, restarted, now, said, skipped>>

(* handle_forward: the block, its transactions (one here), then the battle. *)
Forward ==
    /\ up /\ batch = <<>>
    /\ HandleForward
    /\ LET b == Head(wire).pt
       IN  batch' = <<Draft("block", b, Slot[b]), Draft("transaction", b, Slot[b])>>
                    \o IF BattlesOf(b) = {} THEN <<>> ELSE <<Draft("slot_battle", b, Slot[b])>>
    /\ blockId' = 0
    /\ UNCHANGED <<log, ended, ring, nextId, now, up, crashes, tears, said, skipped>>

(* handle_rollback: nothing when nothing was orphaned, else the rollback   *)
(* and one card for each orphaned block, dated with the rollback's point.  *)
Backward ==
    /\ up /\ batch = <<>>
    /\ HandleBackward
    /\ LET q    == Head(wire).pt
           lost == Reverse(SubSeq(recent, Len(recent') + 1, Len(recent)))
       IN  batch' = IF lost = <<>> THEN <<>>
                    ELSE <<Draft("rollback", q, Slot[q])>>
                         \o [i \in 1..Len(lost) |-> Draft("orphaned_block", lost[i], Slot[q])]
    /\ skipped' = (skipped \/ (recent # <<>> /\ recent' = <<>>))
    /\ UNCHANGED <<log, ended, ring, nextId, blockId, now, up, crashes, tears, said>>

(* publish: assign the id, append to the file, push and trim, broadcast. *)
Publish ==
    /\ up /\ batch # <<>>
    /\ LET e == Stamped(Head(batch))
       IN  /\ log' = Written(e) /\ ended' = TRUE
           /\ ring' = Trimmed(Append(ring, e))
           /\ blockId' = IF e.kind = "block" THEN e.id ELSE blockId
           /\ said' = said \cup {e}
    /\ nextId' = nextId + 1 /\ batch' = Tail(batch)
    /\ UNCHANGED <<vars, now, up, crashes, tears, skipped>>

(* The rest of the chain-sync client, while no handler runs. *)
Link ==
    /\ up /\ batch = <<>>
    /\ \/ (Drop \/ Connect \/ FindByPoints \/ QueryTip \/ FindByTip) /\ UNCHANGED skipped
       \/ FindNone /\ skipped' = TRUE
    /\ UNCHANGED <<log, ended, ring, nextId, batch, blockId, now, up, crashes, tears, said>>

LogNext ==
    \/ Tick \/ Boot \/ Crash
    \/ \E b \in Block : NodeMoves(b)
    \/ Serve /\ UNCHANGED logVars
    \/ Link \/ Forward \/ Backward \/ Publish

LogSpec == LogInit /\ [][LogNext]_allVars

-----------------------------------------------------------------------------
(* Properties. *)

(* No two events of the ring have the same id, and the parent_id of one     *)
(* never names a stranger: an event with that id is the block event of the  *)
(* same block.  It must survive restarts that forget ids (restore only sees *)
(* the retention window and whole lines).                                   *)
RingIdsResolve ==
    /\ \A i \in 1..Len(ring) : \A j \in 1..(i - 1) : ring[i].id # ring[j].id
    /\ \A i \in {k \in 1..Len(ring) : ring[k].parent # 0} : \A j \in 1..Len(ring) :
          ring[j].id = ring[i].parent => ring[j].kind = "block" /\ ring[j].blk = ring[i].blk

Vanished == {e \in said : InWindow(e) /\ \A i \in 1..Len(ring) : ring[i] # e}

(* Events behind a line that is not UTF-8, where every later load stops. *)
Hidden == {log[j] : j \in {k \in 1..Len(log) : \E i \in 1..(k - 1) : log[i].kind = "split"}}

(* An event a browser may have seen stays in the ring for the retention     *)
(* window, through any number of crashes: publish appends to the file       *)
(* before it broadcasts, and trimming and restoring keep what is in window. *)
(* Only a torn write costs something: at most the line it leaves without a  *)
(* newline and the one that is appended to it -- and, when it is cut inside *)
(* a character, everything written after it.                                *)
SeenIsKept == up => Cardinality(Vanished \ Hidden) <= 2 * tears

(* "Chain-sync then resumes from the last persisted block, backfilling      *)
(* everything that happened while the server was down" (README): while some *)
(* resume point was left at every start, no block is missing between the    *)
(* first logged one and any later one.  The exception is named: a stop      *)
(* between the events of a block leaves that block without the rest, one    *)
(* block for each stop.  (No torn writes, whose cost SeenIsKept bounds.)    *)
NoBlockMissed ==
    ~skipped /\ tears = 0 /\ LoggedBlocks # {} =>
        LET first == log[Min({i \in 1..Len(log) : log[i].kind = "block"})].blk
            Told(b) == \E i \in 1..Len(log) : log[i].kind = "transaction" /\ log[i].blk = b
        IN  /\ \A b \in LoggedBlocks :
                  Height(b) > Height(first) => Parent(b) \in LoggedBlocks
            /\ batch = <<>> =>
                  Cardinality({b \in LoggedBlocks : ~Told(b)}) <= crashes

(* "Monotonic id assigned by the server (clients use it for ordering/dedup)" *)
(* (model.rs): no two published events have the same id.                     *)
IdsAreUnique == \A e, f \in said : e.id = f.id => e = f

(* What the log last said of a block. *)
LastSaid(b) ==
    log[Max({i \in 1..Len(log) : /\ log[i].kind \in {"block", "orphaned_block"}
                                 /\ log[i].blk = b})]

(* "A rollback that occurred offline still gets its orphan cards on the     *)
(* next start" (README), also when the process stopped between those cards: *)
(* once caught up, a block that the log holds for current is on the node's  *)
(* chain.  The exception is named: when the node comes back to a fork the   *)
(* log has seen orphaned, the intersection is an orphan restored as a       *)
(* block, above which nothing is popped.                                    *)
ForksBackfilled ==
    up /\ batch = <<>> /\ phase = "live" /\ wire = <<>> /\ readPtr = nodeTip /\ ~owesRollback
    /\ ~skipped /\ tears = 0 =>
        \/ \A b \in LoggedBlocks : LastSaid(b).kind = "block" => OnChain(b, nodeTip)
        \/ \E b \in LoggedBlocks : LastSaid(b).kind = "orphaned_block" /\ OnChain(b, nodeTip)

=============================================================================
